----------------------------- MODULE Algorithms -----------------------------
(***************************************************************************)
(* The algorithms of the browser on every input up to a length: an input   *)
(* of some kind grows by one element at a time, and each property compares *)
(* what the code makes of it with what it is meant to be.                  *)
(***************************************************************************)
EXTENDS Markdown, Completion, Utilities

CONSTANTS
  Alphabet,  \* of what the inputs of each kind are made
  MaxLength  \* how long they get

VARIABLES kind, input

algorithmVars == <<kind, input>>

ASSUME AlphabetAssumption ==
  /\ "message" \in DOMAIN Alphabet => Alphabet["message"] \subseteq Characters
  /\ "heights" \in DOMAIN Alphabet => Alphabet["heights"] \subseteq Nat

AlgorithmInit == kind \in DOMAIN Alphabet /\ input = <<>>

\* One more character, element or call.
Grow(x) ==
  /\ Len(input) < MaxLength[kind]
  /\ input' = Append(input, x)
  /\ UNCHANGED kind

AlgorithmNext == \E x \in Alphabet[kind] : Grow(x)

AlgorithmSpec == AlgorithmInit /\ [][AlgorithmNext]_algorithmVars

-----------------------------------------------------------------------------
(* Properties.                                                             *)

\* What is no marker, backslash or scheme of an URL.
Visible(s) == Filtered(s, {i \in DOMAIN s : s[i] \in {"a", " ", ","}})

Twice(c) == \E i \in 1 .. Len(input) - 1 : input[i] = c /\ input[i + 1] = c

\* A reader sees all that was written, in its order, without the markers; and a
\* marker that is not seen has formatted something.  Two asterisks in a row are
\* the exception: "2**3" is shown as 23 (I18N.js 125-159, 207-218).
MessageShown == kind = "message" =>
  /\ Visible(Shown(input)) = Visible(input)
  /\ ~Twice("*") /\ ~Twice("ctrl") =>
       \A i \in DOMAIN Markup(input) :
         "url" \notin Markup(input)[i].tags => Markup(input)[i].text # <<>>

\* Whoever goes through the options, and comes back to the first, has his text
\* again, with the cursor where it was (autocomplete.js 10-41, ChatInput 58-65).
CompletionUndone == kind = "typing" =>
  \A cursor \in 0 .. Len(input) :
    LET options == Options(input, cursor)
        Chosen(i) == FillIn(input, cursor, options[i], {"replace"})
        Back(i) == FillIn(Whole(Chosen(i)), CursorAfter(Chosen(i)), options[1], {"replace"})
    IN \A i \in DOMAIN options :
         Whole(Back(i)) = input /\ CursorAfter(Back(i)) = cursor

\* The elements in sight are those that end below the top of the window, and start
\* above its end (util.js 140-190).
VisibleExact == kind = "heights" =>
  LET tops[i \in DOMAIN input] == IF i = 1 THEN 0 ELSE tops[i - 1] + input[i - 1]
  IN \A scrollTop \in 0 .. 5, offsetHeight \in 0 .. 3 :
       FindVisibleElements(tops, scrollTop, offsetHeight) =
         {i \in DOMAIN tops : /\ tops[i] <= scrollTop + offsetHeight
                              /\ i < Len(tops) => tops[i + 1] > scrollTop}
=============================================================================
