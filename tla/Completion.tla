----------------------------- MODULE Completion -----------------------------
(***************************************************************************)
(* What is offered while somebody types: js/autocomplete.js.  A text is a  *)
(* sequence of characters; only the first letters of names and commands    *)
(* are told apart.                                                         *)
(***************************************************************************)
EXTENDS Lists, SequencesExt, FiniteSetsExt

CONSTANTS
  Nicks,          \* sequences of the nicks in the conversation
  Conversations,  \* of the names of conversations, which start with # or &
  Commands,       \* of the commands, which start with /
  Emojis          \* of the short names, which start with :

ASSUME CompletionAssumption ==
  \A names \in {Nicks, Conversations, Commands, Emojis} :
    /\ names \in Seq(ToSet(names))
    /\ \A i \in DOMAIN names : /\ names[i] \in Seq(ToSet(names[i])) \ {<<>>}
                               /\ " " \notin ToSet(names[i])

Blank == " "

\* Where the word that ends at the end of a text starts; one further when there is none.
WordStart(s) ==
  Min({Len(s) + 1} \cup {i \in 1 .. Len(s) : \A j \in i .. Len(s) : s[j] # Blank})

\* The word before the cursor, which is what completion asks for.
Query(s, cursor) == LET before == SubSeq(s, 1, cursor)
                    IN SubSeq(before, WordStart(before), cursor)

Holding(names, part) ==
  Filtered(names, {k \in DOMAIN names :
    \E i \in 0 .. Len(names[k]) : IsPrefix(part, SubSeq(names[k], i + 1, Len(names[k])))})

Starting(names, part) == Filtered(names, {k \in DOMAIN names : IsPrefix(part, names[k])})

\* calculateAutocompleteOptions(): the matches, after the word itself.
Options(s, cursor) ==
  LET query == Query(s, cursor)
      matches ==
        IF query = <<>> THEN <<>>
        ELSE CASE Head(query) = ":" /\ Len(query) > 1 -> Holding(Emojis, Tail(query))
               [] Head(query) = "/" /\ WordStart(SubSeq(s, 1, cursor)) = 1 -> Starting(Commands, query)
               [] Head(query) = "@" /\ Len(query) > 1 -> Starting(Nicks, Tail(query))
               [] Head(query) \in {"#", "&"} -> Holding(Conversations, query)
               [] OTHER -> <<>>
  IN IF matches = <<>> THEN <<>> ELSE <<query>> \o matches

-----------------------------------------------------------------------------
(* fillIn(): the text in three parts, the middle is new.                   *)

WithoutBlankAtEnd(s) == IF s # <<>> /\ Last(s) = Blank THEN Front(s) ELSE s

\* Faulty variant: the word is not taken out.
FillInBeside(s, cursor, option, how) ==
  [before |-> SubSeq(s, 1, cursor), middle |-> option,
   after |-> SubSeq(s, cursor + 1, Len(s))]

\* The last word and a blank after it, as \S*\s?$ does.
WithoutLastWord(s) ==
  LET word == WithoutBlankAtEnd(s) IN SubSeq(word, 1, WordStart(word) - 1)

FillIn(s, cursor, option, how) ==
  LET at == IF "append" \in how THEN Len(s) ELSE cursor
      before == SubSeq(s, 1, at)
      after == SubSeq(s, at + 1, Len(s))
      padded == "append" \in how \/ "padBefore" \in how
      left == IF padded THEN WithoutBlankAtEnd(before) ELSE before
  IN [before |-> IF "replace" \in how THEN WithoutLastWord(left) ELSE left,
      middle |-> (IF padded /\ left # <<>> THEN <<Blank>> ELSE <<>>) \o option \o
                 (IF "padAfter" \in how THEN <<Blank>> ELSE <<>>),
      after |-> IF "padAfter" \in how /\ after # <<>> /\ Head(after) = Blank
                  THEN Tail(after) ELSE after]

Whole(parts) == parts.before \o parts.middle \o parts.after
CursorAfter(parts) == Len(parts.before) + Len(parts.middle)

=============================================================================
