------------------------------ MODULE Markdown ------------------------------
(***************************************************************************)
(* How a message is formatted: I18N.md() and the rules behind it.  A text  *)
(* is a sequence of characters, where "https:" stands for the scheme of an  *)
(* URL, "tick" for a backtick, "esc" for a backslash and "ctrl" for a      *)
(* formatting character of IRC.  The result is the text that is shown, as  *)
(* spans with the tags they are in; quotes, links with a title, colours    *)
(* and channel names are left out.                                         *)
(***************************************************************************)
EXTENDS Naturals, SequencesExt, FiniteSetsExt

\* The rules in the order in which they are tried, and what opens and closes them.
Rules == <<"code", "em strong", "strong", "em", "ctrl", "url">>

Marker == [rule \in ToSet(Rules) \ {"url"} |->
  CASE rule = "code" -> <<"tick">>
    [] rule = "em strong" -> <<"*", "*", "*">>
    [] rule = "strong" -> <<"*", "*">>
    [] rule = "em" -> <<"*">>
    [] rule = "ctrl" -> <<"ctrl">>]

Word == {"a"}
Punctuation == {","}
Characters == Word \cup Punctuation \cup {" ", "*", "tick", "esc", "https:", "ctrl"}

From(s, i) == SubSeq(s, i, Len(s))
Upto(s, i) == SubSeq(s, 1, i)

\* Where the characters of the word at i end.
WordEnd(s, i) == CHOOSE j \in i .. Len(s) :
  /\ \A k \in i .. j : s[k] # " "
  /\ j < Len(s) => s[j + 1] = " "

-----------------------------------------------------------------------------
(* What the regular expression of a rule finds at i, as a length; zero when *)
(* it finds nothing.                                                       *)
FoundAt(rule, s, i) ==
  IF rule = "url"
    THEN IF s[i] = "https:" /\ (i > 1 => s[i - 1] \notin Word) /\ i < WordEnd(s, i)
           THEN WordEnd(s, i) - i + 1 ELSE 0
    ELSE LET next == i + Len(Marker[rule])
             blank == CASE rule = "code" -> {" ", "tick"} [] rule = "ctrl" -> {} [] OTHER -> {" "}
         IN IF /\ IsPrefix(Marker[rule], From(s, i))
               /\ rule # "ctrl" => next <= Len(s) /\ s[next] \notin blank
              THEN Len(Marker[rule]) ELSE 0

Places(rule, s) == {i \in 1 .. Len(s) : s[i] # " " /\ FoundAt(rule, s, i) > 0}

\* String.indexOf(), from 1, and 0 when there is none.
IndexOf(s, part) ==
  LET at == {i \in 1 .. Len(s) : IsPrefix(part, From(s, i))}
  IN IF at = {} THEN 0 ELSE Min(at)

Span(text, tags) == IF text = <<>> /\ tags = {} THEN <<>> ELSE <<[text |-> text, tags |-> tags]>>

-----------------------------------------------------------------------------
(* What a handler makes of the first place its rule finds: a tag, or none   *)
(* and the text in which the next rule is tried, in "before".               *)
Tag(before, content, after) == [found |-> TRUE, before |-> before, content |-> content, after |-> after]
NoTag(text) == [found |-> FALSE, before |-> text, content |-> <<>>, after |-> <<>>]

(* Faulty variant: the text after the tag starts one character too late. *)
MdTagGreedy(rule, before, captured, after) ==
  LET end == IndexOf(after, captured) IN
  IF rule # "ctrl" /\ before # <<>> /\ Last(before) = "esc"
    THEN NoTag(Front(before) \o captured \o after)
  ELSE IF end = 0 THEN NoTag(before \o captured \o after)
  ELSE Tag(before, Upto(after, end - 1), From(after, end + Len(captured) + 1))

(* _mdTag, _mdIrcTextFormatting: up to the next marker.  A marker after a   *)
(* backslash is kept, without it.                                           *)
MdTag(rule, before, captured, after) ==
  LET end == IndexOf(after, captured) IN
  IF rule # "ctrl" /\ before # <<>> /\ Last(before) = "esc"
    THEN NoTag(Front(before) \o captured \o after)
  ELSE IF end = 0 THEN NoTag(before \o captured \o after)
  ELSE Tag(before, Upto(after, end - 1), From(after, end + Len(captured)))

(* _mdURL: without the scheme; what ends a sentence is not part of it.      *)
MdURL(before, captured, after) ==
  LET n == Len(captured) IN
  IF Last(captured) \in Punctuation
    THEN Tag(before, SubSeq(captured, 2, n - 1), <<Last(captured)>> \o after)
    ELSE Tag(before, Tail(captured), after)

Handled(rule, s) ==
  IF Places(rule, s) = {} THEN NoTag(s)
  ELSE LET i == Min(Places(rule, s))
           next == i + FoundAt(rule, s, i)
           captured == SubSeq(s, i, next - 1)
       IN IF rule = "url" THEN MdURL(Upto(s, i - 1), captured, From(s, next))
          ELSE MdTag(rule, Upto(s, i - 1), captured, From(s, next))

(* _makeTag(): the first rule that finds its tag, from rule k on, splits    *)
(* the text in three, in which all rules are tried again but in code and    *)
(* links.                                                                   *)
MakeTag[at \in Seq(Characters) \X (1 .. Len(Rules) + 1) \X SUBSET ToSet(Rules)] ==
  LET s == at[1]
      k == at[2]
      tags == at[3]
      tag == Handled(Rules[k], s)
      inside == tags \cup {Rules[k]}
      Again(text, outer) == MakeTag[<<text, 1, outer>>]
  IN IF k > Len(Rules) THEN Span(s, tags)
     ELSE IF ~tag.found THEN MakeTag[<<tag.before, k + 1, tags>>]
     ELSE (IF tag.before = <<>> THEN <<>> ELSE Again(tag.before, tags)) \o
          (IF Rules[k] \in {"code", "url"} THEN Span(tag.content, inside) ELSE Again(tag.content, inside)) \o
          (IF tag.after = <<>> THEN <<>> ELSE Again(tag.after, tags))

\* md(): the spans of a message.
Markup(text) == MakeTag[<<text, 1, {}>>]

\* _tagToHTML(), without the tags: what a reader sees.
Shown(text) ==
  LET spans == Markup(text)
      html[i \in 0 .. Len(spans)] == IF i = 0 THEN <<>> ELSE html[i - 1] \o spans[i].text
  IN html[Len(spans)]
=============================================================================
