-------------------------------- MODULE Menu --------------------------------
(***************************************************************************)
(* The menu on the left, MainMenu.svelte: one network with conversations,  *)
(* the settings, and the field that filters them.  Two things happen in    *)
(* the code where one would think of one: filterNav looks at the links of  *)
(* the document as they were before the key, and the field is emptied a    *)
(* tenth of a second after it was left.  The filters for what is unread    *)
(* are left out.                                                           *)
(***************************************************************************)
EXTENDS Lists, SequencesExt, FiniteSetsExt

CONSTANTS
  Network,      \* its name; a name is a sequence of characters
  Talks,        \* the names of conversations there can be, in their order
  SettingPages, \* the names of the links below "Settings", without "Search"
  Letters,      \* what can be typed
  MaxFilter, MaxKeys  \* bounds

ASSUME MenuAssumption ==
  /\ Network \in Seq(ToSet(Network)) /\ Talks \in Seq(ToSet(Talks))
  /\ {MaxFilter, MaxKeys} \subseteq Nat

VARIABLES
  joined,     \* the numbers of the conversations in the menu
  collapsed,  \* a subset of {"network", "settings"}
  filter,     \* what is in the field
  found,      \* visibleLinks
  link,       \* activeLinkIndex, from 1
  clearing,   \* clearFilter was called less than 100 ms ago
  keys,
  typed,      \* nothing but letters since the list changed or was filtered anew
  went        \* the last Enter on a filter: [to, for, plain, among]

menuVars == <<joined, collapsed, filter, found, link, clearing, keys, typed, went>>

Server == <<"s", "r", "v">>
Talking == Filtered([k \in DOMAIN Talks |-> k], joined)

\* An <a> is known by what it is for and its place; the text of one changes.
Anchor(is, n) == [k \in 1 .. n |-> [is |-> is, no |-> k]]

(* The links of the document while the field holds f.                       *)
Document(f) ==
  Anchor("toggle", 1)
  \o (IF "network" \in collapsed /\ f = <<>> THEN <<>> ELSE Anchor("network", 1) \o Anchor("talk", Len(Talking)))
  \o Anchor("owner", 1)
  \o (IF "settings" \in collapsed \/ f # <<>> THEN <<>> ELSE Anchor("page", Len(SettingPages)))

Text(a, f) ==
  CASE a.is = "toggle"  -> Network
    [] a.is = "network" -> IF f = <<>> THEN Server ELSE Network
    [] a.is = "talk"    -> Talks[Talking[a.no]]
    [] a.is = "page"    -> SettingPages[a.no]
    [] OTHER -> <<>>

Starts(f, name)   == IsPrefix(f, name)
Within(f, name) == \E k \in 1 .. Len(name) : IsPrefix(f, SubSeq(name, k, Len(name)))

MenuInit ==
  /\ joined = DOMAIN Talks \ {1} /\ collapsed \in SUBSET {"network", "settings"}
  /\ filter = <<>> /\ found = <<>> /\ link = 1 /\ clearing = FALSE /\ keys = 0
  /\ typed = FALSE /\ went = [to |-> <<>>, for |-> <<>>, plain |-> FALSE, among |-> {}]

-----------------------------------------------------------------------------
KeyPress == keys < MaxKeys /\ keys' = keys + 1

(* The links whose text starts with the filter, else those that have it     *)
(* anywhere, and the link to the search.  Of links to one address only the  *)
(* first counts: the second "#toggle" is never among them.                  *)
Matching(f) ==
  LET old == Document(filter)
      links == {i \in DOMAIN old : old[i].is # "owner"}
      first == {i \in links : Starts(f, Text(old[i], filter))}
      within == {i \in links : Within(f, Text(old[i], filter))}
  IN Filtered(old, IF first # {} THEN first ELSE within) \o Anchor("search", 1)

(* Faulty variant: the chosen link keeps its number. *)
FilterNavKeeps(f) ==
  /\ found' = IF f = <<>> THEN Document(filter) ELSE Matching(f)
  /\ UNCHANGED link

(* filterNav: the links that match, from the first; all without a filter.   *)
FilterNav(f) ==
  /\ found' = IF f = <<>> THEN Document(filter) ELSE Matching(f)
  /\ link' = 1

Filter(f) == filter' = f /\ (IF f = filter THEN UNCHANGED <<found, link>> ELSE FilterNav(f))

TypeLetter(c) ==
  /\ KeyPress /\ Len(filter) < MaxFilter
  /\ Filter(Append(filter, c))
  /\ typed' = (filter # <<>>)
  /\ UNCHANGED <<joined, collapsed, clearing, went>>

EraseLetter ==
  /\ KeyPress /\ filter # <<>>
  /\ Filter(Front(filter))
  /\ typed' = (filter' # <<>>)
  /\ UNCHANGED <<joined, collapsed, clearing, went>>

(* onSearchKeydown: down and up, by one link, or with "Ctrl" by four.       *)
Arrow(by) ==
  /\ KeyPress /\ found # <<>>
  /\ link' = LET to == link + by IN
       IF to < 1 THEN Len(found) ELSE IF to > Len(found) THEN 1 ELSE to
  /\ typed' = FALSE
  /\ UNCHANGED <<joined, collapsed, filter, found, clearing, went>>

(* The address of a link is that of what it is for now; that of the search  *)
(* has the text of the field.                                               *)
Address(a) == IF a.is = "search" THEN filter ELSE Text(a, filter)

(* onSearchKeydown: Enter; the new route has the field cleared as well.     *)
Enter ==
  /\ KeyPress /\ filter # <<>>
  /\ clearing' = TRUE
  /\ went' = IF link \in DOMAIN found
       THEN [to |-> Address(found[link]), for |-> filter, plain |-> typed, among |-> joined]
       ELSE went
  /\ UNCHANGED <<joined, collapsed, filter, found, link, typed>>

(* onBlur, and the route that changes for another reason.                   *)
LeaveField ==
  /\ KeyPress /\ clearing' = TRUE
  /\ UNCHANGED <<joined, collapsed, filter, found, link, typed, went>>

(* clearFilter, after 100 ms: whatever has been typed meanwhile is dropped. *)
ClearFilter ==
  /\ clearing /\ clearing' = FALSE
  /\ Filter(<<>>)
  /\ typed' = FALSE
  /\ UNCHANGED <<joined, collapsed, keys, went>>

(* toggleSection; the headings are there only without a filter.             *)
ToggleSection(s) ==
  /\ KeyPress /\ filter = <<>>
  /\ collapsed' = IF s \in collapsed THEN collapsed \ {s} ELSE collapsed \cup {s}
  /\ UNCHANGED <<joined, filter, found, link, clearing, typed, went>>

(* A conversation comes in its place; the links that follow are made to be  *)
(* those of the next, and the list is not filtered again.                   *)
Join(k) ==
  /\ k \notin joined
  /\ joined' = joined \cup {k}
  /\ typed' = FALSE
  /\ UNCHANGED <<collapsed, filter, found, link, clearing, keys, went>>

MenuNext ==
  \/ EraseLetter \/ Enter \/ LeaveField \/ ClearFilter
  \/ \E c \in Letters : TypeLetter(c)
  \/ \E by \in {-4, -1, 1, 4} : Arrow(by)
  \/ \E s \in {"network", "settings"} : ToggleSection(s)
  \/ \E k \in DOMAIN Talks : Join(k)

MenuSpec == MenuInit /\ [][MenuNext]_menuVars

-----------------------------------------------------------------------------
\* What somebody means who types f: a conversation, or the search for it.
Meant(f, among) ==
  LET starting == {k \in among : Starts(f, Talks[k])}
      having == {k \in among : Within(f, Talks[k])}
  IN IF starting # {} THEN Talks[Min(starting)]
     ELSE IF having # {} THEN Talks[Min(having)]
     ELSE f

(* Enter leads to the first conversation whose name starts with what is in  *)
(* the field, else to the first that has it, else to the search for it,     *)
(* whatever was collapsed, typed, erased or dropped before.  Exceptions are *)
(* the first letter, which is compared with the links from before it; a     *)
(* name of the network, which leads to its heading; and a conversation that *)
(* comes meanwhile.                                                         *)
EnterMatches == went.plain /\ ~Within(went.for, Network) => went.to = Meant(went.for, went.among)
=============================================================================
