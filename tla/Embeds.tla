------------------------------- MODULE Embeds -------------------------------
(***************************************************************************)
(* The cards below messages with links: Messages.js, with the one cache of *)
(* all conversations, and the rows of Chat.svelte.                         *)
(*                                                                         *)
(* A card is a piece of the document and can be in one row only.  The rows *)
(* are reused by their number; what is in one, its cell, is made anew when *)
(* the promise is another one.                                             *)
(***************************************************************************)
EXTENDS Naturals, Sequences, FiniteSets, SequencesExt

CONSTANTS
  Rooms, Links, Plain,   \* conversations; links; Plain stands for no link
  MaxTalk, MaxLooks      \* bounds: messages, and what the user does

ASSUME EmbedsAssumption == Rooms # {} /\ Plain \notin Links /\ {MaxTalk, MaxLooks} \subseteq Nat

VARIABLES
  lists,          \* Messages.messages of a conversation
  raw, expanding, \* of a conversation: raw and expandUrlToMedia
  wish,           \* user.expandUrlToMedia
  room, cells,     \* the conversation on the page, and the cells of its rows
  stale,          \* an update event is on its way
  cards,          \* EMBED_CACHE: [is, by, at], at is the number in the link "expand"
  looks,
  clicked,        \* the last click on "expand": [on, hit], messages
  shifted         \* links whose message is not where it was when they were loaded

talkVars  == <<lists, raw, expanding, wish, cards>>
embedVars == <<talkVars, room, cells, stale, looks, clicked, shifted>>

Said     == UNION {{m.id : m \in ToSet(lists[r])} : r \in Rooms}
With(u)  == {id \in Said : \E r \in Rooms : \E m \in ToSet(lists[r]) : m.id = id /\ m.link = u}
\* A user is slower than the millisecond to the update event.
Look     == ~stale /\ looks < MaxLooks /\ looks' = looks + 1
Message(u) == [id |-> Cardinality(Said) + 1, link |-> u, seen |-> FALSE,
               embeds |-> {}, anew |-> FALSE, index |-> 0]

EmbedsInit ==
  /\ lists = [r \in Rooms |-> <<>>] /\ room = (CHOOSE r \in Rooms : TRUE) /\ cells = <<>>
  /\ raw = [r \in Rooms |-> FALSE] /\ expanding = [r \in Rooms |-> TRUE] /\ wish = TRUE
  /\ cards = [u \in Links |-> [is |-> "no", by |-> 0, at |-> 0]]
  /\ stale = FALSE /\ looks = 0 /\ clicked = [on |-> 0, hit |-> 0] /\ shifted = {}

-----------------------------------------------------------------------------
(* _embeds: a link has a card where links are expanded; notices have none.  *)
Embeds(m, r) == IF expanding'[r] /\ ~raw'[r] THEN {m.link} \ {Plain} ELSE {}

(* render(i) of a message that comes in sight; asked for by its number, it  *)
(* is the one that has the number now.                                      *)
Watched(m, r) == [m EXCEPT !.seen = TRUE, !.embeds = Embeds(m, r), !.anew = TRUE]

(* _loadEmbed is called for what is not in the cache.                       *)
Request(m, r) == [u \in Links |->
  IF u \in Embeds(m, r) /\ cards[u].is = "no" THEN [cards[u] EXCEPT !.is = "asked", !.by = m.id] ELSE cards[u]]

(* update: another setting makes the cards of what was seen anew.           *)
Anew(r) == [k \in DOMAIN lists[r] |->
  LET m == lists[r][k] IN [m EXCEPT !.embeds = IF m.seen THEN Embeds(m, r) ELSE {}, !.anew = TRUE]]

RequestAll(r) == [u \in Links |->
  LET ms == {m \in ToSet(lists[r]) : m.seen /\ u \in Embeds(m, r)} IN
  IF ms # {} /\ cards[u].is = "no"
    THEN [cards[u] EXCEPT !.is = "asked", !.by = (CHOOSE m \in ms : \A n \in ms : m.index <= n.index).id]
    ELSE cards[u]]

(* Faulty variant: the index is noted once. *)
NumberedOnce(list) == [k \in DOMAIN list |->
  [list[k] EXCEPT !.index = IF list[k].index = 0 THEN k ELSE @, !.anew = FALSE]]

(* render: every message is given its number.                               *)
Numbered(list) == [k \in DOMAIN list |-> [list[k] EXCEPT !.index = k, !.anew = FALSE]]

(* renderEmbed for the cells in now, of which those in last come last for    *)
(* their link: the card ends up there, and the cells it was in are hidden.  *)
RenderEmbed(d, now, last) == [k \in DOMAIN d |->
  IF k \in last THEN [d[k] EXCEPT !.is = "card"]
  ELSE IF (k \in now \/ d[k].is = "card") /\ \E i \in last : d[i].has = d[k].has
    THEN [d[k] EXCEPT !.is = "hidden"]
  ELSE d[k]]

Cell(m) == [of |-> m.id, has |-> m.embeds, is |-> "waiting"]

(* Faulty variant: messages with one link share a promise. *)
SamePromise(m, cell) == cell.has = m.embeds

Same(m, cell) == cell.of = m.id /\ ~m.anew

(* The cells for a list: one is kept where its promise is, and the others,  *)
(* whose cards are there already, are rendered in their order.              *)
Cells(list, old) ==
  LET next == [k \in DOMAIN list |->
                 IF k \in DOMAIN old /\ Same(list[k], old[k])
                   THEN [old[k] EXCEPT !.of = list[k].id] ELSE Cell(list[k])]
      Now(is) == {k \in DOMAIN list : next[k].is = "waiting" /\ \E u \in next[k].has : cards[u].is = is}
      boxed == [k \in DOMAIN list |->
                  IF k \in Now("empty") THEN [next[k] EXCEPT !.is = "box"] ELSE next[k]]
  IN RenderEmbed(boxed, Now("card"),
       {k \in Now("card") : \A i \in Now("card") : next[i].has = next[k].has => i <= k})

-----------------------------------------------------------------------------
(* The update event: Svelte renders the list.                               *)
Draw ==
  /\ stale /\ stale' = FALSE
  /\ cells' = Cells(lists[room], cells)
  /\ lists' = [lists EXCEPT ![room] = Numbered(@)]
  /\ UNCHANGED <<raw, expanding, wish, cards, room, looks, clicked, shifted>>

(* A message arrives in a conversation.                                     *)
Talk(r, u) ==
  /\ Cardinality(Said) < MaxTalk
  /\ lists' = [lists EXCEPT ![r] = Append(@, Message(u))]
  /\ stale' = (stale \/ r = room)
  /\ UNCHANGED <<raw, expanding, wish, cards, room, cells, looks, clicked, shifted>>

(* An older page is put before the messages of the conversation.            *)
Older(u) ==
  /\ Cardinality(Said) < MaxTalk /\ lists[room] # <<>>
  /\ lists' = [lists EXCEPT ![room] = <<Message(u)>> \o @]
  /\ stale' = TRUE
  /\ shifted' = shifted \cup
       {v \in Links : cards[v].is # "no" /\ \E m \in ToSet(lists[room]) : m.id = cards[v].by}
  /\ UNCHANGED <<raw, expanding, wish, cards, room, cells, looks, clicked>>

See(i) ==
  /\ i \in DOMAIN cells /\ i \in DOMAIN lists[room] /\ ~lists[room][i].seen
  /\ UNCHANGED <<raw, expanding>>
  /\ lists' = [lists EXCEPT ![room][i] = Watched(@, room)]
  /\ cards' = Request(lists[room][i], room)
  /\ stale' = TRUE
  /\ UNCHANGED <<wish, room, cells, looks, clicked, shifted>>

(* The answer of the server, with a card or, as after an error, without;    *)
(* either stays in the cache.  The cells that wait are rendered one by one. *)
(* It takes longer than the millisecond to the first Draw.                  *)
CardLoaded(u) ==
  /\ cards[u].is = "asked"
  /\ LET m == CHOOSE m \in UNION {ToSet(lists[r]) : r \in Rooms} : m.id = cards[u].by
         waiting == {i \in DOMAIN cells : cells[i].has = {u} /\ cells[i].is = "waiting"}
     IN
     /\ ~m.anew
     /\ \/ /\ cards' = [cards EXCEPT ![u].is = "card", ![u].at = m.index]
           /\ IF waiting = {} THEN UNCHANGED cells
              ELSE \E last \in waiting :
                cells' = RenderEmbed(cells, waiting, {last})
        \/ /\ cards' = [cards EXCEPT ![u].is = "empty"]
           /\ cells' = [i \in DOMAIN cells |-> IF i \in waiting THEN [cells[i] EXCEPT !.is = "box"] ELSE cells[i]]
  /\ stale' = TRUE
  /\ UNCHANGED <<lists, raw, expanding, wish, room, looks, clicked, shifted>>

(* The setting "Show raw messages" of the conversation.                     *)
ToggleRaw ==
  /\ Look
  /\ raw' = [raw EXCEPT ![room] = ~@] /\ UNCHANGED expanding
  /\ lists' = [lists EXCEPT ![room] = Anew(room)]
  /\ cards' = RequestAll(room)
  /\ stale' = TRUE
  /\ UNCHANGED <<wish, room, cells, clicked, shifted>>

(* Another conversation, at once or by way of the settings of the user,     *)
(* where links may be expanded or not from now on; the cells are then new.  *)
OpenRoom(r, e) ==
  /\ Look /\ (r # room \/ e # wish)
  /\ wish' = e /\ room' = r
  /\ expanding' = [expanding EXCEPT ![r] = e] /\ UNCHANGED raw
  /\ IF expanding[r] = e THEN cards' = cards ELSE cards' = RequestAll(r)
  /\ LET list == IF expanding[r] = e THEN lists[r] ELSE Anew(r) IN
     /\ cells' = Cells(list, IF e = wish THEN cells ELSE <<>>)
     /\ lists' = [lists EXCEPT ![r] = Numbered(list)]
  /\ stale' = FALSE
  /\ UNCHANGED <<clicked, shifted>>

(* onRouteClick: the link "expand" of a card names a message by its number. *)
Expand(i) ==
  /\ Look
  /\ i \in DOMAIN cells /\ cells[i].is = "card"
  /\ \E u \in cells[i].has :
       clicked' = [on |-> cells[i].of,
                   hit |-> IF cards[u].at \in DOMAIN lists[room] THEN lists[room][cards[u].at].id ELSE 0]
  /\ UNCHANGED <<talkVars, room, cells, stale, shifted>>

EmbedsNext ==
  \/ Draw \/ ToggleRaw
  \/ \E u \in Links \cup {Plain} : Older(u) \/ \E r \in Rooms : Talk(r, u)
  \/ \E u \in Links : CardLoaded(u)
  \/ \E i \in 1 .. MaxTalk : See(i) \/ Expand(i)
  \/ \E r \in Rooms, e \in BOOLEAN : OpenRoom(r, e)

EmbedsSpec == EmbedsInit /\ [][EmbedsNext]_embedVars

-----------------------------------------------------------------------------
(* A link that was seen in a conversation with cards has its card there, in *)
(* one cell, and no other cell with the link is an empty box; without cards *)
(* there are none.  However often the settings change, older messages come  *)
(* before it and other conversations have the same link.                    *)
ShownOnce == ~stale => \A u \in Links :
  LET of == {i \in DOMAIN cells : i \in DOMAIN lists[room] /\ lists[room][i].link = u /\ lists[room][i].seen}
      in == {i \in of : cells[i].is = "card"}
  IN /\ cards[u].is = "card" /\ of # {} /\ wish /\ ~raw[room] =>
          Cardinality(in) = 1 /\ \A i \in of \ in : cells[i].is = "hidden"
     /\ ~wish \/ raw[room] => in = {}

(* "Expand" unfolds the message the card is in, if the link was not written *)
(* twice and nothing has been put before the message since it was loaded.   *)
OwnExpand == clicked.on # 0 =>
  \/ clicked.hit = clicked.on
  \/ \E u \in shifted : clicked.on \in With(u)
  \/ \E u \in Links : clicked.on \in With(u) /\ Cardinality(With(u)) > 1
=============================================================================
