------------------------------- MODULE Modes --------------------------------
(***************************************************************************)
(* The modes of a channel: components/ConversationSettings.svelte, what    *)
(* store/Conversation.js knows of them, and what pkg/irc/handlers.go tells *)
(* of the answers of the IRC server.  The panel is one component that is   *)
(* given another conversation when the user, an operator, goes there.       *)
(***************************************************************************)
EXTENDS Sequences, Naturals

CONSTANTS
  Channels, Names,  \* a name is that of a mode, as "invite_only"
  MaxTurns          \* bound: what people do

ASSUME ModesAssumption == MaxTurns \in Nat

VARIABLES
  modes,     \* of a channel: the names of what is on
  heard,     \* of a channel: the names the server of Convos has heard of
  known,     \* of a channel: conversation.modes, a function of the names it has
  shown,     \* the conversation of the panel
  boxes,     \* checkboxes, the names of the ticked
  filled,    \* modesInitialized
  up, down,  \* commands on their way to IRC, answers and events on theirs back
  wanted,    \* the boxes the user has set, and to what
  turns,
  foreign,   \* of a channel: somebody else changed it
  carried    \* the panel went on with ticks of another channel, or with news on the way

belief == <<known, boxes, filled>>
modesVars == <<modes, heard, belief, shown, up, down, wanted, turns, foreign, carried>>

Nothing     == <<>>
\* calculateModes gives the names that an event sets; they go over those known.
Assigned(m, set) ==
  [n \in DOMAIN m \cup DOMAIN set |-> IF n \in DOMAIN set THEN set[n] ELSE m[n]]

\* checkboxes = {...checkboxes, ...modes}
Merge(b, m) == (b \ DOMAIN m) \cup {n \in DOMAIN m : m[n]}
Turn        == turns < MaxTurns /\ turns' = turns + 1
QueryModes(c)    == [kind |-> "query", of |-> c, set |-> Nothing]
OnTheWay    == up \o down

ModesInit ==
  /\ modes \in [Channels -> SUBSET Names] /\ shown \in Channels
  /\ heard = [c \in Channels |-> {}] /\ known = [c \in Channels |-> Nothing]
  /\ boxes = {} /\ filled = FALSE /\ wanted = Nothing /\ turns = 0
  /\ up = <<QueryModes(shown)>> /\ down = <<>>
  /\ foreign = [c \in Channels |-> FALSE] /\ carried = FALSE

-----------------------------------------------------------------------------
(* The panel. *)

(* updateState: the boxes are filled from what is known, or the channel is *)
(* asked for its modes.                                                     *)
ShowPanel(c) ==
  /\ c # shown /\ Turn
  /\ shown' = c /\ wanted' = Nothing
  /\ carried' = (carried \/ boxes # {} \/ OnTheWay # <<>>)
  /\ filled' = (known[c] # Nothing)
  /\ boxes' = Merge(boxes, known[c])
  /\ up' = IF known[c] # Nothing THEN up ELSE Append(up, QueryModes(c))
  /\ UNCHANGED <<modes, heard, known, down, foreign>>

TickBox(n) ==
  /\ Turn
  /\ boxes' = IF n \in boxes THEN boxes \ {n} ELSE boxes \cup {n}
  /\ wanted' = Assigned(wanted, [m \in {n} |-> n \in boxes'])
  /\ UNCHANGED <<modes, heard, known, filled, shown, up, down, foreign, carried>>

\* What saveChannelModes sends: the boxes that differ from what is known.
Difference ==
  {n \in Names : (n \in boxes) # (n \in DOMAIN known[shown] /\ known[shown][n])}

SaveChannelModes ==
  /\ Difference # {} /\ Turn
  /\ up' = Append(up, [kind |-> "set", of |-> shown, set |-> [n \in Difference |-> n \in boxes]])
  /\ UNCHANGED <<modes, heard, belief, shown, down, wanted, foreign, carried>>

-----------------------------------------------------------------------------
(* IRC and the server. *)

\* A change of modes, as everybody in the channel sees it.
Change(c, set) ==
  /\ modes' = [modes EXCEPT ![c] = Merge(@, set)]
  /\ heard' = [heard EXCEPT ![c] = @ \cup DOMAIN set]
  /\ down' = Append(down, [kind |-> "change", of |-> c, set |-> set])

(* The answer to a query names the modes that are on, and handleChannelModeIs*)
(* adds those the server has heard of.                                      *)
Serve ==
  /\ up # <<>> /\ up' = Tail(up)
  /\ LET c == Head(up).of
         news == {n \in DOMAIN Head(up).set : Head(up).set[n] # (n \in modes[c])} IN
     IF Head(up).kind = "set"
       THEN IF news = {} THEN UNCHANGED <<modes, heard, down>>
            ELSE Change(c, [n \in news |-> Head(up).set[n]])
       ELSE /\ heard' = [heard EXCEPT ![c] = @ \cup modes[c]]
            /\ down' = Append(down, [Head(up) EXCEPT !.set = [n \in heard'[c] |-> n \in modes[c]]])
            /\ UNCHANGED modes
  /\ UNCHANGED <<belief, shown, wanted, turns, foreign, carried>>

Operator(c, n) ==
  /\ Turn /\ Change(c, [m \in {n} |-> m \notin modes[c]])
  /\ foreign' = [foreign EXCEPT ![c] = TRUE]
  /\ UNCHANGED <<belief, shown, up, wanted, carried>>

-----------------------------------------------------------------------------
\* Faulty variant: an answer does not fill the boxes.
ReceiveUnseen ==
  /\ down # <<>> /\ down' = Tail(down)
  /\ LET msg == Head(down) IN
     known' = [known EXCEPT ![IF msg.kind = "query" THEN shown ELSE msg.of] = Assigned(@, msg.set)]
  /\ UNCHANGED <<modes, heard, shown, boxes, filled, up, wanted, turns, foreign, carried>>

(* What comes back.  The callback of an answer has not kept the            *)
(* conversation it asked for; an event goes to its own, and fills the boxes*)
(* if nothing else has.                                                     *)
Receive ==
  /\ down # <<>> /\ down' = Tail(down)
  /\ LET msg == Head(down) IN
     IF msg.kind = "query"
       THEN /\ known' = [known EXCEPT ![shown] = msg.set]
            /\ boxes' = Merge(boxes, msg.set)
            /\ filled' = (filled \/ msg.set # Nothing)
       ELSE /\ known' = [known EXCEPT ![msg.of] = Assigned(@, msg.set)]
            /\ filled' = (filled \/ msg.of = shown)
            /\ boxes' = IF filled' # filled THEN Merge(boxes, known'[shown]) ELSE boxes
  /\ UNCHANGED <<modes, heard, shown, up, wanted, turns, foreign, carried>>

-----------------------------------------------------------------------------
ModesNext ==
  \/ \E c \in Channels : ShowPanel(c)
  \/ \E n \in Names : TickBox(n)
  \/ SaveChannelModes \/ Serve \/ Receive
  \/ \E c \in Channels, n \in Names : Operator(c, n)

ModesSpec == ModesInit /\ [][ModesNext]_modesVars

-----------------------------------------------------------------------------
\* The user has set every box that differs from what is known.
Own == \A n \in Difference : n \in DOMAIN wanted /\ wanted[n] = (n \in boxes)

(* To save the settings of a channel changes what the user has ticked, and *)
(* nothing else, if nobody else has changed its modes and the panel came   *)
(* with no ticks of another channel (ConversationSettings.svelte:49-62).    *)
OwnChangesOnly == ~foreign[shown] /\ ~carried => Own
=============================================================================
