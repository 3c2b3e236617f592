------------------------------- MODULE Roster -------------------------------
(***************************************************************************)
(* Who is in a channel: the IRC server's members, the participants of the  *)
(* core.Conversation that the handlers of pkg/irc/handlers.go keep, and    *)
(* the participants the browser shows (assets/store).                      *)
(*                                                                         *)
(* One channel, one IRC session at a time, one browser.  The server's      *)
(* messages reach the handlers in order (wire), Convos' commands reach the *)
(* server in order (outbox), events reach the browser in order (feed; that *)
(* a full buffer drops some is the subject of EventStream).                *)
(***************************************************************************)
EXTENDS Naturals, Sequences

CONSTANTS
  People,      \* the other users of the network
  Nicks,       \* their nicks
  Me,          \* the nick of the user of Convos
  Ignorable,   \* the people the user may ignore (masks match user and host)
  Public,      \* the channel answers NAMES to outsiders
  MaxChanges,  \* bound: what other people do
  MaxDrops,    \* bound: lost sessions
  MaxJoins     \* bound: /join

ASSUME PeopleAssumption == Ignorable \subseteq People /\ Me \notin Nicks /\ Public \in BOOLEAN
ASSUME BoundAssumption == {MaxChanges, MaxDrops, MaxJoins} \subseteq Nat

VARIABLES
  nick,     \* IRC network: the nick of each person
  members,  \* IRC server: the people in the channel
  joined,   \* IRC server: the user's session is in the channel
  ignored,  \* the people the user ignores
  wire,     \* messages from the server
  outbox,   \* commands to the server
  up,       \* the session, as far as Convos knows
  open,     \* the connection has the conversation
  roster,   \* Conversation.participants
  names,    \* Connection.namesBuffer
  waiter,   \* Connection.namesWaiters: the browser's request, 0 is none
  feed,     \* events on their way to the browser
  tab,      \* the browser's conversation
  shown,    \* the browser's participants
  object,   \* which Conversation object of the browser it is
  asked,    \* Conversation.participantsLoaded
  changes, drops, joins

network == <<nick, members, joined, ignored>>
conv    == <<open, roster, names, waiter>>
browser == <<tab, shown, object, asked>>
counts  == <<changes, drops, joins>>
vars    == <<network, wire, outbox, up, conv, feed, browser, counts>>

NicksOf(P) == {nick[p] : p \in P}

(* One record for all messages: about whom, the nick, the new nick or the   *)
(* nicks of a NAMES line.                                                   *)
Message(kind, who, n) == [kind |-> kind, who |-> who, nick |-> n, nicks |-> {}]
Line(kind, S) == [kind |-> kind, who |-> {}, nick |-> Me, nicks |-> S]
Event(kind, n, S, id) == [kind |-> kind, nick |-> n, nicks |-> S, id |-> id]

Init ==
  /\ nick \in {f \in [People -> Nicks] : \A p, q \in People : f[p] = f[q] => p = q}
  /\ members \in SUBSET People /\ ignored \in SUBSET Ignorable
  /\ joined = FALSE /\ wire = <<>> /\ outbox = <<>>
  /\ up = TRUE /\ open = FALSE /\ roster = {} /\ names = {} /\ waiter = 0
  /\ feed = <<>> /\ tab = "none" /\ shown = {} /\ object = 0 /\ asked = FALSE
  /\ changes = 0 /\ drops = 0 /\ joins = 0

-----------------------------------------------------------------------------
(* The IRC network (external). *)

Tell(m) == wire' = IF joined THEN Append(wire, m) ELSE wire

Change ==
  /\ changes < MaxChanges
  /\ changes' = changes + 1
  /\ UNCHANGED <<outbox, up, conv, feed, browser, drops, joins>>

Enter(p) ==
  /\ Change
  /\ p \notin members
  /\ members' = members \cup {p}
  /\ Tell(Message("JOIN", {p}, nick[p]))
  /\ UNCHANGED <<nick, joined, ignored>>

(* He parts, quits, or is kicked by another user. *)
Leave(p, how) ==
  /\ Change
  /\ p \in members
  /\ members' = members \ {p}
  /\ Tell(Message(how, {p}, nick[p]))
  /\ UNCHANGED <<nick, joined, ignored>>

Rename(p, n) ==
  /\ Change
  /\ n \notin NicksOf(People)
  /\ nick' = [nick EXCEPT ![p] = n]
  /\ IF p \in members THEN Tell([Message("NICK", {p}, nick[p]) EXCEPT !.nicks = {n}])
                      ELSE UNCHANGED wire
  /\ UNCHANGED <<members, joined, ignored>>

KickMe ==
  /\ Change
  /\ joined
  /\ joined' = FALSE
  /\ wire' = Append(wire, Message("KICK", {}, Me))
  /\ UNCHANGED <<nick, members, ignored>>

NamesReply(inside) ==
  LET here == NicksOf(members) \cup (IF inside THEN {Me} ELSE {}) IN
    IF here # {} /\ (inside \/ Public) THEN <<Line("353", here), Line("366", {})>>
                        ELSE <<Line("366", {})>>

(* The server reads a JOIN or a NAMES. *)
Serve ==
  /\ outbox # <<>>
  /\ outbox' = Tail(outbox)
  /\ \/ /\ Head(outbox) = "JOIN" /\ ~joined
        /\ joined' = TRUE
        /\ wire' = wire \o <<Message("JOIN", {}, Me)>> \o NamesReply(TRUE)
     \/ /\ Head(outbox) = "JOIN" /\ joined
        /\ UNCHANGED <<joined, wire>>
     \/ /\ Head(outbox) = "NAMES"
        /\ wire' = wire \o NamesReply(joined)
        /\ UNCHANGED joined
  /\ UNCHANGED <<nick, members, ignored, up, conv, feed, browser, counts>>

-----------------------------------------------------------------------------
(* The handlers of one message each. *)

Receive(kind) ==
  /\ wire # <<>> /\ Head(wire).kind = kind
  /\ wire' = Tail(wire)
  /\ UNCHANGED <<network, outbox, up, browser, counts>>

msg == Head(wire)
FromIgnored == msg.who \cap ignored # {}

Emit(e) == feed' = Append(feed, e)

HandleJoin ==
  /\ Receive("JOIN")
  /\ \/ FromIgnored /\ UNCHANGED <<open, roster, feed>>
     \/ /\ ~FromIgnored
        /\ open' = TRUE
        /\ roster' = roster \cup {msg.nick}
        /\ Emit(Event(IF msg.nick = Me THEN "open" ELSE "join", msg.nick, {}, 0))
  /\ UNCHANGED <<names, waiter>>

(* RemoveConversation, when it is the user who left. *)
DropMember ==
  IF msg.nick = Me THEN open' = FALSE /\ roster' = {}
                   ELSE open' = open /\ roster' = roster \ {msg.nick}

HandlePart ==
  /\ Receive("PART")
  /\ \/ FromIgnored /\ UNCHANGED <<open, roster, feed>>
     \/ ~FromIgnored /\ DropMember /\ Emit(Event("part", msg.nick, {}, 0))
  /\ UNCHANGED <<names, waiter>>

HandleKick ==
  /\ Receive("KICK")
  /\ DropMember
  /\ Emit(Event("part", msg.nick, {}, 0))
  /\ UNCHANGED <<names, waiter>>

HandleQuit ==
  /\ Receive("QUIT")
  /\ roster' = roster \ {msg.nick}
  /\ IF FromIgnored THEN UNCHANGED feed ELSE Emit(Event("quit", msg.nick, {}, 0))
  /\ UNCHANGED <<open, names, waiter>>

(* Faulty variant: the old nick stays. *)
HandleNickKeeps ==
  /\ Receive("NICK")
  /\ roster' = IF msg.nick \in roster THEN roster \cup msg.nicks ELSE roster
  /\ Emit(Event("nick", msg.nick, msg.nicks, 0))
  /\ UNCHANGED <<open, names, waiter>>

HandleNick ==
  /\ Receive("NICK")
  /\ \/ FromIgnored /\ UNCHANGED <<roster, feed>>
     \/ /\ ~FromIgnored
        /\ roster' = IF msg.nick \in roster THEN (roster \cup msg.nicks) \ {msg.nick} ELSE roster
        /\ Emit(Event("nick", msg.nick, msg.nicks, 0))
  /\ UNCHANGED <<open, names, waiter>>

(* A NAMES line makes the conversation if there is none. *)
HandleNamesReply ==
  /\ Receive("353")
  /\ open' = TRUE
  /\ roster' = roster \cup msg.nicks
  /\ names' = names \cup msg.nicks
  /\ UNCHANGED <<waiter, feed>>

(* Faulty variant: the buffer is not emptied. *)
HandleEndOfNamesKeeps ==
  /\ Receive("366")
  /\ waiter' = 0
  /\ Emit(Event(IF waiter # 0 THEN "names" ELSE "list", Me, names, waiter))
  /\ UNCHANGED <<open, roster, names>>

HandleEndOfNames ==
  /\ Receive("366")
  /\ names' = {}
  /\ waiter' = 0
  /\ Emit(Event(IF waiter # 0 THEN "names" ELSE "list", Me, names, waiter))
  /\ UNCHANGED <<open, roster>>

-----------------------------------------------------------------------------
(* The session and the user. *)

(* The disconnect callback freezes the conversation. *)
Drop ==
  /\ up /\ drops < MaxDrops
  /\ drops' = drops + 1
  /\ up' = FALSE /\ joined' = FALSE /\ wire' = <<>> /\ outbox' = <<>>
  /\ IF open THEN Emit(Event("frozen", Me, {}, 0)) ELSE UNCHANGED feed
  /\ UNCHANGED <<nick, members, ignored, conv, browser, changes, joins>>

(* The connect callback joins the channels of all conversations again. *)
Reconnect ==
  /\ ~up
  /\ up' = TRUE
  /\ outbox' = IF open THEN <<"JOIN">> ELSE <<>>
  /\ UNCHANGED <<network, wire, conv, feed, browser, counts>>

Join ==
  /\ up /\ joins < MaxJoins
  /\ joins' = joins + 1
  /\ outbox' = Append(outbox, "JOIN")
  /\ UNCHANGED <<network, wire, up, conv, feed, browser, changes, drops>>

-----------------------------------------------------------------------------
(* The browser. *)

(* Participants.js.  A nick that is there already keeps what is known of it, *)
(* whoever is renamed must be there, and clear leaves the user.             *)
Added(nicks, new)       == nicks \cup new
Deleted(nicks, n)       == nicks \ {n}
Renamed(nicks, n, new)  == Added(Deleted(nicks, n), new)
Cleared(nicks)          == nicks \cap {Me}

(* _addDefaultParticipants, when ensureConversation makes a conversation.   *)
Known == IF tab = "none" THEN Added({}, {Me}) ELSE shown

(* What Connection and Conversation do with the participants for an event:  *)
(* a list is added, the answer to the request of this object replaces.      *)
See(e) ==
  CASE e.kind = "open"   -> Added(Known, {Me})
    [] e.kind = "frozen" -> IF tab = "none" THEN {} ELSE shown
    [] e.kind = "join"   -> Added(Known, {e.nick})
    [] e.kind \in {"part", "quit"} -> IF e.nick = Me THEN {} ELSE Deleted(shown, e.nick)
    [] e.kind = "nick"   -> IF e.nick \in shown THEN Renamed(shown, e.nick, e.nicks) ELSE shown
    [] e.kind = "list"   -> IF tab = "none" THEN shown ELSE Added(shown, e.nicks)
    [] e.kind = "names"  -> IF tab # "none" /\ e.id = object THEN Added(Cleared(shown), e.nicks) ELSE shown

BrowserEvent ==
  /\ feed # <<>>
  /\ feed' = Tail(feed)
  /\ LET e == Head(feed)
         removed == e.kind = "part" /\ e.nick = Me
         ensured == e.kind \in {"open", "frozen", "join"}
     IN /\ shown' = See(e)
        /\ tab' = CASE removed                       -> "none"
                    [] e.kind = "open"               -> "open"
                    [] e.kind = "frozen"             -> "frozen"
                    [] e.kind = "join" /\ tab = "none" -> "open"
                    [] OTHER                         -> tab
        /\ object' = IF ensured /\ tab = "none" THEN object + 1 ELSE object
        /\ asked' = (asked /\ ~removed)
  /\ UNCHANGED <<network, wire, outbox, up, conv, counts>>

(* _loadInformation: /names once, when the conversation is not frozen.  A   *)
(* command while the session is down is answered with an error at once.     *)
BrowserAsk ==
  /\ tab = "open" /\ ~asked
  /\ asked' = TRUE
  /\ \/ /\ up
        /\ waiter' = object
        /\ outbox' = Append(outbox, "NAMES")
        /\ UNCHANGED shown
     \/ /\ ~up
        /\ shown' = Cleared(shown)
        /\ UNCHANGED <<waiter, outbox>>
  /\ UNCHANGED <<network, wire, up, open, roster, names, feed, tab, object, counts>>

-----------------------------------------------------------------------------
Server ==
  \/ \E p \in People :
       \/ Enter(p)
       \/ \E how \in {"PART", "QUIT", "KICK"} : Leave(p, how)
       \/ \E n \in Nicks : Rename(p, n)
  \/ KickMe \/ Serve

Handle ==
  \/ HandleJoin \/ HandlePart \/ HandleKick \/ HandleQuit \/ HandleNick
  \/ HandleNamesReply \/ HandleEndOfNames

Next == Server \/ Handle \/ Drop \/ Reconnect \/ Join \/ BrowserEvent \/ BrowserAsk

Spec == Init /\ [][Next]_vars
-----------------------------------------------------------------------------
(* Properties. *)

Quiet == up /\ wire = <<>> /\ outbox = <<>>
Present == NicksOf(members) \cup {Me}

(* No session was lost and nobody is ignored. *)
Undisturbed == drops = 0 /\ ignored = {}

(* When nothing is under way, everybody in the channel who is not ignored   *)
(* is in the roster, after any number of lost sessions, kicks and changes   *)
(* of nick, those of ignored people included; undisturbed, nobody else is.  *)
(* After a kick the conversation is gone, whatever was asked before.        *)
RosterExact ==
  Quiet => IF joined
             THEN /\ NicksOf(members \ ignored) \cup {Me} \subseteq roster
                  /\ Undisturbed => roster = Present
             ELSE ~open

(* Once it has asked, and nothing is under way, the browser shows exactly   *)
(* the channel's members.                                                   *)
BrowserExact ==
  Undisturbed /\ Quiet /\ joined /\ feed = <<>> /\ tab = "open" /\ asked => shown = Present

=============================================================================
