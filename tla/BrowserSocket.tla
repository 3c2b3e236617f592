---------------------------- MODULE BrowserSocket ----------------------------
(***************************************************************************)
(* The WebSocket of a browser: Socket (assets/js/Socket.js), the loading   *)
(* of a user (assets/store/User.js) and the WebSocket handler that answers *)
(* (pkg/server/events.go), over a network that loses connections.          *)
(*                                                                         *)
(* One page of one user.  A request is known by its id, a counter of the   *)
(* page; kinds tells what it asks.  A "load" and a "text" are answered at  *)
(* once, a "command" when and if the IRC server answers, by an event that  *)
(* carries the id.  The state of the user is one version number.           *)
(***************************************************************************)
EXTENDS Naturals, Sequences, SequencesExt

CONSTANTS
  MaxRequests,  \* bound: texts and commands
  MaxLosses,    \* bound: lost connections, failed ones and ended sessions
  MaxChanges,   \* bound: changes of the user's state
  None          \* nothing was loaded

ASSUME BoundAssumption == {MaxRequests, MaxLosses, MaxChanges} \subseteq Nat
ASSUME NoneAssumption == None \notin Nat

VARIABLES
  ws,       \* Socket.ws
  timer,    \* Socket.reconnectTid is set
  told,     \* a delayed "update" event is on its way to User
  kinds,    \* what was asked with each id
  queue,    \* Socket.queue
  waiting,  \* Socket.waiting
  called,   \* the ids whose callbacks were called, in this order
  status,   \* User.status
  view,     \* the version the page shows
  hurried,  \* the socket was opened before User heard that it was closed
  link,     \* the connection below the WebSocket
  up, down, \* what is on its way
  session,  \* the cookie is good
  version,  \* the state of the user
  pending,  \* the commands the IRC server has not answered
  handled,  \* the requests the server has read
  losses, changes

page   == <<ws, timer, told, kinds, queue, waiting, called, status, view, hurried>>
net    == <<link, up, down>>
server == <<version, pending, handled>>
counts == <<losses, changes>>
vars   == <<page, net, session, server, counts>>

Ids == 1..Len(kinds)
LoadId == CHOOSE i \in Ids : kinds[i] = "load" /\ \A j \in Ids : kinds[j] = "load" => j <= i

Message(kind, id, v) == [kind |-> kind, id |-> id, version |-> v]

Init ==
  /\ ws = "none" /\ timer = FALSE /\ told = FALSE
  /\ kinds = <<>> /\ queue = <<>> /\ waiting = {} /\ called = <<>>
  /\ status = "pending" /\ view = None /\ hurried = FALSE
  /\ link = "none" /\ up = <<>> /\ down = <<>>
  /\ session \in BOOLEAN
  /\ version = 0 /\ pending = {} /\ handled = <<>>
  /\ losses = 0 /\ changes = 0

-----------------------------------------------------------------------------
(* Socket.open and Socket.send. *)

(* A new WebSocket, unless there is one. *)
Open ==
  /\ ws' = IF ws = "none" THEN "connecting" ELSE ws
  /\ timer' = (timer /\ ws # "none")
  /\ hurried' = (hurried \/ (ws = "none" /\ told /\ status = "success"))

(* _dequeue: an open WebSocket takes everything, whether or not the network *)
(* below is still there.                                                    *)
Dequeue(q, open) ==
  IF open
    THEN /\ queue' = <<>>
         /\ waiting' = waiting \cup ToSet(q)
         /\ up' = IF link' = "up" THEN up \o q ELSE up
    ELSE queue' = q /\ UNCHANGED <<waiting, up>>

Send(kind) ==
  /\ kinds' = Append(kinds, kind)
  /\ Open
  /\ UNCHANGED link
  /\ Dequeue(Append(queue, Len(kinds) + 1), ws = "open")
  /\ told' = TRUE
  /\ UNCHANGED <<called, view, down>>

(* User.load *)
Load ==
  /\ status # "loading"
  /\ status' = "loading"
  /\ Send("load")

(* App.svelte loads the user when the page starts. *)
Start ==
  /\ kinds = <<>>
  /\ Load
  /\ UNCHANGED <<session, server, counts>>

(* Input of the user, or _loadInformation of a conversation. *)
Request(kind) ==
  /\ view # None
  /\ Len(SelectSeq(kinds, LAMBDA k : k # "load")) < MaxRequests
  /\ Send(kind)
  /\ UNCHANGED <<status, session, server, counts>>

(* The login page is shown after a refusal; whoever types is slower than    *)
(* the end of the refused connection.                                       *)
Login ==
  /\ status = "error" /\ ~session /\ ws = "none"
  /\ session' = TRUE
  /\ Load
  /\ UNCHANGED <<server, counts>>

(* The reconnect timer takes a second or more, an update a millisecond.     *)
Timer ==
  /\ timer /\ ~told
  /\ Open
  /\ told' = TRUE
  /\ UNCHANGED <<kinds, queue, waiting, called, status, view, net, session, server, counts>>

(* The focus of the window, at any time. *)
Focus ==
  /\ view # None /\ ws = "none"
  /\ Open
  /\ told' = TRUE
  /\ UNCHANGED <<kinds, queue, waiting, called, status, view, net, session, server, counts>>

-----------------------------------------------------------------------------
(* What the page does with events. *)

(* Faulty variant: the status stays, and nothing is loaded again. *)
KeepLoaded == status
(* The status after a lost connection. *)
Unload == IF status \in {"error", "loading"} THEN status ELSE "pending"

(* User._onConnectionChange sees the state when the event comes, not when   *)
(* it was caused.                                                           *)
Update ==
  /\ told
  /\ \/ /\ ws = "open" /\ status = "pending"
        /\ Load
     \/ /\ ws = "none"
        /\ told' = FALSE
        /\ status' = Unload
        /\ UNCHANGED <<ws, timer, kinds, queue, waiting, called, view, hurried, net>>
     \/ /\ ~(ws = "open" /\ status = "pending") /\ ws # "none"
        /\ told' = FALSE
        /\ UNCHANGED <<ws, timer, kinds, queue, waiting, called, status, view, hurried, net>>
  /\ UNCHANGED <<session, server, counts>>

(* _onOpen; without a good cookie the handler sends its refusal and closes. *)
Opened ==
  /\ ws = "connecting"
  /\ ws' = "open" /\ told' = TRUE
  /\ link' = IF session THEN "up" ELSE "refused"
  /\ down' = IF session THEN <<>> ELSE <<Message("refusal", 0, 0)>>
  /\ Dequeue(queue, TRUE)
  /\ UNCHANGED <<timer, kinds, called, status, view, hurried, session, server, counts>>

(* Faulty variant: an attempt that failed is the last one. *)
FailedStops ==
  /\ ws = "connecting" /\ losses < MaxLosses
  /\ losses' = losses + 1
  /\ ws' = "none" /\ timer' = FALSE /\ told' = TRUE
  /\ UNCHANGED <<kinds, queue, waiting, called, status, view, hurried, net, session, server, changes>>

(* _onClose after an attempt that failed: there is another one. *)
Failed ==
  /\ ws = "connecting" /\ losses < MaxLosses
  /\ losses' = losses + 1
  /\ ws' = "none" /\ timer' = TRUE /\ told' = TRUE
  /\ UNCHANGED <<kinds, queue, waiting, called, status, view, hurried, net, session, server, changes>>

(* Faulty variant: what has no answer is queued again. *)
ClosedRequeues ==
  /\ ws = "open" /\ link \in {"dead", "refused"} /\ down = <<>>
  /\ ws' = "none" /\ told' = TRUE
  /\ timer' = (link = "dead")
  /\ link' = "none"
  /\ queue' = SetToSortSeq(waiting, <) \o queue /\ waiting' = {}
  /\ UNCHANGED <<kinds, called, status, view, hurried, up, down, session, server, counts>>

(* _onClose after the last message; a refusal (1008) is not tried again.    *)
Closed ==
  /\ ws = "open" /\ link \in {"dead", "refused"} /\ down = <<>>
  /\ ws' = "none" /\ told' = TRUE
  /\ timer' = (link = "dead")
  /\ link' = "none"
  /\ UNCHANGED <<kinds, queue, waiting, called, status, view, hurried, up, down, session, server, counts>>

(* An answer calls the callback of its id, whoever asked.  The listeners    *)
(* are never removed; the promise of User.load takes the first answer.      *)
Answered(m) ==
  /\ waiting' = waiting \ {m.id}
  /\ IF m.id \in Ids
       THEN called' = Append(called, m.id)
       ELSE UNCHANGED called
  /\ IF m.id \in Ids /\ kinds[m.id] = "load" /\ status = "loading" /\ m.id = LoadId
       THEN status' = "success" /\ view' = m.version /\ hurried' = FALSE
       ELSE UNCHANGED <<status, view, hurried>>

(* An error without an id answers everything that waits. *)
Refused ==
  /\ waiting' = {}
  /\ called' = called \o SetToSeq(waiting)
  /\ IF status = "loading" /\ LoadId \in waiting
       THEN status' = "error" /\ view' = None
       ELSE UNCHANGED <<status, view>>
  /\ UNCHANGED hurried

(* _onMessage *)
Receive ==
  /\ ws = "open" /\ down # <<>>
  /\ down' = Tail(down)
  /\ told' = TRUE
  /\ LET m == Head(down) IN
       \/ /\ m.kind = "event"
          /\ view' = IF view = None THEN None ELSE m.version
          /\ UNCHANGED <<waiting, called, status, hurried>>
       \/ m.kind \in {"load", "sent"} /\ Answered(m)
       \/ m.kind = "refusal" /\ Refused
  /\ UNCHANGED <<ws, timer, kinds, queue, link, up, session, server, counts>>

-----------------------------------------------------------------------------
(* The server: handleWSMessage, one message after the other. *)

Tell(m) == down' = IF link = "up" THEN Append(down, m) ELSE down

Handle ==
  /\ link = "up" /\ up # <<>>
  /\ up' = Tail(up)
  /\ handled' = Append(handled, Head(up))
  /\ LET i == Head(up) IN
       CASE kinds[i] = "load"    -> Tell(Message("load", i, version)) /\ UNCHANGED pending
         [] kinds[i] = "text"    -> Tell(Message("sent", i, 0)) /\ UNCHANGED pending
         [] kinds[i] = "command" -> pending' = pending \cup {i} /\ UNCHANGED down
  /\ UNCHANGED <<page, link, session, version, counts>>

(* A SentEvent with the id goes to the browsers that are there now; some    *)
(* commands are never answered.                                             *)
Answer(i) ==
  /\ i \in pending
  /\ pending' = pending \ {i}
  /\ Tell(Message("sent", i, 0)) \/ UNCHANGED down
  /\ UNCHANGED <<page, link, up, session, version, handled, counts>>

Change ==
  /\ changes < MaxChanges
  /\ changes' = changes + 1
  /\ version' = version + 1
  /\ Tell(Message("event", 0, version + 1))
  /\ UNCHANGED <<page, link, up, session, pending, handled, losses>>

(* The network loses what it likes; a part of the requests still arrives.   *)
Lose ==
  /\ link = "up" /\ losses < MaxLosses
  /\ losses' = losses + 1
  /\ link' = "dead" /\ up' = <<>>
  /\ \E n \in 0..Len(down) : down' = SubSeq(down, 1, n)
  /\ \E n \in 0..Len(up) :
       /\ handled' = handled \o SubSeq(up, 1, n)
       /\ pending' = pending \cup {i \in ToSet(SubSeq(up, 1, n)) : kinds[i] = "command"}
  /\ UNCHANGED <<page, session, version, changes>>

(* The cookie expires; connections that are open stay. *)
Expire ==
  /\ session /\ losses < MaxLosses
  /\ losses' = losses + 1
  /\ session' = FALSE
  /\ UNCHANGED <<page, net, server, changes>>

-----------------------------------------------------------------------------
Page ==
  \/ Start \/ Request("text") \/ Request("command") \/ Login \/ Timer \/ Focus
  \/ Update \/ Opened \/ Failed \/ Closed \/ Receive

Server ==
  Handle \/ Change \/ Lose \/ Expire \/ (\E i \in Ids : Answer(i))

Next == Page \/ Server

Spec == Init /\ [][Next]_vars

(* The page runs, timers fire, and a connection that is not lost works.     *)
Fairness ==
  /\ WF_vars(Start) /\ WF_vars(Timer) /\ WF_vars(Update)
  /\ WF_vars(Opened) /\ WF_vars(Closed) /\ WF_vars(Receive) /\ WF_vars(Handle)

FairSpec == Spec /\ Fairness
-----------------------------------------------------------------------------
(* Properties. *)

NoDuplicates(s) == \A i, j \in DOMAIN s : s[i] = s[j] => i = j

(* Whatever is lost and opened again, the server reads no request twice: no *)
(* message is said twice in a channel.  The callback of a request that is   *)
(* answered at once is called once: a refusal after a reconnect, which      *)
(* answers all that waits, does not call it again.  (A command that was     *)
(* refused may still be answered later.)                                    *)
Once ==
  /\ NoDuplicates(handled)
  /\ \A i, j \in DOMAIN called :
       called[i] = called[j] /\ kinds[called[i]] # "command" => i = j

(* A page that is loaded and to which nothing is under way shows the state  *)
(* of the server, although events are lost with every connection: unless    *)
(* the socket was opened before User heard that it was closed.              *)
ShowsState ==
  /\ status = "success" /\ ws = "open" /\ ~told
  /\ link = "up" /\ down = <<>>
  /\ ~hurried
  => view = version

(* What was queued while the socket was closed is written in the end.       *)
QueueDrains == (queue # <<>>) ~> (queue = <<>>)

=============================================================================
