----------------------------- MODULE EventStream -----------------------------
(***************************************************************************)
(* How a change of the server's state reaches the browser:                 *)
(* EventEmitter and Subscription (pkg/core/events.go) and the WebSocket    *)
(* handler that owns a subscription (pkg/server/events.go).                *)
(*                                                                         *)
(* The state of a user (a connection's state, a topic, a roster...) is one *)
(* version number.  A goroutine changes it and then emits an event that    *)
(* carries the new version; the browser shows the version of the last      *)
(* "load" response or event it got.  A slot of Subs is one WebSocket and   *)
(* its Subscription; it is used again when the browser reconnects.         *)
(***************************************************************************)
EXTENDS Naturals, Sequences

CONSTANTS
  Emitters,    \* goroutines that change the state
  Subs,        \* WebSockets
  BufferSize,  \* EventEmitter.bufferSize
  MaxChanges,  \* bound: how often the state changes
  None         \* nobody

ASSUME SizeAssumption == BufferSize \in Nat \ {0} /\ MaxChanges \in Nat
ASSUME NoneAssumption == None \notin Subs

VARIABLES
  version,     \* the state, as a number of changes
  pc,          \* where a goroutine is
  event,       \* the version its event carries
  todo,        \* EmitUser: the subscriptions it still has to look at
  writer,      \* the handler that has or waits for the write lock of EventEmitter.mu
  phase,       \* where the WebSocket handler is
  registered,  \* EventEmitter.subscriptions
  closed,      \* the subscriptions whose field closed is set
  gone,        \* the subscriptions whose channel is closed
  events,      \* Subscription.Events
  skipped,     \* the subscriptions an event was skipped for
  loaded,      \* the browser got the response to "load"
  view,        \* the version the browser shows
  panicked     \* a goroutine sent on a closed channel

server  == <<version, pc, event, todo>>
sub     == <<registered, closed, gone>>
buffer  == <<events, skipped>>
browser == <<loaded, view>>
vars    == <<server, writer, phase, sub, buffer, browser, panicked>>

Versions == 0..MaxChanges
Points   == {"idle", "changed", "blocked", "emit"}
Phases   == {"none", "joining", "open", "leaving", "flagged", "removed"}

(* Every variable has its type; a channel never holds more than its capacity. *)
TypeOK ==
  /\ version \in Versions
  /\ pc \in [Emitters -> Points]
  /\ event \in [Emitters -> Versions]
  /\ todo \in [Emitters -> SUBSET Subs]
  /\ writer \in Subs \cup {None}
  /\ phase \in [Subs -> Phases]
  /\ registered \subseteq Subs /\ closed \subseteq Subs /\ gone \subseteq Subs
  /\ events \in [Subs -> Seq(Versions)]
  /\ \A s \in Subs : Len(events[s]) <= BufferSize
  /\ skipped \subseteq Subs /\ loaded \subseteq Subs
  /\ view \in [Subs -> Versions]
  /\ panicked \in BOOLEAN

Init ==
  /\ version = 0
  /\ pc = [g \in Emitters |-> "idle"]
  /\ event = [g \in Emitters |-> 0]
  /\ todo = [g \in Emitters |-> {}]
  /\ writer = None
  /\ phase = [s \in Subs |-> "none"]
  /\ registered = {} /\ closed = {} /\ gone = {}
  /\ events = [s \in Subs |-> <<>>] /\ skipped = {}
  /\ loaded = {}
  /\ view = [s \in Subs |-> 0]
  /\ panicked = FALSE

-----------------------------------------------------------------------------
(* EventEmitter.mu, a sync.RWMutex: EmitUser reads, SubscribeUser and        *)
(* unsubscribe write.  A writer first becomes the only one, which keeps new *)
(* readers out; it gets the lock when no reader is left, and its Unlock     *)
(* lets the readers in that came in the meantime.                           *)
NoReader == \A g \in Emitters : pc[g] # "emit"

LockWait(s) ==
  /\ phase[s] \in {"joining", "flagged"} /\ writer = None
  /\ writer' = s
  /\ UNCHANGED <<server, phase, sub, buffer, browser, panicked>>

Locked(s) == writer = s /\ NoReader

(* What Unlock does, with the map the writer leaves. *)
Unlock ==
  LET blocked == {g \in Emitters : pc[g] = "blocked"} IN
    /\ writer' = None
    /\ pc' = [g \in Emitters |-> IF g \in blocked THEN "emit" ELSE pc[g]]
    /\ todo' = [g \in Emitters |-> IF g \in blocked THEN registered' ELSE todo[g]]
    /\ UNCHANGED <<version, event>>

(* Faulty variant: the event is made before the state is changed. *)
ChangeLate(g) ==
  /\ pc[g] = "idle" /\ version < MaxChanges
  /\ event' = [event EXCEPT ![g] = version]
  /\ version' = version + 1
  /\ pc' = [pc EXCEPT ![g] = "changed"]
  /\ UNCHANGED <<todo, writer, phase, sub, buffer, browser, panicked>>

(* SetState, SetTopic, SetFrozen...: the state first, then its event. *)
Change(g) ==
  /\ pc[g] = "idle" /\ version < MaxChanges
  /\ version' = version + 1
  /\ event' = [event EXCEPT ![g] = version + 1]
  /\ pc' = [pc EXCEPT ![g] = "changed"]
  /\ UNCHANGED <<todo, writer, phase, sub, buffer, browser, panicked>>

(* EmitUser takes the read lock, or waits behind a writer... *)
EmitBegin(g) ==
  /\ pc[g] = "changed"
  /\ \/ /\ writer = None
        /\ pc' = [pc EXCEPT ![g] = "emit"]
        /\ todo' = [todo EXCEPT ![g] = registered]
     \/ /\ writer # None
        /\ pc' = [pc EXCEPT ![g] = "blocked"]
        /\ UNCHANGED todo
  /\ UNCHANGED <<version, event, writer, phase, sub, buffer, browser, panicked>>

(* Faulty variant: wait for room in the buffer. *)
DeliverBlocking(g, s) ==
  /\ Len(events[s]) < BufferSize
  /\ events' = [events EXCEPT ![s] = Append(@, event[g])]
  /\ UNCHANGED skipped
  /\ panicked' = (panicked \/ s \in gone)

(* The non-blocking send: a full buffer skips the event. *)
Deliver(g, s) ==
  /\ \/ /\ Len(events[s]) < BufferSize
        /\ events' = [events EXCEPT ![s] = Append(@, event[g])]
        /\ UNCHANGED skipped
     \/ /\ Len(events[s]) >= BufferSize
        /\ skipped' = skipped \cup {s}
        /\ UNCHANGED events
  /\ panicked' = (panicked \/ s \in gone)

(* ... and looks at each subscription under its closedMu... *)
EmitOne(g, s) ==
  /\ pc[g] = "emit" /\ s \in todo[g]
  /\ todo' = [todo EXCEPT ![g] = @ \ {s}]
  /\ \/ s \in closed /\ UNCHANGED <<buffer, panicked>>
     \/ s \notin closed /\ Deliver(g, s)
  /\ UNCHANGED <<version, pc, event, writer, phase, sub, browser>>

EmitEnd(g) ==
  /\ pc[g] = "emit" /\ todo[g] = {}
  /\ pc' = [pc EXCEPT ![g] = "idle"]
  /\ UNCHANGED <<version, event, todo, writer, phase, sub, buffer, browser, panicked>>

-----------------------------------------------------------------------------
(* eventsHandler of one WebSocket. *)

Upgrade(s) ==
  /\ phase[s] = "none"
  /\ phase' = [phase EXCEPT ![s] = "joining"]
  /\ UNCHANGED <<server, writer, sub, buffer, browser, panicked>>

(* SubscribeUser makes a new Subscription with an empty buffer. *)
Subscribe(s) ==
  /\ phase[s] = "joining" /\ Locked(s)
  /\ phase' = [phase EXCEPT ![s] = "open"]
  /\ registered' = registered \cup {s}
  /\ closed' = closed \ {s} /\ gone' = gone \ {s}
  /\ events' = [events EXCEPT ![s] = <<>>] /\ skipped' = skipped \ {s}
  /\ loaded' = loaded \ {s}
  /\ Unlock
  /\ UNCHANGED <<view, panicked>>

(* The browser asks for its state once per WebSocket; the handler answers   *)
(* between two events.                                                      *)
Load(s) ==
  /\ phase[s] = "open" /\ s \notin loaded
  /\ loaded' = loaded \cup {s}
  /\ view' = [view EXCEPT ![s] = version]
  /\ UNCHANGED <<server, writer, phase, sub, buffer, panicked>>

(* Before "load" the browser knows no connection and drops the event. *)
Forward(s) ==
  /\ phase[s] = "open" /\ events[s] # <<>>
  /\ events' = [events EXCEPT ![s] = Tail(@)]
  /\ view' = IF s \in loaded THEN [view EXCEPT ![s] = Head(events[s])] ELSE view
  /\ UNCHANGED <<server, writer, phase, sub, skipped, loaded, panicked>>

(* A failed write, a failed ping, or the end of the reader. *)
Return(s) ==
  /\ phase[s] = "open"
  /\ phase' = [phase EXCEPT ![s] = "leaving"]
  /\ UNCHANGED <<server, writer, sub, buffer, browser, panicked>>

(* Faulty variant: the channel is closed first and the flag is not set. *)
CloseAtOnce(s) ==
  /\ phase[s] = "leaving"
  /\ gone' = gone \cup {s}
  /\ phase' = [phase EXCEPT ![s] = "flagged"]
  /\ UNCHANGED <<server, writer, registered, closed, buffer, browser, panicked>>

(* Subscription.Close: the flag under closedMu... *)
CloseMark(s) ==
  /\ phase[s] = "leaving"
  /\ closed' = closed \cup {s}
  /\ phase' = [phase EXCEPT ![s] = "flagged"]
  /\ UNCHANGED <<server, writer, registered, gone, buffer, browser, panicked>>

(* ... unsubscribe under the emitter's lock... *)
Unsubscribe(s) ==
  /\ phase[s] = "flagged" /\ Locked(s)
  /\ registered' = registered \ {s}
  /\ phase' = [phase EXCEPT ![s] = "removed"]
  /\ Unlock
  /\ UNCHANGED <<closed, gone, buffer, browser, panicked>>

(* ... and close(s.Events). *)
CloseChannel(s) ==
  /\ phase[s] = "removed"
  /\ gone' = gone \cup {s}
  /\ phase' = [phase EXCEPT ![s] = "none"]
  /\ UNCHANGED <<server, writer, registered, closed, buffer, browser, panicked>>

-----------------------------------------------------------------------------
Emit(g) == Change(g) \/ EmitBegin(g) \/ (\E s \in Subs : EmitOne(g, s)) \/ EmitEnd(g)

Handle(s) ==
  \/ Upgrade(s) \/ LockWait(s) \/ Subscribe(s) \/ Load(s) \/ Forward(s) \/ Return(s)
  \/ CloseMark(s) \/ Unsubscribe(s) \/ CloseChannel(s)

Next == (\E g \in Emitters : Emit(g)) \/ (\E s \in Subs : Handle(s))

Spec == Init /\ [][Next]_vars

(* Goroutines run on, and SubscribeUser and Close get on (a sync.Mutex       *)
(* starves nobody), but a WebSocket may be stuck in a write for ever:       *)
(* nothing is assumed of Forward.                                           *)
Fairness ==
  /\ \A g \in Emitters :
       WF_vars(EmitBegin(g) \/ (\E s \in Subs : EmitOne(g, s)) \/ EmitEnd(g))
  /\ \A s \in Subs :
       /\ WF_vars(Subscribe(s) \/ CloseMark(s) \/ Unsubscribe(s) \/ CloseChannel(s))
       /\ SF_vars(LockWait(s))

FairSpec == Spec /\ Fairness
-----------------------------------------------------------------------------
(* Properties. *)

(* EmitUser and Close run concurrently, yet no goroutine sends on a channel *)
(* that was closed (which would end the whole server).                      *)
NoPanic == ~panicked

(* The strengthening that makes it inductive: the channel is closed after   *)
(* the flag was set, and a subscription that EmitUser is about to visit is  *)
(* still in the map.                                                        *)
CloseInv ==
  /\ NoPanic
  /\ gone \subseteq closed
  /\ \A s \in Subs : phase[s] \in {"flagged", "removed"} => s \in closed
  /\ \A g \in Emitters :
       /\ pc[g] = "emit" => todo[g] \subseteq registered
       /\ pc[g] # "emit" => todo[g] = {}
  /\ \A s \in Subs : s \in registered <=> phase[s] \in {"open", "leaving", "flagged"}

(* With one emitting goroutine a browser for which no event was skipped     *)
(* shows the state of the server as soon as nothing is under way to it,     *)
(* whenever it connected and asked to load.                                 *)
ShowsState ==
  \A s \in Subs :
    /\ phase[s] = "open" /\ s \in loaded /\ s \notin skipped
    /\ events[s] = <<>> /\ \A g \in Emitters : pc[g] = "idle"
    => view[s] = version

(* The last word a browser will hear is the state of the server, or the     *)
(* event that says so is still to come: what makes ShowsState inductive.    *)
LastWord(s) ==
  IF events[s] # <<>> THEN events[s][Len(events[s])] ELSE view[s]

Pending(g, s) ==
  \/ pc[g] \in {"changed", "blocked"}
  \/ pc[g] = "emit" /\ s \in todo[g]

LastWordInv ==
  \A s \in Subs : \A g \in Emitters :
    /\ pc[g] # "idle" => event[g] = version
    /\ phase[s] = "open" => s \notin closed
    /\ phase[s] = "open" /\ s \notin skipped /\ (s \in loaded \/ events[s] # <<>>) =>
         LastWord(s) = version \/ Pending(g, s)

(* A WebSocket that does not read never holds up the goroutine that emits:  *)
(* an IRC connection goes on whatever its user's browsers do.               *)
EmitEnds == \A g \in Emitters : (pc[g] # "idle") ~> (pc[g] = "idle")

=============================================================================
