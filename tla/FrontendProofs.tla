--------------------------- MODULE FrontendProofs ---------------------------
(***************************************************************************)
(* Theorems about parts of the page, each under its own specification: the *)
(* list of files (Files), the form for connections (ConnectionForm), the   *)
(* notifications (Notify), the route (Navigation), the modes of a channel  *)
(* (Modes) and the main menu (Menu); and about the algorithms (Algorithms)  *)
(* on inputs of every length.                                               *)
(***************************************************************************)
EXTENDS Files, ConnectionForm, Notify, Navigation, Modes, Menu, Algorithms,
        SequenceTheorems, WellFoundedInduction, TLAPS

(* Files.  Unless something has strained the page, it lists what is on the *)
(* disk; an answer that is not old says the same, and what is ticked is     *)
(* what the server was asked to delete.                                     *)
FilesInv ==
  /\ loading \in [at : {"no", "asked", "answered"}, files : SUBSET Uploaded, old : BOOLEAN]
  /\ deleting \in [at : {"no", "asked", "answered"}, fid : SUBSET Uploaded]
  /\ rows \subseteq Uploaded /\ ticked \subseteq Uploaded /\ disk \subseteq Uploaded
  /\ strained \in BOOLEAN
  /\ loading.at = "answered" /\ ~loading.old => loading.files = disk
  /\ ~strained => /\ deleting.at = "answered" => rows \ ticked = disk
                  /\ deleting.at # "answered" => rows = disk
                  /\ deleting.at = "asked" => deleting.fid = ticked

LEMMA FilesInvInit == FilesInit => FilesInv
<1> SUFFICES ASSUME FilesInit PROVE FilesInv
  OBVIOUS
<1>1. loading = [at |-> "asked", files |-> {}, old |-> FALSE]
  BY DEF FilesInit, LoadAsked
<1>2. /\ deleting \in [at : {"no", "asked", "answered"}, fid : SUBSET Uploaded]
      /\ deleting.at = "no"
  BY DEF FilesInit
<1> QED
  BY <1>1, <1>2 DEF FilesInit, FilesInv

LEMMA FilesInvStep == FilesInv /\ [FilesNext]_filesVars => FilesInv'
<1> SUFFICES ASSUME FilesInv, [FilesNext]_filesVars PROVE FilesInv'
  OBVIOUS
<1> USE DEF FilesInv
<1>1. CASE Navigate
  BY <1>1 DEF Navigate, Ask, LoadAsked
<1>2. CASE GetFiles
  BY <1>2 DEF GetFiles, LoadAsked
<1>3. CASE FilesLoaded
  BY <1>3 DEF FilesLoaded, NoLoad, LoadAsked
<1>4. CASE LoadFails
  BY <1>4 DEF LoadFails, NoLoad, LoadAsked
<1>5. CASE TickAll
  BY <1>5 DEF TickAll
<1>6. CASE Delete
  BY <1>6 DEF Delete
<1>7. CASE DeleteFiles
  BY <1>7 DEF DeleteFiles, Overtaken
<1>8. CASE DeleteFails
  BY <1>8 DEF DeleteFails
<1>9. CASE Deleted
  <2>1. /\ loading' \in [at : {"no", "asked", "answered"}, files : SUBSET Uploaded, old : BOOLEAN]
        /\ loading'.at = "answered" /\ ~loading'.old => loading'.files = disk
    <3>1. loading' = loading \/ loading' = LoadAsked
      BY <1>9 DEF Deleted, Ask
    <3>2. LoadAsked \in [at : {"no", "asked", "answered"}, files : SUBSET Uploaded, old : BOOLEAN]
      BY DEF LoadAsked
    <3> QED
      BY <3>1, <3>2 DEF LoadAsked
  <2>2. deleting'.at = "no" /\ deleting'.fid = {}
        /\ deleting' \in [at : {"no", "asked", "answered"}, fid : SUBSET Uploaded]
    BY <1>9 DEF Deleted
  <2>3. deleting.at = "answered" /\ rows' = rows \ ticked /\ ticked' = {}
        /\ UNCHANGED <<disk, strained>>
    BY <1>9 DEF Deleted
  <2> QED
    BY <2>1, <2>2, <2>3
<1>10. ASSUME NEW f \in Uploaded, TickRow(f) PROVE FilesInv'
  BY <1>10 DEF TickRow
<1>11. ASSUME NEW f \in Uploaded, OtherTab(f) PROVE FilesInv'
  BY <1>11 DEF OtherTab, Overtaken
<1>12. CASE UNCHANGED filesVars
  BY <1>12 DEF filesVars
<1> QED
  BY <1>1, <1>2, <1>3, <1>4, <1>5, <1>6, <1>7, <1>8, <1>9, <1>10, <1>11, <1>12 DEF FilesNext

(* However loads and deletions overlap, the page lists what is on the disk, *)
(* for any number of files and clicks.                                      *)
THEOREM FilesListed == FilesSpec => []ListIsTrue
<1>1. FilesInv => ListIsTrue
  BY DEF FilesInv, ListIsTrue
<1> QED
  BY FilesInvInit, FilesInvStep, <1>1, PTL DEF FilesSpec
-----------------------------------------------------------------------------
(* ConnectionForm. *)

RequestKinds    == {"create", "update", "remove"}
RequestStates   == {"asked", "held", "answered"}
RequestType ==
  [kind : RequestKinds, host : Hosts, state : RequestStates, ok : BOOLEAN, subject : Hosts \cup {Nameless}]

(* Nobody else asks for a connection that is being made. *)
MadeAlone ==
  \A r, q \in requests : r.kind = "create" /\ q.host = r.host => q = r

(* What is kept and not yet listed or written has its request under way,   *)
(* and what was removed stays away until the answer has come.              *)
Underway ==
  /\ \A h \in kept \ listed : \E r \in requests :
       r.kind = "create" /\ r.host = h /\ r.state # "asked" /\ r.ok
  /\ \A h \in kept \ saved : \E r \in requests :
       r.kind = "create" /\ r.host = h /\ r.state = "held"
  /\ \A r \in requests : r.kind = "remove" /\ r.state # "asked" => r.host \notin kept

(* A load that crossed no request brings what is kept.                     *)
Reloading ==
  /\ reply.is # "none" => requests = {}
  /\ reply.is = "answered" => reply.list = kept

FormType ==
  /\ kept \subseteq Hosts /\ requests \subseteq RequestType /\ disturbed \in BOOLEAN
  /\ reply \in [is : {"none", "asked", "answered"}, list : SUBSET Hosts]
  /\ \A r \in requests : r.subject \in {r.host, Nameless}

FormInv == FormType /\ MadeAlone /\ (~disturbed => Underway /\ Reloading)

LEMMA FormInvInit == FormInit => FormInv
<1> SUFFICES ASSUME FormInit PROVE FormInv
  OBVIOUS
<1>1. reply \in [is : {"none", "asked", "answered"}, list : SUBSET Hosts]
  BY DEF FormInit, NoReply
<1> QED
  BY <1>1 DEF FormInit, NoReply, FormInv, FormType, MadeAlone, Underway, Reloading

LEMMA NewRequestType ==
  ASSUME NEW sort \in RequestKinds, NEW h \in Hosts
  PROVE  /\ NewRequest(sort, h) \in RequestType
         /\ NewRequest(sort, h).kind = sort /\ NewRequest(sort, h).host = h
         /\ NewRequest(sort, h).state = "asked" /\ NewRequest(sort, h).subject = h
  BY DEF NewRequest, RequestType, RequestStates, RequestKinds

(* New requests for a connection nobody has asked for. *)
LEMMA SubmitStep ==
  ASSUME FormInv, NEW h \in Hosts, Free(h), NEW new \in SUBSET RequestType, Submit(new),
         \A r \in new : r.host = h /\ r.state = "asked" /\ r.subject = h,
         \A r, q \in new : r.kind = "create" => q = r
  PROVE  FormInv'
<1>1. /\ requests' = requests \cup new /\ UNCHANGED <<kept, saved, listed, reply>>
      /\ disturbed' = (disturbed \/ reply.is # "none")
      /\ \A r \in requests : r.host # h
  BY DEF Submit, Free, store, shownList
<1>2. FormType'
  BY <1>1 DEF FormInv, FormType
<1>3. MadeAlone'
  BY <1>1 DEF FormInv, MadeAlone
<1>4. ~disturbed' => (Underway /\ Reloading)'
  <2> SUFFICES ASSUME ~disturbed' PROVE (Underway /\ Reloading)'
    OBVIOUS
  <2>1. ~disturbed /\ reply.is = "none" /\ Underway
    BY <1>1 DEF FormInv, FormType
  <2>2. Underway'
    BY <1>1, <2>1 DEF Underway
  <2>3. Reloading'
    BY <1>1, <2>1 DEF Reloading
  <2> QED
    BY <2>2, <2>3
<1> QED
  BY <1>2, <1>3, <1>4 DEF FormInv

(* A request goes on to another state and keeps what it asks for. *)
Follows(new, r) == new.kind = r.kind /\ new.host = r.host /\ new.subject = r.subject

LEMMA PassesStep ==
  ASSUME FormInv, NEW r \in requests, NEW state \in RequestStates, NEW ok \in BOOLEAN,
         Passes(r, state, ok)
  PROVE  \E new \in RequestType :
           /\ Follows(new, r) /\ new.state = state /\ new.ok = ok
           /\ requests' = (requests \ {r}) \cup {new}
<1> DEFINE new == [r EXCEPT !.state = state, !.ok = ok]
<1>1. r \in RequestType
  BY DEF FormInv, FormType
<1>2. /\ new \in RequestType /\ new.kind = r.kind /\ new.host = r.host /\ new.subject = r.subject
      /\ new.state = state /\ new.ok = ok
      /\ requests' = (requests \ {r}) \cup {new}
  BY <1>1 DEF RequestType, Passes
<1> QED
  BY <1>2 DEF Follows

LEMMA FollowedAlone ==
  ASSUME FormInv, NEW r \in requests, NEW new, Follows(new, r),
         requests' = (requests \ {r}) \cup {new}
  PROVE  MadeAlone'
  BY DEF FormInv, MadeAlone, Follows

LEMMA FormInvStep == FormInv /\ [FormNext]_formVars => FormInv'
<1> SUFFICES ASSUME FormInv, [FormNext]_formVars PROVE FormInv'
  OBVIOUS
<1> USE DEF FormInv, FormType, Underway, Reloading
<1>1. ASSUME NEW where \in {"list", "add"} \cup Hosts, OpenForm(where) PROVE FormInv'
  BY <1>1 DEF OpenForm, MadeAlone, store
<1>2. ASSUME NEW h \in Hosts, AddConnection(h) PROVE FormInv'
  BY <1>2, SubmitStep, NewRequestType DEF AddConnection, RequestKinds
<1>3. ASSUME NEW h \in Hosts, SaveConnection(h) PROVE FormInv'
  BY <1>3, SubmitStep, NewRequestType DEF SaveConnection, RequestKinds
<1>4. ASSUME NEW h \in Hosts, DeleteConnection(h) PROVE FormInv'
  <2> DEFINE new == {NewRequest("remove", h), NewRequest("update", h)}
  <2>1. /\ new \subseteq RequestType /\ \A r \in new : r.host = h /\ r.state = "asked" /\ r.subject = h
        /\ \A r, q \in new : r.kind = "create" => q = r
    BY NewRequestType DEF RequestKinds
  <2> QED
    BY <1>4, <2>1, SubmitStep DEF DeleteConnection
<1>5. ASSUME NEW r \in requests, CreateConnection(r) PROVE FormInv'
  <2>1. PICK new \in RequestType :
          /\ Follows(new, r) /\ new.state = "held" /\ new.ok
          /\ requests' = (requests \ {r}) \cup {new}
    BY <1>5, PassesStep DEF CreateConnection, RequestStates
  <2>2. /\ r \in RequestType /\ r.kind = "create" /\ kept' = kept \cup {r.host} /\ r.state = "asked"
        /\ UNCHANGED <<saved, removed, disturbed, listed, reply>>
        /\ \A q \in requests : q.host = r.host => q = r
    BY <1>5 DEF CreateConnection, Passes, Asked, MadeAlone, shownList
  <2> QED
    BY <2>1, <2>2, FollowedAlone DEF RequestType, Follows
<1>6. ASSUME NEW r \in requests, UpdateConnection(r) PROVE FormInv'
  <2>1. PICK new \in RequestType :
          /\ Follows(new, r) /\ new.state \in {"held", "answered"}
          /\ requests' = (requests \ {r}) \cup {new}
    BY <1>6, PassesStep DEF UpdateConnection, RequestStates
  <2>2. /\ r \in RequestType /\ r.kind = "update"
        /\ UNCHANGED <<kept, saved, removed, disturbed, listed, reply>>
    BY <1>6 DEF UpdateConnection, Passes, Asked, shownList, store
  <2> QED
    BY <2>1, <2>2, FollowedAlone DEF RequestType, Follows
<1>7. ASSUME NEW r \in requests, RemoveConnection(r) PROVE FormInv'
  <2>1. PICK new \in RequestType :
          /\ Follows(new, r)
          /\ requests' = (requests \ {r}) \cup {new}
    BY <1>7, PassesStep DEF RemoveConnection, RequestStates
  <2>2. /\ r \in RequestType /\ r.kind = "remove" /\ kept' = kept \ {r.host}
        /\ UNCHANGED <<saved, removed, disturbed, listed, reply>>
    BY <1>7 DEF RemoveConnection, Passes, Asked, shownList
  <2> QED
    BY <2>1, <2>2, FollowedAlone DEF RequestType, Follows
<1>8. ASSUME NEW r \in requests, Write(r) PROVE FormInv'
  <2>1. PICK new \in RequestType :
          /\ Follows(new, r) /\ new.state = "answered" /\ new.ok
          /\ requests' = (requests \ {r}) \cup {new}
    BY <1>8, PassesStep DEF Write, RequestStates
  <2>2. /\ r \in RequestType /\ r.state = "held"
        /\ saved' = IF r.kind = "remove" THEN saved \ {r.host} ELSE saved \cup {r.host}
        /\ UNCHANGED <<kept, disturbed, listed, reply>>
    BY <1>8 DEF Write, Passes, shownList
  <2> QED
    BY <2>1, <2>2, FollowedAlone DEF RequestType, Follows
<1>9. ASSUME NEW r \in requests, BreaksOff(r) PROVE FormInv'
  <2>1. PICK new \in RequestType : Follows(new, r) /\ requests' = (requests \ {r}) \cup {new}
    BY <1>9, PassesStep DEF BreaksOff, RequestStates
  <2> QED
    BY <1>9, <2>1, FollowedAlone DEF BreaksOff, Passes, store, shownList, Follows
<1>10. ASSUME NEW r \in requests, Created(r) PROVE FormInv'
  BY <1>10 DEF Created, Answered, MadeAlone, store, Ensure
<1>11. ASSUME NEW r \in requests, UpdateAnswered(r) PROVE FormInv'
  <2> DEFINE id == Made(r)
             to(q) == IF q.host = r.host THEN [q EXCEPT !.subject = id] ELSE q
  <2>1. id \in {r.host, Nameless} /\ r.host \in Hosts /\ r.kind = "update"
    BY <1>11 DEF Made, RequestType, UpdateAnswered, Answered
  <2>2. /\ requests' = {to(q) : q \in requests \ {r}}
        /\ listed \subseteq listed' /\ UNCHANGED <<kept, saved, reply, disturbed>>
    BY <1>11 DEF UpdateAnswered, Answered, Ensure, store
  <2>3. ASSUME NEW q \in requests
        PROVE  /\ to(q) \in RequestType /\ to(q).subject \in {to(q).host, Nameless}
               /\ to(q).kind = q.kind /\ to(q).host = q.host /\ to(q).state = q.state
               /\ to(q).ok = q.ok
    BY <2>1 DEF RequestType
  <2> HIDE DEF to, id
  <2>4. /\ \A n \in requests' : \E q \in requests \ {r} : n = to(q)
        /\ \A q \in requests : q.kind = "create" => to(q) \in requests'
    BY <2>1, <2>2
  <2>5. FormType'
    BY <2>2, <2>3, <2>4
  <2>6. MadeAlone'
    BY <2>3, <2>4 DEF MadeAlone
  <2>7. ~disturbed => (Underway /\ Reloading)'
    BY <2>2, <2>3, <2>4
  <2> QED
    BY <2>2, <2>5, <2>6, <2>7
<1>12. ASSUME NEW r \in requests, RemoveAnswered(r) PROVE FormInv'
  <2>1. /\ r.kind = "remove" /\ r.state = "answered" /\ r.subject \in {r.host, Nameless}
        /\ requests' = requests \ {r} /\ listed' = listed \ {r.subject}
        /\ UNCHANGED <<kept, saved, reply, disturbed>>
    BY <1>12 DEF RemoveAnswered, Answered, store, Unlisted
  <2> QED
    BY <2>1, FormAssumption DEF MadeAlone
<1>13. CASE AskLoad
  BY <1>13 DEF AskLoad, MadeAlone, store, shownList, NoReply
<1>14. CASE AnswerLoad
  BY <1>14 DEF AnswerLoad, MadeAlone, store, shownList
<1>15. CASE LoadConnections
  BY <1>15 DEF LoadConnections, MadeAlone, store, NoReply
<1>16. CASE UNCHANGED formVars
  BY <1>16 DEF formVars, MadeAlone, store, shownList
<1> QED
  BY <1>1, <1>2, <1>3, <1>4, <1>5, <1>6, <1>7, <1>8, <1>9, <1>10, <1>11, <1>12, <1>13, <1>14,
     <1>15, <1>16 DEF FormNext

(* When everything was answered and nothing failed, what the server keeps  *)
(* is listed and written, for any number of connections and requests.      *)
THEOREM ConnectionsAreListed == FormSpec => []ConnectionsListed
<1>1. FormInv => ConnectionsListed
  BY DEF FormInv, Underway, ConnectionsListed, AllAnswered
<1> QED
  BY FormInvInit, FormInvStep, <1>1, PTL DEF FormSpec
-----------------------------------------------------------------------------
(* Notify. *)

Stages == {"start", "key", "got", "post", "posted", "end"}
Task0  == [kind : {"none", "subscribe", "unsubscribe"}, at : Stages, sub : Endpoints \cup {None}]

\* What the slots hold: a call that has a subscription in hand says which.
Holds(t) == (t.kind = "none" => t = Idle) /\ (t.at \in {"got", "post", "posted"} => t.sub # None)
MessageType ==
  [kind : Kinds \cup {"none"}, ws : BOOLEAN, push : SUBSET Endpoints, told : Nat, calm : BOOLEAN]

NotifyType ==
  /\ tasks \in [Slots -> Task0]
  /\ \A i \in Slots : Holds(tasks[i])
  /\ sub \in Endpoints \cup {None} /\ server \subseteq Endpoints
  /\ want \in BOOLEAN /\ prompt \in BOOLEAN /\ due \in BOOLEAN /\ open \in BOOLEAN
  /\ account \in BOOLEAN /\ focus \in BOOLEAN /\ enabled \in BOOLEAN /\ crossed \in BOOLEAN
  /\ access \in {"default", "granted", "denied"} /\ reg \in {"none", "asking", "ready"}
  /\ msg \in MessageType

(* The choice of the user reaches the account page while that is open.     *)
ChoiceInv ==
  /\ prompt => want /\ access = "default"
  /\ ~want /\ due => account
  /\ reg = "none" => Active = {}

(* The page knows what the browser has, as soon as it can.                 *)
Knows == (enabled => sub # None) /\ (reg = "ready" => enabled = (sub # None))

(* How far a call has come says where browser and server still differ.     *)
TaskInv(i) ==
  /\ tasks[i].kind = "subscribe" =>
       /\ access = "granted" /\ (want \/ due)
       /\ tasks[i].at \in {"start", "key"} => server = {sub} \ {None} /\ Knows
       /\ tasks[i].at \in {"post", "posted"} => sub # None /\ tasks[i].sub = sub
       /\ tasks[i].at = "post" => server \subseteq {sub}
       /\ tasks[i].at = "posted" => server = {sub}
       /\ tasks[i].at \notin {"got", "end"}
  /\ tasks[i].kind = "unsubscribe" =>
       /\ tasks[i].at \in {"start", "got"} => server = {sub} \ {None} /\ Knows
       /\ tasks[i].at = "got" => sub # None /\ tasks[i].sub = sub
       /\ tasks[i].at = "post" => sub = None /\ server \subseteq {tasks[i].sub}
       /\ tasks[i].at = "posted" => sub = None /\ server = {}
       /\ tasks[i].at \notin {"key", "end"}

(* One call runs at a time, and when none does everybody agrees.           *)
CallsInv ==
  /\ \A i, j \in Active : i = j
  /\ \A i \in Slots : TaskInv(i)
  /\ Active = {} => server = {sub} \ {None} /\ Knows
  /\ Active = {} /\ ~want /\ ~due => sub = None
  /\ sub # None => access = "granted"

NotifyInv == NotifyType /\ ChoiceInv /\ (~crossed => CallsInv)

LEMMA NotifyInvInit == NotifyInit => NotifyInv
<1> SUFFICES ASSUME NotifyInit PROVE NotifyInv
  OBVIOUS
<1>1. Idle \in Task0 /\ Idle.kind = "none" /\ Holds(Idle)
  BY DEF Idle, Task0, Stages, Holds
<1>2. /\ tasks = [i \in Slots |-> Idle] /\ Active = {}
      /\ \A i \in Slots : tasks[i] = Idle
  BY DEF NotifyInit, Active
<1>3. msg \in MessageType
  BY DEF NotifyInit, MessageType
<1>4. NotifyType
  BY <1>1, <1>2, <1>3 DEF NotifyInit, NotifyType
<1>5. ChoiceInv
  BY <1>2 DEF NotifyInit, ChoiceInv
<1>6. CallsInv
  BY <1>1, <1>2 DEF NotifyInit, CallsInv, TaskInv, Knows
<1> QED
  BY <1>4, <1>5, <1>6 DEF NotifyInv

LEMMA RunType ==
  ASSUME NotifyType, NEW i \in Slots, NEW t \in Task0, Holds(t), Run(i, t)
  PROVE  tasks' \in [Slots -> Task0] /\ \A j \in Slots : Holds(tasks'[j])
  BY DEF NotifyType, Run

LEMMA MessageDisturbed ==
  ASSUME NotifyType
  PROVE  /\ [msg EXCEPT !.calm = FALSE] \in MessageType
         /\ [msg EXCEPT !.ws = FALSE, !.calm = FALSE] \in MessageType
  BY DEF NotifyType, MessageType

LEMMA MessageTold ==
  ASSUME NotifyType, NEW n \in Nat, Told(n)
  PROVE  /\ msg' \in MessageType
         /\ msg'.kind = msg.kind /\ msg'.push = msg.push /\ msg'.calm = msg.calm
         /\ msg'.ws = FALSE /\ msg'.told = msg.told + n
<1>1. msg \in MessageType /\ msg.told + n \in Nat
  BY DEF NotifyType, MessageType
<1> QED
  BY <1>1 DEF MessageType, Told

(* The types, and what the choice of the user depends on. *)
LEMMA NotifyTypeStep == NotifyType /\ [NotifyNext]_notifyVars => NotifyType'
<1> SUFFICES ASSUME NotifyType, [NotifyNext]_notifyVars PROVE NotifyType'
  OBVIOUS
<1> USE DEF NotifyType
<1>a. Idle \in Task0 /\ Holds(Idle)
  BY DEF Idle, Task0, Stages, Holds
<1>1. ASSUME NEW w \in BOOLEAN, Save(w) PROVE NotifyType'
  BY <1>1, <1>a, MessageDisturbed DEF Save, Act, Disturb, push, page
<1>2. ASSUME NEW answer \in {"granted", "denied"}, Permit(answer) PROVE NotifyType'
  BY <1>2, <1>a, MessageDisturbed DEF Permit, Disturb, page, push
<1>3. CASE Updated
  <2>1. tasks' \in [Slots -> Task0] /\ \A j \in Slots : Holds(tasks'[j])
    <3>1. ASSUME NEW k \in {"subscribe", "unsubscribe"}
          PROVE  LET t == [kind |-> k, at |-> "start", sub |-> None] IN t \in Task0 /\ Holds(t)
      BY DEF Task0, Stages, Holds
    <3> QED
      BY <1>3, <3>1, RunType DEF Updated
  <2> QED
    BY ZenonT(60), <1>3, <2>1, MessageDisturbed DEF Updated, Disturb, page
<1>4. CASE Visit
  BY <1>4, <1>a, MessageDisturbed DEF Visit, Act, Disturb, choice, push
<1>5. CASE Focus
  BY <1>5, <1>a, MessageDisturbed DEF Focus, Act, Disturb, choice, push
<1>6. CASE Close
  BY <1>6, <1>a, MessageDisturbed DEF Close, Act
<1>7. CASE Open \/ ClickPush
  BY ZenonT(60), <1>7, <1>a, MessageDisturbed DEF Open, ClickPush, OpenPage, Act, Disturb,
     choice, push
<1>8. CASE Register
  BY <1>8, <1>a, MessageDisturbed DEF Register, Disturb, choice, page
<1>9. CASE Registered
  BY <1>9, <1>a, MessageDisturbed DEF Registered, Disturb, choice, page
<1>10. ASSUME NEW i \in Slots, FetchVapid(i) PROVE NotifyType'
  <2> DEFINE t == [tasks[i] EXCEPT !.at = "key"]
  <2>1. t \in Task0 /\ Holds(t)
    BY <1>10, <1>a DEF FetchVapid, At, Holds, Task0, Stages
  <2>2. Run(i, t)
    BY <1>10 DEF FetchVapid
  <2> HIDE DEF t
  <2> QED
    BY <1>10, <2>1, <2>2, RunType, MessageDisturbed DEF FetchVapid, At, Quiet, Disturb, choice, page
<1>11. ASSUME NEW i \in Slots, NoVapid(i) PROVE NotifyType'
  <2>1. Idle \in Task0 /\ Holds(Idle)
    BY <1>a
  <2>2. Run(i, Idle)
    BY <1>11 DEF NoVapid
  <2> QED
    BY <1>11, <2>1, <2>2, RunType, MessageDisturbed DEF NoVapid, At, Quiet, Disturb, choice, page
<1>12. ASSUME NEW i \in Slots, Subscribe(i) PROVE NotifyType'
  <2> DEFINE t == [tasks[i] EXCEPT !.at = "post", !.sub = sub']
  <2>1. t \in Task0 /\ Holds(t)
    <3>1. sub' \in Endpoints
      BY <1>12 DEF Subscribe
    <3>2. sub' # None
      BY <3>1, NotifyAssumption
    <3> QED
      BY <1>12, <3>1, <3>2 DEF Subscribe, At, Holds, Task0, Stages
  <2>2. Run(i, t)
    BY <1>12 DEF Subscribe
  <2> HIDE DEF t
  <2> QED
    BY <1>12, <2>1, <2>2, RunType, MessageDisturbed DEF Subscribe, At, Quiet, Disturb, choice, page
<1>13. ASSUME NEW i \in Slots, Subscribed(i) PROVE NotifyType'
  <2>1. Idle \in Task0 /\ Holds(Idle)
    BY <1>a
  <2>2. Run(i, Idle)
    BY <1>13 DEF Subscribed
  <2> QED
    BY <1>13, <2>1, <2>2, RunType, MessageDisturbed DEF Subscribed, At, Quiet, Disturb, choice, page
<1>14. ASSUME NEW i \in Slots, GetSubscription(i) PROVE NotifyType'
  <2> DEFINE t == IF sub = None THEN Idle ELSE [tasks[i] EXCEPT !.at = "got", !.sub = sub]
  <2>1. t \in Task0 /\ Holds(t)
    BY <1>14, <1>a DEF GetSubscription, At, Holds, Task0, Stages, Idle
  <2>2. Run(i, t)
    BY <1>14 DEF GetSubscription
  <2> HIDE DEF t
  <2> QED
    BY <1>14, <2>1, <2>2, RunType, MessageDisturbed DEF GetSubscription, At, Quiet, Disturb,
       choice, page
<1>15. ASSUME NEW i \in Slots, Unsubscribe(i) PROVE NotifyType'
  <2> DEFINE t == [tasks[i] EXCEPT !.at = "post"]
  <2>1. t \in Task0 /\ Holds(t)
    BY <1>15, <1>a DEF Unsubscribe, At, Holds, Task0, Stages
  <2>2. Run(i, t)
    BY <1>15 DEF Unsubscribe
  <2> HIDE DEF t
  <2> QED
    BY <1>15, <2>1, <2>2, RunType, MessageDisturbed DEF Unsubscribe, At, Quiet, Disturb, choice,
       page
<1>16. ASSUME NEW i \in Slots, Unsubscribed(i) PROVE NotifyType'
  <2>1. Idle \in Task0 /\ Holds(Idle)
    BY <1>a
  <2>2. Run(i, Idle)
    BY <1>16 DEF Unsubscribed
  <2>3. tasks' \in [Slots -> Task0] /\ \A j \in Slots : Holds(tasks'[j])
    BY <2>1, <2>2, RunType
  <2> QED
    BY ZenonT(60), <1>16, <2>3, MessageDisturbed DEF Unsubscribed, Quiet, Disturb, choice, page
<1>17. ASSUME NEW i \in Slots, NEW refused \in BOOLEAN, SubscribeToPush(i, refused) PROVE NotifyType'
  <2> DEFINE t == [tasks[i] EXCEPT !.at = "posted"]
  <2>1. t \in Task0 /\ Holds(t)
    BY <1>17, <1>a DEF SubscribeToPush, At, Holds, Task0, Stages
  <2>2. Run(i, t)
    BY <1>17 DEF SubscribeToPush
  <2> HIDE DEF t
  <2>3. server' \subseteq Endpoints
    BY <1>17 DEF SubscribeToPush, At, Holds, Task0
  <2> QED
    BY <1>17, <2>1, <2>2, <2>3, RunType, MessageDisturbed DEF SubscribeToPush, Quiet, Disturb,
       choice, page
<1>18. ASSUME NEW i \in Slots, NEW refused \in BOOLEAN, UnsubscribeFromPush(i, refused) PROVE NotifyType'
  <2> DEFINE t == [tasks[i] EXCEPT !.at = "posted"]
  <2>1. t \in Task0 /\ Holds(t)
    BY <1>18, <1>a DEF UnsubscribeFromPush, At, Holds, Task0, Stages
  <2>2. Run(i, t)
    BY <1>18 DEF UnsubscribeFromPush
  <2> HIDE DEF t
  <2> QED
    BY <1>18, <2>1, <2>2, RunType, MessageDisturbed DEF UnsubscribeFromPush, At, Quiet, Disturb,
       choice, page
<1>19. ASSUME NEW i \in Slots, Throws(i) PROVE NotifyType'
  <2>1. Idle \in Task0 /\ Holds(Idle)
    BY <1>a
  <2>2. Run(i, Idle)
    BY <1>19 DEF Throws
  <2> QED
    BY <1>19, <2>1, <2>2, RunType, MessageDisturbed DEF Throws, At, Quiet, Disturb, choice, page
<1>20. CASE Expire
  BY <1>20, <1>a, MessageDisturbed DEF Expire, Quiet, Disturb, choice, page
<1>21. ASSUME NEW sort \in Kinds, Send(sort) PROVE NotifyType'
  <2>1. msg' \in MessageType
    BY <1>21 DEF Send, MessageType, Settled
  <2> QED
    BY <1>21, <2>1 DEF Send, Act, choice, page, push
<1>22. CASE Show
  <2>1. msg' \in MessageType
    BY <1>22, MessageTold DEF Show
  <2> QED
    BY <1>22, <2>1 DEF Show, Told, choice, page, push
<1>23. ASSUME NEW e \in Endpoints, Push(e) PROVE NotifyType'
  <2>1. /\ msg.push \ {e} \in SUBSET Endpoints /\ msg.told + 1 \in Nat
        /\ (IF e = sub /\ ~focus THEN msg.told + 1 ELSE msg.told) \in Nat
    BY DEF MessageType
  <2>2. msg' \in MessageType
    BY <1>23, <2>1 DEF Push, MessageType
  <2> QED
    BY <1>23, <2>2 DEF Push, choice, page
<1>24. CASE UNCHANGED notifyVars
  BY <1>24, <1>a, MessageDisturbed DEF notifyVars, choice, page, push
<1> HIDE DEF NotifyType
<1> QED
  BY <1>1, <1>2, <1>3, <1>4, <1>5, <1>6, <1>7, <1>8, <1>9, <1>10, <1>11, <1>12, <1>13, <1>14,
     <1>15, <1>16, <1>17, <1>18, <1>19, <1>20, <1>21, <1>22, <1>23, <1>24
     DEF NotifyNext, Task

LEMMA ChoiceInvStep == NotifyType /\ ChoiceInv /\ [NotifyNext]_notifyVars => ChoiceInv'
<1> SUFFICES ASSUME NotifyType, ChoiceInv, [NotifyNext]_notifyVars PROVE ChoiceInv'
  OBVIOUS
<1> USE DEF NotifyType, Holds, ChoiceInv, Active, Task0, Stages, Idle
<1>1. ASSUME NEW w \in BOOLEAN, Save(w) PROVE ChoiceInv'
  BY <1>1 DEF Save, Act, Disturb, push, page
<1>2. ASSUME NEW answer \in {"granted", "denied"}, Permit(answer) PROVE ChoiceInv'
  BY <1>2 DEF Permit, Disturb, page, push
<1>3. CASE Updated
  BY <1>3 DEF Updated, Disturb, Run, page
<1>4. CASE Visit
  BY <1>4 DEF Visit, Act, Disturb, choice, push
<1>5. CASE Focus
  BY <1>5 DEF Focus, Act, Disturb, choice, push
<1>6. CASE Close
  BY <1>6 DEF Close, Act
<1>7. CASE Open \/ ClickPush
  BY <1>7 DEF Open, ClickPush, OpenPage, Act, Disturb, choice, push
<1>8. CASE Register
  BY <1>8 DEF Register, Disturb, choice, page
<1>9. CASE Registered
  BY <1>9 DEF Registered, Disturb, choice, page
<1>10. ASSUME NEW i \in Slots, FetchVapid(i) PROVE ChoiceInv'
  BY <1>10 DEF FetchVapid, At, Run, Quiet, Disturb, choice, page
<1>11. ASSUME NEW i \in Slots, NoVapid(i) PROVE ChoiceInv'
  BY <1>11 DEF NoVapid, At, Run, Quiet, Disturb, choice, page
<1>12. ASSUME NEW i \in Slots, Subscribe(i) PROVE ChoiceInv'
  BY <1>12 DEF Subscribe, At, Run, Quiet, Disturb, choice, page
<1>13. ASSUME NEW i \in Slots, Subscribed(i) PROVE ChoiceInv'
  BY <1>13 DEF Subscribed, At, Run, Quiet, Disturb, choice, page
<1>14. ASSUME NEW i \in Slots, GetSubscription(i) PROVE ChoiceInv'
  <2> DEFINE t == IF sub = None THEN Idle ELSE [tasks[i] EXCEPT !.at = "got", !.sub = sub]
  <2>1. /\ sub = None => t = Idle
        /\ sub # None => t.kind = "unsubscribe" /\ t.at = "got" /\ t.sub = sub
        /\ tasks[i].kind = "unsubscribe" /\ tasks[i].at = "start"
    BY <1>14 DEF GetSubscription, At
  <2>2. tasks' = [tasks EXCEPT ![i] = t]
    BY <1>14 DEF GetSubscription, Run
  <2> HIDE DEF t
  <2> QED
    BY <1>14, <2>1, <2>2 DEF GetSubscription, Quiet, Disturb, choice, page
<1>15. ASSUME NEW i \in Slots, Unsubscribe(i) PROVE ChoiceInv'
  BY <1>15 DEF Unsubscribe, At, Run, Quiet, Disturb, choice, page
<1>16. ASSUME NEW i \in Slots, Unsubscribed(i) PROVE ChoiceInv'
  BY <1>16 DEF Unsubscribed, At, Run, Quiet, Disturb, choice, page
<1>17. ASSUME NEW i \in Slots, NEW refused \in BOOLEAN, SubscribeToPush(i, refused) PROVE ChoiceInv'
  BY <1>17 DEF SubscribeToPush, At, Run, Quiet, Disturb, choice, page
<1>18. ASSUME NEW i \in Slots, NEW refused \in BOOLEAN, UnsubscribeFromPush(i, refused) PROVE ChoiceInv'
  BY <1>18 DEF UnsubscribeFromPush, At, Run, Quiet, Disturb, choice, page
<1>19. ASSUME NEW i \in Slots, Throws(i) PROVE ChoiceInv'
  BY <1>19 DEF Throws, At, Run, Quiet, Disturb, choice, page
<1>20. CASE Expire
  BY <1>20 DEF Expire, Quiet, Disturb, choice, page
<1>21. ASSUME NEW sort \in Kinds, Send(sort) PROVE ChoiceInv'
  BY <1>21 DEF Send, Act, choice, page, push
<1>22. CASE Show
  BY <1>22 DEF Show, Told, choice, page, push
<1>23. ASSUME NEW e \in Endpoints, Push(e) PROVE ChoiceInv'
  BY <1>23 DEF Push, choice, page
<1>24. CASE UNCHANGED notifyVars
  BY <1>24 DEF notifyVars, choice, page, push
<1> HIDE DEF NotifyType, Holds, ChoiceInv, Active, Task0, Stages, Idle
<1> QED
  BY <1>1, <1>2, <1>3, <1>4, <1>5, <1>6, <1>7, <1>8, <1>9, <1>10, <1>11, <1>12, <1>13, <1>14,
     <1>15, <1>16, <1>17, <1>18, <1>19, <1>20, <1>21, <1>22, <1>23, <1>24
     DEF NotifyNext, Task

LEMMA CallsInvStep == NotifyInv /\ ~crossed' /\ [NotifyNext]_notifyVars => CallsInv'
<1> SUFFICES ASSUME NotifyInv, ~crossed', [NotifyNext]_notifyVars PROVE CallsInv'
  OBVIOUS
<1> USE DEF NotifyInv, NotifyType, Holds, ChoiceInv, CallsInv, TaskInv, Knows, Active, Task0, Stages, Idle
<1>1. ASSUME NEW w \in BOOLEAN, Save(w) PROVE CallsInv'
  BY <1>1 DEF Save, Act, Disturb, push, page
<1>2. ASSUME NEW answer \in {"granted", "denied"}, Permit(answer) PROVE CallsInv'
  BY <1>2 DEF Permit, Disturb, page, push
<1>3. CASE Updated
  BY <1>3 DEF Updated, Disturb, Run, page
<1>4. CASE Visit
  BY <1>4 DEF Visit, Act, Disturb, choice, push
<1>5. CASE Focus
  BY <1>5 DEF Focus, Act, Disturb, choice, push
<1>6. CASE Close
  BY <1>6 DEF Close, Act
<1>7. CASE Open \/ ClickPush
  BY <1>7 DEF Open, ClickPush, OpenPage, Act, Disturb, choice, push
<1>8. CASE Register
  BY <1>8 DEF Register, Disturb, choice, page
<1>9. CASE Registered
  BY <1>9 DEF Registered, Disturb, choice, page
<1>10. ASSUME NEW i \in Slots, FetchVapid(i) PROVE CallsInv'
  BY <1>10 DEF FetchVapid, At, Run, Quiet, Disturb, choice, page
<1>11. ASSUME NEW i \in Slots, NoVapid(i) PROVE CallsInv'
  BY <1>11 DEF NoVapid, At, Run, Quiet, Disturb, choice, page
<1>12. ASSUME NEW i \in Slots, Subscribe(i) PROVE CallsInv'
  <2> DEFINE t == [tasks[i] EXCEPT !.at = "post", !.sub = sub']
  <2>1. /\ t.kind = "subscribe" /\ t.at = "post" /\ t.sub = sub' /\ sub' \in Endpoints
        /\ sub' # None /\ (sub # None => sub' = sub)
        /\ tasks[i].kind = "subscribe" /\ tasks[i].at = "key"
    BY <1>12, NotifyAssumption DEF Subscribe, At
  <2>2. tasks' = [tasks EXCEPT ![i] = t]
    BY <1>12 DEF Subscribe, Run
  <2> HIDE DEF t
  <2> QED
    BY <1>12, <2>1, <2>2 DEF Subscribe, Quiet, Disturb, choice, page
<1>13. ASSUME NEW i \in Slots, Subscribed(i) PROVE CallsInv'
  <2>1. /\ tasks[i].kind = "subscribe" /\ tasks[i].at = "posted"
        /\ tasks' = [tasks EXCEPT ![i] = Idle] /\ enabled' = TRUE
        /\ UNCHANGED <<sub, server, access, want, due, crossed>>
    BY <1>13 DEF Subscribed, At, Run, Quiet, choice
  <2>2. sub # None /\ server = {sub} /\ access = "granted" /\ (want \/ due)
    BY <2>1
  <2>3. \A j \in Slots : tasks'[j] = Idle
    BY <2>1
  <2>4. Active' = {} /\ \A j \in Slots : TaskInv(j)'
    BY <2>3
  <2>5. /\ Knows' /\ server' = {sub'} \ {None} /\ sub' # None /\ access' = "granted"
        /\ want' \/ due'
    BY <2>1, <2>2
  <2> HIDE DEF Active, TaskInv, Knows
  <2> QED
    BY <2>4, <2>5
<1>14. ASSUME NEW i \in Slots, GetSubscription(i) PROVE CallsInv'
  <2> DEFINE t == IF sub = None THEN Idle ELSE [tasks[i] EXCEPT !.at = "got", !.sub = sub]
  <2>1. /\ sub = None => t = Idle
        /\ sub # None => t.kind = "unsubscribe" /\ t.at = "got" /\ t.sub = sub
        /\ tasks[i].kind = "unsubscribe" /\ tasks[i].at = "start"
    BY <1>14 DEF GetSubscription, At
  <2>2. tasks' = [tasks EXCEPT ![i] = t]
    BY <1>14 DEF GetSubscription, Run
  <2> HIDE DEF t
  <2> QED
    BY <1>14, <2>1, <2>2 DEF GetSubscription, Quiet, Disturb, choice, page
<1>15. ASSUME NEW i \in Slots, Unsubscribe(i) PROVE CallsInv'
  BY <1>15 DEF Unsubscribe, At, Run, Quiet, Disturb, choice, page
<1>16. ASSUME NEW i \in Slots, Unsubscribed(i) PROVE CallsInv'
  BY ZenonT(60), <1>16 DEF Unsubscribed, At, Run, Quiet, Disturb, choice, page
<1>17. ASSUME NEW i \in Slots, NEW refused \in BOOLEAN, SubscribeToPush(i, refused) PROVE CallsInv'
  BY <1>17 DEF SubscribeToPush, At, Run, Quiet, Disturb, choice, page
<1>18. ASSUME NEW i \in Slots, NEW refused \in BOOLEAN, UnsubscribeFromPush(i, refused) PROVE CallsInv'
  BY <1>18 DEF UnsubscribeFromPush, At, Run, Quiet, Disturb, choice, page
<1>19. ASSUME NEW i \in Slots, Throws(i) PROVE CallsInv'
  BY <1>19 DEF Throws, At, Run, Quiet, Disturb, choice, page
<1>20. CASE Expire
  BY <1>20 DEF Expire, Quiet, Disturb, choice, page
<1>21. ASSUME NEW sort \in Kinds, Send(sort) PROVE CallsInv'
  BY <1>21 DEF Send, Act, choice, page, push
<1>22. CASE Show
  BY <1>22 DEF Show, Told, choice, page, push
<1>23. ASSUME NEW e \in Endpoints, Push(e) PROVE CallsInv'
  BY <1>23 DEF Push, choice, page
<1>24. CASE UNCHANGED notifyVars
  BY <1>24 DEF notifyVars, choice, page, push
<1> HIDE DEF NotifyInv, NotifyType, Holds, ChoiceInv, CallsInv, TaskInv, Knows, Active, Task0, Stages, Idle
<1> QED
  BY <1>1, <1>2, <1>3, <1>4, <1>5, <1>6, <1>7, <1>8, <1>9, <1>10, <1>11, <1>12, <1>13, <1>14,
     <1>15, <1>16, <1>17, <1>18, <1>19, <1>20, <1>21, <1>22, <1>23, <1>24
     DEF NotifyNext, Task

LEMMA NotifyInvStep == NotifyInv /\ [NotifyNext]_notifyVars => NotifyInv'
<1> QED
  BY NotifyTypeStep, ChoiceInvStep, CallsInvStep DEF NotifyInv

(* When the calls have come to their end, one after the other, browser,    *)
(* page and server agree, for any number of subscriptions and calls.       *)
THEOREM EndpointsAgree == NotifySpec => []AllAgree
<1>1. NotifyInv => AllAgree
  BY DEF NotifyInv, NotifyType, CallsInv, Knows, AllAgree, Settled
<1> QED
  BY NotifyInvInit, NotifyInvStep, <1>1, PTL DEF NotifySpec

(* A highlight that nothing has disturbed is told of by the worker if there*)
(* is a subscription, and otherwise by the page.                            *)
ToldByOne ==
  /\ Settled /\ (msg.ws => open)
  /\ sub # None => \/ msg.push = {sub} /\ msg.told = 0
                   \/ msg.push = {} /\ msg.told = IF focus THEN 0 ELSE 1
  /\ sub = None => /\ msg.push = {}
                   /\ msg.told = IF want /\ ~focus /\ open /\ ~msg.ws THEN 1 ELSE 0

ToldInv == NotifyInv /\ (msg.calm /\ msg.kind = "highlight" /\ ~crossed => ToldByOne)

LEMMA ToldInvStep == ToldInv /\ [NotifyNext]_notifyVars => ToldInv'
<1> SUFFICES ASSUME ToldInv, [NotifyNext]_notifyVars, (msg.calm /\ msg.kind = "highlight" /\ ~crossed)'
             PROVE  ToldByOne'
  BY NotifyInvStep DEF ToldInv
<1>a. msg \in MessageType /\ NotifyInv /\ NotifyType
  BY DEF ToldInv, NotifyInv, NotifyType
<1>1. CASE Disturb
  BY <1>a, <1>1 DEF Disturb, MessageType
<1>2. CASE Close
  BY <1>a, <1>2 DEF Close, MessageType
<1>3. ASSUME NEW sort \in Kinds, Send(sort) PROVE ToldByOne'
  <2>1. /\ msg'.ws = open /\ msg'.push = server /\ msg'.told = 0 /\ Settled
        /\ UNCHANGED <<choice, page, push, crossed>>
    BY <1>3 DEF Send
  <2>2. server = {sub} \ {None}
    BY <1>a, <2>1 DEF NotifyInv, CallsInv, Settled
  <2> QED
    BY <2>1, <2>2 DEF ToldByOne, choice, page, push, Settled, Active
<1>4. CASE Show
  <2> DEFINE n == IF Unseen /\ want /\ ~(access = "granted" /\ enabled) THEN 1 ELSE 0
  <2>1. /\ msg.ws /\ Told(n) /\ UNCHANGED <<choice, page, push, crossed>>
    BY <1>4 DEF Show
  <2>2. /\ msg'.kind = msg.kind /\ msg'.push = msg.push /\ msg'.calm = msg.calm
        /\ msg'.ws = FALSE /\ msg'.told = msg.told + n
    BY <1>a, <2>1, MessageTold
  <2>3. ToldByOne /\ CallsInv
    BY <2>1, <2>2 DEF ToldInv, NotifyInv
  <2>4. msg.told \in Nat /\ enabled = (sub # None) /\ (sub # None => access = "granted")
    BY <1>a, <2>3 DEF NotifyType, CallsInv, Knows, ToldByOne, Settled, MessageType
  <2>5. /\ sub # None => n = 0
        /\ sub = None => n = IF want /\ ~focus THEN 1 ELSE 0
    BY <1>a, <2>4 DEF Unseen, NotifyType
  <2> HIDE DEF n
  <2>6. /\ sub # None => msg'.told = msg.told
        /\ sub = None => msg'.push = {} /\ msg'.told = IF want /\ ~focus /\ open THEN 1 ELSE 0
    BY <1>a, <2>1, <2>2, <2>3, <2>4, <2>5 DEF ToldByOne, NotifyType
  <2>7. Settled' /\ UNCHANGED <<open, want, focus, sub>>
    BY <2>1, <2>3 DEF ToldByOne, choice, page, push, Settled, Active
  <2> QED
    BY <1>a, <2>2, <2>3, <2>6, <2>7 DEF ToldByOne, NotifyType
<1>5. ASSUME NEW e \in Endpoints, Push(e) PROVE ToldByOne'
  <2>1. /\ e \in msg.push /\ UNCHANGED <<choice, page, enabled, reg, sub, tasks, crossed>>
        /\ msg' = [msg EXCEPT !.push = @ \ {e}, !.told = IF e = sub /\ ~focus THEN @ + 1 ELSE @]
    BY <1>5 DEF Push
  <2>2. /\ msg'.push = msg.push \ {e} /\ msg'.ws = msg.ws
        /\ msg'.told = IF e = sub /\ ~focus THEN msg.told + 1 ELSE msg.told
        /\ msg'.calm = msg.calm /\ msg'.kind = msg.kind
    BY <1>a, <2>1 DEF MessageType
  <2>3. ToldByOne
    BY <2>1, <2>2 DEF ToldInv
  <2>4. sub # None /\ msg.push = {sub} /\ msg.told = 0 /\ e = sub
    BY <2>1, <2>3 DEF ToldByOne
  <2> HIDE DEF ToldInv
  <2> QED
    BY <2>1, <2>2, <2>3, <2>4 DEF ToldByOne, choice, page, Settled, Active
<1>6. CASE UNCHANGED notifyVars
  BY <1>6 DEF ToldInv, ToldByOne, notifyVars, choice, page, push, Settled, Active
<1>7. \/ Disturb \/ Close \/ Show \/ UNCHANGED notifyVars
      \/ \E sort \in Kinds : Send(sort)
      \/ \E e \in Endpoints : Push(e)
  BY DEF NotifyNext, Task, Save, Permit, Updated, Visit, Focus, Open, ClickPush, OpenPage, Register,
         Registered, Quiet, FetchVapid, NoVapid, Subscribe, Subscribed, GetSubscription, Unsubscribe,
         Unsubscribed, SubscribeToPush, UnsubscribeFromPush, Throws, Expire
<1> QED
  BY <1>1, <1>2, <1>3, <1>4, <1>5, <1>6, <1>7

(* A highlight that reaches a user who wants to know of it and does not    *)
(* look is told of exactly once, by the page or by the worker, for any     *)
(* number of subscriptions, calls and messages.                             *)
THEOREM HighlightToldOnce == NotifySpec => []ToldOnce
<1>1. NotifyInit => ToldInv
  <2> SUFFICES ASSUME NotifyInit PROVE ToldInv
    OBVIOUS
  <2>1. msg.calm = FALSE
    BY DEF NotifyInit
  <2> QED
    BY <2>1, NotifyInvInit DEF ToldInv
<1>2. ToldInv => ToldOnce
  <2> SUFFICES ASSUME ToldInv, Over, msg.calm, msg.kind = "highlight", ~crossed
               PROVE  msg.told = IF want /\ ~focus /\ (open \/ sub # None) THEN 1 ELSE 0
    BY DEF ToldOnce
  <2>1. ToldByOne /\ (~want => sub = None) /\ ~msg.ws /\ msg.push = {}
    BY DEF ToldInv, NotifyInv, CallsInv, ToldByOne, Settled, Over
  <2> QED
    BY <2>1 DEF ToldByOne
<1> QED
  BY <1>1, ToldInvStep, <1>2, PTL DEF NotifySpec

-----------------------------------------------------------------------------
(* Navigation.  Whoever is signed in and on a page for guests has come     *)
(* there from a page that is rendered, and the update that will take him   *)
(* away is under way; and what is remembered as the last page is none of   *)
(* these, nor the root.                                                     *)
NavigationType ==
  /\ \E S : stack \in Seq(S)
  /\ at \in 1..Len(stack)
  /\ email \in BOOLEAN /\ session \in BOOLEAN /\ strayed \in BOOLEAN
  /\ status \in {"pending", "loading", "success", "error"}

EntryInv ==
  /\ lastUrl # "root"
  /\ ~strayed => lastUrl \notin Guest
  /\ email => session
  /\ view = "inner" => email
  /\ email /\ location = "root" => dirty # {}
  /\ ~strayed /\ email /\ location \in Guest =>
       status = "success" /\ view # "inner" /\ dirty # {}

NavigationInv == NavigationType /\ EntryInv

\* To go is to be at the page one goes to.
LEMMA GoArrives ==
  ASSUME NEW list, NEW url, NEW replace \in BOOLEAN, NavigationType, Go(list, url, replace)
  PROVE  /\ \E S : stack' \in Seq(S)
         /\ at' \in 1..Len(stack')
         /\ location' = url
<1>1. PICK S : stack \in Seq(S)
  BY DEF NavigationType
<1>2. at \in 1..Len(stack) /\ Len(stack) \in Nat
  BY <1>1 DEF NavigationType
<1>3. CASE url = location
  BY <1>1, <1>2, <1>3 DEF Go, window, location
<1>4. CASE url # location
  <2>1. /\ at' = IF replace THEN at ELSE at + 1
        /\ stack' = Append(SubSeq(stack, 1, at' - 1), url)
    BY <1>4 DEF Go
  <2>2. at' \in Nat \ {0} /\ at' - 1 \in 0..Len(stack)
    BY <1>2, <2>1
  <2>3. stack \in Seq(S \cup {url})
    BY <1>1
  <2>4. SubSeq(stack, 1, at' - 1) \in Seq(S \cup {url}) /\ Len(SubSeq(stack, 1, at' - 1)) = at' - 1
    <3>1. ASSUME NEW k \in 0..Len(stack)
          PROVE  SubSeq(stack, 1, k) \in Seq(S \cup {url}) /\ Len(SubSeq(stack, 1, k)) = k
      BY <1>2, <2>3
    <3> QED
      BY <2>2, <3>1
  <2>5. /\ stack' \in Seq(S \cup {url}) /\ Len(stack') = at' /\ stack'[at'] = url
    BY <2>1, <2>2, <2>4
  <2> QED
    BY <2>2, <2>5 DEF location
<1> QED
  BY <1>3, <1>4

\* A page that is loaded is one of a user nobody knows.
LEMMA LoadsKeeps ==
  ASSUME NavigationInv, NEW url, Loads(url), UNCHANGED <<lastUrl, strayed>>, session' \in BOOLEAN
  PROVE  NavigationInv'
<1>1. stack' \in Seq({url}) /\ at' \in 1..Len(stack')
  BY DEF Loads
<1>2. NavigationType'
  BY <1>1 DEF NavigationInv, NavigationType, Loads
<1>3. EntryInv'
  BY DEF NavigationInv, EntryInv, Loads
<1> QED
  BY <1>2, <1>3 DEF NavigationInv

\* So is what a person does who goes somewhere else.
LEMMA MovedKeeps ==
  ASSUME NavigationInv, Moved, UNCHANGED <<person, lastUrl, view>>,
         \E S : stack' \in Seq(S), at' \in 1..Len(stack')
  PROVE  NavigationInv'
<1>1. strayed' = (strayed \/ (email /\ location' \in Guest /\ ~(view = "page" /\ status = "success")))
  BY DEF Moved
<1>2. location' # location => "route" \in dirty'
  BY DEF Moved
<1>3. dirty \subseteq dirty'
  BY DEF Moved
<1>4. NavigationType'
  BY <1>1 DEF NavigationInv, NavigationType, person
<1>5. EntryInv'
  BY <1>1, <1>2, <1>3 DEF NavigationInv, NavigationType, EntryInv, person
<1> QED
  BY <1>4, <1>5 DEF NavigationInv

LEMMA NavigationInvInit == NavigationInit => NavigationInv
<1> SUFFICES ASSUME NavigationInit PROVE NavigationInv
  OBVIOUS
<1>1. PICK p \in Pages : stack = <<p>>
  BY DEF NavigationInit
<1>2. stack \in Seq(Pages) /\ at \in 1..Len(stack)
  BY <1>1 DEF NavigationInit
<1>3. NavigationType
  BY <1>2 DEF NavigationInit, NavigationType
<1>4. EntryInv
  BY NavigationAssumption DEF NavigationInit, EntryInv, Guest
<1> QED
  BY <1>3, <1>4 DEF NavigationInv

LEMMA RenderedStep ==
  ASSUME NavigationInv, NEW r \in {"route", "user"}, Rendered(r)
  PROVE  NavigationInv'
<1> DEFINE url == IF Redirect(r) THEN Start
                  ELSE IF location # "root" THEN location
                  ELSE IF email THEN (IF lastUrl # Nowhere THEN lastUrl ELSE "elsewhere")
                  ELSE "login"
<1>1. Go(history, url, TRUE)
  BY DEF Rendered
<1>2. /\ \E S : stack' \in Seq(S)
      /\ at' \in 1..Len(stack')
      /\ location' = url
  <2> HIDE DEF url
  <2> QED
    BY <1>1, GoArrives DEF NavigationInv
<1>3. NavigationType'
  BY <1>2 DEF NavigationInv, NavigationType, Rendered, person
<1>4. Start # "root" /\ (~strayed => Start \notin Guest)
  BY NavigationAssumption DEF Start, NavigationInv, EntryInv, Guest
<1>5. email => url # "root"
  BY <1>4 DEF NavigationInv, EntryInv
<1>6. ASSUME ~strayed, email PROVE url \notin Guest
  <2>1. CASE location \in Guest
    <3>1. Redirect(r)
      BY <1>6, <2>1 DEF NavigationInv, EntryInv, Redirect, View
    <3> QED
      BY <1>4, <1>6, <3>1
  <2>2. CASE location \notin Guest
    BY <1>4, <1>6, <2>2 DEF NavigationInv, EntryInv, Guest
  <2> QED
    BY <2>1, <2>2
<1>7. View = "inner" => email
  BY DEF View
<1>8. lastUrl' = lastUrl \/ (email /\ lastUrl' = url)
  BY <1>2 DEF Rendered
<1> HIDE DEF url
<1>9. view' = View /\ UNCHANGED <<status, email, session, strayed>>
  BY DEF Rendered, person
<1> QED
  BY <1>2, <1>3, <1>5, <1>6, <1>7, <1>8, <1>9 DEF NavigationInv, EntryInv

LEMMA NavigationInvStep == NavigationInv /\ [NavigationNext]_routeVars => NavigationInv'
<1> SUFFICES ASSUME NavigationInv, [NavigationNext]_routeVars PROVE NavigationInv'
  OBVIOUS
<1>1. ASSUME NEW url \in Pages, Click(url) PROVE NavigationInv'
  BY <1>1, GoArrives, MovedKeeps DEF Click, NavigationInv
<1>2. ASSUME NEW url \in Pages, Type(url) PROVE NavigationInv'
  BY <1>2, LoadsKeeps DEF Type, NavigationInv, NavigationType
<1>3. ASSUME NEW to \in DOMAIN stack, Traverse(to) PROVE NavigationInv'
  <2>1. PICK S : stack \in Seq(S)
    BY DEF NavigationInv, NavigationType
  <2>2. stack' = stack /\ at' \in 1..Len(stack)
    BY <1>3, <2>1 DEF Traverse
  <2> QED
    BY <1>3, <2>1, <2>2, MovedKeeps DEF Traverse
<1>4. CASE Logout
  BY <1>4, LoadsKeeps DEF Logout
<1>5. CASE SubmitForm
  BY <1>5 DEF SubmitForm, NavigationInv, NavigationType, EntryInv, location, window
<1>6. CASE Load
  BY <1>6 DEF Load, NavigationInv, NavigationType, EntryInv, location, window
<1>7. CASE Loaded
  BY <1>7 DEF Loaded, NavigationInv, NavigationType, EntryInv, location, window
<1>8. CASE Closed
  BY <1>8 DEF Closed, NavigationInv, NavigationType, EntryInv, location, window
<1>9. CASE Part
  BY <1>9 DEF Part, NavigationInv, NavigationType, EntryInv, location, window, person
<1>10. CASE Parted
  BY <1>10, GoArrives, MovedKeeps DEF Parted, NavigationInv
<1>11. CASE UNCHANGED routeVars
  BY <1>11 DEF routeVars, NavigationInv, NavigationType, EntryInv, location, window, person
<1> QED
  BY <1>1, <1>2, <1>3, <1>4, <1>5, <1>6, <1>7, <1>8, <1>9, <1>10, <1>11,
     RenderedStep DEF NavigationNext

(* A user who is signed in comes away from the pages for guests and from   *)
(* the root, unless he went to one of them while nothing else was rendered *)
(* (Login.svelte:25-30 and App.svelte:100-106).                              *)
THEOREM EntryIsLeft == NavigationSpec => []LeavesEntry
<1>1. NavigationInv => LeavesEntry
  BY DEF NavigationInv, EntryInv, LeavesEntry, Calm
<1> QED
  BY <1>1, NavigationInvInit, NavigationInvStep, PTL DEF NavigationSpec

-----------------------------------------------------------------------------
(* Array.filter.  What a set of numbers contains for all numbers is proved *)
(* by the least that it does not contain; so is what a recursive function  *)
(* computes.                                                                *)
\* Induction over the numbers, for a set in place of a predicate.
LEMMA Induction ==
  ASSUME NEW S, 0 \in S, \A n \in Nat : n \in S => n + 1 \in S
  PROVE  Nat \subseteq S
<1> DEFINE T == Nat \ S
           R == OpToRel(<, Nat)
<1> SUFFICES ASSUME T # {} PROVE FALSE
  OBVIOUS
<1>1. PICK x \in T : \A y \in T : ~(<<y, x>> \in R)
  <2>1. IsWellFoundedOn(R, Nat)
    BY NatLessThanWellFounded
  <2>2. T \subseteq Nat
    OBVIOUS
  <2> HIDE DEF T, R
  <2> QED
    BY <2>1, <2>2, WFMin
<1>2. x \in Nat /\ x # 0 /\ x - 1 \in Nat /\ x - 1 < x
  OBVIOUS
<1>3. <<x - 1, x>> \in R
  BY <1>2 DEF OpToRel
<1>4. x - 1 \in S
  BY <1>1, <1>2, <1>3
<1>5. (x - 1) + 1 = x
  BY <1>2
<1> QED
  BY <1>2, <1>4, <1>5

\* A function is made from 0 to n by steps that stay in a set.
IsMade(n, Q, start, step) ==
  \E f \in [0..n -> Q] : f[0] = start /\ \A i \in 1..n : f[i] = step[i][f[i - 1]]

\* A function that is made step by step exists.
LEMMA Recursion ==
  ASSUME NEW n \in Nat, NEW Q, NEW start \in Q, NEW step \in [1..n -> [Q -> Q]]
  PROVE  IsMade(n, Q, start, step)
<1> DEFINE Grown(k, g) == g[0] = start /\ \A i \in 1..k : g[i] = step[i][g[i - 1]]
           K == {k \in Nat : k <= n => \E g \in [0..k -> Q] : Grown(k, g)}
<1>1. 0 \in K
  <2> DEFINE g == [i \in 0..0 |-> start]
  <2>1. g \in [0..0 -> Q] /\ Grown(0, g)
    OBVIOUS
  <2> QED
    BY <2>1
<1>2. ASSUME NEW k \in Nat, k \in K PROVE k + 1 \in K
  <2> SUFFICES ASSUME k + 1 <= n PROVE \E h \in [0..(k + 1) -> Q] : Grown(k + 1, h)
    OBVIOUS
  <2>1. PICK g \in [0..k -> Q] : Grown(k, g)
    BY <1>2
  <2>2. k \in 0..k /\ k + 1 \in 1..n /\ (k + 1) - 1 = k /\ g[k] \in Q
    OBVIOUS
  <2>3. PICK v \in Q : v = step[k + 1][g[k]]
    BY <2>2
  <2> DEFINE h == [i \in 0..(k + 1) |-> IF i = k + 1 THEN v ELSE g[i]]
  <2>4. h \in [0..(k + 1) -> Q] /\ h[k + 1] = v /\ \A i \in 0..k : h[i] = g[i]
    OBVIOUS
  <2> HIDE DEF h
  <2>5. h[0] = start
    BY <2>1, <2>4
  <2>6. ASSUME NEW i \in 1..(k + 1) PROVE h[i] = step[i][h[i - 1]]
    <3>1. CASE i = k + 1
      BY <2>2, <2>3, <2>4, <3>1
    <3>2. CASE i # k + 1
      <4>1. i \in 1..k /\ i \in 0..k /\ i - 1 \in 0..k
        BY <3>2
      <4> QED
        BY <2>1, <2>4, <4>1
    <3> QED
      BY <3>1, <3>2
  <2> QED
    BY <2>4, <2>5, <2>6
<1>3. n \in K
  <2> HIDE DEF K
  <2> QED
    BY <1>1, <1>2, Induction
<1> QED
  BY <1>3 DEF IsMade

\* What filters a list takes its elements one by one.
Takes(f, s, keep, S) ==
  /\ f \in [0..Len(s) -> Seq(S)] /\ f[0] = <<>>
  /\ \A i \in 1..Len(s) : f[i] = IF i \in keep THEN Append(f[i - 1], s[i]) ELSE f[i - 1]

\* What Filtered computes.
LEMMA FilteredMade ==
  ASSUME NEW S, NEW s \in Seq(S), NEW keep \in SUBSET (1..Len(s))
  PROVE  \E f : Takes(f, s, keep, S) /\ Filtered(s, keep) = f[Len(s)]
<1> DEFINE n == Len(s)
           Q == Seq(S)
           Body(g, i) == IF i = 0 THEN <<>> ELSE IF i \in keep THEN Append(g[i - 1], s[i]) ELSE g[i - 1]
           f == CHOOSE g : g = [i \in 0..n |-> Body(g, i)]
           step == [i \in 1..n |-> [q \in Q |-> IF i \in keep THEN Append(q, s[i]) ELSE q]]
<1>1. n \in Nat /\ \A i \in 1..n : s[i] \in S
  OBVIOUS
<1>2. Filtered(s, keep) = f[n]
  BY DEF Filtered
<1>3. <<>> \in Q /\ \A i \in 1..n, q \in Q : (IF i \in keep THEN Append(q, s[i]) ELSE q) \in Q
  BY <1>1
<1>4. step \in [1..n -> [Q -> Q]]
      /\ \A i \in 1..n, q \in Q : step[i][q] = IF i \in keep THEN Append(q, s[i]) ELSE q
  <2> HIDE DEF Q, n
  <2> QED
    BY <1>3
<1>5. f \in [0..n -> Q] /\ \A i \in 0..n : f[i] = Body(f, i)
  <2>1. PICK g \in [0..n -> Q] : g[0] = <<>> /\ \A i \in 1..n : g[i] = step[i][g[i - 1]]
    <3> HIDE DEF Q, n, step
    <3>1. n \in Nat /\ <<>> \in Q /\ step \in [1..n -> [Q -> Q]]
      BY <1>1, <1>3, <1>4
    <3>2. IsMade(n, Q, <<>>, step)
      BY <3>1, Recursion
    <3> QED
      BY <3>2 DEF IsMade
  <2>2. ASSUME NEW i \in 0..n PROVE g[i] = Body(g, i)
    <3>1. CASE i = 0
      BY <2>1, <3>1
    <3>2. CASE i # 0
      <4>1. i \in 1..n /\ i - 1 \in 0..n /\ g[i - 1] \in Q
        <5> HIDE DEF Q, n
        <5> QED
          BY <1>1, <3>2
      <4> HIDE DEF Q, n, step
      <4> QED
        BY <1>4, <2>1, <3>2, <4>1
    <3> QED
      BY <3>1, <3>2
  <2>3. g = [i \in 0..n |-> Body(g, i)]
    BY <2>2
  <2>4. f = [i \in 0..n |-> Body(f, i)]
    BY <2>3
  <2> HIDE DEF f
  <2>5. ASSUME NEW i \in 0..n PROVE f[i] = Body(f, i)
    BY <2>4
  <2>6. ASSUME NEW i \in 0..n, f[i] = g[i], i + 1 \in 0..n PROVE f[i + 1] = g[i + 1]
    <3>1. (i + 1) - 1 = i /\ i + 1 # 0
      OBVIOUS
    <3>2. f[i + 1] = Body(f, i + 1) /\ g[i + 1] = Body(g, i + 1)
      BY <2>2, <2>5, <2>6
    <3> HIDE DEF n
    <3> QED
      BY <2>6, <3>1, <3>2
  <2> DEFINE K == {k \in Nat : k <= n => f[k] = g[k]}
  <2>7. 0 \in K
    <3>1. 0 \in 0..n
      BY <1>1
    <3>2. f[0] = Body(f, 0) /\ g[0] = Body(g, 0)
      BY <2>2, <2>5, <3>1
    <3> QED
      BY <3>2
  <2>8. ASSUME NEW k \in Nat, k \in K PROVE k + 1 \in K
    <3> SUFFICES ASSUME k + 1 <= n PROVE f[k + 1] = g[k + 1]
      OBVIOUS
    <3>1. k \in 0..n /\ k + 1 \in 0..n /\ f[k] = g[k]
      BY <1>1, <2>8
    <3> HIDE DEF n
    <3> QED
      BY <2>6, <3>1
  <2>9. Nat \subseteq K
    <3> HIDE DEF K
    <3> QED
      BY <2>7, <2>8, Induction
  <2>10. ASSUME NEW i \in 0..n PROVE f[i] \in Q
    <3>1. i \in K /\ i <= n /\ g[i] \in Q
      BY <1>1, <2>9
    <3> HIDE DEF Q
    <3> QED
      BY <3>1
  <2> HIDE DEF Q, n
  <2>11. f = [i \in 0..n |-> f[i]]
    BY <2>4
  <2> QED
    BY <2>5, <2>10, <2>11
<1> HIDE DEF f
<1>6. f[0] = <<>> /\ \A i \in 1..n : f[i] = IF i \in keep THEN Append(f[i - 1], s[i]) ELSE f[i - 1]
  <2>1. 0 \in 0..n /\ \A i \in 1..n : i \in 0..n /\ i # 0
    BY <1>1
  <2>2. \A i \in 0..n : f[i] = Body(f, i)
    BY <1>5
  <2> HIDE DEF n
  <2> QED
    BY <2>1, <2>2
<1> QED
  BY <1>2, <1>5, <1>6 DEF Takes

\* What the elements of a filtered list are, and where they were.
Picks(p, r, s, keep) ==
  /\ p \in [1..Len(r) -> keep]
  /\ \A i \in 1..Len(r) : r[i] = s[p[i]]
  /\ \A i, j \in 1..Len(r) : i < j => p[i] < p[j]
  /\ \A k \in keep : \E i \in 1..Len(r) : p[i] = k

\* What Filtered returns: the elements to keep, in their order.
LEMMA FilteredIs ==
  ASSUME NEW S, NEW s \in Seq(S), NEW keep \in SUBSET (1..Len(s))
  PROVE  Filtered(s, keep) \in Seq(S) /\ \E p : Picks(p, Filtered(s, keep), s, keep)
<1> DEFINE n == Len(s)
           Q == Seq(S)
           Body(g, i) == IF i = 0 THEN <<>> ELSE IF i \in keep THEN Append(g[i - 1], s[i]) ELSE g[i - 1]
<1>1. n \in Nat /\ \A i \in 1..n : s[i] \in S
  OBVIOUS
<1>0. PICK f : Takes(f, s, keep, S) /\ Filtered(s, keep) = f[n]
  BY FilteredMade
<1>2. Filtered(s, keep) = f[n]
  BY <1>0
<1>5. f \in [0..n -> Q] /\ \A i \in 0..n : f[i] = Body(f, i)
  <2>0. f \in [0..n -> Q]
    BY <1>0 DEF Takes
  <2> SUFFICES ASSUME NEW i \in 0..n PROVE f[i] = Body(f, i)
    BY <2>0
  <2>1. i = 0 \/ i \in 1..n
    BY <1>1
  <2> QED
    BY <1>0, <2>1 DEF Takes
<1> DEFINE P(k) == \E p : Picks(p, f[k], s, keep \cap (1..k))
           K == {k \in Nat : k <= n => P(k)}
<1>6. 0 \in K
  <2>1. 0 \in 0..n /\ f[0] = <<>>
    BY <1>1, <1>5
  <2>2. Picks(<<>>, f[0], s, keep \cap (1..0))
    BY <2>1 DEF Picks
  <2> QED
    BY <2>2
<1>7. ASSUME NEW k \in Nat, k \in K PROVE k + 1 \in K
  <2> SUFFICES ASSUME k + 1 <= n PROVE P(k + 1)
    <3> HIDE DEF P
    <3> QED
      OBVIOUS
  <2> HIDE DEF n
  <2>1. k \in 0..n /\ k + 1 \in 0..n /\ k + 1 \in 1..n /\ (k + 1) - 1 = k /\ k + 1 # 0
        /\ f[k] \in Seq(S)
    BY <1>1, <1>5
  <2>2. f[k + 1] = IF k + 1 \in keep THEN Append(f[k], s[k + 1]) ELSE f[k]
    BY <1>5, <2>1
  <2>3. PICK p : Picks(p, f[k], s, keep \cap (1..k))
    <3>1. P(k)
      <4> HIDE DEF P
      <4> QED
        BY <1>1, <1>7, <2>1
    <3> QED
      BY <3>1
  <2>4. CASE k + 1 \notin keep
    <3>1. keep \cap (1..(k + 1)) = keep \cap (1..k)
      BY <2>4
    <3> QED
      BY <2>2, <2>3, <2>4, <3>1
  <2>5. CASE k + 1 \in keep
    <3> DEFINE r == f[k]
               m == Len(r)
               q == [i \in 1..(m + 1) |-> IF i = m + 1 THEN k + 1 ELSE p[i]]
               now == keep \cap (1..(k + 1))
    <3>1. m \in Nat /\ f[k + 1] = Append(r, s[k + 1]) /\ Len(f[k + 1]) = m + 1
      BY <2>1, <2>2, <2>5
    <3>2. f[k + 1][m + 1] = s[k + 1] /\ \A i \in 1..m : f[k + 1][i] = r[i]
      BY <2>1, <2>2, <2>5
    <3>3. /\ p \in [1..m -> keep \cap (1..k)]
          /\ \A i \in 1..m : r[i] = s[p[i]]
          /\ \A i, j \in 1..m : i < j => p[i] < p[j]
          /\ \A a \in keep \cap (1..k) : \E i \in 1..m : p[i] = a
      BY <2>3 DEF Picks
    <3> HIDE DEF m, r
    <3>4. \A i \in 1..m : p[i] \in keep /\ p[i] \in Nat /\ p[i] >= 1 /\ p[i] <= k
      BY <3>3
    <3>5. q[m + 1] = k + 1 /\ \A i \in 1..m : q[i] = p[i]
      BY <3>1
    <3>6. q \in [1..(m + 1) -> now]
      BY <2>5, <3>1, <3>4
    <3> HIDE DEF q
    <3>7. \A i \in 1..(m + 1) : i = m + 1 \/ i \in 1..m
      BY <3>1
    <3>8. \A i \in 1..(m + 1) : f[k + 1][i] = s[q[i]]
      BY <3>2, <3>3, <3>5, <3>7
    <3>9. ASSUME NEW i \in 1..(m + 1), NEW j \in 1..(m + 1), i < j PROVE q[i] < q[j]
      <4>1. i \in 1..m
        BY <3>1, <3>9
      <4> QED
        BY <3>3, <3>4, <3>5, <3>7, <3>9, <4>1
    <3>10. ASSUME NEW a \in now PROVE \E i \in 1..(m + 1) : q[i] = a
      <4>1. CASE a = k + 1
        BY <3>1, <3>5, <4>1
      <4>2. CASE a # k + 1
        <5>1. a \in keep \cap (1..k)
          BY <4>2
        <5>2. PICK i \in 1..m : p[i] = a
          BY <3>3, <5>1
        <5> QED
          BY <3>1, <3>5, <5>2
      <4> QED
        BY <4>1, <4>2
    <3>11. Picks(q, f[k + 1], s, now)
      BY <3>1, <3>6, <3>8, <3>9, <3>10 DEF Picks
    <3> QED
      BY <3>11
  <2> QED
    BY <2>4, <2>5
<1>8. P(n)
  <2>1. n \in K
    <3> HIDE DEF K
    <3> QED
      BY <1>1, <1>6, <1>7, Induction
  <2> HIDE DEF P, n
  <2> QED
    BY <1>1, <2>1
<1>9. keep \cap (1..n) = keep /\ f[n] \in Seq(S)
  <2>1. n \in 0..n
    BY <1>1
  <2> QED
    BY <1>5, <2>1
<1> QED
  BY <1>2, <1>8, <1>9

-----------------------------------------------------------------------------
(* Texts as joined images, and functions made by recursion on a measure.    *)
\* g is computed by F below n.
IsFixed(g, n, D, R, m, F) == g \in [D -> R] /\ \A x \in D : m[x] < n => g[x] = F[g][x]

\* What F computes at x depends on the values at smaller arguments only.
IsLocal(F, D, R, m) ==
  /\ R # {} /\ m \in [D -> Nat] /\ F \in [[D -> R] -> [D -> R]]
  /\ \A g, h \in [D -> R] : \A x \in D :
       (\A y \in D : m[y] < m[x] => g[y] = h[y]) => F[g][x] = F[h][x]

\* A function that F makes of itself.
HasFixed(F, D, R) == \E g \in [D -> R] : g = F[g]

\* A function whose values are computed from its values at smaller arguments exists.
LEMMA MeasuredRecursion ==
  ASSUME NEW D, NEW R, NEW m, NEW F, IsLocal(F, D, R, m)
  PROVE  HasFixed(F, D, R)
<1>a. R # {} /\ m \in [D -> Nat] /\ F \in [[D -> R] -> [D -> R]]
  BY DEF IsLocal
<1> SUFFICES ASSUME R # {}, m \in [D -> Nat], F \in [[D -> R] -> [D -> R]]
             PROVE  \E g \in [D -> R] : g = F[g]
  BY <1>a DEF HasFixed
<1> DEFINE Fixed(g, n) == IsFixed(g, n, D, R, m, F)
<1>0. \A g, h \in [D -> R] : \A x \in D :
        (\A y \in D : m[y] < m[x] => g[y] = h[y]) => F[g][x] = F[h][x]
  BY DEF IsLocal
<1>1. ASSUME NEW g, NEW n \in Nat, Fixed(g, n) PROVE Fixed(F[g], n + 1)
  <2>1. g \in [D -> R] /\ F[g] \in [D -> R]
    BY <1>1 DEF IsFixed
  <2> SUFFICES ASSUME NEW x \in D, m[x] < n + 1 PROVE F[g][x] = F[F[g]][x]
    BY <2>1 DEF IsFixed
  <2>2. ASSUME NEW y \in D, m[y] < m[x] PROVE g[y] = F[g][y]
    <3>1. m[y] < n
      BY <2>2
    <3> QED
      BY <1>1, <3>1 DEF IsFixed
  <2> QED
    BY <1>0, <2>1, <2>2
<1> DEFINE K == {n \in Nat : \E g : Fixed(g, n)}
<1>2. 0 \in K
  <2>1. PICK r \in R : TRUE
    OBVIOUS
  <2>2. [x \in D |-> r] \in [D -> R]
    OBVIOUS
  <2>3. \A x \in D : ~(m[x] < 0)
    OBVIOUS
  <2>4. Fixed([x \in D |-> r], 0)
    BY <2>2, <2>3 DEF IsFixed
  <2> QED
    BY <2>4
<1>3. Nat \subseteq K
  <2>1. ASSUME NEW n \in Nat, n \in K PROVE n + 1 \in K
    BY <1>1, <2>1
  <2> HIDE DEF K
  <2> QED
    BY <1>2, <2>1, Induction
<1> DEFINE J == {n \in Nat : \A g, h : Fixed(g, n) /\ Fixed(h, n) => \A x \in D : m[x] < n => g[x] = h[x]}
<1>4. 0 \in J
  BY DEF IsFixed
<1>5. Nat \subseteq J
  <2>1. ASSUME NEW n \in Nat, n \in J PROVE n + 1 \in J
    <3> SUFFICES ASSUME NEW g, NEW h, Fixed(g, n + 1), Fixed(h, n + 1), NEW x \in D, m[x] < n + 1 PROVE g[x] = h[x]
      OBVIOUS
    <3>1. Fixed(g, n) /\ Fixed(h, n)
      BY DEF IsFixed
    <3>2. \A y \in D : m[y] < m[x] => g[y] = h[y]
      <4>1. \A y \in D : m[y] < m[x] => m[y] < n
        OBVIOUS
      <4> QED
        BY <2>1, <3>1, <4>1
    <3>3. g \in [D -> R] /\ h \in [D -> R] /\ g[x] = F[g][x] /\ h[x] = F[h][x]
      BY DEF IsFixed
    <3> QED
      BY <1>0, <3>2, <3>3
  <2> HIDE DEF J
  <2> QED
    BY <1>4, <2>1, Induction
<1> DEFINE Value(n) == CHOOSE g : Fixed(g, n)
           G == [x \in D |-> Value(m[x] + 1)[x]]
<1>6. \A n \in Nat : Fixed(Value(n), n)
  BY <1>3
<1> HIDE DEF Value
<1>7. \A x \in D : G[x] = Value(m[x] + 1)[x] /\ Value(m[x] + 1) \in [D -> R]
  <2>1. \A x \in D : m[x] + 1 \in Nat
    OBVIOUS
  <2> QED
    BY <1>6, <2>1 DEF IsFixed
<1>8. G \in [D -> R]
  BY <1>7
<1> HIDE DEF G
<1>9. ASSUME NEW x \in D PROVE G[x] = F[G][x]
  <2> DEFINE g == Value(m[x] + 1)
  <2>1. Fixed(g, m[x] + 1) /\ g \in [D -> R] /\ m[x] < m[x] + 1
    BY <1>6, <1>7
  <2>2. G[x] = F[g][x]
    BY <1>7, <2>1 DEF IsFixed
  <2>3. ASSUME NEW y \in D, m[y] < m[x] PROVE G[y] = g[y]
    <3>1. m[y] + 1 \in Nat /\ m[y] < m[y] + 1 /\ m[y] + 1 <= m[x] + 1 /\ m[x] + 1 \in Nat
      BY <2>3
    <3>2. Fixed(g, m[y] + 1)
      <4>1. \A z \in D : m[z] < m[y] + 1 => m[z] < m[x] + 1
        BY <2>3
      <4> QED
        BY <2>1, <4>1 DEF IsFixed
    <3>3. Fixed(Value(m[y] + 1), m[y] + 1) /\ m[y] + 1 \in J
      BY <1>5, <1>6, <3>1
    <3> HIDE DEF g
    <3> QED
      BY <1>7, <3>1, <3>2, <3>3
  <2> HIDE DEF g
  <2> QED
    BY <1>0, <1>8, <2>1, <2>2, <2>3
<1>10. G = F[G]
  <2>1. F[G] \in [D -> R]
    BY <1>8
  <2> QED
    BY <1>8, <1>9, <2>1
<1> QED
  BY <1>8, <1>10

-----------------------------------------------------------------------------
\* Three sequences, one after the other.
Associative(u, v, w) == (u \o v) \o w = u \o (v \o w)

\* Concatenation is associative.
LEMMA Associates ==
  ASSUME NEW S, NEW u \in Seq(S), NEW v \in Seq(S), NEW w \in Seq(S)
  PROVE  Associative(u, v, w)
BY SMT DEF Associative

\* v is what the elements of s are mapped to by img, one after the other.
Joins(v, s, img, T) == \E f \in [0..Len(s) -> Seq(T)] :
  f[0] = <<>> /\ (\A i \in 1..Len(s) : f[i] = f[i - 1] \o img[s[i]]) /\ v = f[Len(s)]

\* The images join in one way,
LEMMA JoinsOnce ==
  ASSUME NEW S, NEW T, NEW img \in [S -> Seq(T)], NEW s \in Seq(S), NEW v, NEW w, Joins(v, s, img, T), Joins(w, s, img, T)
  PROVE  v = w
<1> DEFINE n == Len(s)
<1>1. n \in Nat
  OBVIOUS
<1>2. PICK f \in [0..n -> Seq(T)] : f[0] = <<>> /\ (\A i \in 1..n : f[i] = f[i - 1] \o img[s[i]]) /\ v = f[n]
  BY DEF Joins
<1>3. PICK g \in [0..n -> Seq(T)] : g[0] = <<>> /\ (\A i \in 1..n : g[i] = g[i - 1] \o img[s[i]]) /\ w = g[n]
  BY DEF Joins
<1> HIDE DEF n
<1> DEFINE K == {k \in Nat : k <= n => f[k] = g[k]}
<1>4. 0 \in K
  BY <1>2, <1>3
<1>5. ASSUME NEW k \in Nat, k \in K PROVE k + 1 \in K
  <2> SUFFICES ASSUME k + 1 <= n PROVE f[k + 1] = g[k + 1]
    OBVIOUS
  <2>1. k + 1 \in 1..n /\ (k + 1) - 1 = k /\ f[k] = g[k]
    BY <1>1, <1>5
  <2>2. f[k + 1] = f[k] \o img[s[k + 1]] /\ g[k + 1] = g[k] \o img[s[k + 1]]
    BY <1>2, <1>3, <2>1
  <2> QED
    BY <2>1, <2>2
<1>6. n \in K
  <2> HIDE DEF K
  <2> QED
    BY <1>1, <1>4, <1>5, Induction
<1> QED
  BY <1>1, <1>2, <1>3, <1>6

\* and they do join;
LEMMA JoinsSome ==
  ASSUME NEW S, NEW T, NEW img \in [S -> Seq(T)], NEW s \in Seq(S)
  PROVE  \E v \in Seq(T) : Joins(v, s, img, T)
<1> DEFINE n == Len(s)
           Q == Seq(T)
           step == [i \in 1..n |-> [q \in Q |-> q \o img[s[i]]]]
<1>1. n \in Nat /\ <<>> \in Q /\ \A i \in 1..n : s[i] \in S
  OBVIOUS
<1>2. \A i \in 1..n, q \in Q : q \o img[s[i]] \in Q
  BY <1>1, ConcatProperties
<1> HIDE DEF n, Q
<1>3. step \in [1..n -> [Q -> Q]] /\ \A i \in 1..n, q \in Q : step[i][q] = q \o img[s[i]]
  BY <1>2
<1> HIDE DEF step
<1>4. PICK f \in [0..n -> Q] : f[0] = <<>> /\ \A i \in 1..n : f[i] = step[i][f[i - 1]]
  <2>1. IsMade(n, Q, <<>>, step)
    BY <1>1, <1>3, Recursion
  <2> QED
    BY <2>1 DEF IsMade
<1>5. \A i \in 1..n : f[i] = f[i - 1] \o img[s[i]]
  <2>1. \A i \in 1..n : f[i - 1] \in Q
    BY <1>1
  <2> QED
    BY <1>3, <1>4, <2>1
<1>6. n \in 0..n
  BY <1>1
<1>7. f[n] \in Q
  BY <1>4, <1>6
<1> QED
  BY <1>4, <1>5, <1>7 DEF n, Q, Joins

\* those of a concatenation are those of its parts.
LEMMA JoinsConcat ==
  ASSUME NEW S, NEW T, NEW img \in [S -> Seq(T)], NEW s \in Seq(S), NEW t \in Seq(S),
         NEW v \in Seq(T), NEW w \in Seq(T), Joins(v, s, img, T), Joins(w, t, img, T)
  PROVE  Joins(v \o w, s \o t, img, T)
<1> DEFINE n == Len(s)
           k == Len(t)
           Q == Seq(T)
<1>1. n \in Nat /\ k \in Nat
  OBVIOUS
<1>a. \A a, b \in Seq(T) : v \o (a \o b) = (v \o a) \o b
  <2> TAKE a, b \in Seq(T)
  <2>1. Associative(v, a, b)
    BY Associates
  <2> QED
    BY <2>1 DEF Associative
<1>2. s \o t \in Seq(S) /\ Len(s \o t) = n + k
      /\ \A i \in 1..(n + k) : (s \o t)[i] = IF i <= n THEN s[i] ELSE t[i - n]
  BY ConcatProperties
<1>3. PICK f \in [0..n -> Q] : f[0] = <<>> /\ (\A i \in 1..n : f[i] = f[i - 1] \o img[s[i]]) /\ v = f[n]
  BY DEF Joins
<1>4. PICK g \in [0..k -> Q] : g[0] = <<>> /\ (\A i \in 1..k : g[i] = g[i - 1] \o img[t[i]]) /\ w = g[k]
  BY DEF Joins
<1>5. v \in Q /\ \A i \in 1..k : img[t[i]] \in Q
  <2>1. n \in 0..n /\ \A i \in 1..k : t[i] \in S
    BY <1>1
  <2> HIDE DEF n, k, Q
  <2>2. v \in Q
    BY <1>3, <2>1
  <2> QED
    BY <2>1, <2>2 DEF Q
<1> DEFINE h == [i \in 0..(n + k) |-> IF i <= n THEN f[i] ELSE v \o g[i - n]]
<1>6. \A i \in 0..k : v \o g[i] \in Q
  BY <1>5, ConcatProperties
<1>7. \A i \in 0..(n + k) : (i <= n => h[i] = f[i]) /\ (i >= n => h[i] = v \o g[i - n])
  <2> SUFFICES ASSUME NEW i \in 0..(n + k) PROVE (i <= n => h[i] = f[i])
  /\ (i >= n => h[i] = v \o g[i - n])
    OBVIOUS
  <2>1. CASE i = n
    <3>1. v \o <<>> = v
      BY <1>5, ConcatEmptySeq
    <3>2. i - n = 0
      BY <1>1, <2>1
    <3> HIDE DEF n, k, Q
    <3> QED
      BY <1>1, <1>3, <1>4, <2>1, <3>1, <3>2
  <2>2. CASE i # n
    <3> HIDE DEF n, k, Q
    <3> QED
      BY <1>1, <2>2
  <2> QED
    BY <2>1, <2>2
<1>8. h \in [0..(n + k) -> Q]
  <2>1. \A i \in 0..(n + k) : i <= n => i \in 0..n
    BY <1>1
  <2>2. \A i \in 0..(n + k) : ~(i <= n) => i - n \in 0..k
    BY <1>1
  <2> HIDE DEF n, k, Q
  <2> QED
    BY <1>3, <1>6, <2>1, <2>2
<1> HIDE DEF h
<1>9. ASSUME NEW i \in 1..(n + k) PROVE h[i] = h[i - 1] \o img[(s \o t)[i]]
  <2>1. i \in 0..(n + k) /\ i - 1 \in 0..(n + k)
    BY <1>1
  <2>2. CASE i <= n
    <3>1. i \in 1..n /\ i - 1 <= n
      BY <1>1, <2>2
    <3> QED
      BY <1>2, <1>3, <1>7, <2>1, <2>2, <3>1
  <2>3. CASE ~(i <= n)
    <3>1. i - n \in 1..k /\ i - 1 >= n /\ i >= n /\ (i - 1) - n = (i - n) - 1
          /\ (i - n) - 1 \in 0..k
      BY <1>1, <2>3
    <3>2. h[i] = v \o g[i - n] /\ h[i - 1] = v \o g[(i - n) - 1] /\ (s \o t)[i] = t[i - n]
      BY <1>2, <1>7, <2>1, <2>3, <3>1
    <3>3. g[i - n] = g[(i - n) - 1] \o img[t[i - n]] /\ g[(i - n) - 1] \in Q /\ img[t[i - n]] \in Q
      BY <1>4, <1>5, <3>1
    <3>4. v \o (g[(i - n) - 1] \o img[t[i - n]]) = (v \o g[(i - n) - 1]) \o img[t[i - n]]
      <4>1. PICK a \in Q, b \in Q : a = g[(i - n) - 1] /\ b = img[t[i - n]]
        BY <3>3
      <4>2. v \o (a \o b) = (v \o a) \o b
        BY <1>a
      <4> QED
        BY <4>1, <4>2
    <3> QED
      BY <3>2, <3>3, <3>4
  <2> QED
    BY <2>2, <2>3
<1>10. h[0] = <<>> /\ h[n + k] = v \o w
  <2>1. 0 \in 0..(n + k) /\ n + k \in 0..(n + k) /\ n + k >= n /\ (n + k) - n = k /\ 0 <= n
    BY <1>1
  <2> QED
    BY <1>3, <1>4, <1>7, <2>1
<1> QED
  BY <1>2, <1>8, <1>9, <1>10 DEF Joins

\* Of no element and of one.
LEMMA JoinsNone == ASSUME NEW img, NEW T PROVE Joins(<<>>, <<>>, img, T)
<1>1. [i \in 0..0 |-> <<>>] \in [0..0 -> Seq(T)]
  OBVIOUS
<1>2. Len(<<>>) = 0
  OBVIOUS
<1> DEFINE f == [i \in 0..0 |-> <<>>]
<1>3. f[0] = <<>> /\ \A i \in 1..0 : f[i] = f[i - 1] \o img[<<>>[i]]
  OBVIOUS
<1> QED
  BY <1>1, <1>2, <1>3 DEF Joins

\* The image of one element.
LEMMA JoinsOne ==
  ASSUME NEW S, NEW T, NEW img \in [S -> Seq(T)], NEW x \in S
  PROVE  Joins(img[x], <<x>>, img, T)
<1>1. <<x>> \in Seq(S) /\ Len(<<x>>) = 1 /\ <<x>>[1] = x
  OBVIOUS
<1>2. PICK f \in [0..1 -> Seq(T)] : f[0] = <<>> /\ \A i \in 1..1 : f[i] = f[i - 1] \o img[<<x>>[i]]
  <2>1. \E v \in Seq(T) : Joins(v, <<x>>, img, T)
    BY <1>1, JoinsSome
  <2> QED
    BY <1>1, <2>1 DEF Joins
<1>3. f[1] = <<>> \o img[x]
  BY <1>1, <1>2
<1>4. f[1] = img[x]
  BY <1>3, ConcatEmptySeq
<1> QED
  BY <1>1, <1>2, <1>4 DEF Joins

-----------------------------------------------------------------------------
(* Who parts a conversation.                                                *)
\* What is filtered has the rest, and not what was filtered.
LEMMA WithoutType ==
  ASSUME NEW S, NEW list \in Seq(S), NEW url
  PROVE  Without(list, url) \in Seq(S \ {url})
<1> DEFINE keep == {i \in DOMAIN list : list[i] # url}
           r == Filtered(list, keep)
<1>1. Len(list) \in Nat /\ DOMAIN list = 1..Len(list) /\ \A i \in 1..Len(list) : list[i] \in S
  OBVIOUS
<1>2. keep \in SUBSET (1..Len(list)) /\ \A k \in keep : list[k] \in S \ {url}
  BY <1>1
<1> HIDE DEF keep
<1>3. r \in Seq(S) /\ \E p : Picks(p, r, list, keep)
  BY <1>2, FilteredIs
<1>4. PICK p : Picks(p, r, list, keep)
  BY <1>3
<1> HIDE DEF r
<1>5. \A i \in 1..Len(r) : r[i] \in S \ {url}
  BY <1>2, <1>4 DEF Picks
<1>6. r \in Seq(S \ {url})
  <2>1. r = [i \in 1..Len(r) |-> r[i]] /\ Len(r) \in Nat
    BY <1>3
  <2>2. [i \in 1..Len(r) |-> r[i]] \in [1..Len(r) -> S \ {url}]
    BY <1>5
  <2> QED
    BY <2>1, <2>2
<1> QED
  BY <1>6 DEF Without, keep, r

LEMMA AddedType ==
  ASSUME NEW S, NEW list \in Seq(S), NEW url
  PROVE  AddToHistory(list, url) \in Seq(S \cup {url})
<1> DEFINE added == Append(Without(list, url), url)
<1>1. added \in Seq(S \cup {url})
  <2>1. PICK rest : rest = Without(list, url)
    OBVIOUS
  <2>2. rest \in Seq(S \ {url})
    BY <2>1, WithoutType
  <2> QED
    BY <2>1, <2>2
<1>2. ASSUME NEW k \in 1..Len(added) PROVE SubSeq(added, k, Len(added)) \in Seq(S \cup {url})
  <2> HIDE DEF added
  <2> QED
    BY <1>1, <1>2
<1>3. Len(added) \in Nat \ {0}
  <2>1. PICK rest : rest = Without(list, url)
    OBVIOUS
  <2>2. rest \in Seq(S \ {url})
    BY <2>1, WithoutType
  <2> QED
    BY <2>1, <2>2
<1>4. AddToHistory(list, url) = SubSeq(added, IF Len(added) > MaxHistory THEN Len(added) - MaxHistory + 1 ELSE 1, Len(added))
  BY DEF AddToHistory
<1> HIDE DEF added
<1> QED
  BY <1>2, <1>3, <1>4, NavigationAssumption

Listing(list) == \E S : list \in Seq(S)

LEMMA AddedListing == ASSUME NEW list, Listing(list), NEW url PROVE Listing(AddToHistory(list, url))
<1>1. PICK S : list \in Seq(S)
  BY DEF Listing
<1>2. AddToHistory(list, url) \in Seq(S \cup {url})
  BY <1>1, AddedType
<1> QED
  BY <1>2 DEF Listing

LEMMA GoneListing ==
  ASSUME NEW list, Listing(list), NEW url, NEW replace, Go(list, url, replace)
  PROVE  Listing(history')
<1>1. Listing(AddToHistory(AddToHistory(list, location), url))
  <2>1. PICK one : one = AddToHistory(list, location)
    OBVIOUS
  <2>2. Listing(one)
    BY <2>1, AddedListing
  <2> QED
    BY <2>1, <2>2, AddedListing
<1> QED
  BY <1>1 DEF Go

\* Where somebody is who has parted.
PartInv ==
  /\ parting \in Chats \cup {Nowhere} /\ Listing(history)
  /\ left # Nowhere => location # left /\ location \notin Guest \cup {"root"}

LEMMA PartedStep ==
  ASSUME NavigationInv, PartInv, Parted
  PROVE  PartInv'
<1> DEFINE list == RemoveFromHistory(history, location)
           url  == IF list = <<>> THEN "elsewhere" ELSE Last(list)
<1>1. /\ parting # Nowhere /\ parting' = Nowhere /\ Go(list, url, FALSE)
      /\ left' = IF location = parting /\ url \notin Guest \cup {"root"} THEN parting ELSE Nowhere
  BY DEF Parted
<1>2. PICK S : history \in Seq(S)
  BY DEF PartInv, Listing
<1>3. PICK x : x = location
  OBVIOUS
<1>4. list \in Seq(S \ {x})
  BY <1>2, <1>3, WithoutType DEF RemoveFromHistory
<1>5. location = parting => url # location
  <2>1. CASE list = <<>>
    BY <1>1, <2>1, NavigationAssumption DEF PartInv
  <2>2. CASE list # <<>>
    <3>1. list[Len(list)] \in S \ {x}
      <4> HIDE DEF list
      <4> QED
        BY <1>4, <2>2
    <3> QED
      BY <1>3, <2>2, <3>1 DEF Last
  <2> QED
    BY <2>1, <2>2
<1>6. Listing(list)
  BY <1>4 DEF Listing
<1> HIDE DEF list, url
<1>7. Listing(history') /\ location' = url
  BY <1>1, <1>6, GoneListing, GoArrives DEF NavigationInv
<1> QED
  BY <1>1, <1>5, <1>7 DEF PartInv

LEMMA PartInvStep == NavigationInv /\ PartInv /\ [NavigationNext]_routeVars => PartInv'
<1> SUFFICES ASSUME NavigationInv, PartInv, [NavigationNext]_routeVars PROVE PartInv'
  OBVIOUS
<1>1. Listing(history)
  BY DEF PartInv
<1>2. ASSUME left' = Nowhere, parting' \in Chats \cup {Nowhere}, Listing(history') PROVE PartInv'
  BY <1>2 DEF PartInv
<1>3. ASSUME NEW url \in Pages, Click(url) PROVE PartInv'
  BY <1>1, <1>2, <1>3, GoneListing DEF Click, Fresh, PartInv
<1>4. ASSUME NEW url, Loads(url), Fresh PROVE PartInv'
  BY <1>1, <1>2, <1>4, AddedListing DEF Loads, Fresh
<1>5. ASSUME NEW to \in DOMAIN stack, Traverse(to) PROVE PartInv'
  <2>1. PICK url : url = location'
    OBVIOUS
  <2>2. Listing(history')
    BY <1>1, <1>5, <2>1, AddedListing DEF Traverse
  <2> QED
    BY <1>2, <1>5, <2>2 DEF Traverse, Fresh, PartInv
<1>6. ASSUME UNCHANGED <<stack, at, history, parting>>, left' = left \/ left' = Nowhere PROVE PartInv'
  BY <1>1, <1>6 DEF PartInv, location
<1>7. CASE SubmitForm \/ Load \/ Loaded \/ Closed \/ UNCHANGED routeVars
  BY <1>6, <1>7 DEF SubmitForm, Load, Loaded, Closed, routeVars, window
<1>8. CASE Part
  BY <1>1, <1>2, <1>8 DEF Part, Fresh
<1>9. ASSUME NEW r \in {"route", "user"}, Rendered(r) PROVE PartInv'
  <2> DEFINE url == IF Redirect(r) THEN Start
                    ELSE IF location # "root" THEN location
                    ELSE IF email THEN (IF lastUrl # Nowhere THEN lastUrl ELSE "elsewhere")
                    ELSE "login"
  <2>1. Go(history, url, TRUE) /\ UNCHANGED <<parting, left>>
    BY <1>9 DEF Rendered
  <2>2. left # Nowhere => url = location
    BY DEF PartInv, Redirect, View
  <2> HIDE DEF url
  <2>3. Listing(history') /\ location' = url
    BY <1>1, <2>1, GoneListing, GoArrives DEF NavigationInv
  <2> QED
    BY <2>1, <2>2, <2>3 DEF PartInv
<1>10. CASE Logout
  BY <1>4, <1>10 DEF Logout
<1>11. ASSUME NEW url \in Pages, Type(url) PROVE PartInv'
  BY <1>4, <1>11 DEF Type
<1> QED
  BY <1>3, <1>5, <1>7, <1>8, <1>9, <1>10, <1>11, PartedStep DEF NavigationNext

(* Who has parted is not brought back to what he parted, whatever he had   *)
(* visited and however often (ConversationSettings.svelte:40-47).           *)
THEOREM PartedIsLeft == NavigationSpec => []PartLeaves
<1>1. NavigationInit => PartInv
  <2> SUFFICES ASSUME NavigationInit PROVE PartInv
    OBVIOUS
  <2>1. PICK p \in Pages : history = <<p>>
    BY DEF NavigationInit
  <2>2. history \in Seq(Pages)
    BY <2>1
  <2> QED
    BY <2>2 DEF NavigationInit, PartInv, Listing
<1>2. PartInv => PartLeaves
  BY DEF PartInv, PartLeaves
<1> QED
  BY <1>1, <1>2, NavigationInvInit, NavigationInvStep, PartInvStep, PTL DEF NavigationSpec

-----------------------------------------------------------------------------
(* Modes.  What the panel of a channel believes, while it was opened with   *)
(* no ticks of another channel and nobody else changes the channel: a box   *)
(* is as the user has set it, or as the mode is and will be when everything *)
(* on its way has come.                                                     *)
Partial == UNION {[S -> BOOLEAN] : S \in SUBSET Names}
ModeMessage == [kind : {"query", "set", "change"}, of : Channels, set : Partial]

ModesType ==
  /\ modes \in [Channels -> SUBSET Names] /\ heard \in [Channels -> SUBSET Names]
  /\ known \in [Channels -> Partial] /\ shown \in Channels
  /\ boxes \subseteq Names /\ filled \in BOOLEAN /\ wanted \in Partial
  /\ up \in Seq(ModeMessage) /\ down \in Seq(ModeMessage)
  /\ foreign \in [Channels -> BOOLEAN] /\ carried \in BOOLEAN
  /\ \A i \in 1..Len(up) : up[i].kind \in {"query", "set"} /\ (up[i].kind = "query" => up[i].set = Nothing)
  /\ \A i \in 1..Len(down) : down[i].kind = "query" \/ (down[i].kind = "change" /\ down[i].set # Nothing)

\* What the panel asks and sets is about the channel it shows.
Routed ==
  /\ \A i \in 1..Len(up) : up[i].of = shown
  /\ \A i \in 1..Len(down) : down[i].kind = "query" => down[i].of = shown

\* Of a channel nobody knows the server has heard nothing that is not on its way.
Unheard(c) ==
  known[c] = Nothing /\ heard[c] # {} =>
    \E i \in 1..Len(down) : down[i].of = c /\ down[i].set # Nothing

\* The answer to a query comes before everything else about its channel.
AnswerFirst ==
  /\ \A i \in 1..Len(up) : up[i].kind = "query" =>
       /\ i = 1 /\ known[shown] = Nothing /\ heard[shown] = {}
       /\ \A j \in 1..Len(down) : down[j].of # shown
  /\ \A i \in 1..Len(down) : down[i].kind = "query" =>
       /\ known[shown] = Nothing
       /\ \A j \in 1..Len(down) : j < i => down[j].of # shown
       /\ \A j \in 1..Len(up) : up[j].kind = "set"

\* While nothing is known, a mode can only be switched on.
OnlyOn ==
  known[shown] = Nothing =>
    /\ \A i \in 1..Len(up) : \A n \in DOMAIN up[i].set : up[i].set[n]
    /\ \A i \in 1..Len(down) : down[i].of = shown => \A n \in DOMAIN down[i].set : down[i].set[n]

On(n) == n \in DOMAIN known[shown] /\ known[shown][n]

\* A box is as the user wants it, or as the mode is and will be.
Agrees(n) ==
  /\ (n \in boxes) <=> On(n)
  /\ \A i \in 1..Len(up) : n \in DOMAIN up[i].set => (up[i].set[n] <=> (n \in boxes))
  /\ \A i \in 1..Len(down) :
       down[i].of = shown /\ down[i].kind = "change" /\ n \in DOMAIN down[i].set
         => (down[i].set[n] <=> (n \in boxes))

Chosen(n) == n \in DOMAIN wanted /\ (wanted[n] <=> (n \in boxes))

PanelInv ==
  /\ AnswerFirst /\ OnlyOn
  /\ ~filled => known[shown] = Nothing
  /\ \A n \in Names : Chosen(n) \/ Agrees(n)

ModesInv ==
  /\ ModesType
  /\ ~carried => Routed
  /\ ~carried => \A c \in Channels : ~foreign[c] => Unheard(c)
  /\ ~carried /\ ~foreign[shown] => PanelInv

LEMMA PartialIsBoolean == \A m \in Partial : \A n \in DOMAIN m : m[n] \in BOOLEAN
<1> SUFFICES ASSUME NEW m \in Partial PROVE \A n \in DOMAIN m : m[n] \in BOOLEAN
  OBVIOUS
<1>1. PICK S \in SUBSET Names : m \in [S -> BOOLEAN]
  BY DEF Partial
<1> QED
  BY <1>1

LEMMA PartialNames == \A m \in Partial : DOMAIN m \subseteq Names
BY DEF Partial

LEMMA PartialEmpty ==
  /\ Nothing \in Partial /\ DOMAIN Nothing = {}
  /\ \A m \in Partial : m = Nothing <=> DOMAIN m = {}
<1>1. Nothing \in [{} -> BOOLEAN] /\ DOMAIN Nothing = {}
  BY DEF Nothing
<1>2. ASSUME NEW m \in Partial PROVE m = Nothing <=> DOMAIN m = {}
  <2>1. PICK S \in SUBSET Names : m \in [S -> BOOLEAN]
    BY DEF Partial
  <2> QED
    BY <2>1, <1>1
<1> QED
  BY <1>1, <1>2 DEF Partial

LEMMA PartialMade ==
  ASSUME NEW S \in SUBSET Names, NEW T \in SUBSET Names
  PROVE  [n \in S |-> n \in T] \in Partial
<1>1. [n \in S |-> n \in T] \in [S -> BOOLEAN]
  OBVIOUS
<1> QED
  BY <1>1 DEF Partial

LEMMA PartialAssigned == \A m \in Partial, k \in Partial : Assigned(m, k) \in Partial
<1> SUFFICES ASSUME NEW m \in Partial, NEW k \in Partial PROVE Assigned(m, k) \in Partial
  OBVIOUS
<1>1. Assigned(m, k) \in [DOMAIN m \cup DOMAIN k -> BOOLEAN]
  BY PartialIsBoolean DEF Assigned
<1> QED
  BY <1>1, PartialNames DEF Partial

\* What a queue holds when one message is appended, or the first is taken.
LEMMA QueueAppended ==
  ASSUME NEW q \in Seq(ModeMessage), NEW e \in ModeMessage
  PROVE  /\ Append(q, e) \in Seq(ModeMessage)
         /\ Len(Append(q, e)) = Len(q) + 1 /\ Len(q) \in Nat
         /\ \A i \in 1..Len(q) : Append(q, e)[i] = q[i]
         /\ Append(q, e)[Len(q) + 1] = e
OBVIOUS

LEMMA QueueTaken ==
  ASSUME NEW q \in Seq(ModeMessage), q # <<>>
  PROVE  /\ Tail(q) \in Seq(ModeMessage)
         /\ Len(Tail(q)) = Len(q) - 1 /\ Len(q) \in Nat \ {0}
         /\ \A i \in 1..Len(Tail(q)) : Tail(q)[i] = q[i + 1] /\ i + 1 \in 1..Len(q)
         /\ Head(q) = q[1] /\ Head(q) \in ModeMessage
OBVIOUS

LEMMA ModesInvInit == ModesInit => ModesInv
<1> SUFFICES ASSUME ModesInit PROVE ModesInv
  OBVIOUS
<1> USE DEF ModesInit
<1>1. QueryModes(shown) \in ModeMessage
  BY PartialEmpty DEF QueryModes, ModeMessage
<1>2. /\ up \in Seq(ModeMessage) /\ Len(up) = 1 /\ up[1] = QueryModes(shown)
      /\ down \in Seq(ModeMessage) /\ Len(down) = 0
  BY <1>1
<1>3. DOMAIN Nothing = {}
  BY PartialEmpty
<1>4. ModesType
  <2>1. Nothing \in Partial
    BY PartialEmpty
  <2>2. \A i \in 1..Len(up) : up[i].kind \in {"query", "set"} /\ (up[i].kind = "query" => up[i].set = Nothing)
    BY <1>2 DEF QueryModes
  <2>3. /\ modes \in [Channels -> SUBSET Names] /\ heard \in [Channels -> SUBSET Names]
        /\ known \in [Channels -> Partial] /\ shown \in Channels
        /\ boxes \subseteq Names /\ filled \in BOOLEAN /\ wanted \in Partial
        /\ foreign \in [Channels -> BOOLEAN] /\ carried \in BOOLEAN
    BY <2>1
  <2>4. \A i \in 1..Len(down) :
          down[i].kind = "query" \/ (down[i].kind = "change" /\ down[i].set # Nothing)
    BY <1>2
  <2> QED
    BY <1>2, <2>2, <2>3, <2>4 DEF ModesType
<1>5. Routed
  BY <1>2 DEF Routed, QueryModes
<1>6. \A c \in Channels : Unheard(c)
  BY DEF Unheard
<1>7. AnswerFirst /\ OnlyOn
  BY <1>2, <1>3 DEF AnswerFirst, OnlyOn, QueryModes
<1>8. ASSUME NEW n \in Names PROVE Agrees(n)
  BY <1>2, <1>3 DEF Agrees, On, QueryModes
<1> QED
  BY <1>4, <1>5, <1>6, <1>7, <1>8 DEF ModesInv, PanelInv

-----------------------------------------------------------------------------
\* What a step does to the two queues.
LEMMA ShowPanelStep ==
  ASSUME ModesInv, NEW c \in Channels, ShowPanel(c)
  PROVE  ModesInv'
<1> USE DEF ModesInv, ShowPanel
<1>1. /\ QueryModes(c) \in ModeMessage /\ QueryModes(c).kind = "query"
      /\ QueryModes(c).of = c /\ QueryModes(c).set = Nothing
  BY PartialEmpty DEF QueryModes, ModeMessage
<1>2. DOMAIN Nothing = {} /\ known[c] \in Partial
  <2>1. known[c] \in Partial
    BY DEF ModesType
  <2> QED
    BY <2>1, PartialEmpty
<1>3. Merge(boxes, known[c]) \subseteq Names
  BY <1>2, PartialNames DEF Merge, ModesType
<1>4. ModesType'
  <2>1. \A i \in 1..Len(up') : up'[i].kind \in {"query", "set"} /\ (up'[i].kind = "query" => up'[i].set = Nothing)
    BY <1>1, QueueAppended DEF ModesType
  <2> QED
    BY <2>1, <1>1, <1>3, QueueAppended, PartialEmpty DEF ModesType
<1>5. ASSUME ~carried'
      PROVE  /\ ~carried /\ boxes = {} /\ Len(down') = 0
             /\ known[c] # Nothing => Len(up') = 0
             /\ known[c] = Nothing => Len(up') = 1 /\ up'[1] = QueryModes(c)
  <2>1. ~carried /\ boxes = {} /\ up \o down = <<>>
    BY <1>5 DEF OnTheWay, ModesType
  <2>2. up = <<>> /\ down = <<>>
    BY <2>1 DEF ModesType
  <2> QED
    BY <2>1, <2>2, <1>1
<1>6. ~carried' => Routed'
  BY <1>1, <1>5 DEF Routed, ModesType
<1>7. ASSUME ~carried', NEW d \in Channels, ~foreign'[d] PROVE Unheard(d)'
  BY <1>5, <1>7 DEF Unheard
<1>8. ASSUME ~carried', ~foreign'[shown'] PROVE PanelInv'
  <2>1. Unheard(c) /\ Len(down) = 0
    BY <1>5, <1>8
  <2>2. known[c] = Nothing => heard[c] = {}
    BY <2>1 DEF Unheard
  <2>3. AnswerFirst' /\ OnlyOn'
    BY <1>1, <1>2, <1>5, <1>8, <2>2 DEF AnswerFirst, OnlyOn
  <2>4. ASSUME NEW n \in Names PROVE Agrees(n)'
    <3>1. n \in boxes' <=> n \in DOMAIN known[c] /\ known[c][n]
      BY <1>5, <1>8 DEF Merge
    <3> QED
      BY <3>1, <1>1, <1>2, <1>5, <1>8 DEF Agrees, On
  <2> QED
    BY <2>3, <2>4, <1>8 DEF PanelInv
<1> QED
  BY <1>4, <1>6, <1>7, <1>8

LEMMA TickBoxStep ==
  ASSUME ModesInv, NEW n \in Names, TickBox(n)
  PROVE  ModesInv'
<1> USE DEF ModesInv, TickBox
<1>1. [m \in {n} |-> n \in boxes'] \in Partial
  <2>1. [m \in {n} |-> n \in boxes'] = [m \in {n} |-> m \in boxes']
    OBVIOUS
  <2>2. boxes' \subseteq Names
    BY DEF ModesType
  <2>3. \A S \in SUBSET Names, T \in SUBSET Names : [m \in S |-> m \in T] \in Partial
    BY PartialMade
  <2>4. [m \in {n} |-> m \in boxes'] \in Partial
    BY <2>2, <2>3
  <2> QED
    BY <2>1, <2>4
<1>2. ModesType'
  BY <1>1, PartialAssigned DEF ModesType
<1>3. ASSUME ~carried, ~foreign[shown] PROVE PanelInv'
  <2>1. AnswerFirst' /\ OnlyOn' /\ (~filled' => known'[shown'] = Nothing)
    BY <1>3 DEF PanelInv, AnswerFirst, OnlyOn
  <2>2. Chosen(n)'
    BY DEF Chosen, Assigned
  <2>3. ASSUME NEW m \in Names, m # n PROVE Chosen(m)' \/ Agrees(m)'
    <3>1. CASE Chosen(m)
      BY <3>1, <2>3 DEF Chosen, Assigned
    <3>2. CASE Agrees(m)
      BY <3>2, <2>3 DEF Agrees, On
    <3> QED
      BY <3>1, <3>2, <1>3 DEF PanelInv
  <2> QED
    BY <2>1, <2>2, <2>3 DEF PanelInv
<1>4. ~carried => Routed'
  BY DEF Routed
<1>5. ~carried => \A c \in Channels : ~foreign[c] => Unheard(c)'
  BY DEF Unheard
<1> QED
  BY <1>2, <1>3, <1>4, <1>5

LEMMA SaveChannelModesStep ==
  ASSUME ModesInv, SaveChannelModes
  PROVE  ModesInv'
<1> DEFINE e == [kind |-> "set", of |-> shown, set |-> [n \in Difference |-> n \in boxes]]
<1>1. e \in ModeMessage
  <2>1. Difference \subseteq Names /\ boxes \subseteq Names /\ shown \in Channels
    BY DEF Difference, ModesInv, ModesType
  <2>2. [n \in Difference |-> n \in boxes] \in Partial
    BY <2>1, PartialMade
  <2> QED
    BY <2>1, <2>2 DEF ModeMessage
<1>2. /\ e.kind = "set" /\ e.of = shown /\ DOMAIN e.set = Difference
      /\ \A n \in Difference : e.set[n] <=> n \in boxes
  OBVIOUS
<1>3. up' = Append(up, e)
  BY DEF SaveChannelModes
<1> HIDE DEF e
<1>4. up \in Seq(ModeMessage)
  BY DEF ModesInv, ModesType
<1>5. /\ up' \in Seq(ModeMessage) /\ Len(up) \in Nat
      /\ \A i \in 1..Len(up') : IF i = Len(up) + 1 THEN up'[i] = e
                                 ELSE i \in 1..Len(up) /\ up'[i] = up[i]
  BY <1>1, <1>3, <1>4, QueueAppended
<1> USE DEF ModesInv, SaveChannelModes
<1>6. ModesType'
  BY <1>2, <1>5 DEF ModesType, belief
<1>7. ~carried => Routed'
  BY <1>2, <1>5 DEF Routed, belief
<1>8. ~carried => \A c \in Channels : ~foreign[c] => Unheard(c)'
  BY DEF Unheard, belief
<1>9. ASSUME ~carried, ~foreign[shown] PROVE PanelInv'
  <2>1. AnswerFirst'
    <3>1. AnswerFirst /\ shown' = shown /\ known' = known /\ heard' = heard /\ down' = down
      BY <1>9 DEF PanelInv, belief
    <3>2. \A i \in 1..Len(up') : up'[i].kind = "query" => i \in 1..Len(up) /\ up[i].kind = "query"
      BY <1>2, <1>5
    <3>3. (\A i \in 1..Len(up) : up[i].kind = "set") => \A i \in 1..Len(up') : up'[i].kind = "set"
      BY <1>2, <1>5
    <3> QED
      BY <3>1, <3>2, <3>3 DEF AnswerFirst
  <2>2. known[shown] = Nothing => \A n \in Difference : n \in boxes
    <3>1. known[shown] = Nothing => DOMAIN known[shown] = {}
      BY PartialEmpty
    <3> QED
      BY <3>1 DEF Difference
  <2>3. OnlyOn'
    BY <1>2, <1>5, <1>9, <2>2 DEF PanelInv, OnlyOn, belief
  <2>4. ASSUME NEW n \in Names PROVE Chosen(n)' \/ Agrees(n)'
    <3>1. CASE Chosen(n)
      BY <3>1 DEF Chosen, belief
    <3>2. CASE Agrees(n)
      <4>1. \A i \in 1..Len(up') : n \in DOMAIN up'[i].set => (up'[i].set[n] <=> (n \in boxes))
        BY <3>2, <1>2, <1>5 DEF Agrees
      <4> QED
        BY <3>2, <4>1 DEF Agrees, On, belief
    <3> QED
      BY <3>1, <3>2, <1>9 DEF PanelInv
  <2> QED
    BY <2>1, <2>3, <2>4, <1>9 DEF PanelInv, belief
<1> QED
  BY <1>6, <1>7, <1>8, <1>9 DEF belief
-----------------------------------------------------------------------------
\* Messages: what a step sends is one.
LEMMA MessageParts ==
  /\ \A e \in ModeMessage : e.kind \in {"query", "set", "change"} /\ e.of \in Channels /\ e.set \in Partial
  /\ \A k \in {"query", "set", "change"}, c \in Channels, s \in Partial :
       /\ [kind |-> k, of |-> c, set |-> s] \in ModeMessage
       /\ [kind |-> k, of |-> c, set |-> s].kind = k
       /\ [kind |-> k, of |-> c, set |-> s].of = c
       /\ [kind |-> k, of |-> c, set |-> s].set = s
BY DEF ModeMessage

LEMMA OperatorStep ==
  ASSUME ModesInv, NEW c \in Channels, NEW n \in Names, Operator(c, n)
  PROVE  ModesInv'
<1> DEFINE s == [m \in {n} |-> m \notin modes[c]]
<1> DEFINE e == [kind |-> "change", of |-> c, set |-> s]
<1>1. s \in Partial /\ s # Nothing
  <2>1. s = [m \in {n} |-> m \in Names \ modes[c]]
    OBVIOUS
  <2>2. s \in Partial
    <3>1. \A T \in SUBSET Names : [m \in {n} |-> m \in T] \in Partial
      BY PartialMade
    <3>2. Names \ modes[c] \in SUBSET Names
      OBVIOUS
    <3> QED
      BY <2>1, <3>1, <3>2
  <2>3. DOMAIN s = {n}
    OBVIOUS
  <2> QED
    BY <2>2, <2>3, PartialEmpty
<1>2. /\ down' = Append(down, e) /\ modes' = [modes EXCEPT ![c] = Merge(@, s)]
      /\ heard' = [heard EXCEPT ![c] = @ \cup DOMAIN s]
      /\ foreign' = [foreign EXCEPT ![c] = TRUE]
      /\ UNCHANGED <<known, boxes, filled, shown, up, wanted, carried>>
  BY DEF Operator, Change, belief
<1>3. DOMAIN s = {n}
  OBVIOUS
<1> HIDE DEF s
<1>4. e \in ModeMessage /\ e.kind = "change" /\ e.of = c /\ e.set = s
  BY <1>1, MessageParts
<1> HIDE DEF e
<1>5. down \in Seq(ModeMessage)
  BY DEF ModesInv, ModesType
<1>6. /\ down' \in Seq(ModeMessage) /\ Len(down) \in Nat /\ Len(down') = Len(down) + 1
      /\ down'[Len(down) + 1] = e
      /\ \A i \in 1..Len(down) : down'[i] = down[i]
      /\ \A i \in 1..Len(down') : IF i = Len(down) + 1 THEN down'[i] = e
                                   ELSE i \in 1..Len(down) /\ down'[i] = down[i]
  BY <1>2, <1>4, <1>5, QueueAppended
<1> USE DEF ModesInv
<1>7. ModesType'
  <2>1. Merge(modes[c], s) \subseteq Names
    BY <1>3 DEF Merge, ModesType
  <2>2. \A i \in 1..Len(down') :
          down'[i].kind = "query" \/ (down'[i].kind = "change" /\ down'[i].set # Nothing)
    BY <1>1, <1>4, <1>6 DEF ModesType
  <2> QED
    BY <1>2, <1>3, <1>6, <2>1, <2>2 DEF ModesType
<1>8. ~carried' => Routed'
  BY <1>2, <1>4, <1>6 DEF Routed
<1>9. ASSUME ~carried', NEW d \in Channels, ~foreign'[d] PROVE Unheard(d)'
  <2>1. d # c /\ ~foreign[d] /\ heard'[d] = heard[d] /\ Unheard(d)
    BY <1>2, <1>9 DEF ModesType
  <2> QED
    BY <1>2, <1>6, <2>1 DEF Unheard
<1>10. ASSUME ~carried', ~foreign'[shown'] PROVE PanelInv'
  <2>1. /\ shown' = shown /\ shown # c /\ ~foreign[shown] /\ PanelInv
        /\ heard'[shown] = heard[shown]
    BY <1>2, <1>10 DEF ModesType
  <2>2. AnswerFirst'
    <3>1. \A i \in 1..Len(down') : down'[i].of = shown \/ down'[i].kind = "query" =>
             i \in 1..Len(down) /\ down'[i] = down[i]
      BY <1>4, <1>6, <2>1
    <3> QED
      BY <1>2, <2>1, <3>1 DEF PanelInv, AnswerFirst
  <2>3. OnlyOn'
    BY <1>2, <1>4, <1>6, <2>1 DEF PanelInv, OnlyOn
  <2>4. ASSUME NEW m \in Names PROVE Chosen(m)' \/ Agrees(m)'
    <3>1. Chosen(m) => Chosen(m)'
      BY <1>2 DEF Chosen
    <3>2. Agrees(m) => Agrees(m)'
      BY <1>2, <1>4, <1>6, <2>1 DEF Agrees, On
    <3> QED
      BY <2>1, <3>1, <3>2 DEF PanelInv
  <2> QED
    BY <1>2, <2>1, <2>2, <2>3, <2>4 DEF PanelInv
<1> QED
  BY <1>7, <1>8, <1>9, <1>10
LEMMA ServeStep ==
  ASSUME ModesInv, Serve
  PROVE  ModesInv'
<1> DEFINE c == Head(up).of
<1> DEFINE news == {n \in DOMAIN Head(up).set : Head(up).set[n] # (n \in modes[c])}
<1>1. /\ up \in Seq(ModeMessage) /\ up # <<>> /\ up' = Tail(up)
      /\ down \in Seq(ModeMessage)
      /\ UNCHANGED <<known, boxes, filled, shown, wanted, foreign, carried>>
  BY DEF ModesInv, ModesType, Serve, belief
<1>2. /\ up' \in Seq(ModeMessage) /\ Len(up') = Len(up) - 1 /\ Len(up) \in Nat \ {0}
      /\ \A i \in 1..Len(up') : up'[i] = up[i + 1] /\ i + 1 \in 1..Len(up)
      /\ Head(up) = up[1] /\ Head(up) \in ModeMessage
  BY <1>1, QueueTaken
<1>3. /\ c \in Channels /\ Head(up).set \in Partial /\ Head(up).kind \in {"query", "set"}
      /\ Head(up).kind = "query" => Head(up).set = Nothing
  <2>1. 1 \in 1..Len(up) /\ Head(up) = up[1]
    BY <1>2
  <2>2. up[1].kind \in {"query", "set"} /\ (up[1].kind = "query" => up[1].set = Nothing)
    BY <2>1 DEF ModesInv, ModesType
  <2>3. c \in Channels /\ Head(up).set \in Partial
    BY <1>2, MessageParts
  <2> QED
    BY <2>1, <2>2, <2>3
<1>4. /\ DOMAIN Head(up).set \subseteq Names /\ news \subseteq Names /\ DOMAIN Nothing = {}
  BY <1>3, PartialNames, PartialEmpty
<1>5. ASSUME ~carried PROVE c = shown /\ \A i \in 1..Len(up') : up'[i].of = shown
  BY <1>2, <1>5 DEF ModesInv, Routed
<1>6. \A i \in 1..Len(up') : up'[i].kind \in {"query", "set"} /\ (up'[i].kind = "query" => up'[i].set = Nothing)
  BY <1>2 DEF ModesInv, ModesType
<1>7. ASSUME ~carried, PanelInv PROVE \A i \in 1..Len(up') : up'[i].kind = "set"
  BY <1>2, <1>6, <1>7 DEF PanelInv, AnswerFirst
<1>8. ASSUME NEW n \in Names, Agrees(n)
      PROVE \A i \in 1..Len(up') : n \in DOMAIN up'[i].set => (up'[i].set[n] <=> (n \in boxes))
  BY <1>2, <1>8 DEF Agrees
\* The command changes nothing.
<1>a. CASE UNCHANGED <<modes, heard, down>>
  <2> USE <1>a DEF ModesInv
  <2>1. ModesType'
    BY <1>1, <1>2, <1>6 DEF ModesType
  <2>2. ~carried' => Routed'
    BY <1>1, <1>5 DEF Routed
  <2>3. ASSUME ~carried', NEW d \in Channels, ~foreign'[d] PROVE Unheard(d)'
    BY <1>1, <2>3 DEF Unheard
  <2>4. ASSUME ~carried', ~foreign'[shown'] PROVE PanelInv'
    <3>1. PanelInv /\ ~carried
      BY <1>1, <2>4
    <3>2. AnswerFirst'
      <4>1. \A i \in 1..Len(up') : up'[i].kind # "query"
        BY <1>7, <3>1
      <4> QED
        BY <1>1, <1>7, <3>1, <4>1 DEF PanelInv, AnswerFirst
    <3>3. OnlyOn'
      BY <1>1, <1>2, <3>1 DEF PanelInv, OnlyOn
    <3>4. ASSUME NEW n \in Names PROVE Chosen(n)' \/ Agrees(n)'
      BY <1>1, <1>8, <3>1 DEF PanelInv, Chosen, Agrees, On
    <3> QED
      BY <1>1, <3>1, <3>2, <3>3, <3>4 DEF PanelInv
  <2> QED
    BY <2>1, <2>2, <2>3, <2>4
\* It changes something, or is answered.
<1>b. ASSUME NEW e \in ModeMessage, down' = Append(down, e), e.of = c,
             modes' \in [Channels -> SUBSET Names], heard' \in [Channels -> SUBSET Names],
             heard'[c] # {} => e.set # Nothing,
             \A d \in Channels : d # c => heard'[d] = heard[d],
             \/ /\ e.kind = "change" /\ Head(up).kind = "set" /\ e.set # Nothing
                /\ \A n \in DOMAIN e.set : n \in DOMAIN Head(up).set /\ e.set[n] = Head(up).set[n]
             \/ /\ e.kind = "query" /\ Head(up).kind = "query"
                /\ heard[c] = {} => \A n \in DOMAIN e.set : e.set[n]
      PROVE  ModesInv'
  <2>0. /\ 1 \in 1..Len(up)
        /\ e.kind = "change" =>
             \A n \in DOMAIN e.set : n \in DOMAIN up[1].set /\ e.set[n] = up[1].set[n]
    BY <1>2, <1>b
  <2>1. /\ down' \in Seq(ModeMessage) /\ Len(down) \in Nat /\ Len(down') = Len(down) + 1
        /\ down'[Len(down) + 1] = e
        /\ \A i \in 1..Len(down) : down'[i] = down[i]
        /\ \A i \in 1..Len(down') : IF i = Len(down) + 1 THEN down'[i] = e
                                     ELSE i \in 1..Len(down) /\ down'[i] = down[i]
    BY <1>1, <1>b, QueueAppended
  <2> USE DEF ModesInv
  <2>2. ModesType'
    <3>1. \A i \in 1..Len(down') :
            down'[i].kind = "query" \/ (down'[i].kind = "change" /\ down'[i].set # Nothing)
      BY <1>b, <2>1 DEF ModesType
    <3> QED
      BY <1>1, <1>2, <1>6, <1>b, <2>1, <3>1 DEF ModesType
  <2>3. ~carried' => Routed'
    BY <1>1, <1>5, <1>b, <2>1 DEF Routed
  <2>4. ASSUME ~carried', NEW d \in Channels, ~foreign'[d] PROVE Unheard(d)'
    <3>1. CASE d = c
      BY <1>b, <2>1, <3>1 DEF Unheard
    <3>2. CASE d # c
      <4>1. Unheard(d) /\ heard'[d] = heard[d] /\ known' = known
        BY <1>1, <1>b, <2>4, <3>2
      <4> QED
        BY <2>1, <4>1 DEF Unheard
    <3> QED
      BY <3>1, <3>2
  <2>5. ASSUME ~carried', ~foreign'[shown'] PROVE PanelInv'
    <3>1. PanelInv /\ ~carried /\ c = shown /\ Routed
      BY <1>1, <1>5, <2>5
    <3>2. \A i \in 1..Len(up') : up'[i].kind = "set"
      BY <1>7, <3>1
    <3>3. e.kind = "query" =>
            /\ known[shown] = Nothing /\ heard[shown] = {}
            /\ \A i \in 1..Len(down) : down[i].of # shown
      BY <1>2, <1>b, <3>1 DEF PanelInv, AnswerFirst
    <3>4. AnswerFirst'
      <4>1. ASSUME NEW i \in 1..Len(down'), down'[i].kind = "query"
            PROVE  known[shown] = Nothing /\ \A j \in 1..Len(down') : j < i => down'[j].of # shown
        <5>1. CASE i = Len(down) + 1
          BY <2>1, <3>3, <4>1, <5>1
        <5>2. CASE i # Len(down) + 1
          BY <2>1, <3>1, <4>1, <5>2 DEF PanelInv, AnswerFirst
        <5> QED
          BY <5>1, <5>2
      <4> QED
        BY <1>1, <3>2, <4>1 DEF AnswerFirst
    <3>5. ASSUME known[shown] = Nothing PROVE \A n \in DOMAIN e.set : e.set[n]
      <4>1. CASE e.kind = "query"
        BY <1>b, <3>1, <3>3, <4>1
      <4>2. CASE e.kind = "change"
        BY <2>0, <3>1, <3>5, <4>2 DEF PanelInv, OnlyOn
      <4> QED
        BY <4>1, <4>2, <1>b
    <3>6. OnlyOn'
      BY <1>1, <1>2, <2>1, <3>1, <3>5 DEF PanelInv, OnlyOn
    <3>7. ASSUME NEW n \in Names PROVE Chosen(n)' \/ Agrees(n)'
      <4>1. Chosen(n) => Chosen(n)'
        BY <1>1 DEF Chosen
      <4>2. ASSUME Agrees(n) PROVE Agrees(n)'
        <5>1. e.kind = "change" /\ n \in DOMAIN e.set => (e.set[n] <=> (n \in boxes))
          BY <2>0, <4>2 DEF Agrees
        <5>2. \A i \in 1..Len(down') :
                down'[i].of = shown /\ down'[i].kind = "change" /\ n \in DOMAIN down'[i].set
                  => (down'[i].set[n] <=> (n \in boxes))
          BY <2>1, <4>2, <5>1 DEF Agrees
        <5> QED
          BY <1>1, <1>8, <4>2, <5>2 DEF Agrees, On
      <4> QED
        BY <3>1, <4>1, <4>2 DEF PanelInv
    <3> QED
      BY <1>1, <3>1, <3>4, <3>6, <3>7 DEF PanelInv
  <2> QED
    BY <2>2, <2>3, <2>4, <2>5
<1>c. CASE Head(up).kind = "set" /\ news # {}
  <2> DEFINE s == [n \in news |-> Head(up).set[n]]
  <2> DEFINE e == [kind |-> "change", of |-> c, set |-> s]
  <2>1. /\ modes' = [modes EXCEPT ![c] = Merge(@, s)] /\ down' = Append(down, e)
        /\ heard' = [heard EXCEPT ![c] = @ \cup DOMAIN s]
    BY <1>c DEF Serve, Change
  <2>2. DOMAIN s = news /\ \A n \in news : s[n] = Head(up).set[n]
    OBVIOUS
  <2>3. s \in Partial /\ s # Nothing
    <3>1. s = [n \in news |-> n \in {m \in news : Head(up).set[m]}]
      <4>1. news \subseteq DOMAIN Head(up).set
        OBVIOUS
      <4>2. \A n \in DOMAIN Head(up).set : Head(up).set[n] \in BOOLEAN
        BY <1>3, PartialIsBoolean
      <4>3. \A n \in news : Head(up).set[n] = (n \in {m \in news : Head(up).set[m]})
        BY <4>1, <4>2
      <4> HIDE DEF news
      <4> QED
        BY <4>3
    <3>2. news \in SUBSET Names /\ {m \in news : Head(up).set[m]} \in SUBSET Names
      BY <1>4
    <3>3. s \in Partial
      BY <3>1, <3>2, PartialMade
    <3> QED
      BY <2>2, <3>3, <1>c, PartialEmpty
  <2> HIDE DEF s
  <2>4. e \in ModeMessage /\ e.kind = "change" /\ e.of = c /\ e.set = s
    BY <1>3, <2>3, MessageParts
  <2> HIDE DEF e
  <2>5. /\ modes' \in [Channels -> SUBSET Names] /\ heard' \in [Channels -> SUBSET Names]
        /\ \A d \in Channels : d # c => heard'[d] = heard[d]
    <3>1. Merge(modes[c], s) \subseteq Names
      BY <1>3, <1>4, <2>2 DEF Merge, ModesInv, ModesType
    <3>2. heard[c] \cup DOMAIN s \subseteq Names
      BY <1>3, <1>4, <2>2 DEF ModesInv, ModesType
    <3> QED
      BY <1>3, <2>1, <3>1, <3>2 DEF ModesInv, ModesType
  <2> QED
    BY <1>b, <1>c, <2>1, <2>2, <2>3, <2>4, <2>5
<1>d. CASE Head(up).kind = "query"
  <2> DEFINE s == [n \in heard'[c] |-> n \in modes[c]]
  <2> DEFINE e == [Head(up) EXCEPT !.set = s]
  <2>1. /\ modes' = modes /\ down' = Append(down, e)
        /\ heard' = [heard EXCEPT ![c] = @ \cup modes[c]]
    BY <1>d DEF Serve
  <2>2. /\ heard' \in [Channels -> SUBSET Names] /\ modes' \in [Channels -> SUBSET Names]
        /\ heard'[c] = heard[c] \cup modes[c] /\ modes[c] \subseteq Names
        /\ \A d \in Channels : d # c => heard'[d] = heard[d]
    BY <1>3, <2>1 DEF ModesInv, ModesType
  <2>3. DOMAIN s = heard'[c] /\ (heard[c] = {} => \A n \in DOMAIN s : s[n])
    BY <2>2
  <2>4. s \in Partial /\ (heard'[c] # {} => s # Nothing)
    <3>1. heard'[c] \in SUBSET Names /\ modes[c] \in SUBSET Names
      BY <1>3, <2>2
    <3>2. s \in Partial
      BY <3>1, PartialMade
    <3> QED
      BY <2>3, <3>2, PartialEmpty
  <2> HIDE DEF s
  <2>5. e \in ModeMessage /\ e.kind = "query" /\ e.of = c /\ e.set = s
    BY <1>2, <1>3, <1>d, <2>4 DEF ModeMessage
  <2> HIDE DEF e
  <2> QED
    BY <1>b, <1>d, <2>1, <2>2, <2>3, <2>4, <2>5
<1>e. CASE Head(up).kind = "set" /\ news = {}
  <2>1. UNCHANGED <<modes, heard, down>>
    BY <1>e DEF Serve
  <2> QED
    BY <1>a, <2>1
<1> QED
  BY <1>3, <1>c, <1>d, <1>e
LEMMA ReceiveStep ==
  ASSUME ModesInv, Receive
  PROVE  ModesInv'
<1> DEFINE came == Head(down)
<1> DEFINE c == came.of
<1>1. /\ down \in Seq(ModeMessage) /\ down # <<>> /\ down' = Tail(down)
      /\ UNCHANGED <<modes, heard, shown, up, wanted, foreign, carried>>
  BY DEF ModesInv, ModesType, Receive
<1>2. /\ down' \in Seq(ModeMessage) /\ Len(down') = Len(down) - 1 /\ Len(down) \in Nat \ {0}
      /\ \A i \in 1..Len(down') : down'[i] = down[i + 1] /\ i + 1 \in 1..Len(down)
      /\ came = down[1] /\ came \in ModeMessage /\ 1 \in 1..Len(down)
  BY <1>1, QueueTaken
<1>3. /\ c \in Channels /\ came.set \in Partial
      /\ came.kind = "query" \/ (came.kind = "change" /\ came.set # Nothing)
  BY <1>2, MessageParts DEF ModesInv, ModesType
<1>4. /\ DOMAIN came.set \subseteq Names
      /\ DOMAIN Nothing = {} /\ (came.set = Nothing <=> DOMAIN came.set = {})
  <2>1. \A m \in Partial : DOMAIN m \subseteq Names /\ (m = Nothing <=> DOMAIN m = {})
    BY PartialNames, PartialEmpty
  <2>2. DOMAIN Nothing = {}
    BY PartialEmpty
  <2> QED
    BY <1>3, <2>1, <2>2
<1>5. /\ known \in [Channels -> Partial] /\ shown \in Channels /\ boxes \subseteq Names
      /\ known[shown] \in Partial /\ Assigned(known[c], came.set) \in Partial
  <2>1. known \in [Channels -> Partial] /\ shown \in Channels /\ boxes \subseteq Names
    BY DEF ModesInv, ModesType
  <2>2. \A m \in Partial, k \in Partial : Assigned(m, k) \in Partial
    BY PartialAssigned
  <2> QED
    BY <1>3, <2>1, <2>2
<1>6. /\ DOMAIN Assigned(known[c], came.set) = DOMAIN known[c] \cup DOMAIN came.set
      /\ \A n \in DOMAIN came.set : Assigned(known[c], came.set)[n] = came.set[n]
      /\ \A n \in DOMAIN known[c] : n \notin DOMAIN came.set => Assigned(known[c], came.set)[n] = known[c][n]
  BY DEF Assigned
<1>7. came.kind = "query" =>
        /\ known' = [known EXCEPT ![shown] = came.set]
        /\ boxes' = Merge(boxes, came.set) /\ filled' = (filled \/ came.set # Nothing)
  BY DEF Receive
<1>8. came.kind = "change" =>
        /\ known' = [known EXCEPT ![c] = Assigned(@, came.set)]
        /\ filled' = (filled \/ c = shown)
        /\ boxes' = IF filled' # filled THEN Merge(boxes, known'[shown]) ELSE boxes
  BY DEF Receive
<1>9. ASSUME ~carried, came.kind = "query" PROVE c = shown
  BY <1>2, <1>9 DEF ModesInv, Routed
<1>10. \A i \in 1..Len(down') :
          down'[i].kind = "query" \/ (down'[i].kind = "change" /\ down'[i].set # Nothing)
  BY <1>2 DEF ModesInv, ModesType
<1> HIDE DEF came
<1>11. ModesType'
  <2>1. known' \in [Channels -> Partial]
    BY <1>3, <1>5, <1>7, <1>8
  <2>2. boxes' \subseteq Names
    <3>1. known'[shown] \in Partial
      BY <1>5, <2>1
    <3>2. DOMAIN known'[shown] \subseteq Names
      BY <3>1, PartialNames
    <3> QED
      BY <1>3, <1>4, <1>5, <1>7, <1>8, <3>2 DEF Merge
  <2>3. filled' \in BOOLEAN
    BY <1>3, <1>7, <1>8 DEF ModesInv, ModesType
  <2> QED
    BY <1>1, <1>2, <1>10, <2>1, <2>2, <2>3 DEF ModesInv, ModesType
<1>12. ~carried' => Routed'
  BY <1>1, <1>2 DEF ModesInv, Routed
<1>13. ASSUME ~carried', ~foreign'[shown'] PROVE PanelInv'
  <2>1. ~carried /\ PanelInv /\ shown' = shown /\ up' = up
    BY <1>1, <1>13 DEF ModesInv
  \* What was on its way is as it was.
  <2>2. ASSUME known[shown] = Nothing
        PROVE  /\ \A i \in 1..Len(up') : \A n \in DOMAIN up'[i].set : up'[i].set[n]
               /\ \A i \in 1..Len(down') : down'[i].of = shown => \A n \in DOMAIN down'[i].set : down'[i].set[n]
               /\ c = shown => \A n \in DOMAIN came.set : came.set[n]
    BY <1>2, <2>1, <2>2 DEF PanelInv, OnlyOn
  <2>3. ASSUME NEW n \in Names, Agrees(n)
        PROVE  /\ \A i \in 1..Len(up') : n \in DOMAIN up'[i].set => (up'[i].set[n] <=> (n \in boxes))
               /\ \A i \in 1..Len(down') :
                    down'[i].of = shown /\ down'[i].kind = "change" /\ n \in DOMAIN down'[i].set
                      => (down'[i].set[n] <=> (n \in boxes))
               /\ c = shown /\ came.kind = "change"
                  /\ n \in DOMAIN came.set => (came.set[n] <=> (n \in boxes))
    BY <1>2, <2>1, <2>3 DEF Agrees
  \* Boxes that are filled by modes of which none is known.
  <2>4. ASSUME known[shown] = Nothing, known'[shown] = came.set, boxes' = Merge(boxes, came.set), c = shown,
               NEW n \in Names
        PROVE  Chosen(n)' \/ Agrees(n)'
    <3>1. CASE n \in DOMAIN came.set
      <4>1. came.set[n] /\ n \in boxes' /\ On(n)'
        BY <2>1, <2>2, <2>4, <3>1 DEF Merge, On
      <4>2. /\ \A i \in 1..Len(up') : n \in DOMAIN up'[i].set => up'[i].set[n]
            /\ \A i \in 1..Len(down') : down'[i].of = shown /\ n \in DOMAIN down'[i].set => down'[i].set[n]
        BY <2>2, <2>4
      <4> QED
        BY <2>1, <4>1, <4>2 DEF Agrees
    <3>2. CASE n \notin DOMAIN came.set
      <4>1. (n \in boxes' <=> n \in boxes) /\ ~On(n) /\ ~On(n)'
        BY <1>4, <2>1, <2>4, <3>2 DEF Merge, On
      <4>2. Chosen(n) => Chosen(n)'
        BY <1>1, <4>1 DEF Chosen
      <4>3. Agrees(n) => Agrees(n)'
        BY <2>1, <2>3, <4>1 DEF Agrees
      <4> QED
        BY <2>1, <4>2, <4>3 DEF PanelInv
    <3> QED
      BY <3>1, <3>2
  <2>5. CASE came.kind = "query"
    <3>1. /\ c = shown /\ known[shown] = Nothing /\ known'[shown] = came.set
          /\ boxes' = Merge(boxes, came.set) /\ filled' = (filled \/ came.set # Nothing)
          /\ \A i \in 1..Len(up') : up'[i].kind # "query"
          /\ \A i \in 1..Len(down') : down'[i].kind # "query"
      <4>1. c = shown
        BY <1>9, <2>1, <2>5
      <4>2. known[shown] = Nothing /\ \A i \in 1..Len(up') : up'[i].kind = "set"
        BY <1>2, <2>1, <2>5 DEF PanelInv, AnswerFirst
      <4>3. \A i \in 1..Len(down') : down'[i].kind # "query"
        <5>1. \A i \in 1..Len(down) : down[i].kind = "query" => ~(1 < i)
          BY <1>2, <2>1, <4>1 DEF PanelInv, AnswerFirst
        <5> QED
          BY <1>2, <5>1
      <4> QED
        BY <1>5, <1>7, <2>5, <4>1, <4>2, <4>3
    <3>2. AnswerFirst'
      BY <3>1 DEF AnswerFirst
    <3>3. OnlyOn'
      BY <2>1, <2>2, <3>1 DEF OnlyOn
    <3>4. ~filled' => known'[shown'] = Nothing
      BY <2>1, <3>1 DEF PanelInv
    <3>5. \A n \in Names : Chosen(n)' \/ Agrees(n)'
      BY <2>4, <3>1
    <3> QED
      BY <3>2, <3>3, <3>4, <3>5 DEF PanelInv
  <2>6. CASE came.kind = "change" /\ c # shown
    <3>1. known'[shown] = known[shown] /\ filled' = filled /\ boxes' = boxes /\ heard' = heard
      BY <1>1, <1>3, <1>5, <1>8, <2>6 DEF ModesInv, ModesType
    <3>2. AnswerFirst'
      <4>1. AnswerFirst
        BY <2>1 DEF PanelInv
      <4>2. ASSUME NEW i \in 1..Len(up'), up'[i].kind = "query"
            PROVE  /\ i = 1 /\ known'[shown'] = Nothing /\ heard'[shown'] = {}
                   /\ \A j \in 1..Len(down') : down'[j].of # shown'
        BY <1>2, <2>1, <3>1, <4>1, <4>2 DEF AnswerFirst
      <4>3. ASSUME NEW i \in 1..Len(down'), down'[i].kind = "query"
            PROVE  /\ known'[shown'] = Nothing
                   /\ \A j \in 1..Len(down') : j < i => down'[j].of # shown'
                   /\ \A j \in 1..Len(up') : up'[j].kind = "set"
        <5>1. i + 1 \in 1..Len(down) /\ down[i + 1].kind = "query"
          BY <1>2, <4>3
        <5>2. ASSUME NEW j \in 1..Len(down'), j < i PROVE down'[j].of # shown
          <6>1. j + 1 \in 1..Len(down) /\ j + 1 < i + 1 /\ down'[j] = down[j + 1]
            BY <1>2, <5>2
          <6> QED
            BY <4>1, <5>1, <6>1 DEF AnswerFirst
        <5> QED
          BY <2>1, <3>1, <4>1, <5>1, <5>2 DEF AnswerFirst
      <4> QED
        BY <4>2, <4>3 DEF AnswerFirst
    <3>3. OnlyOn'
      BY <2>1, <2>2, <3>1 DEF OnlyOn
    <3>4. \A n \in Names : Chosen(n)' \/ Agrees(n)'
      BY <1>1, <2>1, <2>3, <3>1 DEF PanelInv, Chosen, Agrees, On
    <3> QED
      BY <2>1, <3>1, <3>2, <3>3, <3>4 DEF PanelInv
  <2>7. CASE came.kind = "change" /\ c = shown
    <3>1. known'[shown] = Assigned(known[shown], came.set) /\ filled' = TRUE
      BY <1>5, <1>8, <2>7
    <3>2. known'[shown] # Nothing
      BY <1>3, <1>4, <1>6, <2>7, <3>1
    <3>3. /\ \A i \in 1..Len(up') : up'[i].kind # "query"
          /\ \A i \in 1..Len(down') : down'[i].kind # "query"
      <4>1. \A i \in 1..Len(down) : down[i].kind = "query" => ~(1 < i)
        BY <1>2, <2>1, <2>7 DEF PanelInv, AnswerFirst
      <4>2. \A i \in 1..Len(up) : up[i].kind = "query" => \A j \in 1..Len(down) : down[j].of # shown
        BY <2>1 DEF PanelInv, AnswerFirst
      <4>3. 1 \in 1..Len(down) /\ down[1].of = shown
        BY <1>2, <2>7
      <4> QED
        BY <1>2, <2>1, <4>1, <4>2, <4>3
    <3>4. AnswerFirst' /\ OnlyOn'
      BY <2>1, <3>2, <3>3 DEF AnswerFirst, OnlyOn
    <3>5. ASSUME NEW n \in Names PROVE Chosen(n)' \/ Agrees(n)'
      <4>1. CASE filled
        <5>1. boxes' = boxes
          BY <1>8, <2>7, <3>1, <4>1
        <5>2. Chosen(n) => Chosen(n)'
          BY <1>1, <5>1 DEF Chosen
        <5>3. ASSUME Agrees(n) PROVE On(n)' <=> n \in boxes
          <6>1. CASE n \in DOMAIN came.set
            BY <1>6, <2>1, <2>3, <2>7, <3>1, <5>3, <6>1 DEF On
          <6>2. CASE n \notin DOMAIN came.set
            BY <1>6, <2>1, <2>7, <3>1, <5>3, <6>2 DEF On, Agrees
          <6> QED
            BY <6>1, <6>2
        <5>4. Agrees(n) => Agrees(n)'
          BY <2>1, <2>3, <5>1, <5>3 DEF Agrees
        <5> QED
          BY <2>1, <5>2, <5>4 DEF PanelInv
      <4>2. CASE ~filled
        <5>1. known[shown] = Nothing
          BY <2>1, <4>2 DEF PanelInv
        <5>2. Assigned(known[shown], came.set) = came.set
          <6>1. \E S \in SUBSET Names : came.set \in [S -> BOOLEAN]
            BY <1>3 DEF Partial
          <6> QED
            BY <1>4, <5>1, <6>1 DEF Assigned
        <5>3. boxes' = Merge(boxes, came.set)
          BY <1>8, <2>7, <3>1, <4>2, <5>2
        <5> QED
          BY <2>4, <2>7, <3>1, <5>1, <5>2, <5>3
      <4> QED
        BY <4>1, <4>2
    <3> QED
      BY <3>1, <3>4, <3>5 DEF PanelInv
  <2> QED
    BY <1>3, <2>5, <2>6, <2>7
<1>14. ASSUME ~carried', NEW d \in Channels, ~foreign'[d] PROVE Unheard(d)'
  <2>1. ~carried /\ Unheard(d) /\ ~foreign[d] /\ heard' = heard
    BY <1>1, <1>14 DEF ModesInv
  <2>2. ASSUME known'[d] = Nothing
        PROVE  known[d] = Nothing /\ (c = d => came.set = Nothing)
    <3>1. CASE came.kind = "query"
      <4>1. CASE d = shown
        <5>1. PanelInv /\ Routed
          BY <2>1, <4>1 DEF ModesInv
        <5>2. known[shown] = Nothing
          BY <1>2, <3>1, <5>1 DEF PanelInv, AnswerFirst
        <5>3. known'[shown] = came.set
          BY <1>5, <1>7, <3>1
        <5> QED
          BY <2>2, <4>1, <5>2, <5>3
      <4>2. CASE d # shown
        BY <1>5, <1>7, <1>9, <2>1, <2>2, <3>1, <4>2
      <4> QED
        BY <4>1, <4>2
    <3>2. CASE came.kind = "change"
      <4>1. came.set # Nothing
        BY <1>3, <3>2
      <4>2. d # c
        BY <1>4, <1>5, <1>6, <1>8, <2>2, <3>2, <4>1
      <4> QED
        BY <1>5, <1>8, <2>2, <3>2, <4>2
    <3> QED
      BY <1>3, <3>1, <3>2
  <2>3. ASSUME known'[d] = Nothing, heard[d] # {}
        PROVE  \E i \in 1..Len(down') : down'[i].of = d /\ down'[i].set # Nothing
    <3>1. PICK i \in 1..Len(down) : down[i].of = d /\ down[i].set # Nothing
      BY <2>1, <2>2, <2>3 DEF Unheard
    <3>2. i # 1
      BY <1>2, <2>2, <2>3, <3>1
    <3>3. i - 1 \in 1..Len(down')
      BY <1>2, <3>1, <3>2
    <3>4. down'[i - 1] = down[(i - 1) + 1] /\ (i - 1) + 1 = i
      BY <1>2, <3>3
    <3> QED
      BY <3>1, <3>3, <3>4
  <2> QED
    BY <2>1, <2>3 DEF Unheard
<1> QED
  BY <1>11, <1>12, <1>13, <1>14 DEF ModesInv

LEMMA ModesInvStep == ModesInv /\ [ModesNext]_modesVars => ModesInv'
<1> SUFFICES ASSUME ModesInv, [ModesNext]_modesVars PROVE ModesInv'
  OBVIOUS
<1>1. CASE UNCHANGED modesVars
  BY <1>1 DEF modesVars, belief, ModesInv, ModesType, Routed, Unheard, PanelInv, AnswerFirst,
     OnlyOn,
               Chosen, Agrees, On
<1> QED
  BY <1>1, ShowPanelStep, TickBoxStep, SaveChannelModesStep, ServeStep, ReceiveStep, OperatorStep
     DEF ModesNext

(* To save the settings of a channel changes what the user has ticked, and *)
(* nothing else (ConversationSettings.svelte:49-62), for any number of      *)
(* channels, modes and people.                                              *)
THEOREM OnlyOwnAreSaved == ModesSpec => []OwnChangesOnly
<1>1. ModesInv => OwnChangesOnly
  <2> SUFFICES ASSUME ModesInv, ~foreign[shown], ~carried, NEW n \in Difference
               PROVE  n \in DOMAIN wanted /\ wanted[n] = (n \in boxes)
    BY DEF OwnChangesOnly, Own
  <2>1. n \in Names /\ ~Agrees(n)
    BY DEF Difference, Agrees, On
  <2>2. Chosen(n)
    BY <2>1 DEF ModesInv, PanelInv
  <2>3. wanted[n] \in BOOLEAN
    BY <2>2, PartialIsBoolean DEF ModesInv, ModesType, Chosen
  <2> QED
    BY <2>2, <2>3 DEF Chosen
<1> QED
  BY <1>1, ModesInvInit, ModesInvStep, PTL DEF ModesSpec

-----------------------------------------------------------------------------
(* The main menu: what matches, in its order, and what is opened.           *)
\* What a concatenation is, element by element.
LEMMA ConcatIs ==
  ASSUME NEW S, NEW s \in Seq(S), NEW t \in Seq(S)
  PROVE  /\ s \o t \in Seq(S) /\ Len(s \o t) = Len(s) + Len(t)
         /\ \A i \in 1..Len(s) : (s \o t)[i] = s[i]
         /\ \A i \in 1..Len(t) : (s \o t)[i + Len(s)] = t[i] /\ (s \o t)[Len(s) + i] = t[i]
  OBVIOUS

\* What a part of a sequence is, element by element.
LEMMA SubSeqIs ==
  ASSUME NEW S, NEW s \in Seq(S), NEW a \in Nat, NEW b \in Nat, 1 <= a, a <= b + 1, b <= Len(s)
  PROVE  /\ SubSeq(s, a, b) \in Seq(S) /\ Len(SubSeq(s, a, b)) = b - a + 1
         /\ \A i \in 1..(b - a + 1) : SubSeq(s, a, b)[i] = s[i + a - 1]
  OBVIOUS

\* A set of numbers has a least one.
LEMMA LeastIs ==
  ASSUME NEW S \in SUBSET Nat, S # {}
  PROVE  \E x \in S : \A y \in S : x <= y
<1> DEFINE R == OpToRel(<, Nat)
<1>1. PICK x \in S : \A y \in S : ~(<<y, x>> \in R)
  <2>1. IsWellFoundedOn(R, Nat)
    BY NatLessThanWellFounded
  <2> HIDE DEF R
  <2> QED
    BY <2>1, WFMin
<1>2. ASSUME NEW y \in S PROVE x <= y
  <2>1. x \in Nat /\ y \in Nat
    OBVIOUS
  <2>2. ~(y < x)
    BY <1>1, <2>1 DEF OpToRel
  <2> QED
    BY <2>1, <2>2
<1> QED
  BY <1>2

\* It is its minimum.
LEMMA MinIs ==
  ASSUME NEW S \in SUBSET Nat, NEW x \in S, \A y \in S : x <= y
  PROVE  Min(S) = x
<1>1. Min(S) \in S /\ \A y \in S : Min(S) =< y
  BY DEF Min
<1>2. Min(S) \in Nat /\ x \in Nat /\ x <= Min(S) /\ Min(S) <= x
  BY <1>1
<1> QED
  BY <1>2

\* The first of a filtered list is the first that was kept.
LEMMA FilteredFirst ==
  ASSUME NEW S, NEW s \in Seq(S), NEW keep \in SUBSET (1..Len(s)), NEW rest
  PROVE  /\ keep = {} => Filtered(s, keep) = <<>>
         /\ \A k \in keep : (\A j \in keep : k <= j) => Len(Filtered(s, keep)) >= 1 /\ Filtered(s, keep)[1] = s[k]
<1>1. PICK r \in Seq(S) : r = Filtered(s, keep) /\ \E p : Picks(p, r, s, keep)
  BY FilteredIs
<1>2. PICK p : Picks(p, r, s, keep)
  BY <1>1
<1>3. Len(r) \in Nat
  BY <1>1
<1>4. ASSUME keep = {} PROVE r = <<>>
  <2>1. Len(r) = 0
    BY <1>2, <1>3, <1>4 DEF Picks
  <2> QED
    BY <1>1, <2>1
<1>5. ASSUME NEW k \in keep, \A j \in keep : k <= j PROVE Len(r) >= 1 /\ r[1] = s[k]
  <2>1. PICK i \in 1..Len(r) : p[i] = k
    BY <1>2 DEF Picks
  <2>2. 1 \in 1..Len(r)
    BY <1>3, <2>1
  <2>3. p[1] \in keep /\ (1 < i => p[1] < p[i]) /\ r[1] = s[p[1]]
    BY <1>2, <2>1, <2>2 DEF Picks
  <2>4. p[1] \in Nat /\ p[i] \in Nat
    BY <2>1, <2>3
  <2>5. i = 1
    BY <1>5, <2>1, <2>3, <2>4
  <2> QED
    BY <1>3, <2>1, <2>2, <2>3, <2>5
<1> QED
  BY <1>1, <1>4, <1>5

\* Who talks is in the menu in the order of the numbers.
LEMMA TalkingIs ==
  ASSUME joined \in SUBSET (DOMAIN Talks)
  PROVE  /\ Talking \in Seq(Nat) /\ \A i \in 1..Len(Talking) : Talking[i] \in joined
         /\ \A i, j \in 1..Len(Talking) : i < j => Talking[i] < Talking[j]
         /\ \A k \in joined : \E i \in 1..Len(Talking) : Talking[i] = k
<1> DEFINE n == Len(Talks)
           s == [k \in DOMAIN Talks |-> k]
<1>1. n \in Nat /\ DOMAIN Talks = 1..n
  BY MenuAssumption
<1> HIDE DEF n
<1>2. s \in Seq(Nat) /\ Len(s) = n /\ \A k \in 1..n : s[k] = k
  BY <1>1
<1> HIDE DEF s
<1>3. joined \in SUBSET (1..Len(s))
  BY <1>1, <1>2
<1>4. Talking = Filtered(s, joined)
  BY DEF Talking, s
<1>5. Talking \in Seq(Nat)
  BY <1>2, <1>3, <1>4, FilteredIs
<1>6. PICK p : Picks(p, Talking, s, joined)
  BY <1>2, <1>3, <1>4, FilteredIs
<1>7. \A i \in 1..Len(Talking) : p[i] \in joined /\ Talking[i] = p[i]
  BY <1>1, <1>2, <1>6 DEF Picks
<1> QED
  BY <1>5, <1>6, <1>7 DEF Picks

\* The links of the document while something is typed.
LEMMA DocumentIs ==
  ASSUME joined \in SUBSET (DOMAIN Talks), filter # <<>>
  PROVE  LET old == Document(filter) IN
         /\ \E A : old \in Seq(A)
         /\ Len(old) = Len(Talking) + 3
         /\ old[1].is = "toggle" /\ old[2].is = "network" /\ old[Len(Talking) + 3].is = "owner"
         /\ \A i \in 1..Len(Talking) : old[i + 2].is = "talk" /\ old[i + 2].no = i
<1> DEFINE A == [is : {"toggle", "network", "talk", "owner"}, no : Nat]
           N == Len(Talking)
<1>1. N \in Nat
  BY TalkingIs
<1> HIDE DEF N
<1>2. ASSUME NEW is \in {"toggle", "network", "talk", "owner"}, NEW n \in Nat
      PROVE  /\ Anchor(is, n) \in Seq(A) /\ Len(Anchor(is, n)) = n
             /\ \A i \in 1..n : Anchor(is, n)[i].is = is /\ Anchor(is, n)[i].no = i
  BY DEF Anchor
<1>3. Document(filter) = Anchor("toggle", 1) \o (Anchor("network", 1) \o Anchor("talk", N)) \o Anchor("owner", 1) \o <<>>
  BY DEF Document, N
<1> DEFINE t == Anchor("toggle", 1)
           w == Anchor("network", 1)
           k == Anchor("talk", N)
           o == Anchor("owner", 1)
<1>4. /\ t \in Seq(A) /\ Len(t) = 1 /\ t[1].is = "toggle"
      /\ w \in Seq(A) /\ Len(w) = 1 /\ w[1].is = "network"
      /\ o \in Seq(A) /\ Len(o) = 1 /\ o[1].is = "owner"
  <2>1. ASSUME NEW is \in {"toggle", "network", "owner"}
        PROVE  Anchor(is, 1) \in Seq(A) /\ Len(Anchor(is, 1)) = 1 /\ Anchor(is, 1)[1].is = is
    BY DEF Anchor
  <2> HIDE DEF A
  <2> QED
    BY <2>1
<1>5. k \in Seq(A) /\ Len(k) = N /\ \A i \in 1..N : k[i].is = "talk" /\ k[i].no = i
  BY <1>1, <1>2
<1> DEFINE b == w \o k
           c == t \o b
           d == c \o o
           old == Document(filter)
<1>6. old = d \o <<>>
  BY <1>3
<1> HIDE DEF t, w, k, o, A, old
<1>7. b \in Seq(A) /\ Len(b) = N + 1 /\ b[1] = w[1] /\ \A i \in 1..N : b[i + 1] = k[i]
  <2>1. N = Len(k) /\ Len(w) = 1 /\ 1 \in 1..1
    BY <1>4, <1>5
  <2>2. w \in Seq(A) /\ k \in Seq(A)
    BY <1>4, <1>5
  <2>3. /\ b \in Seq(A) /\ Len(b) = Len(w) + Len(k)
        /\ \A i \in 1..Len(w) : b[i] = w[i]
        /\ \A i \in 1..Len(k) : b[i + Len(w)] = k[i]
    BY <2>2, ConcatIs
  <2> HIDE DEF b
  <2>4. b[1] = w[1]
    BY <2>1, <2>3
  <2>5. \A i \in 1..N : b[i + 1] = k[i]
    BY <2>1, <2>3
  <2> QED
    BY <1>1, <2>1, <2>3, <2>4, <2>5
<1> HIDE DEF b
<1>8. /\ c \in Seq(A) /\ Len(c) = N + 2 /\ c[1] = t[1] /\ c[2] = w[1]
      /\ \A i \in 1..N : c[i + 2] = k[i]
  <2>1. c \in Seq(A) /\ Len(c) = N + 2 /\ c[1] = t[1] /\ \A i \in 1..(N + 1) : c[i + 1] = b[i]
    <3>1. N + 1 = Len(b) /\ Len(t) = 1 /\ 1 \in 1..1
      BY <1>4, <1>7
    <3> QED
      BY <1>1, <1>4, <1>7, <3>1, ConcatIs
  <2>2. ASSUME NEW i \in 1..N PROVE c[i + 2] = k[i]
    <3>1. i + 1 \in 1..(N + 1) /\ (i + 1) + 1 = i + 2
      BY <1>1
    <3> QED
      BY <1>7, <2>1, <3>1
  <2>3. 1 \in 1..(N + 1) /\ 1 + 1 = 2
    BY <1>1
  <2> QED
    BY <1>7, <2>1, <2>2, <2>3
<1> HIDE DEF c
<1>9. d \in Seq(A) /\ Len(d) = N + 3 /\ d[N + 3] = o[1] /\ \A i \in 1..(N + 2) : d[i] = c[i]
  <2>1. N + 2 = Len(c) /\ Len(o) = 1 /\ 1 \in 1..1 /\ (N + 2) + 1 = N + 3
    BY <1>1, <1>4, <1>8
  <2> QED
    BY <1>1, <1>4, <1>8, <2>1, ConcatIs
<1> HIDE DEF d
<1>10. old = d
  BY <1>6, <1>9
<1>11. 1 \in 1..(N + 2) /\ 2 \in 1..(N + 2) /\ \A i \in 1..N : i + 2 \in 1..(N + 2)
  BY <1>1
<1>12. /\ old[1].is = "toggle" /\ old[2].is = "network" /\ old[N + 3].is = "owner"
       /\ \A i \in 1..N : old[i + 2].is = "talk" /\ old[i + 2].no = i
  BY <1>4, <1>5, <1>8, <1>9, <1>10, <1>11
<1> QED
  BY <1>9, <1>10, <1>12 DEF old, N

\* What Enter would open, of the links found for f.
Opened(f) == LET a == Matching(f)[1] IN IF a.is = "search" THEN f ELSE Text(a, f)

\* The link to the search.
LEMMA SearchIs == Anchor("search", 1) = <<[is |-> "search", no |-> 1]>>
  BY DEF Anchor

\* What is opened is what the filter means.
LEMMA MatchingMeans ==
  ASSUME joined \in SUBSET (DOMAIN Talks), filter # <<>>, NEW f \in Seq(Letters), f # <<>>,
         ~Within(f, Network)
  PROVE  Opened(f) = Meant(f, joined)
<1> DEFINE old == Document(filter)
           N == Len(Talking)
           links == {i \in DOMAIN old : old[i].is # "owner"}
           first == {i \in links : Starts(f, Text(old[i], filter))}
           within == {i \in links : Within(f, Text(old[i], filter))}
           keep == IF first # {} THEN first ELSE within
           starting == {k \in joined : Starts(f, Talks[k])}
           having == {k \in joined : Within(f, Talks[k])}
<1>1. Matching(f) = Filtered(old, keep) \o Anchor("search", 1)
  BY DEF Matching
<1>2. PICK A : old \in Seq(A)
  BY DocumentIs
<1>3. /\ Len(old) = N + 3 /\ old[1].is = "toggle" /\ old[2].is = "network"
         /\ old[N + 3].is = "owner"
      /\ \A i \in 1..N : old[i + 2].is = "talk" /\ old[i + 2].no = i
  BY DocumentIs
<1>4. /\ N \in Nat /\ \A i \in 1..N : Talking[i] \in joined
      /\ \A i, j \in 1..N : i < j => Talking[i] < Talking[j]
      /\ \A k \in joined : \E i \in 1..N : Talking[i] = k
  BY TalkingIs
<1>5. joined \in SUBSET Nat
  BY MenuAssumption
<1>6. ~Starts(f, Network)
  <2> DEFINE n == Len(Network)
  <2>1. SUFFICES ASSUME Starts(f, Network) PROVE FALSE
    OBVIOUS
  <2>2. n \in Nat /\ Len(f) \in Nat /\ Len(f) # 0 /\ Len(f) <= n
    BY <2>1, MenuAssumption DEF Starts, IsPrefix
  <2>3. SubSeq(Network, 1, n) = Network
    BY MenuAssumption
  <2>4. 1 \in 1..n /\ IsPrefix(f, SubSeq(Network, 1, n))
    <3>1. 1 \in 1..n
      BY <2>2
    <3>2. IsPrefix(f, Network)
      BY <2>1 DEF Starts
    <3> HIDE DEF n
    <3> QED
      BY <2>3, <3>1, <3>2
  <2> QED
    BY <2>4 DEF Within
<1> HIDE DEF N, old
<1>7. \A i \in 1..(N + 3) : i = 1 \/ i = 2 \/ i = N + 3 \/ (i - 2 \in 1..N /\ (i - 2) + 2 = i)
  BY <1>4
<1>8. DOMAIN old = 1..(N + 3) /\ links \subseteq 1..(N + 3)
  BY <1>2, <1>3
<1>9. ASSUME NEW i \in links
      PROVE  \/ Text(old[i], filter) = Network
             \/ /\ i - 2 \in 1..N /\ Talking[i - 2] \in joined
                /\ Text(old[i], filter) = Talks[Talking[i - 2]]
  <2>1. i \in 1..(N + 3) /\ old[i].is # "owner"
    BY <1>8
  <2>2. CASE i = 1
    BY <1>3, <2>2 DEF Text
  <2>3. CASE i = 2
    BY <1>3, <2>3 DEF Text
  <2>4. CASE i - 2 \in 1..N /\ (i - 2) + 2 = i
    <3>1. old[i].is = "talk" /\ old[i].no = i - 2
      BY <1>3, <2>4
    <3> QED
      BY <1>4, <2>4, <3>1 DEF Text
  <2> QED
    BY <1>3, <1>7, <2>1, <2>2, <2>3, <2>4
<1>10. \A i \in 1..N : /\ i + 2 \in links /\ old[i + 2].is # "search"
                       /\ \A g : Text(old[i + 2], g) = Talks[Talking[i]]
  <2> SUFFICES ASSUME NEW i \in 1..N
               PROVE  /\ i + 2 \in links /\ old[i + 2].is # "search"
                      /\ \A g : Text(old[i + 2], g) = Talks[Talking[i]]
    OBVIOUS
  <2>1. i + 2 \in 1..(N + 3) /\ old[i + 2].is = "talk" /\ old[i + 2].no = i
    BY <1>3, <1>4
  <2> QED
    BY <1>8, <2>1 DEF Text
\* A link for one of the names in H, which f hits, is found first.
<1>11. ASSUME NEW H \in SUBSET joined, H # {}, NEW hits \in SUBSET links,
              \A i \in hits : i - 2 \in 1..N /\ Talking[i - 2] \in H,
              \A i \in 1..N : Talking[i] \in H => i + 2 \in hits,
              keep = hits
       PROVE  Opened(f) = Talks[Min(H)]
  <2>1. \E i \in Nat : i \in hits
    BY <1>4, <1>11
  <2>2. PICK m \in hits : \A i \in hits : m <= i
    <3>1. hits \in SUBSET Nat /\ hits # {}
      BY <1>8, <2>1
    <3> QED
      BY <3>1, LeastIs
  <2>3. m - 2 \in 1..N /\ Talking[m - 2] \in H
    BY <1>11
  <2>4. ASSUME NEW y \in H PROVE Talking[m - 2] <= y
    <3>1. PICK i \in 1..N : Talking[i] = y
      BY <1>4
    <3>2. i + 2 \in hits /\ m <= i + 2 /\ m \in Nat
      BY <1>8, <1>11, <2>2, <3>1
    <3>3. m - 2 <= i
      BY <3>2
    <3>4. CASE m - 2 = i
      BY <1>5, <3>1, <3>4
    <3>5. CASE m - 2 < i
      <4>1. Talking[m - 2] < Talking[i]
        BY <1>4, <2>3, <3>5
      <4> QED
        BY <1>5, <2>3, <3>1, <4>1
    <3> QED
      BY <2>3, <3>2, <3>3, <3>4, <3>5
  <2>5. Min(H) = Talking[m - 2]
    BY <1>5, <2>3, <2>4, MinIs
  <2>6. hits \in SUBSET (1..Len(old))
    BY <1>3, <1>8
  <2> DEFINE r == Filtered(old, hits)
  <2>7. Len(r) >= 1 /\ r[1] = old[m] /\ r \in Seq(A)
    BY <1>2, <2>2, <2>6, FilteredFirst, FilteredIs
  <2>8. Matching(f)[1] = old[m]
    <3>1. Matching(f) = r \o <<[is |-> "search", no |-> 1]>>
      BY <1>1, <1>11, SearchIs
    <3> HIDE DEF r
    <3> QED
      BY <2>7, <3>1
  <2>9. m - 2 \in 1..N /\ (m - 2) + 2 = m
    BY <1>8, <1>11
  <2>10. old[m].is # "search" /\ Text(old[m], f) = Talks[Talking[m - 2]]
    BY <1>10, <2>9
  <2> QED
    BY <2>5, <2>8, <2>10 DEF Opened
<1>12. CASE starting # {}
  <2>1. \A i \in first : i - 2 \in 1..N /\ Talking[i - 2] \in starting
    <3> SUFFICES ASSUME NEW i \in first PROVE i - 2 \in 1..N /\ Talking[i - 2] \in starting
      OBVIOUS
    <3>1. i \in links /\ Starts(f, Text(old[i], filter))
      OBVIOUS
    <3>2. Text(old[i], filter) # Network
      BY <1>6, <3>1
    <3> QED
      BY <1>9, <3>1, <3>2
  <2>2. \A i \in 1..N : Talking[i] \in starting => i + 2 \in first
    BY <1>10
  <2>3. PICK i \in 1..N : Talking[i] \in starting
    BY <1>4, <1>12
  <2>4. first # {}
    BY <2>2, <2>3
  <2>5. Meant(f, joined) = Talks[Min(starting)]
    BY <1>12 DEF Meant
  <2>6. keep = first /\ first \in SUBSET links /\ starting \in SUBSET joined
    BY <2>4
  <2> HIDE DEF keep, first, starting, links
  <2> QED
    BY <1>11, <1>12, <2>1, <2>2, <2>5, <2>6
<1>13. CASE starting = {}
  <2>1. first = {}
    <3> SUFFICES ASSUME NEW i \in first PROVE FALSE
      OBVIOUS
    <3>1. i \in links /\ Starts(f, Text(old[i], filter))
      OBVIOUS
    <3>2. Text(old[i], filter) # Network
      BY <1>6, <3>1
    <3> QED
      BY <1>9, <1>13, <3>1, <3>2
  <2>2. \A i \in within : i - 2 \in 1..N /\ Talking[i - 2] \in having
    <3> SUFFICES ASSUME NEW i \in within PROVE i - 2 \in 1..N /\ Talking[i - 2] \in having
      OBVIOUS
    <3>1. i \in links /\ Within(f, Text(old[i], filter))
      OBVIOUS
    <3>2. Text(old[i], filter) # Network
      BY <3>1
    <3> QED
      BY <1>9, <3>1, <3>2
  <2>3. \A i \in 1..N : Talking[i] \in having => i + 2 \in within
    BY <1>10
  <2>4. keep = within /\ within \in SUBSET links /\ having \in SUBSET joined
    BY <2>1
  <2>5. Meant(f, joined) = IF having # {} THEN Talks[Min(having)] ELSE f
    BY <1>13 DEF Meant
  <2>6. CASE having # {}
    <3> HIDE DEF keep, first, within, having, links
    <3> QED
      BY <1>11, <2>2, <2>3, <2>4, <2>5, <2>6
  <2>7. CASE having = {}
    <3>1. within = {} /\ keep = {}
      BY <2>2, <2>4, <2>7
    <3>2. Matching(f) = <<>> \o <<[is |-> "search", no |-> 1]>>
      <4>1. Filtered(old, keep) = <<>>
        BY <1>2, <3>1, FilteredFirst
      <4> QED
        BY <1>1, <4>1, SearchIs
    <3>3. Matching(f)[1] = [is |-> "search", no |-> 1]
      BY <3>2
    <3> QED
      BY <2>5, <2>7, <3>3 DEF Opened
  <2> QED
    BY <2>6, <2>7
<1> QED
  BY <1>12, <1>13

-----------------------------------------------------------------------------
(* As long as nothing but letters changed the list, its first link is what *)
(* is meant.                                                               *)
MenuInv ==
  /\ joined \in SUBSET (DOMAIN Talks)
  /\ filter \in Seq(Letters)
  /\ typed => /\ filter # <<>> /\ link = 1
              /\ ~Within(filter, Network) => Address(found[1]) = Meant(filter, joined)
  /\ EnterMatches

\* It holds initially.
LEMMA MenuInvInit == MenuInit => MenuInv
  BY MenuAssumption DEF MenuInit, MenuInv, EnterMatches

\* A letter is typed, or erased, and the list is filtered.
LEMMA FilterStep ==
  ASSUME MenuInv, NEW f \in Seq(Letters), f # filter, Filter(f), UNCHANGED <<joined, went>>,
         typed' => filter # <<>> /\ f # <<>>
  PROVE  MenuInv'
<1>1. filter' = f /\ found' = (IF f = <<>> THEN Document(filter) ELSE Matching(f)) /\ link' = 1
  BY DEF Filter, FilterNav
<1>2. ASSUME typed', ~Within(f, Network) PROVE Address(found[1])' = Meant(f, joined)
  <2>1. f # <<>> /\ filter # <<>>
    BY <1>2
  <2>2. Opened(f) = Meant(f, joined)
    BY <1>2, <2>1, MatchingMeans DEF MenuInv
  <2>3. \A a : Text(a, filter)' = Text(a, f)
    BY <1>1 DEF Text, Talking
  <2> QED
    BY <1>1, <2>1, <2>2, <2>3 DEF Opened, Address
<1>3. Meant(f, joined)' = Meant(f, joined) /\ Meant(f, joined') = Meant(f, joined)
  BY DEF Meant
<1>4. EnterMatches'
  BY DEF MenuInv, EnterMatches, Meant
<1> QED
  BY <1>1, <1>2, <1>3, <1>4 DEF MenuInv

\* Every step preserves it.
LEMMA MenuInvStep == MenuInv /\ [MenuNext]_menuVars => MenuInv'
<1> SUFFICES ASSUME MenuInv, [MenuNext]_menuVars PROVE MenuInv'
  OBVIOUS
<1>1. ASSUME NEW c \in Letters, TypeLetter(c) PROVE MenuInv'
  <2>1. Append(filter, c) \in Seq(Letters) /\ Append(filter, c) # filter /\ Append(filter, c) # <<>>
    <3>1. filter \in Seq(Letters)
      BY DEF MenuInv
    <3>2. Len(Append(filter, c)) = Len(filter) + 1 /\ Len(filter) \in Nat
      BY <3>1
    <3> QED
      BY <3>1, <3>2
  <2> QED
    BY <1>1, <2>1, FilterStep DEF TypeLetter
<1>2. CASE EraseLetter
  <2>1. filter \in Seq(Letters) /\ filter # <<>> /\ Filter(Front(filter)) /\ filter' = Front(filter)
        /\ UNCHANGED <<joined, went>> /\ typed' = (filter' # <<>>)
    BY <1>2 DEF MenuInv, EraseLetter, Filter
  <2>2. Front(filter) \in Seq(Letters) /\ Front(filter) # filter
    <3>1. Len(filter) \in Nat /\ Len(filter) # 0
      BY <2>1
    <3>2. Front(filter) \in Seq(Letters) /\ Len(Front(filter)) = Len(filter) - 1
      <4>1. PICK n \in Nat : n = Len(filter) - 1
        BY <3>1
      <4>2. n <= Len(filter) /\ 1 <= n + 1 /\ n - 1 + 1 = n /\ 1 <= 1
        BY <3>1, <4>1
      <4>3. SubSeq(filter, 1, n) \in Seq(Letters) /\ Len(SubSeq(filter, 1, n)) = n
        BY <2>1, <4>2, SubSeqIs
      <4> QED
        BY <4>1, <4>3 DEF Front
    <3> QED
      BY <3>1, <3>2
  <2> QED
    BY <2>1, <2>2, FilterStep
<1>3. ASSUME NEW by \in {-4, -1, 1, 4}, Arrow(by) PROVE MenuInv'
  BY <1>3 DEF Arrow, MenuInv, EnterMatches, Meant
<1>4. CASE Enter
  <2>1. UNCHANGED <<joined, collapsed, filter, found, link, typed>>
    BY <1>4 DEF Enter
  <2>2. EnterMatches'
    <3>1. CASE link \in DOMAIN found
      <4>1. went' = [to |-> Address(found[link]), for |-> filter, plain |-> typed, among |-> joined]
        BY <1>4, <3>1 DEF Enter
      <4> QED
        BY <4>1 DEF MenuInv, EnterMatches, Meant
    <3>2. CASE link \notin DOMAIN found
      BY <1>4, <3>2 DEF Enter, MenuInv, EnterMatches, Meant
    <3> QED
      BY <3>1, <3>2
  <2>3. Address(found[1])' = Address(found[1]) /\ Meant(filter, joined)' = Meant(filter, joined)
    BY <2>1 DEF Address, Text, Talking, Meant
  <2> QED
    BY <2>1, <2>2, <2>3 DEF MenuInv
<1>5. CASE LeaveField
  BY <1>5 DEF LeaveField, MenuInv, EnterMatches, Meant, Address, Text, Talking
<1>6. CASE ClearFilter
  BY <1>6 DEF ClearFilter, Filter, MenuInv, EnterMatches, Meant
<1>7. ASSUME NEW s \in {"network", "settings"}, ToggleSection(s) PROVE MenuInv'
  BY <1>7 DEF ToggleSection, MenuInv, EnterMatches, Meant
<1>8. ASSUME NEW k \in DOMAIN Talks, Join(k) PROVE MenuInv'
  BY <1>8 DEF Join, MenuInv, EnterMatches, Meant
<1>9. CASE UNCHANGED menuVars
  BY <1>9 DEF menuVars, MenuInv, EnterMatches, Meant, Address, Text, Talking
<1> QED
  BY <1>1, <1>2, <1>3, <1>4, <1>5, <1>6, <1>7, <1>8, <1>9 DEF MenuNext

(* Enter leads to what is meant (onSearchKeydown and filterNav of          *)
(* MainMenu.svelte), for any names and any letters.                         *)
THEOREM EnterIsMeant == MenuSpec => []EnterMatches
<1>1. MenuInv => EnterMatches
  BY DEF MenuInv
<1> QED
  BY <1>1, MenuInvInit, MenuInvStep, PTL DEF MenuSpec

-----------------------------------------------------------------------------
(* findVisibleElements: the search by halves, and the walk from where it    *)
(* ends.                                                                    *)
\* Induction up to a bound.
LEMMA BoundedInduction ==
  ASSUME NEW n \in Nat, NEW S, 0 \in S, \A k \in 0..(n - 1) : k \in S => k + 1 \in S
  PROVE  0..n \subseteq S
<1> DEFINE K == {k \in Nat : k <= n => k \in S}
<1>1. 0 \in K
  OBVIOUS
<1>2. ASSUME NEW k \in Nat, k \in K PROVE k + 1 \in K
  BY <1>2
<1>3. Nat \subseteq K
  <2> HIDE DEF K
  <2> QED
    BY <1>1, <1>2, Induction
<1> QED
  BY <1>3

\* The haystacks that may hold the first element in sight.
Hays(tops, scrollTop) ==
  {q \in [lo : 1..Len(tops), hi : 1..Len(tops)] :
    /\ q.lo <= q.hi
    /\ q.lo = 1 \/ tops[q.lo] <= scrollTop
    /\ q.hi = Len(tops) \/ scrollTop < tops[q.hi + 1]}

\* The middle of the elements is among them.
LEMMA MiddleIs ==
  ASSUME NEW n \in Nat, NEW lo \in 1..n, NEW hi \in 1..n, lo < hi
  PROVE  LET index == lo + (hi - lo + 1) \div 2
         IN index \in (lo + 1)..hi /\ index \in 1..n /\ index - 1 \in lo..hi /\ index - 1 \in 1..n
<1>1. PICK d \in Nat : d = hi - lo + 1 /\ d >= 2 /\ d <= hi - lo + 1
  OBVIOUS
<1>2. PICK h \in Int : h = d \div 2
  BY <1>1
<1>3. h >= 1 /\ h < d
  BY <1>1, <1>2
<1>4. lo + (hi - lo + 1) \div 2 = lo + h
  BY <1>1, <1>2
<1>5. lo + h >= lo + 1 /\ lo + h <= hi /\ lo + h \in Int
  BY <1>1, <1>2, <1>3
<1> QED
  BY <1>4, <1>5

\* One step of the search leaves less to search.
LEMMA HalvedIs ==
  ASSUME NEW tops \in Seq(Nat), NEW scrollTop \in Nat, NEW q \in Hays(tops, scrollTop)
  PROVE  /\ Halved(tops, q, scrollTop) \in Hays(tops, scrollTop)
         /\ q.lo = q.hi => Halved(tops, q, scrollTop) = q
         /\ LET h == Halved(tops, q, scrollTop) IN q.lo # q.hi => h.hi - h.lo < q.hi - q.lo
<1> DEFINE n == Len(tops)
           h == Halved(tops, q, scrollTop)
<1>1. /\ n \in Nat /\ q.lo \in 1..n /\ q.hi \in 1..n /\ q.lo <= q.hi
         /\ q = [lo |-> q.lo, hi |-> q.hi]
      /\ q.lo = 1 \/ tops[q.lo] <= scrollTop
      /\ q.hi = n \/ scrollTop < tops[q.hi + 1]
      /\ \A i \in 1..n : tops[i] \in Nat
  BY DEF Hays
<1>2. CASE q.lo = q.hi
  BY <1>2 DEF Halved
<1>3. CASE q.lo # q.hi
  <2>0. PICK lo \in 1..n, hi \in 1..n : lo = q.lo /\ hi = q.hi /\ lo < hi
    BY <1>1, <1>3
  <2>1. PICK index \in (lo + 1)..hi : /\ index \in 1..n /\ index - 1 \in lo..hi /\ index - 1 \in 1..n
                                     /\ index = lo + (hi - lo + 1) \div 2
    BY <1>1, <2>0, MiddleIs
  <2>q. q = [lo |-> lo, hi |-> hi]
    BY <1>1, <2>0
  <2>2. h = IF tops[index] <= scrollTop THEN [lo |-> index, hi |-> hi] ELSE [lo |-> lo, hi |-> index - 1]
    <3>1. q.lo = lo /\ q.hi = hi /\ q.lo # q.hi
      BY <2>0
    <3>2. h = LET mid == lo + (hi - lo + 1) \div 2 IN
              IF tops[mid] <= scrollTop THEN [q EXCEPT !.lo = mid] ELSE [q EXCEPT !.hi = mid - 1]
      BY <3>1, Zenon DEF Halved
    <3>3. h = IF tops[index] <= scrollTop THEN [q EXCEPT !.lo = index] ELSE [q EXCEPT !.hi = index - 1]
      BY <2>1, <3>2, Zenon
    <3>4. [q EXCEPT !.lo = index] = [lo |-> index, hi |-> hi]
          /\ [q EXCEPT !.hi = index - 1] = [lo |-> lo, hi |-> index - 1]
      BY <2>q
    <3> QED
      BY <3>3, <3>4, Zenon
  <2> HIDE DEF h
  <2>3. CASE tops[index] <= scrollTop
    <3>1. h = [lo |-> index, hi |-> hi]
      BY <2>2, <2>3
    <3>2. index <= hi /\ hi - index < hi - lo
      BY <2>1
    <3> QED
      <4>1. h.lo = index /\ h.hi = hi /\ h \in [lo : 1..n, hi : 1..n]
        BY <2>1, <3>1
      <4>2. h \in Hays(tops, scrollTop)
        <5>1. h.lo <= h.hi /\ (h.hi = n \/ scrollTop < tops[h.hi + 1])
          BY <1>1, <2>0, <3>2, <4>1
        <5>2. tops[h.lo] <= scrollTop
          BY <2>3, <4>1
        <5> QED
          BY <4>1, <5>1, <5>2 DEF Hays
      <4>3. h.hi - h.lo < q.hi - q.lo
        BY <2>0, <3>2, <4>1
      <4> QED
        BY <1>3, <4>2, <4>3 DEF h
  <2>4. CASE ~(tops[index] <= scrollTop)
    <3>1. h = [lo |-> lo, hi |-> index - 1]
      BY <2>2, <2>4
    <3>2. scrollTop < tops[index]
      <4>1. tops[index] \in Nat
        BY <1>1, <2>1
      <4> QED
        BY <2>4, <4>1
    <3>3. lo <= index - 1 /\ (index - 1) - lo < hi - lo /\ (index - 1) + 1 = index
      BY <2>1
    <3> QED
      <4>1. h.lo = lo /\ h.hi = index - 1 /\ h \in [lo : 1..n, hi : 1..n]
        BY <2>1, <3>1
      <4>2. h \in Hays(tops, scrollTop)
        BY <1>1, <2>0, <2>1, <3>1, <3>2, <3>3, <4>1 DEF Hays
      <4>3. h.hi - h.lo < q.hi - q.lo
        BY <2>0, <3>3, <4>1
      <4> QED
        BY <1>3, <4>2, <4>3 DEF h
  <2> QED
    BY <2>3, <2>4
<1> QED
  BY <1>2, <1>3

\* What is found is the last element that starts above the window, if there is one.
\* The link to the search.
LEMMA SearchFinds ==
  ASSUME NEW tops \in Seq(Nat), tops # <<>>, NEW scrollTop \in Nat
  PROVE  LET first == Search(tops, scrollTop) IN
         /\ first \in 1..Len(tops)
         /\ first = 1 \/ tops[first] <= scrollTop
         /\ first = Len(tops) \/ scrollTop < tops[first + 1]
<1> DEFINE n == Len(tops)
           Q == Hays(tops, scrollTop)
           start == [lo |-> 1, hi |-> n]
           Body(g, i) == IF i = 0 THEN start ELSE Halved(tops, g[i - 1], scrollTop)
           hay == CHOOSE g : g = [i \in 0..n |-> Body(g, i)]
           step == [i \in 1..n |-> [q \in Q |-> Halved(tops, q, scrollTop)]]
<1>1. n \in Nat /\ n >= 1
  OBVIOUS
<1>2. start \in Q
  BY <1>1 DEF Hays
<1>3. step \in [1..n -> [Q -> Q]]
  <2>1. \A q \in Q : Halved(tops, q, scrollTop) \in Q
    BY HalvedIs
  <2> HIDE DEF Q
  <2> QED
    BY <2>1
<1> HIDE DEF n, start, Q
<1>4. IsMade(n, Q, start, step)
  <2> HIDE DEF step
  <2> QED
    BY <1>1, <1>2, <1>3, Recursion
<1>5. PICK g \in [0..n -> Q] : g[0] = start /\ \A i \in 1..n : g[i] = Halved(tops, g[i - 1], scrollTop)
  <2>1. PICK g \in [0..n -> Q] : g[0] = start /\ \A i \in 1..n : g[i] = step[i][g[i - 1]]
    <3> HIDE DEF step
    <3> QED
      BY <1>4 DEF IsMade
  <2>2. \A i \in 1..n : g[i - 1] \in Q
    BY <1>1, <2>1
  <2>3. \A i \in 1..n : g[i] = Halved(tops, g[i - 1], scrollTop)
    BY <2>1, <2>2
  <2> QED
    BY <2>1, <2>3
<1>6. hay = [i \in 0..n |-> Body(hay, i)]
  <2>1. \A i \in 0..n : g[i] = Body(g, i)
    BY <1>1, <1>5
  <2>2. g = [i \in 0..n |-> Body(g, i)]
    BY <1>5, <2>1
  <2> QED
    BY <2>2
<1> HIDE DEF hay
<1>7. hay[0] = start /\ \A i \in 1..n : hay[i] = Halved(tops, hay[i - 1], scrollTop)
  BY <1>1, <1>6
<1> DEFINE S == {i \in 0..n : hay[i] \in Q /\ (hay[i].lo = hay[i].hi \/ hay[i].hi - hay[i].lo + i < n)}
<1>8. 0 \in S
  BY <1>1, <1>2, <1>7 DEF start
<1>9. ASSUME NEW k \in 0..(n - 1), k \in S PROVE k + 1 \in S
  <2>1. k + 1 \in 1..n /\ k + 1 \in 0..n /\ (k + 1) - 1 = k
    BY <1>1
  <2>2. PICK q \in Q : q = hay[k] /\ (q.lo = q.hi \/ q.hi - q.lo + k < n)
    BY <1>9
  <2>3. hay[k + 1] = Halved(tops, q, scrollTop)
    BY <1>7, <2>1, <2>2
  <2>4. PICK h \in Q : h = hay[k + 1] /\ (q.lo = q.hi => h = q) /\ (q.lo # q.hi => h.hi - h.lo < q.hi - q.lo)
    BY <2>2, <2>3, HalvedIs DEF Q
  <2>5. q.lo \in Nat /\ q.hi \in Nat /\ h.lo \in Nat /\ h.hi \in Nat
    <3>1. \A r \in Q : r.lo \in 1..n /\ r.hi \in 1..n
      BY DEF Q, Hays, n
    <3> HIDE DEF Q, S, start
    <3>2. q.lo \in 1..n /\ q.hi \in 1..n
      BY <2>2, <3>1
    <3>3. h.lo \in 1..n /\ h.hi \in 1..n
      BY <2>4, <3>1
    <3> QED
      BY <1>1, <3>2, <3>3
  <2>6. h.lo = h.hi \/ h.hi - h.lo + (k + 1) < n
    <3>1. PICK a \in Nat, b \in Nat, c \in Nat, d \in Nat : a = q.lo /\ b = q.hi /\ c = h.lo /\ d = h.hi
      BY <2>5
    <3>2. a = b => c = d
      BY <2>4, <3>1
    <3>3. a # b => d - c < b - a
      BY <2>4, <3>1
    <3>4. a = b \/ b - a + k < n
      BY <2>2, <3>1
    <3>5. k \in Nat
      BY <1>1
    <3>6. c = d \/ d - c + (k + 1) < n
      BY <1>1, <3>2, <3>3, <3>4, <3>5
    <3> QED
      BY <3>1, <3>6
  <2> QED
    BY <2>1, <2>4, <2>6
<1>10. n \in S
  <2> HIDE DEF S
  <2>1. 0..n \subseteq S
    BY <1>1, <1>8, <1>9, BoundedInduction
  <2> QED
    BY <1>1, <2>1
<1>11. PICK q \in Q : q = hay[n] /\ (q.lo = q.hi \/ q.hi - q.lo + n < n)
  BY <1>10
<1>12. /\ q.lo \in 1..n /\ q.hi \in 1..n /\ q.lo <= q.hi
       /\ q.lo = 1 \/ tops[q.lo] <= scrollTop
       /\ q.hi = n \/ scrollTop < tops[q.hi + 1]
  BY <1>11 DEF Q, Hays, n
<1>13. q.lo = q.hi
  BY <1>1, <1>11, <1>12
<1>14. Search(tops, scrollTop) = q.lo
  BY <1>11 DEF Search, hay, n, start
<1> QED
  BY <1>12, <1>13, <1>14 DEF n

\* Elements in order are in order wherever they are.
LEMMA Ascending ==
  ASSUME NEW tops \in Seq(Nat), \A i \in 1..(Len(tops) - 1) : tops[i] <= tops[i + 1]
  PROVE  \A i, j \in 1..Len(tops) : i <= j => tops[i] <= tops[j]
<1> DEFINE n == Len(tops)
<1> SUFFICES ASSUME NEW i \in 1..n PROVE \A j \in i..n : tops[i] <= tops[j]
  OBVIOUS
<1>1. n \in Nat /\ i \in Nat /\ i >= 1 /\ i <= n /\ n - i \in Nat /\ \A k \in 1..n : tops[k] \in Nat
  OBVIOUS
<1> DEFINE S == {d \in 0..(n - i) : tops[i] <= tops[i + d]}
<1> HIDE DEF n
<1>2. 0 \in S
  BY <1>1
<1>3. ASSUME NEW d \in 0..((n - i) - 1), d \in S PROVE d + 1 \in S
  <2>1. i + d \in 1..(n - 1) /\ i + (d + 1) = (i + d) + 1 /\ d + 1 \in 0..(n - i)
        /\ i + d \in 1..n /\ (i + d) + 1 \in 1..n
    BY <1>1
  <2>2. tops[i + d] <= tops[(i + d) + 1]
    BY <2>1 DEF n
  <2> QED
    BY <1>1, <1>3, <2>1, <2>2
<1>4. 0..(n - i) \subseteq S
  <2> HIDE DEF S
  <2> QED
    BY <1>1, <1>2, <1>3, BoundedInduction
<1> QED
  <2> TAKE j \in i..n
  <2>1. j - i \in 0..(n - i) /\ i + (j - i) = j
    BY <1>1
  <2> QED
    BY <1>4, <2>1

\* The elements in sight, of any list that goes down the page.
LEMMA VisibleIs ==
  ASSUME NEW tops \in Seq(Nat), \A i \in 1..(Len(tops) - 1) : tops[i] <= tops[i + 1],
         NEW scrollTop \in Nat, NEW offsetHeight \in Nat
  PROVE  FindVisibleElements(tops, scrollTop, offsetHeight) =
           {i \in DOMAIN tops : /\ tops[i] <= scrollTop + offsetHeight
                                /\ i < Len(tops) => tops[i + 1] > scrollTop}
<1> DEFINE n == Len(tops)
           end == scrollTop + offsetHeight
           first == Search(tops, scrollTop)
<1>1. n \in Nat /\ DOMAIN tops = 1..n /\ end \in Nat /\ \A k \in 1..n : tops[k] \in Nat
  OBVIOUS
<1>2. CASE tops = <<>>
  BY <1>2 DEF FindVisibleElements
<1>3. CASE tops # <<>>
  <2>1. first \in 1..n /\ (first = 1 \/ tops[first] <= scrollTop)
        /\ (first = n \/ scrollTop < tops[first + 1])
    BY <1>3, SearchFinds
  <2>2. \A i, j \in 1..n : i <= j => tops[i] <= tops[j]
    BY Ascending
  <2>3. FindVisibleElements(tops, scrollTop, offsetHeight) = {i \in first..n : \A j \in first..i : tops[j] <= end}
    BY <1>3 DEF FindVisibleElements
  <2> HIDE DEF n, end, first
  <2>4. ASSUME NEW i \in first..n, \A j \in first..i : tops[j] <= end
        PROVE  i \in 1..n /\ tops[i] <= end /\ (i < n => tops[i + 1] > scrollTop)
    <3>1. i \in 1..n /\ i \in first..i
      BY <1>1, <2>1
    <3>2. ASSUME i < n PROVE tops[i + 1] > scrollTop
      <4>1. first # n /\ first + 1 \in 1..n /\ i + 1 \in 1..n /\ first + 1 <= i + 1
        BY <1>1, <2>1, <3>2
      <4>2. scrollTop < tops[first + 1] /\ tops[first + 1] <= tops[i + 1]
        BY <2>1, <2>2, <4>1
      <4> QED
        BY <1>1, <4>1, <4>2
    <3> QED
      BY <2>4, <3>1, <3>2
  <2>5. ASSUME NEW i \in 1..n, tops[i] <= end, i < n => tops[i + 1] > scrollTop
        PROVE  i \in first..n /\ \A j \in first..i : tops[j] <= end
    <3>1. i >= first
      <4> SUFFICES ASSUME i < first PROVE FALSE
        BY <1>1, <2>1
      <4>1. first # 1 /\ i < n /\ i + 1 \in 1..n /\ i + 1 <= first
        BY <1>1, <2>1
      <4>2. tops[first] <= scrollTop /\ tops[i + 1] <= tops[first] /\ tops[i + 1] > scrollTop
        BY <2>1, <2>2, <2>5, <4>1
      <4> QED
        BY <1>1, <2>1, <4>1, <4>2
    <3>2. ASSUME NEW j \in first..i PROVE tops[j] <= end
      <4>1. j \in 1..n /\ j <= i
        BY <1>1, <2>1
      <4>2. tops[j] <= tops[i] /\ tops[j] \in Nat /\ tops[i] \in Nat
        BY <1>1, <2>2, <4>1
      <4> QED
        BY <1>1, <2>5, <4>2
    <3> QED
      BY <1>1, <2>1, <3>1, <3>2
  <2>6. {i \in first..n : \A j \in first..i : tops[j] <= end} = {i \in 1..n : tops[i] <= end /\ (i < n => tops[i + 1] > scrollTop)}
    BY <2>4, <2>5
  <2> QED
    BY <1>1, <2>3, <2>6 DEF n, end
<1> QED
  BY <1>2, <1>3

\* The input is of its kind.
AlgorithmTyped == kind \in DOMAIN Alphabet /\ input \in Seq(Alphabet[kind])

\* The input stays of its kind.
LEMMA AlgorithmTypedIs == AlgorithmSpec => []AlgorithmTyped
<1>1. AlgorithmInit => AlgorithmTyped
  BY DEF AlgorithmInit, AlgorithmTyped
<1>2. AlgorithmTyped /\ [AlgorithmNext]_algorithmVars => AlgorithmTyped'
  BY DEF AlgorithmTyped, AlgorithmNext, Grow, algorithmVars
<1> QED
  BY <1>1, <1>2, PTL DEF AlgorithmSpec

\* What findVisibleElements() finds is what is in sight.
LEMMA VisibleStep == AlgorithmTyped => VisibleExact
<1> SUFFICES ASSUME AlgorithmTyped, kind = "heights",
                    NEW scrollTop \in 0..5, NEW offsetHeight \in 0..3
             PROVE  LET tops[i \in DOMAIN input] == IF i = 1 THEN 0 ELSE tops[i - 1] + input[i - 1]
                    IN FindVisibleElements(tops, scrollTop, offsetHeight) =
                       {i \in DOMAIN tops : /\ tops[i] <= scrollTop + offsetHeight
                                            /\ i < Len(tops) => tops[i + 1] > scrollTop}
  BY DEF VisibleExact
<1> DEFINE n == Len(input)
           Body(g, i) == IF i = 1 THEN 0 ELSE g[i - 1] + input[i - 1]
           tops == CHOOSE g : g = [i \in DOMAIN input |-> Body(g, i)]
           step == [i \in 1..(n - 1) |-> [q \in Nat |-> q + input[i]]]
<1>1. input \in Seq(Nat) /\ n \in Nat /\ DOMAIN input = 1..n /\ \A i \in 1..n : input[i] \in Nat
  <2>1. input \in Seq(Nat)
    BY AlphabetAssumption DEF AlgorithmTyped
  <2> QED
    BY <2>1
<1>2. \E g \in [1..n -> Nat] : \A i \in 1..n : g[i] = Body(g, i)
  <2>1. CASE n = 0
    <3>1. [i \in 1..n |-> 0] \in [1..n -> Nat] /\ 1..n = {}
      BY <2>1
    <3> QED
      BY <3>1
  <2>2. CASE n # 0
    <3>1. n - 1 \in Nat /\ step \in [1..(n - 1) -> [Nat -> Nat]]
      BY <1>1, <2>2
    <3>2. IsMade(n - 1, Nat, 0, step)
      <4> HIDE DEF step, n
      <4> QED
        BY <3>1, Recursion
    <3>3. PICK f \in [0..(n - 1) -> Nat] : f[0] = 0 /\ \A i \in 1..(n - 1) : f[i] = step[i][f[i - 1]]
      BY <3>2 DEF IsMade
    <3>4. ASSUME NEW i \in 1..(n - 1) PROVE f[i] = f[i - 1] + input[i]
      <4>1. i - 1 \in 0..(n - 1) /\ f[i - 1] \in Nat
        BY <1>1
      <4> QED
        BY <3>3, <4>1
    <3> DEFINE g == [i \in 1..n |-> f[i - 1]]
    <3>5. g \in [1..n -> Nat] /\ \A i \in 1..n : g[i] = f[i - 1]
      <4>1. \A i \in 1..n : i - 1 \in 0..(n - 1)
        BY <1>1
      <4> QED
        BY <4>1
    <3> HIDE DEF g, step, n
    <3>6. ASSUME NEW i \in 1..n PROVE g[i] = Body(g, i)
      <4>1. CASE i = 1
        BY <3>3, <3>5, <4>1
      <4>2. CASE i # 1
        <5>1. i - 1 \in 1..(n - 1) /\ i - 1 \in 1..n
          BY <1>1, <4>2
        <5>2. g[i] = f[i - 1] /\ g[i - 1] = f[(i - 1) - 1]
              /\ f[i - 1] = f[(i - 1) - 1] + input[i - 1]
          BY <3>4, <3>5, <5>1
        <5> QED
          BY <4>2, <5>2
      <4> QED
        BY <4>1, <4>2
    <3> QED
      BY <3>5, <3>6
  <2> QED
    BY <2>1, <2>2
<1>3. tops = [i \in 1..n |-> Body(tops, i)]
  <2>1. PICK g \in [1..n -> Nat] : \A i \in 1..n : g[i] = Body(g, i)
    BY <1>2
  <2>2. g = [i \in DOMAIN input |-> Body(g, i)]
    BY <1>1, <2>1
  <2>3. tops = [i \in DOMAIN input |-> Body(tops, i)]
    BY <2>2
  <2> QED
    BY <1>1, <2>3
<1> HIDE DEF tops
<1> DEFINE S == {i \in 0..n : i = 0 \/ tops[i] \in Nat}
<1>4. 0 \in S
  BY <1>1
<1>5. ASSUME NEW k \in 0..(n - 1), k \in S PROVE k + 1 \in S
  <2>1. k + 1 \in 1..n /\ (k + 1) - 1 = k /\ tops[k + 1] = Body(tops, k + 1)
    BY <1>1, <1>3
  <2> HIDE DEF n
  <2>2. tops[k + 1] \in Nat
    <3>1. CASE k = 0
      BY <2>1, <3>1
    <3>2. CASE k # 0
      <4>1. tops[k] \in Nat /\ input[k] \in Nat /\ k + 1 # 1 /\ tops[k + 1] = tops[k] + input[k]
        BY <1>1, <1>5, <2>1, <3>2
      <4> QED
        BY <4>1
    <3> QED
      BY <3>1, <3>2
  <2> QED
    BY <1>1, <2>1, <2>2
<1>6. 0..n \subseteq S
  <2> HIDE DEF S, n
  <2> QED
    BY <1>1, <1>4, <1>5, BoundedInduction
<1>7. tops \in Seq(Nat) /\ Len(tops) = n
  <2>1. \A i \in 1..n : tops[i] \in Nat
    <3>1. \A i \in 1..n : i \in 0..n /\ i # 0
      BY <1>1
    <3> HIDE DEF n
    <3> QED
      BY <1>6, <3>1
  <2>2. tops \in [1..n -> Nat]
    <3> HIDE DEF n
    <3> QED
      BY <1>3, <2>1
  <2> QED
    BY <1>1, <2>2
<1>8. ASSUME NEW i \in 1..(Len(tops) - 1) PROVE tops[i] <= tops[i + 1]
  <2>1. i \in 1..n /\ i + 1 \in 1..n /\ i + 1 # 1 /\ (i + 1) - 1 = i
    BY <1>1, <1>7
  <2>2. tops[i + 1] = tops[i] + input[i] /\ tops[i] \in Nat /\ input[i] \in Nat
    <3> HIDE DEF n
    <3>1. tops[i + 1] = Body(tops, i + 1)
      BY <1>3, <2>1
    <3> QED
      BY <1>1, <1>7, <2>1, <3>1
  <2> QED
    BY <2>2
<1>9. scrollTop \in Nat /\ offsetHeight \in Nat
  OBVIOUS
<1>10. FindVisibleElements(tops, scrollTop, offsetHeight) =
         {i \in DOMAIN tops : /\ tops[i] <= scrollTop + offsetHeight
                              /\ i < Len(tops) => tops[i + 1] > scrollTop}
  BY <1>7, <1>8, <1>9, VisibleIs
<1> QED
  BY <1>10 DEF tops

\* For every list of heights, of whatever length.
THEOREM WhatIsInSightIsFound == AlgorithmSpec => []VisibleExact
  BY AlgorithmTypedIs, VisibleStep, PTL

-----------------------------------------------------------------------------
(* autocomplete: the words, the options for one, and filling it in.         *)
\* The signs that can be typed or filled in.
Signs == Alphabet["typing"] \cup UNION {ToSet(word) : word \in
             ToSet(Nicks) \cup ToSet(Conversations) \cup ToSet(Commands) \cup ToSet(Emojis)}

\* What can be an option.
Words == {word \in Seq(Signs) : word # <<>> /\ \A i \in 1..Len(word) : word[i] # Blank}

\* Names have no blank.
LEMMA NamesAreWords == \A names \in {Nicks, Conversations, Commands, Emojis} : names \in Seq(Words)
<1> SUFFICES ASSUME NEW names \in {Nicks, Conversations, Commands, Emojis} PROVE names \in Seq(Words)
  OBVIOUS
<1>1. /\ names \in Seq(ToSet(names))
      /\ \A i \in DOMAIN names : names[i] \in Seq(ToSet(names[i])) \ {<<>>} /\ " " \notin ToSet(names[i])
  BY CompletionAssumption
<1>2. ASSUME NEW i \in 1..Len(names) PROVE names[i] \in Words
  <2>1. i \in DOMAIN names
    <3>1. names \in Seq(ToSet(names))
      BY <1>1
    <3> QED
      BY <3>1
  <2>2. names[i] \in Seq(ToSet(names[i])) /\ names[i] # <<>> /\ " " \notin ToSet(names[i])
    BY <1>1, <2>1
  <2>3. ToSet(names[i]) \subseteq Signs
    <3>1. names[i] \in ToSet(names)
      BY <2>1 DEF ToSet
    <3> QED
      BY <3>1 DEF Signs
  <2> DEFINE name == names[i]
             T == ToSet(name)
  <2> HIDE DEF name
  <2>4. \A k \in 1..Len(name) : name[k] # Blank
    <3>1. DOMAIN name = 1..Len(name)
      <4> HIDE DEF T
      <4>1. name \in Seq(T)
        BY <2>2 DEF T, name
      <4> QED
        BY <4>1
    <3> QED
      BY <2>2, <3>1 DEF ToSet, Blank, name
  <2>5. name \in Seq(Signs)
    <3>1. name \in Seq(T) /\ T \subseteq Signs
      BY <2>2, <2>3 DEF name
    <3> HIDE DEF T
    <3> QED
      BY <3>1
  <2> QED
    BY <2>2, <2>4, <2>5 DEF Words, name
<1>3. Len(names) \in Nat /\ names = [i \in 1..Len(names) |-> names[i]]
  <2> DEFINE T == ToSet(names)
  <2>1. names \in Seq(T)
    BY <1>1
  <2> HIDE DEF T
  <2> QED
    BY <2>1
<1>4. names \in [1..Len(names) -> Words]
  BY <1>2, <1>3
<1> QED
  BY <1>3, <1>4

\* The word at the cursor starts after the last blank,
LEMMA WordStartIs ==
  ASSUME NEW S, NEW s \in Seq(S), NEW w \in 1..(Len(s) + 1), \A j \in w..Len(s) : s[j] # Blank,
         w = 1 \/ s[w - 1] = Blank
  PROVE  WordStart(s) = w
<1> DEFINE n == Len(s)
           starts == {n + 1} \cup {i \in 1..n : \A j \in i..n : s[j] # Blank}
<1>1. n \in Nat /\ w \in Nat
  OBVIOUS
<1>2. starts \in SUBSET Nat /\ w \in starts
  OBVIOUS
<1>3. ASSUME NEW i \in starts PROVE w <= i
  <2> SUFFICES ASSUME i < w PROVE FALSE
    BY <1>1, <1>2
  <2>1. i \in 1..n /\ w # 1 /\ w - 1 \in i..n /\ \A j \in i..n : s[j] # Blank
    BY <1>1, <1>3
  <2> QED
    BY <2>1
<1> HIDE DEF starts
<1> QED
  BY <1>2, <1>3, MinIs DEF WordStart, starts

\* and there is such a place.
LEMMA WordStartIn ==
  ASSUME NEW S, NEW s \in Seq(S)
  PROVE  \E w \in 1..(Len(s) + 1) : /\ WordStart(s) = w
                                    /\ \A j \in w..Len(s) : s[j] # Blank
                                    /\ w = 1 \/ s[w - 1] = Blank
<1> DEFINE n == Len(s)
           starts == {n + 1} \cup {i \in 1..n : \A j \in i..n : s[j] # Blank}
<1>1. n \in Nat
  OBVIOUS
<1>2. starts \in SUBSET Nat /\ starts # {}
  OBVIOUS
<1>3. PICK w \in starts : \A i \in starts : w <= i
  <2> HIDE DEF starts
  <2> QED
    BY <1>2, LeastIs
<1>4. w \in 1..(n + 1) /\ \A j \in w..n : s[j] # Blank
  BY <1>1, <1>3
<1>5. ASSUME w # 1 PROVE s[w - 1] = Blank
  <2> SUFFICES ASSUME s[w - 1] # Blank PROVE FALSE
    OBVIOUS
  <2>1. w - 1 \in 1..n /\ \A j \in (w - 1)..n : j = w - 1 \/ j \in w..n
    BY <1>1, <1>4, <1>5
  <2>2. \A j \in (w - 1)..n : s[j] # Blank
    BY <1>4, <2>1
  <2>3. w - 1 \in starts
    BY <2>1, <2>2
  <2> HIDE DEF starts
  <2> QED
    BY <1>1, <1>3, <1>4, <2>3
<1> HIDE DEF n
<1>6. WordStart(s) = w
  BY <1>4, <1>5, WordStartIs DEF n
<1> QED
  BY <1>4, <1>5, <1>6 DEF n

\* The options for a word: itself and names.
LEMMA OptionsAre ==
  ASSUME NEW s \in Seq(Signs), NEW cursor \in 0..Len(s), Options(s, cursor) # <<>>
  PROVE  /\ Query(s, cursor) # <<>>
         /\ Options(s, cursor)[1] = Query(s, cursor)
         /\ \A i \in DOMAIN Options(s, cursor) : i = 1 \/ Options(s, cursor)[i] \in Words
<1> DEFINE query == Query(s, cursor)
           M(q) == IF q = <<>> THEN <<>>
                   ELSE CASE Head(q) = ":" /\ Len(q) > 1 -> Holding(Emojis, Tail(q))
                          [] Head(q) = "/"
                          /\ WordStart(SubSeq(s, 1, cursor)) = 1 -> Starting(Commands, q)
                          [] Head(q) = "@" /\ Len(q) > 1 -> Starting(Nicks, Tail(q))
                          [] Head(q) \in {"#", "&"} -> Holding(Conversations, q)
                          [] OTHER -> <<>>
<1>1. ASSUME NEW names \in {Nicks, Conversations, Commands, Emojis}, NEW part
      PROVE  Holding(names, part) \in Seq(Words) /\ Starting(names, part) \in Seq(Words)
  <2>1. names \in Seq(Words)
    BY NamesAreWords
  <2> DEFINE held == {k \in DOMAIN names : \E i \in 0 .. Len(names[k]) : IsPrefix(part, SubSeq(names[k], i + 1, Len(names[k])))}
             started == {k \in DOMAIN names : IsPrefix(part, names[k])}
  <2>2. held \in SUBSET (1..Len(names)) /\ started \in SUBSET (1..Len(names))
    BY <2>1
  <2>3. Holding(names, part) = Filtered(names, held)
        /\ Starting(names, part) = Filtered(names, started)
    BY DEF Holding, Starting
  <2> HIDE DEF held, started
  <2> QED
    BY <2>1, <2>2, <2>3, FilteredIs
<1>2. M(query) \in Seq(Words)
  <2>1. <<>> \in Seq(Words)
    OBVIOUS
  <2> QED
    BY <1>1, <2>1
<1>3. Options(s, cursor) = IF M(query) = <<>> THEN <<>> ELSE <<query>> \o M(query)
  BY DEF Options
<1>4. query # <<>> /\ M(query) # <<>>
  BY <1>3
<1> HIDE DEF M, query
<1>5. <<query>> \in Seq({query} \cup Words) /\ M(query) \in Seq({query} \cup Words)
      /\ Len(<<query>>) = 1 /\ <<query>>[1] = query
  BY <1>2
<1>6. PICK m \in Seq({query} \cup Words) : m = M(query) /\ m \in Seq(Words)
  BY <1>2, <1>5
<1>7. /\ DOMAIN (<<query>> \o m) = 1..(1 + Len(m))
      /\ (<<query>> \o m)[1] = query
      /\ \A i \in 1..Len(m) : (<<query>> \o m)[i + 1] = m[i]
  BY <1>5, <1>6, ConcatIs
<1>8. Len(m) \in Nat /\ \A i \in 1..Len(m) : m[i] \in Words
  BY <1>6
<1>9. ASSUME NEW i \in 1..(1 + Len(m)), i # 1 PROVE (<<query>> \o m)[i] \in Words
  <2>1. i - 1 \in 1..Len(m) /\ (i - 1) + 1 = i
    BY <1>8, <1>9
  <2> QED
    BY <1>7, <1>8, <2>1
<1>10. Options(s, cursor) = <<query>> \o m
  BY <1>3, <1>4, <1>6
<1> QED
  BY <1>4, <1>7, <1>9, <1>10 DEF query

\* A concatenation in its parts.
LEMMA SplitIs ==
  ASSUME NEW S, NEW s \in Seq(S), NEW t \in Seq(S)
  PROVE  SubSeq(s \o t, 1, Len(s)) = s /\ SubSeq(s \o t, Len(s) + 1, Len(s \o t)) = t
<1>0. Len(s) \in Nat /\ Len(t) \in Nat /\ Len(s \o t) = Len(s) + Len(t)
  BY ConcatIs
<1>1. SubSeq(s \o t, 1, Len(s)) = s
  <2>1. CASE Len(s) = 0
    <3>1. s = <<>>
      BY <2>1
    <3>2. SubSeq(s \o t, 1, 0) = <<>>
      BY SubSeqEmpty
    <3> QED
      BY <2>1, <3>1, <3>2
  <2>2. CASE Len(s) # 0
    <3>1. 1 \in 1..Len(s) /\ Len(s) \in 1..Len(s)
      BY <1>0, <2>2
    <3>2. SubSeq(s \o t, 1, Len(s)) = SubSeq(s, 1, Len(s))
      BY <3>1, SubSeqOfConcat1
    <3>3. SubSeq(s, 1, Len(s)) = s
      BY SubSeqFull
    <3> QED
      BY <3>2, <3>3
  <2> QED
    BY <2>1, <2>2
<1>2. SubSeq(s \o t, Len(s) + 1, Len(s) + Len(t)) = t
  <2>1. CASE Len(t) = 0
    <3>1. t = <<>>
      BY <2>1
    <3>2. Len(s) + 1 \in Int /\ Len(s) + Len(t) \in Int /\ Len(s) + Len(t) < Len(s) + 1
      BY <1>0, <2>1
    <3>3. SubSeq(s \o t, Len(s) + 1, Len(s) + Len(t)) = <<>>
      BY <3>2, SubSeqEmpty
    <3> QED
      BY <3>1, <3>3
  <2>2. CASE Len(t) # 0
    <3>1. /\ Len(s) + 1 \in Len(s) + 1 .. Len(s) + Len(t)
             /\ Len(s) + Len(t) \in Len(s) + 1 .. Len(s) + Len(t)
          /\ (Len(s) + 1) - Len(s) = 1 /\ (Len(s) + Len(t)) - Len(s) = Len(t)
      BY <1>0, <2>2
    <3>2. SubSeq(s \o t, Len(s) + 1, Len(s) + Len(t)) = SubSeq(t, 1, Len(t))
      BY <3>1, SubSeqOfConcat2
    <3>3. SubSeq(t, 1, Len(t)) = t
      BY SubSeqFull
    <3> QED
      BY <3>2, <3>3
  <2> QED
    BY <2>1, <2>2
<1> QED
  BY <1>0, <1>1, <1>2

\* The word before the cursor is the option that was chosen, and is taken out whole.
LEMMA RefilledIs ==
  ASSUME NEW rest \in Seq(Signs), rest = <<>> \/ rest[Len(rest)] = Blank, NEW o \in Words,
         NEW after \in Seq(Signs), NEW option \in Words
  PROVE  FillIn((rest \o o) \o after, Len(rest) + Len(o), option, {"replace"}) =
           [before |-> rest, middle |-> option, after |-> after]
<1> DEFINE text == (rest \o o) \o after
           place == Len(rest) + Len(o)
<1>1. /\ o \in Seq(Signs) /\ Len(o) \in Nat /\ Len(o) >= 1 /\ \A i \in 1..Len(o) : o[i] # Blank
      /\ option \in Seq(Signs) /\ Len(rest) \in Nat
  BY DEF Words
<1>0. place \in Nat /\ place = Len(rest) + Len(o) /\ place >= Len(rest) + 1
  BY <1>1
<1> HIDE DEF place
<1>2. PICK upto \in Seq(Signs) : /\ upto = rest \o o /\ Len(upto) = place
                                 /\ \A i \in 1..Len(rest) : upto[i] = rest[i]
                                 /\ \A i \in 1..Len(o) : upto[Len(rest) + i] = o[i]
                                 /\ SubSeq(upto, 1, Len(rest)) = rest
  <2>1. /\ rest \o o \in Seq(Signs) /\ Len(rest \o o) = Len(rest) + Len(o)
        /\ \A i \in 1..Len(rest) : (rest \o o)[i] = rest[i]
        /\ \A i \in 1..Len(o) : (rest \o o)[Len(rest) + i] = o[i]
    BY <1>1, ConcatIs
  <2>2. SubSeq(rest \o o, 1, Len(rest)) = rest
    BY <1>1, SplitIs
  <2> QED
    BY <1>0, <2>1, <2>2
<1>3. PICK whole \in Seq(Signs) : /\ whole = text
                                  /\ SubSeq(whole, 1, place) = upto
                                  /\ SubSeq(whole, place + 1, Len(whole)) = after
  <2>1. upto \o after \in Seq(Signs)
    BY <1>2, ConcatIs
  <2>2. SubSeq(upto \o after, 1, Len(upto)) = upto
        /\ SubSeq(upto \o after, Len(upto) + 1, Len(upto \o after)) = after
    BY <1>2, SplitIs
  <2> QED
    BY <1>2, <2>1, <2>2
<1> HIDE DEF text
<1>6. WordStart(upto) = Len(rest) + 1
  <2>0. PICK w \in Nat : w = Len(rest) + 1 /\ w >= 1 /\ w <= Len(upto) + 1 /\ w - 1 = Len(rest)
    BY <1>0, <1>1, <1>2
  <2>1. \A j \in w..Len(upto) : upto[j] # Blank
    <3> TAKE j \in w..Len(upto)
    <3>1. j - Len(rest) \in 1..Len(o) /\ Len(rest) + (j - Len(rest)) = j
      BY <1>0, <1>1, <1>2, <2>0
    <3> QED
      BY <1>0, <1>1, <1>2, <3>1
  <2>2. w = 1 \/ upto[w - 1] = Blank
    <3>1. CASE rest = <<>>
      BY <2>0, <3>1
    <3>2. CASE rest # <<>>
      <4>1. Len(rest) \in 1..Len(rest)
        BY <3>2
      <4> QED
        BY <1>2, <2>0, <3>2, <4>1
    <3> QED
      BY <3>1, <3>2
  <2>3. w \in 1..(Len(upto) + 1)
    BY <1>0, <1>1, <1>2, <2>0
  <2> QED
    BY <2>0, <2>1, <2>2, <2>3, WordStartIs
<1>7. WithoutLastWord(upto) = rest
  <2>1. WithoutBlankAtEnd(upto) = upto
    <3>1. upto[place] # Blank
      <4>1. Len(o) \in 1..Len(o)
        BY <1>1
      <4> QED
        BY <1>0, <1>1, <1>2, <4>1
    <3> QED
      BY <1>2, <3>1 DEF WithoutBlankAtEnd, Last
  <2>2. WithoutLastWord(upto) = SubSeq(upto, 1, Len(rest))
    <3>1. (Len(rest) + 1) - 1 = Len(rest)
      BY <1>1
    <3> QED
      BY <1>6, <2>1, <3>1 DEF WithoutLastWord
  <2> QED
    BY <1>2, <2>2
<1>8. FillIn(whole, place, option, {"replace"}) = [before |-> WithoutLastWord(SubSeq(whole, 1, place)),
                                                middle |-> (<<>> \o option) \o <<>>,
                                                after |-> SubSeq(whole, place + 1, Len(whole))]
  BY DEF FillIn
<1>9. (<<>> \o option) \o <<>> = option
  BY <1>1
<1> QED
  BY <1>3, <1>7, <1>8, <1>9 DEF text, place

\* Every text comes back when its options have been gone through.
LEMMA CompletionStep == AlgorithmTyped => CompletionUndone
<1> SUFFICES ASSUME AlgorithmTyped, kind = "typing", NEW cursor \in 0..Len(input),
                    NEW i \in DOMAIN Options(input, cursor)
             PROVE  LET options == Options(input, cursor)
                        chosen == FillIn(input, cursor, options[i], {"replace"})
                        back == FillIn(Whole(chosen), CursorAfter(chosen), options[1], {"replace"})
                    IN Whole(back) = input /\ CursorAfter(back) = cursor
  BY DEF CompletionUndone
<1> DEFINE options == Options(input, cursor)
           before == SubSeq(input, 1, cursor)
           after == SubSeq(input, cursor + 1, Len(input))
           query == Query(input, cursor)
<1>1. input \in Seq(Signs) /\ Len(input) \in Nat /\ cursor \in Nat
  BY DEF AlgorithmTyped, Signs
<1>2. options # <<>>
  OBVIOUS
<1>3. query # <<>> /\ options[1] = query /\ (i = 1 \/ options[i] \in Words)
  BY <1>1, <1>2, OptionsAre
<1> HIDE DEF options
<1>4. before \in Seq(Signs) /\ Len(before) = cursor
  BY <1>1
<1>5. after \in Seq(Signs)
  <2> HIDE DEF before, after, query
  <2>0. cursor <= Len(input) /\ cursor + 1 <= Len(input) + 1
    BY <1>1
  <2>a. PICK a \in Nat : a = cursor + 1 /\ 1 <= a
    BY <1>1
  <2>b. PICK b \in Nat : b = Len(input)
    BY <1>1
  <2>1. a <= b + 1 /\ b <= Len(input)
    BY <2>0, <2>a, <2>b
  <2>2. SubSeq(input, a, b) \in Seq(Signs)
    BY <1>1, <2>a, <2>1, SubSeqIs
  <2> QED
    BY <2>a, <2>b, <2>2 DEF after
<1>6. before \o after = input
  <2>1. before \o after = SubSeq(input, 1, Len(input))
    <3>1. /\ 1 \in 1..Len(input) + 1 /\ cursor \in (1 - 1)..Len(input)
             /\ Len(input) \in cursor..Len(input)
      BY <1>1
    <3> QED
      BY <1>1, <3>1, ConcatAdjacentSubSeq
  <2> QED
    BY <1>1, <2>1, SubSeqFull
<1> HIDE DEF before, after
<1>7. PICK w \in 1..(cursor + 1) : /\ WordStart(before) = w
                                   /\ \A j \in w..cursor : before[j] # Blank
                                   /\ w = 1 \/ before[w - 1] = Blank
  BY <1>4, WordStartIn
<1>8. query = SubSeq(before, w, cursor)
  BY <1>7 DEF Query, before
<1>9. w <= cursor
  <2> SUFFICES ASSUME w > cursor PROVE FALSE
    BY <1>1
  <2>1. cursor < w /\ w \in Int /\ cursor \in Int
    BY <1>1
  <2>2. SubSeq(before, w, cursor) = <<>>
    BY <2>1, SubSeqEmpty
  <2> QED
    BY <1>3, <1>8, <2>2
<1> DEFINE rest == SubSeq(before, 1, w - 1)
<1>10. rest \in Seq(Signs) /\ Len(rest) = w - 1 /\ (rest = <<>> \/ rest[Len(rest)] = Blank)
  <2>1. PICK b \in Nat : b = w - 1 /\ b <= Len(before)
    BY <1>1, <1>4, <1>9
  <2>2. SubSeq(before, 1, b) \in Seq(Signs) /\ Len(SubSeq(before, 1, b)) = b
        /\ \A k \in 1..b : SubSeq(before, 1, b)[k] = before[k]
    BY <1>4, <2>1
  <2>3. CASE w = 1
    BY <2>1, <2>2, <2>3
  <2>4. CASE w # 1
    <3>1. b \in 1..b
      BY <2>1, <2>4
    <3> QED
      BY <1>7, <2>1, <2>2, <2>4, <3>1
  <2> QED
    BY <2>3, <2>4
<1>11. rest \o query = before
  <2>1. /\ 1 \in 1..Len(before) + 1 /\ w - 1 \in (1 - 1)..Len(before)
           /\ Len(before) \in (w - 1)..Len(before) /\ (w - 1) + 1 = w
    BY <1>1, <1>4, <1>9
  <2>2. SubSeq(before, 1, w - 1) \o SubSeq(before, (w - 1) + 1, Len(before)) = SubSeq(before, 1, Len(before))
    BY <1>4, <2>1, ConcatAdjacentSubSeq
  <2> QED
    BY <1>4, <1>8, <2>1, <2>2, SubSeqFull
<1>12. query \in Words /\ Len(query) = cursor - w + 1
  <2>1. PICK q \in Seq(Signs) : /\ q = query /\ Len(q) = cursor - w + 1
                                /\ \A k \in 1..(cursor - w + 1) : q[k] = before[k + w - 1]
    <3>1. w \in Nat /\ 1 <= w /\ w <= cursor + 1 /\ cursor <= Len(before)
      BY <1>1, <1>4
    <3>2. /\ SubSeq(before, w, cursor) \in Seq(Signs)
             /\ Len(SubSeq(before, w, cursor)) = cursor - w + 1
          /\ \A k \in 1..(cursor - w + 1) : SubSeq(before, w, cursor)[k] = before[k + w - 1]
      BY <1>1, <1>4, <3>1, SubSeqIs
    <3> QED
      BY <1>8, <3>2
  <2>2. \A k \in 1..Len(q) : q[k] # Blank
    <3> TAKE k \in 1..Len(q)
    <3>1. k + w - 1 \in w..cursor /\ k \in 1..(cursor - w + 1)
      BY <1>1, <1>9, <2>1
    <3> QED
      BY <1>7, <2>1, <3>1
  <2> HIDE DEF query
  <2> QED
    BY <1>3, <2>1, <2>2 DEF Words
<1>13. WithoutLastWord(before) = rest
  <2>1. before[cursor] # Blank
    BY <1>1, <1>7, <1>9
  <2>2. WithoutBlankAtEnd(before) = before
    BY <1>4, <2>1 DEF WithoutBlankAtEnd, Last
  <2> QED
    BY <1>7, <2>2 DEF WithoutLastWord
<1> DEFINE o == options[i]
           chosen == FillIn(input, cursor, o, {"replace"})
<1>14. o \in Words
  BY <1>3, <1>12
<1>15. chosen = [before |-> rest, middle |-> o, after |-> after]
  <2>1. chosen = [before |-> WithoutLastWord(before), middle |-> (<<>> \o o) \o <<>>, after |-> after]
    BY DEF FillIn, before, after
  <2>2. o \in Seq(Signs)
    BY <1>14 DEF Words
  <2>3. (<<>> \o o) \o <<>> = o
    <3> HIDE DEF o
    <3> QED
      BY <2>2
  <2> QED
    BY <1>13, <2>1, <2>3
<1> HIDE DEF chosen, o, rest, query
<1>16. Whole(chosen) = (rest \o o) \o after /\ CursorAfter(chosen) = Len(rest) + Len(o)
  BY <1>15 DEF Whole, CursorAfter
<1> DEFINE back == FillIn(Whole(chosen), CursorAfter(chosen), query, {"replace"})
<1>17. back = [before |-> rest, middle |-> query, after |-> after]
  <2>1. rest \in Seq(Signs) /\ (rest = <<>> \/ rest[Len(rest)] = Blank) /\ after \in Seq(Signs)
        /\ o \in Words /\ query \in Words
    BY <1>5, <1>10, <1>12, <1>14
  <2>2. FillIn((rest \o o) \o after, Len(rest) + Len(o), query, {"replace"}) =
          [before |-> rest, middle |-> query, after |-> after]
    BY <2>1, RefilledIs
  <2> QED
    BY <1>16, <2>2
<1> HIDE DEF back
<1>18. Whole(back) = input
  BY <1>6, <1>11, <1>17 DEF Whole
<1>19. CursorAfter(back) = cursor
  <2>1. CursorAfter(back) = Len(rest) + Len(query)
    BY <1>17 DEF CursorAfter
  <2> QED
    BY <1>1, <1>7, <1>10, <1>12, <2>1
<1> QED
  BY <1>3, <1>18, <1>19 DEF back, chosen, o, options

(* A text comes back as it was, with its cursor, when the options for the   *)
(* word at the cursor have been gone through (autocomplete.js 10-41,        *)
(* ChatInput.svelte 58-65).                                                 *)
THEOREM TextComesBack == AlgorithmSpec => []CompletionUndone
<1>1. AlgorithmTyped => CompletionUndone
  BY CompletionStep
<1> QED
  BY <1>1, AlgorithmTypedIs, PTL

-----------------------------------------------------------------------------
(* _makeTag: the tags and the spans of a message, and what is seen of them. *)
\* What is written, and the characters of it that a reader sees.
Writing == Seq(Characters)
Seen == {"a", " ", ","}

\* A character as a reader sees it.
eye == [c \in Characters |-> IF c \in Seen THEN <<c>> ELSE <<>>]

\* The rules and the spans, and the text of a span.
RuleSet == ToSet(Rules)
Piece == [text : Writing, tags : SUBSET RuleSet]
written == [sp \in Piece |-> sp.text]

\* Both are images.
LEMMA Images == eye \in [Characters -> Writing] /\ written \in [Piece -> Writing]
<1>1. \A c \in Characters : <<c>> \in Writing /\ <<>> \in Writing
  BY DEF Writing
<1>2. eye \in [Characters -> Writing]
  BY <1>1 DEF eye
<1>3. \A sp \in Piece : sp.text \in Writing
  BY DEF Piece
<1> QED
  BY <1>2, <1>3 DEF written

\* What is seen of a text: the images of its characters,
LEMMA VisibleJoins ==
  ASSUME NEW s \in Writing
  PROVE  Visible(s) \in Writing /\ Joins(Visible(s), s, eye, Characters)
<1> DEFINE n == Len(s)
           keep == {i \in DOMAIN s : s[i] \in Seen}
<1>1. s \in Seq(Characters) /\ n \in Nat /\ DOMAIN s = 1..n /\ \A i \in 1..n : s[i] \in Characters
  <2>1. s \in Seq(Characters)
    BY DEF Writing
  <2> QED
    BY <2>1
<1>2. keep \in SUBSET (1..n) /\ \A i \in 1..n : i \in keep <=> s[i] \in Seen
  BY <1>1
<1>3. Visible(s) = Filtered(s, keep)
  BY DEF Visible, Seen
<1> HIDE DEF keep
<1>4. PICK f : Takes(f, s, keep, Characters) /\ Visible(s) = f[n]
  BY <1>1, <1>2, <1>3, FilteredMade
<1>5. /\ f \in [0..n -> Writing] /\ f[0] = <<>>
      /\ \A i \in 1..n : f[i] = IF i \in keep THEN Append(f[i - 1], s[i]) ELSE f[i - 1]
  BY <1>4 DEF Takes, Writing
<1> HIDE DEF n
<1>6. ASSUME NEW i \in 1..n PROVE f[i] = f[i - 1] \o eye[s[i]]
  <2>1. PICK q \in Writing : q = f[i - 1]
    BY <1>1, <1>5
  <2>2. PICK c \in Characters : c = s[i]
    BY <1>1
  <2>3. CASE c \in Seen
    <3>1. f[i] = Append(q, c) /\ eye[c] = <<c>>
      BY <1>2, <1>5, <2>1, <2>2, <2>3 DEF eye
    <3>2. Append(q, c) = q \o <<c>>
      BY AppendIsConcat DEF Writing
    <3> QED
      BY <2>1, <2>2, <3>1, <3>2
  <2>4. CASE c \notin Seen
    <3>1. f[i] = q /\ eye[c] = <<>>
      BY <1>2, <1>5, <2>1, <2>2, <2>4 DEF eye
    <3>2. q = q \o <<>>
      BY ConcatEmptySeq DEF Writing
    <3> QED
      BY <2>1, <2>2, <3>1, <3>2
  <2> QED
    BY <2>3, <2>4
<1>7. f[n] \in Writing
  BY <1>1, <1>5
<1> QED
  BY <1>4, <1>5, <1>6, <1>7 DEF Joins, n, Writing

\* those of the parts of a text one after the other,
LEMMA VisibleConcat ==
  ASSUME NEW s \in Writing, NEW t \in Writing
  PROVE  s \o t \in Writing /\ Visible(s \o t) = Visible(s) \o Visible(t)
<1>1. s \in Seq(Characters) /\ t \in Seq(Characters) /\ eye \in [Characters -> Seq(Characters)]
  BY Images DEF Writing
<1>2. PICK r \in Writing : r = s \o t
  BY <1>1, ConcatProperties DEF Writing
<1>3. PICK v \in Seq(Characters), w \in Seq(Characters) :
        v = Visible(s) /\ w = Visible(t) /\ Joins(v, s, eye, Characters)
        /\ Joins(w, t, eye, Characters)
  BY VisibleJoins DEF Writing
<1>4. Joins(v \o w, r, eye, Characters)
  BY <1>1, <1>2, <1>3, JoinsConcat
<1>5. Joins(Visible(r), r, eye, Characters) /\ r \in Seq(Characters)
  BY VisibleJoins DEF Writing
<1>6. Visible(r) = v \o w
  BY <1>1, <1>4, <1>5, JoinsOnce
<1> QED
  BY <1>2, <1>3, <1>6

\* and nothing of a text of marks only.
LEMMA VisibleNone ==
  ASSUME NEW s \in Writing, \A i \in 1..Len(s) : s[i] \notin Seen
  PROVE  Visible(s) = <<>>
<1>1. s \in Seq(Characters) /\ {i \in DOMAIN s : s[i] \in Seen} = {}
  <2>1. s \in Seq(Characters)
    BY DEF Writing
  <2>2. DOMAIN s = 1..Len(s)
    BY <2>1
  <2> QED
    BY <2>1, <2>2
<1>2. Filtered(s, {}) = <<>>
  BY <1>1, FilteredFirst
<1> QED
  BY <1>1, <1>2 DEF Visible, Seen

-----------------------------------------------------------------------------
\* What is written in the spans.
Flat(spans) ==
  LET html[i \in 0 .. Len(spans)] == IF i = 0 THEN <<>> ELSE html[i - 1] \o spans[i].text
  IN html[Len(spans)]

\* The text of spans: the texts of each,
LEMMA FlatJoins ==
  ASSUME NEW spans \in Seq(Piece)
  PROVE  Flat(spans) \in Writing /\ Joins(Flat(spans), spans, written, Characters)
<1> DEFINE n == Len(spans)
           Body(g, i) == IF i = 0 THEN <<>> ELSE g[i - 1] \o spans[i].text
           html == CHOOSE g : g = [i \in 0..n |-> Body(g, i)]
<1>1. n \in Nat /\ \A i \in 1..n : spans[i] \in Piece /\ written[spans[i]] = spans[i].text
  BY DEF written
<1>2. Flat(spans) = html[n]
  BY DEF Flat
<1>3. PICK v \in Seq(Characters) : Joins(v, spans, written, Characters)
  BY Images, JoinsSome DEF Writing
<1>4. PICK f \in [0..n -> Seq(Characters)] :
        f[0] = <<>> /\ (\A i \in 1..n : f[i] = f[i - 1] \o written[spans[i]]) /\ v = f[n]
  BY <1>3 DEF Joins
<1> HIDE DEF n
<1>5. f = [i \in 0..n |-> Body(f, i)]
  <2>1. \A i \in 0..n : i = 0 \/ i \in 1..n
    BY <1>1
  <2>2. \A i \in 0..n : f[i] = Body(f, i)
    BY <1>1, <1>4, <2>1
  <2> QED
    BY <2>2
<1>6. html = [i \in 0..n |-> Body(html, i)]
  BY <1>5
<1> HIDE DEF html
<1>7. \A i \in 0..n : html[i] = Body(html, i) /\ f[i] = Body(f, i)
  BY <1>5, <1>6
<1> DEFINE K == {k \in Nat : k <= n => html[k] = f[k]}
<1>8. 0 \in K
  <2>1. 0 \in 0..n
    BY <1>1
  <2> QED
    BY <1>7, <2>1
<1>9. ASSUME NEW k \in Nat, k \in K PROVE k + 1 \in K
  <2> SUFFICES ASSUME k + 1 <= n PROVE html[k + 1] = f[k + 1]
    OBVIOUS
  <2>0. k + 1 \in 0..n /\ (k + 1) - 1 = k /\ k + 1 # 0 /\ k <= n
    BY <1>1
  <2>a. html[k] = f[k]
    BY <1>9, <2>0
  <2>1. k + 1 \in 0..n /\ (k + 1) - 1 = k /\ k + 1 # 0 /\ html[k] = f[k]
    BY <2>0, <2>a
  <2> QED
    BY <1>7, <2>1
<1>10. n \in K
  <2> HIDE DEF K
  <2> QED
    BY <1>1, <1>8, <1>9, Induction
<1>11. html[n] = f[n] /\ f[n] \in Seq(Characters)
  BY <1>1, <1>4, <1>10
<1> QED
  BY <1>2, <1>3, <1>4, <1>11 DEF Writing

\* those of the parts one after the other,
LEMMA FlatConcat ==
  ASSUME NEW a \in Seq(Piece), NEW b \in Seq(Piece)
  PROVE  a \o b \in Seq(Piece) /\ Flat(a \o b) = Flat(a) \o Flat(b)
<1>1. written \in [Piece -> Seq(Characters)]
  BY Images DEF Writing
<1>2. PICK r \in Seq(Piece) : r = a \o b
  BY ConcatProperties
<1>3. PICK v \in Seq(Characters), w \in Seq(Characters) :
        v = Flat(a) /\ w = Flat(b) /\ Joins(v, a, written, Characters)
        /\ Joins(w, b, written, Characters)
  BY FlatJoins DEF Writing
<1>4. Joins(v \o w, r, written, Characters)
  BY <1>1, <1>2, <1>3, JoinsConcat
<1>5. Joins(Flat(r), r, written, Characters)
  BY FlatJoins
<1>6. Flat(r) = v \o w
  BY <1>1, <1>4, <1>5, JoinsOnce
<1> QED
  BY <1>2, <1>3, <1>6

\* and that of no span and of one.
LEMMA FlatOne == Flat(<<>>) = <<>> /\ \A sp \in Piece : Flat(<<sp>>) = sp.text
<1>1. written \in [Piece -> Seq(Characters)]
  BY Images DEF Writing
<1>2. Flat(<<>>) = <<>>
  <2>0. <<>> \in Seq(Piece)
    BY EmptySeq
  <2>1. PICK r \in Seq(Piece) : r = <<>>
    BY <2>0
  <2>2. Joins(Flat(r), r, written, Characters) /\ Joins(<<>>, r, written, Characters)
    BY <2>1, FlatJoins, JoinsNone
  <2> QED
    BY <1>1, <2>1, <2>2, JoinsOnce
<1>3. ASSUME NEW sp \in Piece PROVE Flat(<<sp>>) = sp.text
  <2>0. <<sp>> \in Seq(Piece)
    <3> HIDE DEF Piece
    <3> QED
      OBVIOUS
  <2>1. PICK r \in Seq(Piece) : r = <<sp>>
    BY <2>0
  <2>2. Joins(Flat(r), r, written, Characters) /\ Joins(written[sp], r, written, Characters)
    BY <1>1, <2>1, FlatJoins, JoinsOne
  <2>3. Flat(r) = written[sp]
    BY <1>1, <2>2, JoinsOnce
  <2> QED
    BY <2>1, <2>3 DEF written
<1> QED
  BY <1>2, <1>3

\* What a reader sees of spans.
LEMMA SeenConcat ==
  ASSUME NEW a \in Seq(Piece), NEW b \in Seq(Piece)
  PROVE  Visible(Flat(a \o b)) = Visible(Flat(a)) \o Visible(Flat(b))
BY FlatConcat, FlatJoins, VisibleConcat

\* No asterisk and no formatting character next to another.
Apart(s) == \A i \in 1 .. Len(s) - 1 : s[i] = s[i + 1] => s[i] \notin {"*", "ctrl"}

\* A text cut in two.
LEMMA CutIs ==
  ASSUME NEW s \in Writing, NEW i \in 0..Len(s)
  PROVE  /\ Upto(s, i) \in Writing /\ From(s, i + 1) \in Writing
         /\ s = Upto(s, i) \o From(s, i + 1)
         /\ Len(Upto(s, i)) = i /\ Len(From(s, i + 1)) = Len(s) - i
         /\ \A j \in 1..i : Upto(s, i)[j] = s[j]
         /\ \A j \in 1..(Len(s) - i) : From(s, i + 1)[j] = s[i + j]
<1>1. s \in Seq(Characters) /\ Len(s) \in Nat /\ i \in Nat /\ i <= Len(s)
  BY DEF Writing
<1>2. SubSeq(s, 1, i) \in Seq(Characters) /\ Len(SubSeq(s, 1, i)) = i
      /\ \A j \in 1..i : SubSeq(s, 1, i)[j] = s[j]
  BY <1>1, SubSeqIs
<1>3. /\ SubSeq(s, i + 1, Len(s)) \in Seq(Characters) /\ Len(SubSeq(s, i + 1, Len(s))) = Len(s) - i
      /\ \A j \in 1..(Len(s) - i) : SubSeq(s, i + 1, Len(s))[j] = s[i + j]
  BY <1>1, SubSeqIs
<1>4. SubSeq(s, 1, i) \o SubSeq(s, i + 1, Len(s)) = s
  <2>1. 1 \in 1..(Len(s) + 1) /\ i \in 1 - 1 .. Len(s) /\ Len(s) \in i .. Len(s)
    BY <1>1
  <2>2. SubSeq(s, 1, i) \o SubSeq(s, i + 1, Len(s)) = SubSeq(s, 1, Len(s))
    BY <1>1, <2>1, ConcatAdjacentSubSeq
  <2> QED
    BY <1>1, <2>2, SubSeqFull
<1> QED
  BY <1>2, <1>3, <1>4 DEF Writing, Upto, From

\* Both parts of such a text are such texts, and so is the whole when the parts do not
\* end and start with the same.
LEMMA ApartParts ==
  ASSUME NEW a \in Writing, NEW b \in Writing
  PROVE  /\ Apart(a \o b) => Apart(a) /\ Apart(b)
         /\ Apart(a \o b) => (a # <<>> /\ b # <<>> => a[Len(a)] # b[1] \/ b[1] \notin {"*", "ctrl"})
         /\ Apart(a) /\ Apart(b)
            /\ (a # <<>> /\ b # <<>> => a[Len(a)] # b[1] \/ b[1] \notin {"*", "ctrl"}) => Apart(a \o b)
<1> DEFINE n == Len(a)
           k == Len(b)
<1>1. n \in Nat /\ k \in Nat /\ (a = <<>> <=> n = 0) /\ (b = <<>> <=> k = 0)
  BY EmptySeq DEF Writing
<1>2. PICK r \in Writing : r = a \o b
  BY VisibleConcat
<1>3. Len(r) = n + k /\ \A i \in 1..(n + k) : r[i] = IF i <= n THEN a[i] ELSE b[i - n]
  BY <1>2, ConcatProperties DEF Writing
<1> HIDE DEF n, k
<1>4. ASSUME Apart(r) PROVE Apart(a) /\ Apart(b)
             /\ (n # 0 /\ k # 0 => a[n] # b[1] \/ b[1] \notin {"*", "ctrl"})
  <2>0. \A i \in 1..(n + k - 1) : r[i] = r[i + 1] => r[i] \notin {"*", "ctrl"}
    <3>1. Len(r) - 1 = n + k - 1
      BY <1>1, <1>3
    <3> QED
      BY <1>4, <3>1 DEF Apart
  <2>1. ASSUME NEW i \in 1..(n - 1) PROVE a[i] = a[i + 1] => a[i] \notin {"*", "ctrl"}
    <3>1. i \in 1..(n + k) /\ i + 1 \in 1..(n + k) /\ i <= n /\ i + 1 <= n /\ i \in 1..(n + k - 1)
      BY <1>1
    <3>2. r[i] = a[i] /\ r[i + 1] = a[i + 1]
      BY <1>3, <3>1
    <3> QED
      BY <2>0, <3>1, <3>2
  <2>2. ASSUME NEW i \in 1..(k - 1) PROVE b[i] = b[i + 1] => b[i] \notin {"*", "ctrl"}
    <3>1. /\ i + n \in 1..(n + k) /\ (i + n) + 1 \in 1..(n + k) /\ ~(i + n <= n)
             /\ ~((i + n) + 1 <= n)
          /\ i + n \in 1..(n + k - 1) /\ (i + n) - n = i /\ ((i + n) + 1) - n = i + 1
      BY <1>1
    <3>2. r[i + n] = b[i] /\ r[(i + n) + 1] = b[i + 1]
      BY <1>3, <3>1
    <3> QED
      BY <2>0, <3>1, <3>2
  <2>3. ASSUME n # 0, k # 0 PROVE a[n] # b[1] \/ b[1] \notin {"*", "ctrl"}
    <3>1. n \in 1..(n + k) /\ n + 1 \in 1..(n + k) /\ n <= n /\ ~(n + 1 <= n)
          /\ n \in 1..(n + k - 1) /\ (n + 1) - n = 1
      BY <1>1, <2>3
    <3>2. r[n] = a[n] /\ r[n + 1] = b[1]
      BY <1>3, <3>1
    <3> QED
      BY <2>0, <3>1, <3>2
  <2> QED
    BY <2>1, <2>2, <2>3 DEF Apart, n, k
<1>5. ASSUME Apart(a), Apart(b), n # 0
             /\ k # 0 => a[n] # b[1] \/ b[1] \notin {"*", "ctrl"} PROVE Apart(r)
  <2>0. /\ \A i \in 1..(n - 1) : a[i] = a[i + 1] => a[i] \notin {"*", "ctrl"}
        /\ \A i \in 1..(k - 1) : b[i] = b[i + 1] => b[i] \notin {"*", "ctrl"}
    BY <1>5 DEF Apart, n, k
  <2>1. ASSUME NEW i \in 1..(n + k - 1), r[i] = r[i + 1] PROVE r[i] \notin {"*", "ctrl"}
    <3>0. i \in 1..(n + k) /\ i + 1 \in 1..(n + k)
      BY <1>1
    <3>1. CASE i < n
      <4>1. i <= n /\ i + 1 <= n /\ i \in 1..(n - 1)
        BY <1>1, <3>1
      <4> QED
        BY <1>3, <2>0, <2>1, <3>0, <4>1
    <3>2. CASE i = n
      <4>1. n # 0 /\ k # 0 /\ i <= n /\ ~(i + 1 <= n) /\ (i + 1) - n = 1
        BY <1>1, <3>2
      <4>2. r[i] = a[n] /\ r[i + 1] = b[1]
        BY <1>3, <3>0, <3>2, <4>1
      <4> QED
        BY <1>5, <2>1, <4>1, <4>2
    <3>3. CASE i > n
      <4>1. ~(i <= n) /\ ~(i + 1 <= n) /\ i - n \in 1..(k - 1) /\ (i + 1) - n = (i - n) + 1
        BY <1>1, <3>3
      <4>2. r[i] = b[i - n] /\ r[i + 1] = b[(i - n) + 1]
        BY <1>3, <3>0, <4>1
      <4> QED
        BY <2>0, <2>1, <4>1, <4>2
    <3> QED
      BY <1>1, <3>1, <3>2, <3>3
  <2>2. Len(r) - 1 = n + k - 1
    BY <1>1, <1>3
  <2> QED
    BY <2>1, <2>2 DEF Apart
<1> QED
  BY <1>1, <1>2, <1>4, <1>5 DEF n, k

-----------------------------------------------------------------------------
\* The rules, in a set.
LEMMA RulesAre == RuleSet = {"code", "em strong", "strong", "em", "ctrl", "url"} /\ Len(Rules) = 6
                  /\ \A k \in 1..6 : Rules[k] \in RuleSet
<1>1. Len(Rules) = 6 /\ DOMAIN Rules = 1..6
  BY DEF Rules
<1>2. 1..6 = {1, 2, 3, 4, 5, 6}
  OBVIOUS
<1>3. RuleSet = {Rules[k] : k \in {1, 2, 3, 4, 5, 6}}
  BY <1>1, <1>2 DEF RuleSet, ToSet
<1>4. /\ Rules[1] = "code" /\ Rules[2] = "em strong" /\ Rules[3] = "strong"
      /\ Rules[4] = "em" /\ Rules[5] = "ctrl" /\ Rules[6] = "url"
  BY DEF Rules
<1>5. RuleSet = {Rules[1], Rules[2], Rules[3], Rules[4], Rules[5], Rules[6]}
  BY <1>3
<1> QED
  BY <1>1, <1>2, <1>4, <1>5

\* What opens and closes a tag.
LEMMA MarkerIs ==
  /\ Marker["code"] = <<"tick">> /\ Marker["em"] = <<"*">> /\ Marker["ctrl"] = <<"ctrl">>
  /\ Marker["strong"] = <<"*", "*">> /\ Marker["em strong"] = <<"*", "*", "*">>
BY RulesAre DEF Marker, RuleSet

\* Of what markers are made.
LEMMA MarkersAre ==
  ASSUME NEW rule \in RuleSet, rule # "url"
  PROVE  /\ Marker[rule] \in Writing /\ Marker[rule] # <<>> /\ Visible(Marker[rule]) = <<>>
         /\ Marker[rule][1] = (IF rule = "code" THEN "tick" ELSE IF rule = "ctrl" THEN "ctrl" ELSE "*")
         /\ rule \in {"code", "em", "ctrl"} => Len(Marker[rule]) = 1
         /\ rule \in {"strong", "em strong"} => ~Apart(Marker[rule])
         /\ rule = "em" => Marker[rule] = <<"*">>
<1> DEFINE Chars == {"*", "tick", "ctrl"}
<1>1. Chars \subseteq Characters /\ Chars \cap Seen = {}
  BY DEF Characters, Word, Punctuation, Seen
<1>2. Marker[rule] \in Seq(Chars) /\ Len(Marker[rule]) \in 1..3
  <2>0. "*" \in Chars /\ "tick" \in Chars /\ "ctrl" \in Chars
    OBVIOUS
  <2> HIDE DEF Chars
  <2>1. /\ <<"tick">> \in Seq(Chars) /\ <<"*">> \in Seq(Chars) /\ <<"ctrl">> \in Seq(Chars)
        /\ <<"*", "*">> \in Seq(Chars) /\ <<"*", "*", "*">> \in Seq(Chars)
    BY <2>0
  <2>2. /\ Len(<<"tick">>) \in 1..3 /\ Len(<<"*">>) \in 1..3 /\ Len(<<"ctrl">>) \in 1..3
        /\ Len(<<"*", "*">>) \in 1..3 /\ Len(<<"*", "*", "*">>) \in 1..3
    OBVIOUS
  <2>3. rule \in {"code", "em strong", "strong", "em", "ctrl"}
    BY RulesAre
  <2>4. CASE rule = "code"
    BY <2>1, <2>2, <2>4, MarkerIs
  <2>5. CASE rule = "em strong"
    BY <2>1, <2>2, <2>5, MarkerIs
  <2>6. CASE rule = "strong"
    BY <2>1, <2>2, <2>6, MarkerIs
  <2>7. CASE rule = "em"
    BY <2>1, <2>2, <2>7, MarkerIs
  <2>8. CASE rule = "ctrl"
    BY <2>1, <2>2, <2>8, MarkerIs
  <2> QED
    BY <2>3, <2>4, <2>5, <2>6, <2>7, <2>8
<1>3. PICK m \in Seq(Chars) : m = Marker[rule]
  BY <1>2
<1>4. m \in Writing
  <2>1. m \in Seq(Characters)
    BY <1>1, SeqMonotonic
  <2> QED
    BY <2>1 DEF Writing
<1>5. \A i \in 1..Len(m) : m[i] \notin Seen
  <2>1. \A i \in 1..Len(m) : m[i] \in Chars
    OBVIOUS
  <2> QED
    BY <1>1, <2>1
<1>6. Visible(m) = <<>>
  BY <1>4, <1>5, VisibleNone
<1>7. m # <<>>
  BY <1>2, <1>3
<1>8. CASE rule \in {"strong", "em strong"}
  <2>1. m[1] = "*" /\ m[2] = "*" /\ 2 <= Len(m)
    <3>1. m = <<"*", "*">> \/ m = <<"*", "*", "*">>
      BY <1>3, <1>8, MarkerIs
    <3> QED
      BY <3>1
  <2>2. 1 \in 1 .. Len(m) - 1 /\ 1 + 1 = 2
    BY <1>2, <1>3, <2>1
  <2> QED
    BY <1>3, <1>4, <1>6, <1>7, <1>8, <2>1, <2>2 DEF Apart
<1>9. CASE rule \in {"code", "em", "ctrl"}
  <2>1. m = <<IF rule = "code" THEN "tick" ELSE IF rule = "ctrl" THEN "ctrl" ELSE "*">>
    BY <1>3, <1>9, MarkerIs
  <2>2. Len(m) = 1 /\ m[1] = IF rule = "code" THEN "tick" ELSE IF rule = "ctrl" THEN "ctrl" ELSE "*"
    BY <2>1
  <2>3. rule \notin {"strong", "em strong"} /\ (rule = "em" => m = <<"*">>)
    BY <1>9, <2>1
  <2> QED
    BY <1>3, <1>4, <1>6, <1>7, <2>2, <2>3
<1> QED
  BY <1>8, <1>9, RulesAre

\* What it means for m to stand at i.
LEMMA StandsAt ==
  ASSUME NEW m \in Writing, m # <<>>, NEW s \in Writing, NEW i \in 1..Len(s)
  PROVE  IsPrefix(m, From(s, i)) <=>
           i + Len(m) - 1 <= Len(s) /\ \A j \in 1..Len(m) : m[j] = s[i + j - 1]
<1> DEFINE n == Len(m)
           N == Len(s)
           t == From(s, i)
<1>1. n \in Nat /\ n >= 1 /\ N \in Nat /\ i \in 1..N /\ i - 1 \in 0..N /\ (i - 1) + 1 = i
  BY EmptySeq DEF Writing
<1>2. t \in Writing /\ Len(t) = N - (i - 1) /\ \A j \in 1..(N - (i - 1)) : t[j] = s[(i - 1) + j]
  <2>1. PICK p \in 0..N : p = i - 1
    BY <1>1
  <2>2. From(s, p + 1) \in Writing /\ Len(From(s, p + 1)) = N - p
        /\ \A j \in 1..(N - p) : From(s, p + 1)[j] = s[p + j]
    BY CutIs
  <2>3. p + 1 = i
    BY <1>1, <2>1
  <2> QED
    BY <2>1, <2>2, <2>3
<1> HIDE DEF t
<1>3. SubSeq(m, 1, n) = m /\ m \in Seq(Characters)
  BY SubSeqFull DEF Writing
<1> HIDE DEF n, N
<1>4. IsPrefix(m, t) <=> n <= Len(t) /\ m = SubSeq(t, 1, n)
  BY <1>3 DEF IsPrefix, n
<1>5. n <= Len(t) <=> i + n - 1 <= N
  BY <1>1, <1>2
<1>6. ASSUME n <= Len(t) PROVE m = SubSeq(t, 1, n) <=> \A j \in 1..n : m[j] = s[i + j - 1]
  <2>1. t \in Seq(Characters) /\ 1 <= n + 1 /\ n <= Len(t) /\ n - 1 + 1 = n /\ 1 \in Nat
        /\ n \in Nat
    BY <1>1, <1>2, <1>6 DEF Writing
  <2>2. PICK q \in Seq(Characters) : q = SubSeq(t, 1, n) /\ Len(q) = n /\ \A j \in 1..n : q[j] = t[j + 1 - 1]
    <3>1. SubSeq(t, 1, n) \in Seq(Characters) /\ Len(SubSeq(t, 1, n)) = n - 1 + 1
          /\ \A j \in 1..(n - 1 + 1) : SubSeq(t, 1, n)[j] = t[j + 1 - 1]
      BY <2>1, SubSeqIs
    <3> QED
      BY <2>1, <3>1
  <2>3. ASSUME NEW j \in 1..n PROVE q[j] = s[i + j - 1]
    <3>1. j + 1 - 1 = j /\ j \in 1..(N - (i - 1)) /\ (i - 1) + j = i + j - 1
      BY <1>1, <1>2, <1>6
    <3> QED
      BY <1>2, <2>2, <3>1
  <2>4. Len(m) = n
    BY DEF n
  <2>5. (\A j \in 1..n : m[j] = q[j]) <=> m = q
    BY <1>3, <2>2, <2>4, SeqEqual
  <2> QED
    BY <2>2, <2>3, <2>5
<1> QED
  BY <1>4, <1>5, <1>6 DEF n, N, t

\* A text in three.
Three(s, a, m, b) == a \in Writing /\ m \in Writing /\ b \in Writing /\ s = a \o (m \o b)

\* A text in three parts.
LEMMA ThreeIs ==
  ASSUME NEW s \in Writing, NEW a, NEW m, NEW b, Three(s, a, m, b)
  PROVE  /\ Len(s) = Len(a) + Len(m) + Len(b)
         /\ Visible(s) = Visible(a) \o (Visible(m) \o Visible(b))
         /\ Apart(s) => Apart(a) /\ Apart(m) /\ Apart(b)
<1>0. a \in Writing /\ m \in Writing /\ b \in Writing /\ s = a \o (m \o b)
  BY DEF Three
<1>1. PICK r \in Writing : r = m \o b
  BY <1>0, VisibleConcat
<1>2. Len(r) = Len(m) + Len(b) /\ Len(s) = Len(a) + Len(r) /\ Len(a) \in Nat /\ Len(m) \in Nat
      /\ Len(b) \in Nat
  BY <1>0, <1>1, ConcatProperties DEF Writing
<1>3. Visible(r) = Visible(m) \o Visible(b) /\ Visible(s) = Visible(a) \o Visible(r)
  BY <1>0, <1>1, VisibleConcat
<1>4. (Apart(s) => Apart(a) /\ Apart(r)) /\ (Apart(r) => Apart(m) /\ Apart(b))
  BY <1>0, <1>1, ApartParts
<1> QED
  BY <1>2, <1>3, <1>4

\* Cut out a piece.
LEMMA CutOut ==
  ASSUME NEW s \in Writing, NEW i \in 1..Len(s), NEW n \in Nat, n >= 1, i + n - 1 <= Len(s)
  PROVE  /\ Three(s, Upto(s, i - 1), SubSeq(s, i, i + n - 1), From(s, i + n))
         /\ Len(Upto(s, i - 1)) = i - 1 /\ Len(SubSeq(s, i, i + n - 1)) = n
            /\ Len(From(s, i + n)) = Len(s) - (i + n - 1)
         /\ \A j \in 1..n : SubSeq(s, i, i + n - 1)[j] = s[i + j - 1]
<1> DEFINE k == i + n - 1
           N == Len(s)
<1>1. s \in Seq(Characters) /\ N \in Nat /\ i \in Nat /\ k \in Nat /\ i <= k /\ k <= N /\ 1 <= i
  BY DEF Writing
<1>2. i - 1 \in 0..N /\ k \in 0..N /\ (i - 1) + 1 = i /\ k + 1 = i + n /\ k - i + 1 = n
  BY <1>1
<1>3. Upto(s, i - 1) \in Writing /\ From(s, i) \in Writing /\ s = Upto(s, i - 1) \o From(s, i)
      /\ Len(Upto(s, i - 1)) = i - 1
  <2>1. PICK p \in 0..N : p = i - 1
    BY <1>2
  <2>2. Upto(s, p) \in Writing /\ From(s, p + 1) \in Writing /\ s = Upto(s, p) \o From(s, p + 1)
        /\ Len(Upto(s, p)) = p
    BY CutIs
  <2>3. p + 1 = i
    BY <1>2, <2>1
  <2> QED
    BY <2>1, <2>2, <2>3
<1>4. From(s, i + n) \in Writing /\ Len(From(s, i + n)) = N - k
  BY <1>2, CutIs
<1>5. /\ SubSeq(s, i, k) \in Seq(Characters) /\ Len(SubSeq(s, i, k)) = n
      /\ \A j \in 1..n : SubSeq(s, i, k)[j] = s[j + i - 1]
  BY <1>1, <1>2, SubSeqIs
<1>6. SubSeq(s, i, k) \o SubSeq(s, k + 1, N) = SubSeq(s, i, N)
  <2>1. i \in 1..(N + 1) /\ k \in i - 1 .. N /\ N \in k .. N
    BY <1>1
  <2> QED
    BY <1>1, <2>1, ConcatAdjacentSubSeq
<1>7. From(s, i) = SubSeq(s, i, k) \o From(s, i + n)
  BY <1>2, <1>6 DEF From
<1>8. \A j \in 1..n : j + i - 1 = i + j - 1
  BY <1>1
<1> QED
  BY <1>3, <1>4, <1>5, <1>7, <1>8 DEF Three, Writing

-----------------------------------------------------------------------------
\* indexOf finds the text that it looks for.
LEMMA IndexOfIs ==
  ASSUME NEW s \in Writing, NEW m \in Writing, m # <<>>
  PROVE  LET end == IndexOf(s, m) IN
         \/ end = 0
         \/ end \in 1..Len(s) /\ IsPrefix(m, From(s, end))
<1> DEFINE try == {i \in 1 .. Len(s) : IsPrefix(m, From(s, i))}
<1>1. CASE try = {}
  BY <1>1 DEF IndexOf
<1>2. CASE try # {}
  <2>1. try \in SUBSET Nat
    OBVIOUS
  <2> HIDE DEF try
  <2>2. PICK x \in try : \A y \in try : x <= y
    BY <1>2, <2>1, LeastIs
  <2>3. Min(try) = x
    BY <2>1, <2>2, MinIs
  <2>4. IndexOf(s, m) = x
    BY <1>2, <2>3 DEF IndexOf, try
  <2>5. x \in 1..Len(s) /\ IsPrefix(m, From(s, x))
    BY <2>2 DEF try
  <2> QED
    BY <2>4, <2>5
<1> QED
  BY <1>1, <1>2

\* What is left when there is no tag.
IsKept(r, rule, a, m, b) ==
  \/ r = a \o m \o b
  \/ rule # "ctrl" /\ a # <<>> /\ a[Len(a)] = "esc" /\ r = Upto(a, Len(a) - 1) \o m \o b

\* What a marker makes of the text before and after it.
IsMd(tag, rule, a, m, b) ==
  \/ /\ tag.found /\ tag.before = a
     /\ \E c \in Writing, d \in Writing : tag.content = c /\ tag.after = d /\ b = c \o (m \o d)
  \/ ~tag.found /\ tag.content = <<>> /\ tag.after = <<>> /\ IsKept(tag.before, rule, a, m, b)

\* What _mdTag returns: the text between two marks, and the mark is not seen.
LEMMA MdTagIs ==
  ASSUME NEW rule \in RuleSet, rule # "url", NEW a \in Writing, NEW m \in Writing, m = Marker[rule], NEW b \in Writing
  PROVE  IsMd(MdTag(rule, a, m, b), rule, a, m, b)
<1> DEFINE end == IndexOf(b, m)
           n == Len(m)
<1>1. m # <<>> /\ n \in Nat /\ n >= 1
  <2>1. m # <<>>
    BY MarkersAre
  <2> QED
    BY <2>1, EmptySeq DEF Writing
<1>2. end = 0 \/ (end \in 1..Len(b) /\ IsPrefix(m, From(b, end)))
  BY <1>1, IndexOfIs
<1> DEFINE tag == MdTag(rule, a, m, b)
<1>3. CASE rule # "ctrl" /\ a # <<>> /\ Last(a) = "esc"
  <2>1. tag = NoTag(Front(a) \o m \o b)
    BY <1>3 DEF MdTag
  <2>2. tag.found = FALSE /\ tag.before = Upto(a, Len(a) - 1) \o m \o b /\ tag.content = <<>>
        /\ tag.after = <<>>
    <3>1. tag.found = FALSE /\ tag.before = Front(a) \o m \o b /\ tag.content = <<>>
          /\ tag.after = <<>>
      BY <2>1 DEF NoTag
    <3>2. Front(a) = Upto(a, Len(a) - 1)
      BY DEF Front, Upto
    <3> QED
      BY <3>1, <3>2
  <2> QED
    BY <1>3, <2>2 DEF Last, IsMd, IsKept
<1>4. CASE ~(rule # "ctrl" /\ a # <<>> /\ Last(a) = "esc") /\ end = 0
  <2>1. tag = NoTag(a \o m \o b)
    BY <1>4 DEF MdTag
  <2>2. tag.found = FALSE /\ tag.before = a \o m \o b /\ tag.content = <<>> /\ tag.after = <<>>
    BY <2>1 DEF NoTag
  <2> QED
    BY <2>2 DEF IsMd, IsKept
<1>5. CASE ~(rule # "ctrl" /\ a # <<>> /\ Last(a) = "esc") /\ end # 0
  <2>1. tag = Tag(a, Upto(b, end - 1), From(b, end + n))
    BY <1>5 DEF MdTag
  <2>2. tag.found = TRUE /\ tag.before = a /\ tag.content = Upto(b, end - 1)
        /\ tag.after = From(b, end + n)
    BY <2>1 DEF Tag
  <2>3. PICK e \in 1..Len(b) : e = end /\ IsPrefix(m, From(b, e))
    BY <1>2, <1>5
  <2>4. e + n - 1 <= Len(b) /\ \A j \in 1..n : m[j] = b[e + j - 1]
    BY <1>1, <2>3, StandsAt
  <2>5. /\ Three(b, Upto(b, e - 1), SubSeq(b, e, e + n - 1), From(b, e + n))
        /\ Len(SubSeq(b, e, e + n - 1)) = n
           /\ \A j \in 1..n : SubSeq(b, e, e + n - 1)[j] = b[e + j - 1]
        /\ Len(Upto(b, e - 1)) = e - 1
    BY <1>1, <2>4, CutOut
  <2>6. SubSeq(b, e, e + n - 1) = m
    <3>0. SubSeq(b, e, e + n - 1) \in Seq(Characters)
      BY <2>5 DEF Three, Writing
    <3>a. PICK q \in Seq(Characters) : q = SubSeq(b, e, e + n - 1)
      BY <3>0
    <3>1. Len(q) = Len(m) /\ \A j \in 1..Len(m) : q[j] = m[j]
      <4> HIDE DEF end, tag
      <4> QED
        BY <2>4, <2>5, <3>a
    <3>2. q = m
      BY <3>1, SeqEqual DEF Writing
    <3> QED
      BY <3>a, <3>2
  <2>7. PICK c \in Writing, d \in Writing : c = Upto(b, e - 1) /\ d = From(b, e + n) /\ b = c \o (m \o d)
    BY <2>5, <2>6 DEF Three
  <2> QED
    BY <2>2, <2>3, <2>7 DEF IsMd
<1> QED
  BY <1>3, <1>4, <1>5

\* What is known of the parts that a rule makes of s.
PartsOf(tag, s, rule) ==
  /\ tag.found \in BOOLEAN
  /\ tag.before \in Writing /\ tag.content \in Writing /\ tag.after \in Writing
  /\ tag.found =>
       /\ Visible(s) = Visible(tag.before) \o (Visible(tag.content) \o Visible(tag.after))
       /\ Len(tag.before) < Len(s) /\ Len(tag.content) < Len(s) /\ Len(tag.after) < Len(s)
       /\ Apart(s) => Apart(tag.before) /\ Apart(tag.content) /\ Apart(tag.after)
       /\ Apart(s) /\ rule # "url" => tag.content # <<>>
  /\ ~tag.found =>
       /\ Visible(s) = Visible(tag.before) /\ Len(tag.before) <= Len(s)
       /\ Apart(s) => Apart(tag.before)
       /\ s # <<>> => tag.before # <<>>

\* The marker and the two texts around it.
LEMMA PlaceIs ==
  ASSUME NEW rule \in RuleSet, rule # "url", NEW s \in Writing, NEW i \in Places(rule, s)
  PROVE  LET m == Marker[rule]
             n == Len(m)
         IN /\ i \in 1..Len(s) /\ FoundAt(rule, s, i) = n /\ i + n - 1 <= Len(s)
            /\ SubSeq(s, i, i + n - 1) = m /\ Three(s, Upto(s, i - 1), m, From(s, i + n))
            /\ Len(Upto(s, i - 1)) = i - 1
            /\ rule = "code" => From(s, i + n) # <<>> /\ From(s, i + n)[1] # "tick"
<1> DEFINE m == Marker[rule]
           n == Len(m)
<1>1. m \in Writing /\ m # <<>> /\ n \in Nat /\ n >= 1
  <2>1. m \in Writing /\ m # <<>>
    BY MarkersAre
  <2> QED
    BY <2>1, EmptySeq DEF Writing
<1>2. /\ i \in 1..Len(s) /\ IsPrefix(m, From(s, i)) /\ FoundAt(rule, s, i) = n
      /\ rule = "code" => i + n <= Len(s) /\ s[i + n] # "tick"
  <2>1. i \in 1..Len(s) /\ FoundAt(rule, s, i) > 0
    BY DEF Places
  <2> DEFINE next == i + n
             blank == CASE rule = "code" -> {" ", "tick"} [] rule = "ctrl" -> {} [] OTHER -> {" "}
             G == IsPrefix(m, From(s, i))
             /\ (rule # "ctrl" => next <= Len(s) /\ s[next] \notin blank)
  <2>2. FoundAt(rule, s, i) = IF G THEN n ELSE 0
    BY DEF FoundAt
  <2>3. rule = "code" => blank = {" ", "tick"} /\ rule # "ctrl"
    OBVIOUS
  <2> HIDE DEF blank
  <2>4. G => IsPrefix(m, From(s, i)) /\ (rule = "code" => i + n <= Len(s) /\ s[i + n] # "tick")
    BY <2>3
  <2>5. G
    <3> HIDE DEF G, n
    <3> QED
      BY <2>1, <2>2
  <2> HIDE DEF G, n
  <2> QED
    BY <2>1, <2>2, <2>4, <2>5 DEF n
<1>3. i + n - 1 <= Len(s) /\ \A j \in 1..n : m[j] = s[i + j - 1]
  <2> HIDE DEF m
  <2> QED
    BY <1>1, <1>2, StandsAt
<1> DEFINE q == SubSeq(s, i, i + n - 1)
           b == From(s, i + n)
<1>4. /\ Three(s, Upto(s, i - 1), q, b) /\ Len(q) = n /\ (\A j \in 1..n : q[j] = s[i + j - 1])
      /\ Len(Upto(s, i - 1)) = i - 1 /\ Len(b) = Len(s) - (i + n - 1)
  <2> HIDE DEF n
  <2> QED
    BY <1>1, <1>2, <1>3, CutOut
<1>5. q = m
  <2>1. q \in Seq(Characters) /\ m \in Seq(Characters)
    BY <1>1, <1>4 DEF Three, Writing
  <2> HIDE DEF q, m
  <2> QED
    BY <1>3, <1>4, <2>1, SeqEqual DEF n
<1>6. ASSUME rule = "code" PROVE b # <<>> /\ b[1] # "tick"
  <2>1. PICK k \in 0..Len(s) : k = i + n - 1
    <3> HIDE DEF n
    <3> QED
      BY <1>1, <1>2, <1>3
  <2>2. Len(From(s, k + 1)) = Len(s) - k /\ \A j \in 1..(Len(s) - k) : From(s, k + 1)[j] = s[k + j]
    BY CutIs
  <2>3. k + 1 = i + n /\ 1 \in 1..(Len(s) - k)
    <3>1. Len(s) \in Nat
      BY DEF Writing
    <3> HIDE DEF n
    <3> QED
      BY <1>1, <1>2, <1>6, <2>1, <3>1
  <2>4. b[1] = s[i + n] /\ Len(b) >= 1
    <3>1. Len(s) - k >= 1
      BY <2>3
    <3> QED
      BY <2>2, <2>3, <3>1
  <2>5. Len(<<>>) = 0
    OBVIOUS
  <2> HIDE DEF b
  <2> QED
    BY <1>2, <1>6, <2>4, <2>5
<1> QED
  BY <1>2, <1>3, <1>4, <1>5, <1>6

\* Three shorter texts that show what s shows.
IsSplit(s, a, c, d) ==
  /\ Visible(s) = Visible(a) \o (Visible(c) \o Visible(d))
  /\ Len(a) < Len(s) /\ Len(c) < Len(s) /\ Len(d) < Len(s)
  /\ Apart(s) => Apart(a) /\ Apart(c) /\ Apart(d) /\ c # <<>>

\* A tag is found: the marker, what is in it, and the marker again.
LEMMA FoundParts ==
  ASSUME NEW rule \in RuleSet, rule # "url", NEW s \in Writing, NEW a, NEW b, NEW m, m = Marker[rule], Three(s, a, m, b),
         rule = "code" => b[1] # "tick", NEW c, NEW d, Three(b, c, m, d)
  PROVE  IsSplit(s, a, c, d)
<1>1. a \in Writing /\ b \in Writing /\ m \in Writing /\ c \in Writing /\ d \in Writing
  BY DEF Three
<1>2. m # <<>> /\ Visible(m) = <<>>
  BY MarkersAre
<1>3. Len(m) \in Nat /\ Len(m) >= 1 /\ Len(a) \in Nat /\ Len(b) \in Nat /\ Len(c) \in Nat
      /\ Len(d) \in Nat
  BY <1>1, <1>2, EmptySeq DEF Writing
<1>4. /\ Len(s) = Len(a) + Len(m) + Len(b)
      /\ Visible(s) = Visible(a) \o (Visible(m) \o Visible(b))
      /\ Apart(s) => Apart(a) /\ Apart(m) /\ Apart(b)
  BY ThreeIs
<1>5. /\ Len(b) = Len(c) + Len(m) + Len(d)
      /\ Visible(b) = Visible(c) \o (Visible(m) \o Visible(d))
      /\ Apart(b) => Apart(c) /\ Apart(m) /\ Apart(d)
  BY <1>1, ThreeIs
<1>6. Visible(s) = Visible(a) \o (Visible(c) \o Visible(d))
  <2>1. PICK va \in Writing, vb \in Writing, vc \in Writing, vd \in Writing :
          va = Visible(a) /\ vb = Visible(b) /\ vc = Visible(c) /\ vd = Visible(d)
    BY <1>1, VisibleJoins
  <2>2. <<>> \o vb = vb /\ <<>> \o vd = vd
    BY ConcatEmptySeq DEF Writing
  <2> QED
    BY <1>2, <1>4, <1>5, <2>1, <2>2
<1>7. ASSUME Apart(s) PROVE c # <<>>
  <2> SUFFICES ASSUME c = <<>> PROVE FALSE
    OBVIOUS
  <2>1. PICK r \in Writing : r = m \o d
    BY <1>1, VisibleConcat
  <2>2. b = r
    <3>1. <<>> \o r = r
      BY ConcatEmptySeq DEF Writing
    <3> QED
      BY <2>1, <3>1 DEF Three
  <2>3. b # <<>> /\ b[1] = m[1]
    <3>1. Len(r) = Len(m) + Len(d)
          /\ \A j \in 1..(Len(m) + Len(d)) : r[j] = IF j <= Len(m) THEN m[j] ELSE d[j - Len(m)]
      BY <1>1, <2>1, ConcatProperties DEF Writing
    <3>2. 1 \in 1..(Len(m) + Len(d)) /\ 1 <= Len(m)
      BY <1>3
    <3>3. r[1] = m[1] /\ Len(r) >= 1 /\ Len(<<>>) = 0
      BY <1>3, <3>1, <3>2
    <3> QED
      BY <2>2, <3>3
  <2>4. Apart(m) /\ Apart(m \o b)
    <3>1. PICK t \in Writing : t = m \o b
      BY <1>1, VisibleConcat
    <3>2. s = a \o t
      BY <3>1 DEF Three
    <3>3. Apart(t)
      BY <1>1, <1>7, <3>2, ApartParts
    <3> QED
      BY <1>4, <1>7, <3>1, <3>3
  <2>5. rule \in {"code", "em", "ctrl"}
    BY <2>4, MarkersAre, RulesAre
  <2>6. Len(m) = 1 /\ m[1] = IF rule = "code" THEN "tick" ELSE IF rule = "ctrl" THEN "ctrl" ELSE "*"
    BY <2>5, MarkersAre
  <2>7. m[Len(m)] # b[1] \/ b[1] \notin {"*", "ctrl"}
    BY <1>1, <1>2, <2>3, <2>4, ApartParts
  <2>8. m[1] \notin {"*", "ctrl"}
    BY <2>3, <2>6, <2>7
  <2>9. rule = "code"
    BY <2>5, <2>6, <2>8
  <2> QED
    BY <2>3, <2>6, <2>9
<1>8. Len(a) < Len(s) /\ Len(c) < Len(s) /\ Len(d) < Len(s)
  BY <1>3, <1>4, <1>5
<1> QED
  BY <1>4, <1>5, <1>6, <1>7, <1>8 DEF IsSplit

\* The first place at which a rule finds something.
IsFirst(i, rule, s) == i \in Places(rule, s) /\ \A j \in Places(rule, s) : i <= j

\* No tag: the text itself, or without the backslash before the marker.
LEMMA NoneParts ==
  ASSUME NEW rule \in RuleSet, rule # "url", NEW s \in Writing, NEW i, IsFirst(i, rule, s),
         NEW a \in Writing, NEW b \in Writing, NEW m \in Writing, m = Marker[rule], Three(s, a, m, b), Len(a) = i - 1,
         NEW r, IsKept(r, rule, a, m, b)
  PROVE  /\ r \in Writing /\ Visible(s) = Visible(r) /\ Len(r) <= Len(s) /\ r # <<>>
         /\ Apart(s) => Apart(r)
<1>0. i \in Nat
  <2>1. i \in Places(rule, s)
    BY DEF IsFirst
  <2>2. i \in 1..Len(s)
    BY <2>1 DEF Places
  <2> QED
    BY <2>2
<1>2. m # <<>> /\ Visible(m) = <<>>
  BY MarkersAre
<1>3. PICK t \in Writing : t = m \o b
  BY VisibleConcat
<1>1. s = a \o t
  BY <1>3 DEF Three
<1>4. /\ Len(m) \in Nat /\ Len(m) >= 1 /\ Len(a) \in Nat /\ Len(b) \in Nat
         /\ Len(t) = Len(m) + Len(b)
      /\ t[1] = m[1] /\ t # <<>>
  <2>1. Len(m) \in Nat /\ Len(m) >= 1 /\ Len(a) \in Nat /\ Len(b) \in Nat
    BY <1>2, EmptySeq DEF Writing
  <2>2. Len(t) = Len(m) + Len(b)
        /\ \A j \in 1..(Len(m) + Len(b)) : t[j] = IF j <= Len(m) THEN m[j] ELSE b[j - Len(m)]
    BY <1>3, ConcatProperties DEF Writing
  <2>3. 1 \in 1..(Len(m) + Len(b)) /\ 1 <= Len(m)
    BY <2>1
  <2>4. t[1] = m[1] /\ Len(t) >= 1 /\ Len(<<>>) = 0
    BY <2>1, <2>2, <2>3
  <2> QED
    BY <2>1, <2>2, <2>4
<1>5. \A p \in Writing : (p \o m) \o b = p \o t
  <2> TAKE p \in Writing
  <2>1. (p \o m) \o b = p \o (m \o b)
    <3>1. Associative(p, m, b)
      BY Associates DEF Writing
    <3> QED
      BY <3>1 DEF Associative
  <2> QED
    BY <1>3, <2>1
<1>6. CASE r = a \o m \o b
  <2>1. r = s
    BY <1>1, <1>5, <1>6
  <2>2. Len(s) = Len(a) + Len(t) /\ Len(s) \in Nat
    <3>1. Len(a \o t) = Len(a) + Len(t)
      BY ConcatProperties DEF Writing
    <3> QED
      BY <1>1, <1>4, <3>1
  <2>3. s # <<>>
    <3>1. Len(s) >= 1 /\ Len(<<>>) = 0
      BY <1>4, <2>2
    <3> QED
      BY <3>1
  <2> QED
    BY <2>1, <2>2, <2>3
<1>7. CASE rule # "ctrl" /\ a # <<>> /\ a[Len(a)] = "esc" /\ r = Upto(a, Len(a) - 1) \o m \o b
  <2>0. Len(a) >= 1
    BY <1>1, <1>7, EmptySeq DEF Writing
  <2>1. PICK k \in 0..Len(a) : k = Len(a) - 1
    BY <1>4, <2>0
  <2>2. PICK p \in Writing, q \in Writing :
          /\ p = Upto(a, k) /\ a = p \o q /\ Len(p) = k /\ Len(q) = Len(a) - k
          /\ (\A j \in 1..k : p[j] = a[j]) /\ \A j \in 1..(Len(a) - k) : q[j] = a[k + j]
    <3>1. Upto(a, k) \in Writing /\ From(a, k + 1) \in Writing
      BY CutIs
    <3>2. PICK p \in Writing, q \in Writing : p = Upto(a, k) /\ q = From(a, k + 1)
      BY <3>1
    <3>3. a = Upto(a, k) \o From(a, k + 1) /\ Len(Upto(a, k)) = k
          /\ Len(From(a, k + 1)) = Len(a) - k
      BY CutIs
    <3>4. (\A j \in 1..k : Upto(a, k)[j] = a[j]) /\ \A j \in 1..(Len(a) - k) : From(a, k + 1)[j] = a[k + j]
      BY CutIs
    <3>5. a = p \o q /\ Len(p) = k /\ Len(q) = Len(a) - k
      BY <3>2, <3>3
    <3>6. (\A j \in 1..k : p[j] = a[j]) /\ \A j \in 1..(Len(a) - k) : q[j] = a[k + j]
      BY <3>2, <3>4
    <3> QED
      BY <3>2, <3>5, <3>6
  <2>3. Len(q) = 1 /\ q[1] = "esc"
    <3>1. Len(a) - k = 1 /\ 1 \in 1..(Len(a) - k) /\ k + 1 = Len(a)
      BY <1>4, <2>1
    <3> QED
      BY <1>7, <2>2, <3>1
  <2>4. Visible(q) = <<>>
    <3>1. \A j \in 1..Len(q) : q[j] \notin Seen
      <4>1. \A j \in 1..Len(q) : j = 1
        BY <2>3
      <4> QED
        BY <2>3, <4>1 DEF Seen
    <3> QED
      BY <3>1, VisibleNone
  <2>5. r = p \o t
    <3>1. Upto(a, Len(a) - 1) = p
      BY <2>1, <2>2
    <3> QED
      BY <1>5, <1>7, <3>1
  <2>6. r \in Writing /\ Visible(r) = Visible(p) \o Visible(t)
    BY <2>5, VisibleConcat
  <2>7. Visible(s) = Visible(r)
    <3>1. Visible(a) = Visible(p) \o Visible(q) /\ Visible(s) = Visible(a) \o Visible(t)
      BY <1>1, <2>2, VisibleConcat
    <3>2. PICK v \in Writing : v = Visible(p)
      BY VisibleJoins
    <3>3. v \o <<>> = v
      BY ConcatEmptySeq DEF Writing
    <3> QED
      BY <2>4, <2>6, <3>1, <3>2, <3>3
  <2>8. Len(r) = Len(p) + Len(t) /\ Len(s) = Len(a) + Len(t) /\ Len(r) <= Len(s) /\ r # <<>>
    <3>1. Len(r) = Len(p) + Len(t) /\ Len(s) = Len(a) + Len(t)
      BY <1>1, <2>5, ConcatProperties DEF Writing
    <3>a. Len(p) = Len(a) - 1 /\ k >= 0
      BY <1>4, <2>1, <2>2
    <3>b. Len(r) = Len(s) - 1 /\ Len(s) = Len(a) + Len(t)
      <4>1. Len(a) \in Nat /\ Len(t) \in Nat
        BY <1>4
      <4> QED
        BY <3>1, <3>a, <4>1
    <3>2. Len(r) >= 1 /\ Len(<<>>) = 0 /\ Len(r) <= Len(s)
      BY <1>4, <2>0, <3>b
    <3> QED
      BY <3>1, <3>2
  <2>9. ASSUME Apart(s) PROVE Apart(r)
    <3>1. Apart(a) /\ Apart(t)
      BY <1>1, <2>9, ApartParts
    <3>2. Apart(p) /\ Apart(m)
      <4>1. Apart(p \o q) => Apart(p)
        BY ApartParts
      <4>2. Apart(m \o b) => Apart(m)
        BY ApartParts
      <4> QED
        BY <1>3, <2>2, <3>1, <4>1, <4>2
    <3>3. rule \in {"code", "em"}
      BY <1>7, <3>2, MarkersAre, RulesAre
    <3>4. ASSUME rule = "em", p # <<>>, p[Len(p)] = "*" PROVE FALSE
      <4>1. m = <<"*">>
        BY <3>4, MarkersAre
      <4>2. PICK j \in 1..Len(s) : j = k
        <5>1. Len(p) >= 1
          BY <3>4, EmptySeq DEF Writing
        <5>2. Len(s) \in Nat /\ k >= 1 /\ k <= Len(s)
          <6>1. Len(p) = k
            BY <2>2
          <6> QED
            BY <1>4, <2>0, <2>1, <2>8, <5>1, <6>1
        <5> QED
          BY <5>2
      <4>3. s[j] = "*" /\ s[j + 1] = "esc" /\ j + 1 <= Len(s) /\ j + 1 < i
        <5>1. \A x \in 1..Len(a) : s[x] = a[x]
          <6>1. \A x \in 1..(Len(a) + Len(t)) : s[x] = IF x <= Len(a) THEN a[x] ELSE t[x - Len(a)]
            BY <1>1, ConcatProperties DEF Writing
          <6>2. \A x \in 1..Len(a) : x \in 1..(Len(a) + Len(t)) /\ x <= Len(a)
            BY <1>4
          <6> QED
            BY <6>1, <6>2
        <5>2. j \in 1..Len(a) /\ j + 1 \in 1..Len(a) /\ j + 1 = Len(a) /\ j \in 1..k
          BY <1>4, <2>1, <4>2
        <5>3. s[j] = "*"
          BY <2>2, <3>4, <4>2, <5>1, <5>2
        <5>4. s[j + 1] = "esc"
          BY <1>7, <5>1, <5>2
        <5>5. Len(a) <= Len(s) /\ i = Len(a) + 1
          BY <1>0, <1>4, <2>8
        <5> QED
          BY <1>4, <5>2, <5>3, <5>4, <5>5
      <4>4. IsPrefix(m, From(s, j))
        <5>1. Len(m) = 1 /\ m[1] = "*" /\ \A x \in 1..Len(m) : x = 1
          BY <4>1
        <5>2. j + Len(m) - 1 <= Len(s) /\ \A x \in 1..Len(m) : m[x] = s[j + x - 1]
          BY <4>3, <5>1
        <5> QED
          BY <1>2, <5>2, StandsAt
      <4>5. FoundAt("em", s, j) = 1
        <5>1. Len(Marker["em"]) = 1 /\ Marker["em"] = m
          BY <3>4, <4>1
        <5> QED
          BY <4>3, <4>4, <5>1 DEF FoundAt
      <4>6. j \in Places(rule, s)
        <5>1. s[j] # " " /\ FoundAt(rule, s, j) > 0
          BY <3>4, <4>3, <4>5
        <5> QED
          BY <5>1 DEF Places
      <4> QED
        BY <1>0, <4>3, <4>6 DEF IsFirst
    <3>5. p # <<>> /\ t # <<>> => p[Len(p)] # t[1] \/ t[1] \notin {"*", "ctrl"}
      <4>1. m[1] = IF rule = "code" THEN "tick" ELSE "*"
        BY <3>3, MarkersAre
      <4> QED
        BY <1>4, <3>3, <3>4, <4>1
    <3> QED
      BY <2>5, <3>1, <3>2, <3>5, ApartParts
  <2> QED
    BY <2>6, <2>7, <2>8, <2>9
<1> QED
  BY <1>6, <1>7 DEF IsKept

\* The sign between words.
IsBlank(c) == c = " "

\* A word ends in the text.
LEMMA WordEndIs ==
  ASSUME NEW s \in Writing, NEW i \in 1..Len(s), ~IsBlank(s[i])
  PROVE  WordEnd(s, i) \in i .. Len(s)
<1> DEFINE N == Len(s)
           J == {j \in i .. N : j < N => IsBlank(s[j + 1])}
           Good(j) == (\A k \in i .. j : ~IsBlank(s[k])) /\ (j < N => IsBlank(s[j + 1]))
<1>1. N \in Nat /\ i \in Nat /\ i <= N
  <2>1. Len(s) \in Nat
    BY DEF Writing
  <2> QED
    BY <2>1
<1> HIDE DEF N
<1>2. N \in J /\ J \in SUBSET Nat
  <2>1. N \in i .. N /\ ~(N < N) /\ i .. N \subseteq Nat
    BY <1>1
  <2> QED
    BY <2>1
<1>3. PICK x \in J : \A y \in J : x <= y
  <2> HIDE DEF J
  <2> QED
    BY <1>2, LeastIs
<1>4. x \in i .. N /\ x \in Nat /\ (x < N => IsBlank(s[x + 1]))
  <2>1. x \in i .. N /\ (x < N => IsBlank(s[x + 1]))
    BY <1>3
  <2> QED
    BY <1>1, <2>1
<1>5. ASSUME NEW k \in i .. x PROVE ~IsBlank(s[k])
  <2>1. CASE k = i
    BY <2>1
  <2>2. CASE k # i
    <3>0. k \in Nat /\ i <= k /\ k <= x /\ x <= N
      BY <1>1, <1>4
    <3>1. k - 1 \in i .. N /\ (k - 1) + 1 = k /\ k - 1 < N /\ ~(x <= k - 1)
      BY <1>1, <1>4, <2>2, <3>0
    <3>2. k - 1 \notin J
      BY <1>3, <3>1
    <3> QED
      BY <3>1, <3>2
  <2> QED
    BY <2>1, <2>2
<1>6. \E j \in i .. N : Good(j)
  BY <1>4, <1>5
<1>7. WordEnd(s, i) = CHOOSE j \in i .. N : Good(j)
  BY DEF WordEnd, N, IsBlank
<1> HIDE DEF Good
<1> QED
  BY <1>6, <1>7 DEF N

\* The word that is a link, and the texts around it.
LEMMA LinkIs ==
  ASSUME NEW s \in Writing, NEW i \in Places("url", s)
  PROVE  \E n \in Nat :
           /\ FoundAt("url", s, i) = n /\ n >= 2 /\ i \in 1..Len(s) /\ i + n - 1 <= Len(s)
           /\ Three(s, Upto(s, i - 1), SubSeq(s, i, i + n - 1), From(s, i + n))
           /\ Len(SubSeq(s, i, i + n - 1)) = n /\ SubSeq(s, i, i + n - 1)[1] = "https:"
<1> DEFINE e == WordEnd(s, i)
           n == e - i + 1
<1>1. i \in 1..Len(s) /\ ~IsBlank(s[i]) /\ FoundAt("url", s, i) > 0
  BY DEF Places, IsBlank
<1>2. e \in i .. Len(s)
  BY <1>1, WordEndIs
<1> HIDE DEF e
<1>a. FoundAt("url", s, i) = IF s[i] = "https:" /\ (i > 1 => s[i - 1] \notin Word)
      /\ i < e THEN n ELSE 0
  BY DEF FoundAt, e
<1>3. s[i] = "https:" /\ i < e /\ FoundAt("url", s, i) = n
  <2>1. PICK k : k = FoundAt("url", s, i)
    OBVIOUS
  <2>2. k > 0 /\ (k = n \/ k = 0) /\ (k # 0 => s[i] = "https:" /\ i < e)
    <3>1. k > 0
      BY <1>1, <2>1
    <3>2. (k = n /\ s[i] = "https:" /\ i < e) \/ k = 0
      <4> HIDE DEF n
      <4> QED
        BY <1>a, <2>1
    <3> QED
      BY <3>1, <3>2
  <2>3. k # 0
    BY <2>2
  <2> QED
    BY <2>1, <2>2, <2>3
<1>4. n \in Nat /\ n >= 1 /\ n >= 2 /\ i + n - 1 <= Len(s)
  <2>1. Len(s) \in Nat
    BY DEF Writing
  <2> QED
    BY <1>1, <1>2, <1>3, <2>1
<1> HIDE DEF n
<1>5. /\ Three(s, Upto(s, i - 1), SubSeq(s, i, i + n - 1), From(s, i + n))
      /\ Len(SubSeq(s, i, i + n - 1)) = n
         /\ \A j \in 1..n : SubSeq(s, i, i + n - 1)[j] = s[i + j - 1]
  BY <1>1, <1>4, CutOut
<1>6. SubSeq(s, i, i + n - 1)[1] = "https:"
  <2>1. 1 \in 1..n /\ i + 1 - 1 = i
    <3>1. i \in Nat
      BY <1>1
    <3> QED
      BY <1>4, <3>1
  <2>2. SubSeq(s, i, i + n - 1)[1] = s[i + 1 - 1]
    BY <1>5, <2>1
  <2> QED
    BY <1>3, <2>1, <2>2
<1> QED
  BY <1>1, <1>3, <1>4, <1>5, <1>6

\* The scheme is cut off, and punctuation at the end.
LEMMA LinkParts ==
  ASSUME NEW s \in Writing, NEW a \in Writing, NEW m \in Writing, NEW b \in Writing, Three(s, a, m, b),
         Len(m) >= 2, m[1] = "https:"
  PROVE  PartsOf(MdURL(a, m, b), s, "url")
<1> DEFINE n == Len(m)
<1>1. n \in Nat /\ n >= 2 /\ m \in Seq(Characters)
  BY DEF Writing
<1>2. /\ Len(s) = Len(a) + Len(m) + Len(b)
      /\ Visible(s) = Visible(a) \o (Visible(m) \o Visible(b))
      /\ Apart(s) => Apart(a) /\ Apart(m) /\ Apart(b)
  BY ThreeIs
<1>3. PICK h \in Writing, x \in Writing : h = Upto(m, 1) /\ x = From(m, 2) /\ Len(h) = 1 /\ Len(x) = n - 1 /\ m = h \o x /\ h[1] = "https:"
  <2>1. 1 \in 0..n /\ 1 + 1 = 2 /\ 1 \in 1..1
    BY <1>1
  <2>2. /\ Upto(m, 1) \in Writing /\ From(m, 2) \in Writing /\ m = Upto(m, 1) \o From(m, 2)
        /\ Len(Upto(m, 1)) = 1 /\ Len(From(m, 2)) = n - 1 /\ Upto(m, 1)[1] = m[1]
    <3>1. PICK o \in 0..Len(m) : o = 1
      BY <2>1
    <3>2. /\ Upto(m, o) \in Writing /\ From(m, o + 1) \in Writing
             /\ m = Upto(m, o) \o From(m, o + 1)
          /\ Len(Upto(m, o)) = o /\ Len(From(m, o + 1)) = n - o
             /\ \A j \in 1..o : Upto(m, o)[j] = m[j]
      BY CutIs
    <3>3. o + 1 = 2 /\ 1 \in 1..o
      BY <3>1
    <3> QED
      BY <3>1, <3>2, <3>3
  <2> QED
    BY <2>2
<1>4. Visible(h) = <<>>
  <2>1. \A j \in 1..Len(h) : j = 1
    BY <1>3
  <2>2. \A j \in 1..Len(h) : h[j] \notin Seen
    BY <1>3, <2>1 DEF Seen
  <2> QED
    BY <2>2, VisibleNone
<1>5. Visible(m) = Visible(x) /\ (Apart(m) => Apart(x))
  <2>1. Visible(m) = Visible(h) \o Visible(x)
    <3>1. Visible(h \o x) = Visible(h) \o Visible(x)
      BY VisibleConcat
    <3> QED
      BY <1>3, <3>1
  <2>2. PICK v \in Writing : v = Visible(x)
    BY VisibleJoins
  <2>3. <<>> \o v = v
    BY ConcatEmptySeq DEF Writing
  <2>4. Apart(h \o x) => Apart(x)
    BY ApartParts
  <2> QED
    BY <1>3, <1>4, <2>1, <2>2, <2>3, <2>4
<1>6. Len(a) \in Nat /\ Len(b) \in Nat /\ Len(x) \in Nat
  BY DEF Writing
<1> DEFINE tag == MdURL(a, m, b)
<1>7. CASE m[n] \notin Punctuation
  <2>1. Tail(m) = x
    <3>1. m # <<>>
      BY <1>1
    <3>2. Tail(m) = SubSeq(m, 2, n)
      BY <1>1, <3>1, TailIsSubSeq
    <3> QED
      BY <1>3, <3>2 DEF From
  <2>2. tag = Tag(a, x, b)
    BY <1>7, <2>1 DEF MdURL, Last
  <2>3. tag.found = TRUE /\ tag.before = a /\ tag.content = x /\ tag.after = b
    BY <2>2 DEF Tag
  <2>4. Len(a) < Len(s) /\ Len(x) < Len(s) /\ Len(b) < Len(s)
    BY <1>1, <1>2, <1>3, <1>6
  <2>5. Visible(s) = Visible(a) \o (Visible(x) \o Visible(b))
        /\ (Apart(s) => Apart(a) /\ Apart(x) /\ Apart(b))
    BY <1>2, <1>5
  <2> HIDE DEF tag
  <2>6. PartsOf(tag, s, "url")
    BY <2>3, <2>4, <2>5 DEF PartsOf
  <2> QED
    BY <2>6 DEF tag
<1>8. CASE m[n] \in Punctuation
  <2>1. PICK l \in Writing : l = <<m[n]>> /\ Len(l) = 1 /\ l[1] = ","
    <3>1. m[n] = "," /\ "," \in Characters
      BY <1>8 DEF Punctuation, Characters
    <3>2. <<m[n]>> \in Seq(Characters)
      <4>1. m[n] \in Characters
        BY <3>1
      <4> QED
        BY <4>1
    <3> QED
      BY <3>1, <3>2 DEF Writing
  <2>2. PICK c \in Writing : c = SubSeq(m, 2, n - 1) /\ Len(c) = n - 2 /\ x = c \o l
    <3>1. 2 \in 1 .. n + 1 /\ n - 1 \in 2 - 1 .. n /\ n \in n - 1 .. n /\ (n - 1) + 1 = n
      BY <1>1
    <3>2. SubSeq(m, 2, n - 1) \o SubSeq(m, (n - 1) + 1, n) = SubSeq(m, 2, n)
      <4> HIDE DEF n
      <4>1. m \in Seq(Characters) /\ n = Len(m)
        BY <1>1 DEF n
      <4> QED
        BY <3>1, <4>1, ConcatAdjacentSubSeq
    <3>3. SubSeq(m, n, n) = l
      <4>1. 1 <= n /\ n <= n + 1 /\ n <= Len(m) /\ n - n + 1 = 1 /\ 1 + n - 1 = n
        BY <1>1
      <4>2. SubSeq(m, n, n) \in Seq(Characters) /\ Len(SubSeq(m, n, n)) = 1
            /\ SubSeq(m, n, n)[1] = m[n]
        <5> HIDE DEF n
        <5>1. Len(SubSeq(m, n, n)) = n - n + 1
              /\ \A j \in 1..(n - n + 1) : SubSeq(m, n, n)[j] = m[j + n - 1]
          BY <1>1, <4>1, SubSeqIs
        <5>2. SubSeq(m, n, n) \in Seq(Characters)
          BY <1>1, <4>1, SubSeqIs
        <5> QED
          BY <4>1, <5>1, <5>2
      <4>3. PICK q \in Seq(Characters) : q = SubSeq(m, n, n) /\ Len(q) = 1 /\ q[1] = m[n]
        BY <4>2
      <4>4. l \in Seq(Characters) /\ l[1] = m[n]
        BY <2>1 DEF Writing
      <4>5. \A j \in 1..Len(q) : q[j] = l[j]
        BY <4>3, <4>4
      <4>6. q = l
        BY <2>1, <4>3, <4>4, <4>5, SeqEqual
      <4> QED
        BY <4>3, <4>6
    <3>4. SubSeq(m, 2, n - 1) \in Writing /\ Len(SubSeq(m, 2, n - 1)) = n - 2
      <4>1. 1 <= 2 /\ 2 <= (n - 1) + 1 /\ n - 1 <= Len(m) /\ (n - 1) - 2 + 1 = n - 2
            /\ n - 1 \in Nat
        BY <1>1
      <4> HIDE DEF n
      <4>a. PICK e \in Nat : e = n - 1 /\ 2 <= e + 1 /\ e <= Len(m)
        BY <4>1
      <4>b. SubSeq(m, 2, e) \in Seq(Characters) /\ Len(SubSeq(m, 2, e)) = e - 2 + 1
        BY <1>1, <4>a, SubSeqIs
      <4>2. SubSeq(m, 2, n - 1) \in Seq(Characters) /\ Len(SubSeq(m, 2, n - 1)) = (n - 1) - 2 + 1
        BY <4>a, <4>b
      <4> QED
        BY <4>1, <4>2 DEF Writing
    <3> QED
      BY <1>3, <3>1, <3>2, <3>3, <3>4 DEF From
  <2>3. PICK d \in Writing : d = l \o b /\ Len(d) = 1 + Len(b) /\ Visible(d) = Visible(l) \o Visible(b)
    <3>1. l \o b \in Writing /\ Len(l \o b) = Len(l) + Len(b)
          /\ Visible(l \o b) = Visible(l) \o Visible(b)
      <4>1. l \o b \in Writing /\ Visible(l \o b) = Visible(l) \o Visible(b)
        BY VisibleConcat
      <4>2. Len(l \o b) = Len(l) + Len(b)
        BY ConcatProperties DEF Writing
      <4> QED
        BY <4>1, <4>2
    <3> QED
      BY <2>1, <3>1
  <2>4. tag = Tag(a, c, d)
    BY <1>8, <2>1, <2>2, <2>3 DEF MdURL, Last
  <2>5. tag.found = TRUE /\ tag.before = a /\ tag.content = c /\ tag.after = d
    BY <2>4 DEF Tag
  <2>6. Len(a) < Len(s) /\ Len(c) < Len(s) /\ Len(d) < Len(s)
    BY <1>1, <1>2, <1>6, <2>2, <2>3
  <2>7. Visible(s) = Visible(a) \o (Visible(c) \o Visible(d))
    <3>1. Visible(x) = Visible(c) \o Visible(l)
      BY <2>2, VisibleConcat
    <3>2. PICK vc \in Writing, vl \in Writing, vb \in Writing : vc = Visible(c) /\ vl = Visible(l) /\ vb = Visible(b)
      BY VisibleJoins
    <3>3. (vc \o vl) \o vb = vc \o (vl \o vb)
      <4>1. vc \in Seq(Characters) /\ vl \in Seq(Characters) /\ vb \in Seq(Characters)
        BY DEF Writing
      <4>2. Associative(vc, vl, vb)
        BY <4>1, Associates
      <4> QED
        BY <4>2 DEF Associative
    <3> QED
      BY <1>2, <1>5, <2>3, <3>1, <3>2, <3>3
  <2>8. ASSUME Apart(s) PROVE Apart(a) /\ Apart(c) /\ Apart(d)
    <3>1. Apart(a) /\ Apart(x) /\ Apart(b)
      BY <1>2, <1>5, <2>8
    <3>2. Apart(c) /\ Apart(l)
      <4>1. Apart(c \o l) => Apart(c) /\ Apart(l)
        BY ApartParts
      <4> QED
        BY <2>2, <3>1, <4>1
    <3>3. l[Len(l)] # b[1] \/ b[1] \notin {"*", "ctrl"}
      BY <2>1
    <3>4. Apart(l \o b)
      BY <3>1, <3>2, <3>3, ApartParts
    <3> QED
      BY <2>3, <3>1, <3>2, <3>4
  <2> HIDE DEF tag
  <2>9. PartsOf(tag, s, "url")
    BY <2>5, <2>6, <2>7, <2>8 DEF PartsOf
  <2> QED
    BY <2>9 DEF tag
<1> QED
  BY <1>7, <1>8

\* What a rule makes of a text: nothing that is seen is lost, and each part is shorter.
LEMMA HandledIs ==
  ASSUME NEW rule \in RuleSet, NEW s \in Writing
  PROVE  PartsOf(Handled(rule, s), s, rule)
<1> DEFINE P == Places(rule, s)
<1>1. CASE P = {}
  <2>1. PICK tag : tag = Handled(rule, s)
    OBVIOUS
  <2>2. tag = NoTag(s)
    BY <1>1, <2>1 DEF Handled
  <2>3. tag.found = FALSE /\ tag.before = s /\ tag.content = <<>> /\ tag.after = <<>>
        /\ <<>> \in Writing /\ Len(s) \in Nat
    BY <2>2 DEF NoTag, Writing
  <2>4. PartsOf(tag, s, rule)
    <3>1. Len(s) <= Len(s)
      BY <2>3
    <3> QED
      BY <2>3, <3>1 DEF PartsOf
  <2> QED
    BY <2>1, <2>4
<1>2. CASE P # {}
  <2>1. P \in SUBSET Nat
    <3>1. P \subseteq 1..Len(s)
      BY DEF Places
    <3> QED
      BY <3>1
  <2> HIDE DEF P
  <2>2. PICK i \in P : \A j \in P : i <= j
    BY <1>2, <2>1, LeastIs
  <2>3. Min(P) = i
    BY <2>1, <2>2, MinIs
  <2>4. i \in Places(rule, s) /\ IsFirst(i, rule, s)
    BY <2>2 DEF P, IsFirst
  <2> DEFINE n == FoundAt(rule, s, i)
             a == Upto(s, i - 1)
             q == SubSeq(s, i, (i + n) - 1)
             b == From(s, i + n)
  <2>5. Handled(rule, s) = IF rule = "url" THEN MdURL(a, q, b) ELSE MdTag(rule, a, q, b)
    <3> DEFINE A(x) == Upto(s, x - 1)
               Q(x) == SubSeq(s, x, (x + FoundAt(rule, s, x)) - 1)
               B(x) == From(s, x + FoundAt(rule, s, x))
               H(x) == IF rule = "url" THEN MdURL(A(x), Q(x), B(x)) ELSE MdTag(rule, A(x), Q(x), B(x))
    <3>1. Handled(rule, s) = IF P = {} THEN NoTag(s) ELSE H(Min(P))
      BY DEF Handled, P
    <3>2. H(i) = IF rule = "url" THEN MdURL(a, q, b) ELSE MdTag(rule, a, q, b)
      OBVIOUS
    <3> HIDE DEF H, a, q, b
    <3> QED
      BY <1>2, <2>3, <3>1, <3>2
  <2>6. CASE rule = "url"
    <3>1. PICK k \in Nat :
           /\ FoundAt("url", s, i) = k /\ k >= 2
           /\ Three(s, Upto(s, i - 1), SubSeq(s, i, i + k - 1), From(s, i + k))
           /\ Len(SubSeq(s, i, i + k - 1)) = k /\ SubSeq(s, i, i + k - 1)[1] = "https:"
      BY <2>4, <2>6, LinkIs
    <3>2. n = k /\ (i + k) - 1 = i + k - 1
      <4>1. i \in Nat
        BY <2>1, <2>2
      <4> QED
        BY <2>6, <3>1, <4>1
    <3>3. Three(s, a, q, b) /\ Len(q) >= 2 /\ q[1] = "https:"
      BY <3>1, <3>2
    <3> HIDE DEF a, q, b
    <3>4. a \in Writing /\ q \in Writing /\ b \in Writing
      BY <3>3 DEF Three
    <3>5. PartsOf(MdURL(a, q, b), s, "url")
      BY <3>3, <3>4, LinkParts
    <3> QED
      BY <2>5, <2>6, <3>5
  <2>7. CASE rule # "url"
    <3>1. PICK m : m = Marker[rule]
      OBVIOUS
    <3>2. /\ n = Len(m) /\ q = m /\ Three(s, a, m, b) /\ Len(a) = i - 1
          /\ rule = "code" => b[1] # "tick"
      <4>1. LET mm == Marker[rule] IN FoundAt(rule, s, i) = Len(mm)
        BY <2>4, <2>7, PlaceIs
      <4>2. LET mm == Marker[rule]
                k == Len(mm)
            IN /\ SubSeq(s, i, i + k - 1) = mm /\ Three(s, Upto(s, i - 1), mm, From(s, i + k))
               /\ Len(Upto(s, i - 1)) = i - 1 /\ (rule = "code" => From(s, i + k)[1] # "tick")
        BY <2>4, <2>7, PlaceIs
      <4> QED
        <5>1. m \in Writing
          BY <2>7, <3>1, MarkersAre
        <5>2. PICK k \in Nat : k = Len(m)
          BY <5>1 DEF Writing
        <5>3. i \in Nat
          BY <2>1, <2>2
        <5>4. (i + k) - 1 = i + k - 1
          BY <5>3
        <5> QED
          BY <3>1, <4>1, <4>2, <5>2, <5>4
    <3> HIDE DEF a, q, b
    <3>3. a \in Writing /\ m \in Writing /\ b \in Writing
      BY <3>2 DEF Three
    <3>4. PICK tag : tag = MdTag(rule, a, m, b)
      OBVIOUS
    <3>5. Handled(rule, s) = tag
      BY <2>5, <2>7, <3>2, <3>4
    <3>6. IsMd(tag, rule, a, m, b)
      BY <2>7, <3>1, <3>3, <3>4, MdTagIs
    <3>a. tag.found \in BOOLEAN
      BY <2>7, <3>4 DEF MdTag, Tag, NoTag
    <3>7. CASE tag.found
      <4>1. PICK c \in Writing, d \in Writing : tag.content = c /\ tag.after = d /\ b = c \o (m \o d) /\ tag.before = a
        BY <3>6, <3>7 DEF IsMd
      <4>2. Three(b, c, m, d)
        BY <3>3, <4>1 DEF Three
      <4>3. IsSplit(s, a, c, d)
        <5>1. rule = "code" => b[1] # "tick"
          BY <3>2
        <5>2. Three(s, a, m, b)
          BY <3>2
        <5> QED
          BY <2>7, <3>1, <4>2, <5>1, <5>2, FoundParts
      <4>4. PartsOf(tag, s, rule)
        BY <3>3, <3>7, <3>a, <4>1, <4>3 DEF PartsOf, IsSplit
      <4> QED
        BY <3>5, <4>4
    <3>8. CASE ~tag.found
      <4>1. PICK r : r = tag.before /\ IsKept(r, rule, a, m, b) /\ tag.content = <<>> /\ tag.after = <<>>
        BY <3>6, <3>8 DEF IsMd
      <4>2. r \in Writing /\ Visible(s) = Visible(r) /\ Len(r) <= Len(s) /\ r # <<>>
            /\ (Apart(s) => Apart(r))
        BY <2>4, <2>7, <3>1, <3>2, <3>3, <4>1, NoneParts
      <4>3. <<>> \in Writing
        BY DEF Writing
      <4>4. PartsOf(tag, s, rule)
        BY <3>8, <3>a, <4>1, <4>2, <4>3 DEF PartsOf
      <4> QED
        BY <3>5, <4>4
    <3> QED
      BY <3>7, <3>8
  <2> QED
    BY <2>6, <2>7
<1> QED
  BY <1>1, <1>2

\* What is formatted: a text, the rule that is tried, and the tags around it.
Tries == Seq(Characters) \X (1 .. Len(Rules) + 1) \X SUBSET ToSet(Rules)

\* What MakeTag makes of it with g for itself.
Makes(g, try) ==
  LET s == try[1]
      k == try[2]
      tags == try[3]
      tag == Handled(Rules[k], s)
      inside == tags \cup {Rules[k]}
      Again(text, outer) == g[<<text, 1, outer>>]
  IN IF k > Len(Rules) THEN Span(s, tags)
     ELSE IF ~tag.found THEN g[<<tag.before, k + 1, tags>>]
     ELSE (IF tag.before = <<>> THEN <<>> ELSE Again(tag.before, tags)) \o
          (IF Rules[k] \in {"code", "url"} THEN Span(tag.content, inside) ELSE Again(tag.content, inside)) \o
          (IF tag.after = <<>> THEN <<>> ELSE Again(tag.after, tags))

\* How much there is to do for it.
work == [try \in Tries |-> 8 * Len(try[1]) + (7 - try[2])]

\* What is formatted, in its parts.
LEMMA TriesAre ==
  /\ \A try \in Tries : try[1] \in Writing /\ try[2] \in 1..7 /\ try[3] \in SUBSET RuleSet /\ try = <<try[1], try[2], try[3]>>
  /\ \A s \in Writing, k \in 1..7, tags \in SUBSET RuleSet :
       <<s, k, tags>> \in Tries /\ work[<<s, k, tags>>] = 8 * Len(s) + (7 - k)
  /\ work \in [Tries -> Nat]
<1>1. Tries = Writing \X (1..7) \X SUBSET RuleSet
  <2>1. Len(Rules) = 6
    BY RulesAre
  <2>2. Len(Rules) + 1 = 7
    BY <2>1
  <2> QED
    BY <2>2 DEF Tries, Writing, RuleSet
<1>2. \A try \in Tries : try[1] \in Writing /\ try[2] \in 1..7 /\ try[3] \in SUBSET RuleSet /\ try = <<try[1], try[2], try[3]>>
  <2> HIDE DEF Writing, RuleSet
  <2> QED
    BY <1>1
<1>3. ASSUME NEW s \in Writing, NEW k \in 1..7, NEW tags \in SUBSET RuleSet
      PROVE  <<s, k, tags>> \in Tries /\ work[<<s, k, tags>>] = 8 * Len(s) + (7 - k)
  <2>1. <<s, k, tags>> \in Tries
    BY <1>1
  <2> QED
    BY <2>1 DEF work
<1>4. \A try \in Tries : 8 * Len(try[1]) + (7 - try[2]) \in Nat
  <2> TAKE try \in Tries
  <2>1. Len(try[1]) \in Nat /\ try[2] \in 1..7
    BY <1>2 DEF Writing
  <2> QED
    BY <2>1
<1>5. work \in [Tries -> Nat]
  BY <1>4 DEF work
<1> QED
  BY <1>2, <1>3, <1>5

\* Less text, or the next rule in no more text.
LEMMA LessWork ==
  ASSUME NEW s \in Writing, NEW t \in Writing, NEW k \in 1..7, NEW tags \in SUBSET RuleSet, NEW outer \in SUBSET RuleSet
  PROVE  /\ Len(t) < Len(s) => work[<<t, 1, outer>>] < work[<<s, k, tags>>]
         /\ Len(t) <= Len(s) /\ k < 7 => work[<<t, k + 1, outer>>] < work[<<s, k, tags>>]
<1>1. Len(s) \in Nat /\ Len(t) \in Nat /\ 1 \in 1..7 /\ (k < 7 => k + 1 \in 1..7)
  BY DEF Writing
<1>2. work[<<s, k, tags>>] = 8 * Len(s) + (7 - k) /\ work[<<t, 1, outer>>] = 8 * Len(t) + (7 - 1)
  BY <1>1, TriesAre
<1>3. k < 7 => work[<<t, k + 1, outer>>] = 8 * Len(t) + (7 - (k + 1))
  BY <1>1, TriesAre
<1> QED
  BY <1>1, <1>2, <1>3

-----------------------------------------------------------------------------
\* Every span but those of links has a text.
Filled(spans) == \A i \in 1..Len(spans) : "url" \notin spans[i].tags => spans[i].text # <<>>

\* A span that is made of s is not empty.
HasSpan(s, tags) == s # <<>> \/ tags = {} \/ "url" \in tags

\* The spans that are made of s.
AreOf(spans, s, tags) ==
  /\ spans \in Seq(Piece)
  /\ Visible(Flat(spans)) = Visible(s)
  /\ Apart(s) /\ HasSpan(s, tags) => Filled(spans)

\* The spans of a text that no rule changes show it.
LEMMA SpanIs ==
  ASSUME NEW s \in Writing, NEW tags \in SUBSET RuleSet
  PROVE  AreOf(Span(s, tags), s, tags)
<1>1. CASE s = <<>> /\ tags = {}
  <2>1. Span(s, tags) = <<>>
    BY <1>1 DEF Span
  <2>2. Filled(<<>>)
    BY DEF Filled
  <2>3. <<>> \in Seq(Piece)
    BY EmptySeq
  <2> QED
    BY <1>1, <2>1, <2>2, <2>3, FlatOne DEF AreOf
<1>2. CASE ~(s = <<>> /\ tags = {})
  <2>1. PICK sp \in Piece : sp = [text |-> s, tags |-> tags]
    BY DEF Piece
  <2>2. Span(s, tags) = <<sp>>
    BY <1>2, <2>1 DEF Span
  <2>3. sp.text = s /\ sp.tags = tags
    BY <2>1
  <2>4. <<sp>> \in Seq(Piece) /\ Len(<<sp>>) = 1 /\ <<sp>>[1] = sp
    <3> HIDE DEF Piece
    <3> QED
      OBVIOUS
  <2>5. Flat(<<sp>>) = s
    BY <2>3, FlatOne
  <2>6. HasSpan(s, tags) => Filled(<<sp>>)
    <3>1. \A i \in 1..Len(<<sp>>) : i = 1
      BY <2>4
    <3>2. ASSUME HasSpan(s, tags), "url" \notin sp.tags PROVE sp.text # <<>>
      BY <1>2, <2>3, <3>2 DEF HasSpan
    <3> QED
      BY <2>4, <3>1, <3>2 DEF Filled
  <2> QED
    BY <2>2, <2>4, <2>5, <2>6 DEF AreOf
<1> QED
  BY <1>1, <1>2

\* No span of a concatenation is empty when none of its parts is.
LEMMA FilledConcat ==
  ASSUME NEW v \in Seq(Piece), NEW w \in Seq(Piece), Filled(v), Filled(w)
  PROVE  Filled(v \o w)
<1>1. PICK r \in Seq(Piece) : r = v \o w
  BY ConcatProperties
<1>2. Len(v) \in Nat /\ Len(w) \in Nat
  BY LenProperties
<1>3. Len(r) = Len(v) + Len(w)
      /\ \A i \in 1..(Len(v) + Len(w)) : r[i] = IF i <= Len(v) THEN v[i] ELSE w[i - Len(v)]
  BY <1>1, ConcatProperties
<1>4. ASSUME NEW i \in 1..Len(r) PROVE "url" \notin r[i].tags => r[i].text # <<>>
  <2>1. CASE i <= Len(v)
    <3>1. i \in 1..Len(v) /\ r[i] = v[i]
      BY <1>2, <1>3, <2>1
    <3> QED
      BY <3>1 DEF Filled
  <2>2. CASE ~(i <= Len(v))
    <3>1. i - Len(v) \in 1..Len(w) /\ r[i] = w[i - Len(v)]
      BY <1>2, <1>3, <2>2
    <3> QED
      BY <3>1 DEF Filled
  <2> QED
    BY <2>1, <2>2
<1> QED
  BY <1>1, <1>4 DEF Filled

-----------------------------------------------------------------------------
\* The ways in which the spans of a text are made: at once, with the next rule, or of the
\* three parts around a tag.
AtOnce(try) == \A g : Makes(g, try) = Span(try[1], try[3])

\* The next rule is tried, for a text that shows the same.
WithNext(try) == \E t \in Writing, k \in 1..7 :
  /\ work[<<t, k, try[3]>>] < work[try]
  /\ \A g : Makes(g, try) = g[<<t, k, try[3]>>]
  /\ Visible(t) = Visible(try[1]) /\ (Apart(try[1]) => Apart(t)) /\ (try[1] # <<>> => t # <<>>)

\* The spans before and after a tag, and inside one.
Around(g, text, tags) == IF text = <<>> THEN <<>> ELSE g[<<text, 1, tags>>]
Inside(g, text, tags, last) == IF last THEN Span(text, tags) ELSE g[<<text, 1, tags>>]

\* The spans are those of three parts with less work each.
IsOfThree(try, a, c, d, inside, last) ==
  /\ \A g : Makes(g, try) = (Around(g, a, try[3]) \o Inside(g, c, inside, last)) \o Around(g, d, try[3])
  /\ Visible(try[1]) = Visible(a) \o (Visible(c) \o Visible(d))
  /\ work[<<a, 1, try[3]>>] < work[try] /\ work[<<c, 1, inside>>] < work[try]
     /\ work[<<d, 1, try[3]>>] < work[try]
  /\ Apart(try[1]) => Apart(a) /\ Apart(c) /\ Apart(d) /\ HasSpan(c, inside)

OfThree(try) == \E a \in Writing, c \in Writing, d \in Writing, inside \in SUBSET RuleSet, last \in BOOLEAN :
  IsOfThree(try, a, c, d, inside, last)

\* The spans are made in one of the three ways.
LEMMA WaysAre ==
  ASSUME NEW try \in Tries
  PROVE  AtOnce(try) \/ WithNext(try) \/ OfThree(try)
<1>1. PICK s \in Writing, k \in 1..7, tags \in SUBSET RuleSet : s = try[1] /\ k = try[2] /\ tags = try[3] /\ try = <<s, k, tags>>
  BY TriesAre
<1>2. CASE k = 7
  <2>1. ASSUME NEW g PROVE Makes(g, try) = Span(s, tags)
    <3>1. try[2] > Len(Rules)
      <4>1. Len(Rules) = 6
        BY RulesAre
      <4> QED
        BY <1>1, <1>2, <4>1
    <3> QED
      BY <1>1, <3>1 DEF Makes
  <2> QED
    BY <1>1, <2>1 DEF AtOnce
<1>3. CASE k # 7
  <2>1. k \in 1..6 /\ k < 7 /\ k + 1 \in 1..7 /\ ~(try[2] > Len(Rules))
    <3>1. Len(Rules) = 6
      BY RulesAre
    <3> QED
      BY <1>1, <1>3, <3>1
  <2>2. PICK rule \in RuleSet : rule = Rules[k]
    BY <2>1, RulesAre
  <2>3. PICK tag : tag = Handled(rule, s) /\ PartsOf(tag, s, rule)
    BY HandledIs
  <2>4. tag.before \in Writing /\ tag.content \in Writing /\ tag.after \in Writing
        /\ tag.found \in BOOLEAN
    BY <2>3 DEF PartsOf
  <2>5. CASE ~tag.found
    <3>1. PICK t \in Writing : t = tag.before
      BY <2>4
    <3>2. Visible(t) = Visible(s) /\ Len(t) <= Len(s) /\ (Apart(s) => Apart(t))
          /\ (s # <<>> => t # <<>>)
      BY <2>3, <2>5, <3>1 DEF PartsOf
    <3>3. ASSUME NEW g PROVE Makes(g, try) = g[<<t, k + 1, tags>>]
      <4>1. ~Handled(Rules[try[2]], try[1]).found /\ Handled(Rules[try[2]], try[1]).before = t
        BY <1>1, <2>2, <2>3, <2>5, <3>1
      <4> QED
        BY <1>1, <2>1, <4>1 DEF Makes
    <3>4. work[<<t, k + 1, tags>>] < work[try]
      BY <1>1, <2>1, <3>2, LessWork
    <3> QED
      BY <1>1, <2>1, <3>2, <3>3, <3>4 DEF WithNext
  <2>6. CASE tag.found
    <3>1. PICK a \in Writing, c \in Writing, d \in Writing : a = tag.before /\ c = tag.content /\ d = tag.after
      BY <2>4
    <3>2. /\ Visible(s) = Visible(a) \o (Visible(c) \o Visible(d))
          /\ Len(a) < Len(s) /\ Len(c) < Len(s) /\ Len(d) < Len(s)
          /\ Apart(s) => Apart(a) /\ Apart(c) /\ Apart(d)
          /\ Apart(s) /\ rule # "url" => c # <<>>
      BY <2>3, <2>6, <3>1 DEF PartsOf
    <3>3. PICK inside \in SUBSET RuleSet, last \in BOOLEAN : inside = tags \cup {rule} /\ (last <=> rule \in {"code", "url"})
      <4>1. tags \cup {rule} \in SUBSET RuleSet
        OBVIOUS
      <4>2. \E last \in BOOLEAN : last <=> rule \in {"code", "url"}
        <5>1. CASE rule \in {"code", "url"}
          BY <5>1
        <5>2. CASE rule \notin {"code", "url"}
          BY <5>2
        <5> QED
          BY <5>1, <5>2
      <4> QED
        BY <4>1, <4>2
    <3>4. ASSUME NEW g
          PROVE  Makes(g, try) = (Around(g, a, tags) \o Inside(g, c, inside, last)) \o Around(g, d, tags)
      <4> DEFINE h == Handled(Rules[try[2]], try[1])
      <4>1. h.found /\ h.before = a /\ h.content = c /\ h.after = d /\ Rules[try[2]] = rule
        BY <1>1, <2>2, <2>3, <2>6, <3>1
      <4>2. Makes(g, try) = ((IF h.before = <<>> THEN <<>> ELSE g[<<h.before, 1, try[3]>>]) \o
              (IF Rules[try[2]] \in {"code", "url"} THEN Span(h.content, try[3] \cup {Rules[try[2]]})
                 ELSE g[<<h.content, 1, try[3] \cup {Rules[try[2]]}>>])) \o
              (IF h.after = <<>> THEN <<>> ELSE g[<<h.after, 1, try[3]>>])
        BY <2>1, <4>1 DEF Makes
      <4> HIDE DEF h
      <4>3. (IF h.before = <<>> THEN <<>> ELSE g[<<h.before, 1, try[3]>>]) = Around(g, a, tags)
        BY <1>1, <4>1 DEF Around
      <4>4. (IF h.after = <<>> THEN <<>> ELSE g[<<h.after, 1, try[3]>>]) = Around(g, d, tags)
        BY <1>1, <4>1 DEF Around
      <4>5. (IF Rules[try[2]] \in {"code", "url"} THEN Span(h.content, try[3] \cup {Rules[try[2]]})
               ELSE g[<<h.content, 1, try[3] \cup {Rules[try[2]]}>>]) = Inside(g, c, inside, last)
        BY <1>1, <3>3, <4>1 DEF Inside
      <4> QED
        BY <4>2, <4>3, <4>4, <4>5
    <3>5. work[<<a, 1, tags>>] < work[try] /\ work[<<c, 1, inside>>] < work[try]
          /\ work[<<d, 1, tags>>] < work[try]
      BY <1>1, <3>2, LessWork
    <3>6. Apart(s) => HasSpan(c, inside)
      BY <3>2, <3>3 DEF HasSpan
    <3>7. IsOfThree(try, a, c, d, inside, last)
      BY <1>1, <3>2, <3>4, <3>5, <3>6 DEF IsOfThree
    <3> QED
      BY <3>7 DEF OfThree
  <2> QED
    BY <2>4, <2>5, <2>6
<1> QED
  BY <1>2, <1>3

\* What MakeTag makes of an input are spans,
LEMMA MadeTyped ==
  ASSUME NEW g \in [Tries -> Seq(Piece)], NEW try \in Tries
  PROVE  Makes(g, try) \in Seq(Piece)
<1>1. try[1] \in Writing /\ try[3] \in SUBSET RuleSet
  BY TriesAre
<1>2. ASSUME NEW t \in Writing, NEW k \in 1..7, NEW tags \in SUBSET RuleSet PROVE g[<<t, k, tags>>] \in Seq(Piece)
  <2>1. <<t, k, tags>> \in Tries
    BY TriesAre
  <2> QED
    BY <2>1
<1>3. ASSUME NEW t \in Writing, NEW tags \in SUBSET RuleSet PROVE Span(t, tags) \in Seq(Piece)
  BY SpanIs DEF AreOf
<1>4. CASE AtOnce(try)
  <2>1. Makes(g, try) = Span(try[1], try[3])
    BY <1>4 DEF AtOnce
  <2> QED
    BY <1>1, <1>3, <2>1
<1>5. CASE WithNext(try)
  <2>1. PICK t \in Writing, k \in 1..7 : Makes(g, try) = g[<<t, k, try[3]>>]
    BY <1>5 DEF WithNext
  <2> QED
    BY <1>1, <1>2, <2>1
<1>6. CASE OfThree(try)
  <2>0. PICK a \in Writing, c \in Writing, d \in Writing, inside \in SUBSET RuleSet, last \in BOOLEAN :
          IsOfThree(try, a, c, d, inside, last)
    BY <1>6 DEF OfThree
  <2>1. Makes(g, try) = (Around(g, a, try[3]) \o Inside(g, c, inside, last)) \o Around(g, d, try[3])
    BY <2>0 DEF IsOfThree
  <2>2. ASSUME NEW t \in Writing, NEW tags \in SUBSET RuleSet PROVE Around(g, t, tags) \in Seq(Piece)
    <3>1. g[<<t, 1, tags>>] \in Seq(Piece) /\ <<>> \in Seq(Piece)
      BY <1>2, EmptySeq
    <3> QED
      BY <3>1 DEF Around
  <2>3. Inside(g, c, inside, last) \in Seq(Piece)
    <3>1. g[<<c, 1, inside>>] \in Seq(Piece) /\ Span(c, inside) \in Seq(Piece)
      BY <1>2, <1>3
    <3> QED
      BY <3>1 DEF Inside
  <2>4. PICK x \in Seq(Piece), y \in Seq(Piece), z \in Seq(Piece) :
          x = Around(g, a, try[3]) /\ y = Inside(g, c, inside, last) /\ z = Around(g, d, try[3])
    BY <1>1, <2>2, <2>3
  <2>5. PICK xy \in Seq(Piece) : xy = x \o y
    BY ConcatProperties
  <2>6. xy \o z \in Seq(Piece)
    BY ConcatProperties
  <2> QED
    BY <2>1, <2>4, <2>5, <2>6
<1> QED
  BY <1>4, <1>5, <1>6, WaysAre

\* it depends on inputs with less work only,
LEMMA MadeLocal ==
  ASSUME NEW g, NEW h, NEW try \in Tries, \A y \in Tries : work[y] < work[try] => g[y] = h[y]
  PROVE  Makes(g, try) = Makes(h, try)
<1>1. try[1] \in Writing /\ try[3] \in SUBSET RuleSet
  BY TriesAre
<1>2. ASSUME NEW t \in Writing, NEW k \in 1..7, NEW tags \in SUBSET RuleSet, work[<<t, k, tags>>] < work[try]
      PROVE  g[<<t, k, tags>>] = h[<<t, k, tags>>]
  <2>1. <<t, k, tags>> \in Tries
    BY TriesAre
  <2> QED
    BY <1>2, <2>1
<1>4. CASE AtOnce(try)
  BY <1>4 DEF AtOnce
<1>5. CASE WithNext(try)
  <2>1. PICK t \in Writing, k \in 1..7 :
          work[<<t, k, try[3]>>] < work[try] /\ Makes(g, try) = g[<<t, k, try[3]>>]
          /\ Makes(h, try) = h[<<t, k, try[3]>>]
    BY <1>5 DEF WithNext
  <2> QED
    BY <1>1, <1>2, <2>1
<1>6. CASE OfThree(try)
  <2>0. PICK a \in Writing, c \in Writing, d \in Writing, inside \in SUBSET RuleSet, last \in BOOLEAN :
          IsOfThree(try, a, c, d, inside, last)
    BY <1>6 DEF OfThree
  <2>1. /\ Makes(g, try) = (Around(g, a, try[3]) \o Inside(g, c, inside, last)) \o Around(g, d, try[3])
        /\ Makes(h, try) = (Around(h, a, try[3]) \o Inside(h, c, inside, last)) \o Around(h, d, try[3])
        /\ work[<<a, 1, try[3]>>] < work[try] /\ work[<<c, 1, inside>>] < work[try]
           /\ work[<<d, 1, try[3]>>] < work[try]
    BY <2>0 DEF IsOfThree
  <2>2. g[<<a, 1, try[3]>>] = h[<<a, 1, try[3]>>] /\ g[<<c, 1, inside>>] = h[<<c, 1, inside>>]
        /\ g[<<d, 1, try[3]>>] = h[<<d, 1, try[3]>>]
    BY <1>1, <1>2, <2>1
  <2>3. /\ Around(g, a, try[3]) = Around(h, a, try[3])
           /\ Inside(g, c, inside, last) = Inside(h, c, inside, last)
        /\ Around(g, d, try[3]) = Around(h, d, try[3])
    BY <2>2 DEF Around, Inside
  <2> QED
    BY <2>1, <2>3
<1> QED
  BY <1>4, <1>5, <1>6, WaysAre

\* and it shows what was written when those do.
LEMMA MadeIsOf ==
  ASSUME NEW g, NEW try \in Tries, \A y \in Tries : work[y] < work[try] => AreOf(g[y], y[1], y[3])
  PROVE  AreOf(Makes(g, try), try[1], try[3])
<1>1. try[1] \in Writing /\ try[3] \in SUBSET RuleSet
  BY TriesAre
<1>2. ASSUME NEW t \in Writing, NEW k \in 1..7, NEW tags \in SUBSET RuleSet, work[<<t, k, tags>>] < work[try]
      PROVE  AreOf(g[<<t, k, tags>>], t, tags)
  <2>1. PICK y \in Tries : y = <<t, k, tags>>
    BY TriesAre
  <2>2. y[1] = t /\ y[3] = tags
    BY <2>1
  <2>3. AreOf(g[y], y[1], y[3])
    BY <1>2, <2>1
  <2> QED
    BY <2>1, <2>2, <2>3
<1>4. CASE AtOnce(try)
  <2>1. Makes(g, try) = Span(try[1], try[3])
    BY <1>4 DEF AtOnce
  <2> QED
    BY <1>1, <2>1, SpanIs
<1>5. CASE WithNext(try)
  <2>1. PICK t \in Writing, k \in 1..7 :
          /\ work[<<t, k, try[3]>>] < work[try]
          /\ Makes(g, try) = g[<<t, k, try[3]>>]
          /\ Visible(t) = Visible(try[1]) /\ (Apart(try[1]) => Apart(t))
             /\ (try[1] # <<>> => t # <<>>)
    BY <1>5 DEF WithNext
  <2>2. AreOf(g[<<t, k, try[3]>>], t, try[3])
    BY <1>1, <1>2, <2>1
  <2>3. HasSpan(try[1], try[3]) => HasSpan(t, try[3])
    BY <2>1 DEF HasSpan
  <2> QED
    BY <2>1, <2>2, <2>3 DEF AreOf
<1>6. CASE OfThree(try)
  <2>0. PICK a \in Writing, c \in Writing, d \in Writing, inside \in SUBSET RuleSet, last \in BOOLEAN :
          IsOfThree(try, a, c, d, inside, last)
    BY <1>6 DEF OfThree
  <2>1. /\ Makes(g, try) = (Around(g, a, try[3]) \o Inside(g, c, inside, last)) \o Around(g, d, try[3])
        /\ Visible(try[1]) = Visible(a) \o (Visible(c) \o Visible(d))
        /\ work[<<a, 1, try[3]>>] < work[try] /\ work[<<c, 1, inside>>] < work[try]
           /\ work[<<d, 1, try[3]>>] < work[try]
        /\ Apart(try[1]) => Apart(a) /\ Apart(c) /\ Apart(d) /\ HasSpan(c, inside)
    BY <2>0 DEF IsOfThree
  <2>2. ASSUME NEW t \in Writing, work[<<t, 1, try[3]>>] < work[try]
        PROVE  AreOf(Around(g, t, try[3]), t, try[3]) /\ (Apart(t) => Filled(Around(g, t, try[3])))
    <3>1. CASE t = <<>>
      <4>1. Around(g, t, try[3]) = <<>>
        BY <3>1 DEF Around
      <4>2. Filled(<<>>)
        BY DEF Filled
      <4>3. <<>> \in Seq(Piece)
        BY EmptySeq
      <4> QED
        BY <3>1, <4>1, <4>2, <4>3, FlatOne DEF AreOf
    <3>2. CASE t # <<>>
      <4>1. Around(g, t, try[3]) = g[<<t, 1, try[3]>>]
        BY <3>2 DEF Around
      <4>2. AreOf(g[<<t, 1, try[3]>>], t, try[3])
        BY <1>1, <1>2, <2>2
      <4>3. HasSpan(t, try[3])
        BY <3>2 DEF HasSpan
      <4> QED
        BY <4>1, <4>2, <4>3 DEF AreOf
    <3> QED
      BY <3>1, <3>2
  <2>3. AreOf(Inside(g, c, inside, last), c, inside)
    <3>1. AreOf(Span(c, inside), c, inside)
      BY SpanIs
    <3>2. AreOf(g[<<c, 1, inside>>], c, inside)
      BY <1>2, <2>1
    <3>3. CASE last
      <4>1. Inside(g, c, inside, last) = Span(c, inside)
        BY <3>3 DEF Inside
      <4> QED
        BY <3>1, <4>1
    <3>4. CASE ~last
      <4>1. Inside(g, c, inside, last) = g[<<c, 1, inside>>]
        BY <3>4 DEF Inside
      <4> QED
        BY <3>2, <4>1
    <3> QED
      BY <3>3, <3>4
  <2>4. PICK x, y, z : x = Around(g, a, try[3]) /\ y = Inside(g, c, inside, last) /\ z = Around(g, d, try[3])
    OBVIOUS
  <2>5. /\ AreOf(x, a, try[3]) /\ (Apart(a) => Filled(x))
        /\ AreOf(z, d, try[3]) /\ (Apart(d) => Filled(z))
        /\ AreOf(y, c, inside)
    BY <2>1, <2>2, <2>3, <2>4
  <2>6. /\ x \in Seq(Piece) /\ y \in Seq(Piece) /\ z \in Seq(Piece)
        /\ Visible(Flat(x)) = Visible(a) /\ Visible(Flat(y)) = Visible(c)
           /\ Visible(Flat(z)) = Visible(d)
    BY <2>5 DEF AreOf
  <2>7. PICK xy \in Seq(Piece) : xy = x \o y
    BY <2>6, ConcatProperties
  <2>8. PICK r \in Seq(Piece) : r = xy \o z
    BY <2>6, ConcatProperties
  <2>9. Makes(g, try) = r
    BY <2>1, <2>4, <2>7, <2>8
  <2>10. Visible(Flat(r)) = Visible(try[1])
    <3>1. Visible(Flat(xy)) = Visible(Flat(x)) \o Visible(Flat(y))
          /\ Visible(Flat(r)) = Visible(Flat(xy)) \o Visible(Flat(z))
      BY <2>6, <2>7, <2>8, SeenConcat
    <3>2. PICK va \in Writing, vc \in Writing, vd \in Writing : va = Visible(a) /\ vc = Visible(c) /\ vd = Visible(d)
      BY VisibleJoins
    <3>3. (va \o vc) \o vd = va \o (vc \o vd)
      <4>1. va \in Seq(Characters) /\ vc \in Seq(Characters) /\ vd \in Seq(Characters)
        BY DEF Writing
      <4>2. Associative(va, vc, vd)
        BY <4>1, Associates
      <4> QED
        BY <4>2 DEF Associative
    <3> QED
      BY <2>1, <2>6, <3>1, <3>2, <3>3
  <2>11. ASSUME Apart(try[1]) PROVE Filled(r)
    <3>1. Filled(x) /\ Filled(y) /\ Filled(z)
      BY <2>1, <2>5, <2>11 DEF AreOf
    <3>2. Filled(xy)
      BY <2>6, <2>7, <3>1, FilledConcat
    <3> QED
      BY <2>6, <2>8, <3>1, <3>2, FilledConcat
  <2> QED
    BY <2>9, <2>10, <2>11 DEF AreOf
<1> QED
  BY <1>4, <1>5, <1>6, WaysAre

-----------------------------------------------------------------------------
\* The function that formats exists, so MakeTag is it.
LEMMA MakeTagIs == MakeTag = [try \in Tries |-> Makes(MakeTag, try)]
<1> DEFINE R == Seq(Piece)
           F == [g \in [Tries -> R] |-> [try \in Tries |-> Makes(g, try)]]
<1>1. \A g \in [Tries -> R], try \in Tries : Makes(g, try) \in R
  BY MadeTyped
<1>2. F \in [[Tries -> R] -> [Tries -> R]]
      /\ \A g \in [Tries -> R], try \in Tries : F[g][try] = Makes(g, try)
  <2> HIDE DEF R
  <2> QED
    BY <1>1
<1>3. R # {}
  BY EmptySeq
<1>a. work \in [Tries -> Nat]
  BY TriesAre
<1>b. F \in [[Tries -> R] -> [Tries -> R]]
  BY <1>2
<1>4. IsLocal(F, Tries, R, work)
  <2> HIDE DEF R, F
  <2> QED
    BY <1>2, <1>3, <1>a, <1>b, MadeLocal DEF IsLocal
<1>5. PICK f \in [Tries -> R] : f = F[f]
  <2> HIDE DEF R, F
  <2>1. \E g \in [Tries -> R] : g = F[g]
    BY <1>4, MeasuredRecursion DEF HasFixed
  <2> QED
    BY <2>1
<1>6. f = [try \in Tries |-> Makes(f, try)]
  BY <1>5
<1> DEFINE mk == CHOOSE g : g = [try \in Tries |-> Makes(g, try)]
<1>7. MakeTag = mk
  BY DEF MakeTag, Makes, Tries
<1>8. mk = [try \in Tries |-> Makes(mk, try)]
  BY <1>6
<1> HIDE DEF mk
<1> QED
  BY <1>7, <1>8

\* By induction on the work.
LEMMA MakeTagOf == \A try \in Tries : AreOf(MakeTag[try], try[1], try[3])
<1> DEFINE K == {n \in Nat : \A try \in Tries : work[try] < n => AreOf(MakeTag[try], try[1], try[3])}
<1>1. 0 \in K
  <2>1. \A try \in Tries : ~(work[try] < 0)
    BY TriesAre
  <2> QED
    BY <2>1
<1>2. ASSUME NEW n \in Nat, n \in K PROVE n + 1 \in K
  <2> SUFFICES ASSUME NEW try \in Tries, work[try] < n + 1 PROVE AreOf(MakeTag[try], try[1], try[3])
    OBVIOUS
  <2>1. \A y \in Tries : work[y] < work[try] => work[y] < n
    <3>1. work[try] \in Nat /\ \A y \in Tries : work[y] \in Nat
      BY TriesAre
    <3> QED
      BY <3>1
  <2>2. \A y \in Tries : work[y] < work[try] => AreOf(MakeTag[y], y[1], y[3])
    BY <1>2, <2>1
  <2>3. MakeTag[try] = Makes(MakeTag, try)
    BY MakeTagIs
  <2> QED
    BY <2>2, <2>3, MadeIsOf
<1>3. Nat \subseteq K
  <2> HIDE DEF K
  <2> QED
    BY <1>1, <1>2, Induction
<1> QED
  <2> TAKE try \in Tries
  <2>1. work[try] \in Nat /\ work[try] + 1 \in Nat /\ work[try] < work[try] + 1
    BY TriesAre
  <2> QED
    BY <1>3, <2>1

\* Markup shows what was written.
LEMMA MarkupIs ==
  ASSUME NEW text \in Writing
  PROVE  AreOf(Markup(text), text, {}) /\ Shown(text) = Flat(Markup(text))
<1>1. PICK try \in Tries : try = <<text, 1, {}>>
  <2>1. {} \in SUBSET RuleSet /\ 1 \in 1..7
    OBVIOUS
  <2> QED
    BY <2>1, TriesAre
<1>2. try[1] = text /\ try[3] = {}
  BY <1>1
<1>3. AreOf(MakeTag[try], text, {})
  BY <1>2, MakeTagOf
<1>4. Markup(text) = MakeTag[try]
  BY <1>1 DEF Markup
<1> QED
  BY <1>3, <1>4 DEF Shown, Flat

\* Every message is shown as it was written.
LEMMA MessageStep == AlgorithmTyped => MessageShown
<1> SUFFICES ASSUME AlgorithmTyped, kind = "message"
             PROVE  /\ Visible(Shown(input)) = Visible(input)
                    /\ ~Twice("*") /\ ~Twice("ctrl") =>
                         \A i \in DOMAIN Markup(input) :
                           "url" \notin Markup(input)[i].tags => Markup(input)[i].text # <<>>
  BY DEF MessageShown
<1>1. input \in Writing
  <2>1. Alphabet["message"] \subseteq Characters
    BY AlphabetAssumption DEF AlgorithmTyped
  <2>2. input \in Seq(Alphabet["message"])
    BY DEF AlgorithmTyped
  <2>3. input \in Seq(Characters)
    BY <2>1, <2>2, SeqMonotonic
  <2> QED
    BY <2>3 DEF Writing
<1>2. PICK text \in Writing : text = input
  BY <1>1
<1>3. AreOf(Markup(text), text, {}) /\ Shown(text) = Flat(Markup(text))
  BY MarkupIs
<1>4. Visible(Shown(text)) = Visible(text)
  BY <1>3 DEF AreOf
<1>5. ASSUME ~Twice("*"), ~Twice("ctrl") PROVE Apart(text)
  <2> SUFFICES ASSUME NEW i \in 1 .. Len(text) - 1, text[i] = text[i + 1] PROVE text[i] \notin {"*", "ctrl"}
    BY DEF Apart
  <2>1. text[i] # "*"
    BY <1>2, <1>5 DEF Twice
  <2>2. text[i] # "ctrl"
    BY <1>2, <1>5 DEF Twice
  <2> QED
    BY <2>1, <2>2
<1>6. ASSUME Apart(text), NEW i \in DOMAIN Markup(text) PROVE "url" \notin Markup(text)[i].tags => Markup(text)[i].text # <<>>
  <2>1. PICK v \in Seq(Piece) : v = Markup(text) /\ Filled(v)
    BY <1>3, <1>6 DEF AreOf, HasSpan
  <2>2. i \in 1..Len(v)
    BY <1>6, <2>1, LenProperties
  <2> QED
    BY <2>1, <2>2 DEF Filled
<1> QED
  BY <1>2, <1>4, <1>5, <1>6

(* What a reader sees of a message is what was written without the markers, *)
(* once and in order, whatever is nested, escaped or left open in it; and   *)
(* where no two asterisks or formatting characters stand together, no span  *)
(* but a link is empty (I18N.js 125-159, 207-229).                          *)
THEOREM WrittenIsShown == AlgorithmSpec => []MessageShown
<1>1. AlgorithmTyped => MessageShown
  BY MessageStep
<1> QED
  BY <1>1, AlgorithmTypedIs, PTL
=============================================================================
