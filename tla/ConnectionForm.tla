--------------------------- MODULE ConnectionForm ---------------------------
(***************************************************************************)
(* How connections are added, changed and deleted: the form of             *)
(* components/ConnectionForm.svelte, the connections of the user object    *)
(* (store/User.js), the table of page/Connections.svelte, and the handlers *)
(* of pkg/handler/handlers_connection.go with the files they write.        *)
(*                                                                         *)
(* The button "Delete" lies in the form and has no type of its own, so a   *)
(* click on it submits the form too: a deletion is always accompanied by   *)
(* an update, and the server may handle the two in any order.              *)
(***************************************************************************)
EXTENDS Naturals, FiniteSets

CONSTANTS
  Hosts,       \* the connection that can be made to a host has its name
  Nameless,    \* the connection made from an answer that names none
  MaxSubmits,  \* bound: forms sent
  MaxVisits,   \* bound: pages opened
  MaxReloads   \* bound: times the user is loaded again

ASSUME FormAssumption ==
  /\ Nameless \notin Hosts
  /\ {MaxSubmits, MaxVisits, MaxReloads} \subseteq Nat

VARIABLES
  kept, saved,   \* User.connections of the server, and their files
  listed,          \* user.connections of the page
  table,         \* what the page with the table shows
  form,          \* the open page: "list", "add" or the connection in the form
  requests,      \* [kind, host, state, subject] under way
  reply,         \* the answer to "load": whether one is to come, and its list
  removed,       \* connections whose deletion was answered with success
  disturbed,     \* a request failed, or a load crossed one
  submits, visits, reloads

store  == <<kept, saved>>
shownList == <<listed, table, form>>
bounds == <<submits, visits, reloads>>
formVars == <<store, shownList, requests, reply, removed, disturbed, bounds>>

NoReply == [is |-> "none", list |-> {}]

FormInit ==
  /\ kept \in SUBSET Hosts /\ saved = kept /\ listed = kept /\ table = kept
  /\ form = "list" /\ requests = {} /\ reply = NoReply
  /\ removed = {} /\ disturbed = FALSE
  /\ submits = 0 /\ visits = 0 /\ reloads = 0

\* subject is the variable "connection" of the form the request was sent from.
NewRequest(kind, h) == [kind |-> kind, host |-> h, state |-> "asked", ok |-> FALSE, subject |-> h]
Free(h) == \A r \in requests : r.host # h

\* An empty table is filled when connections come; one that is not empty stays.
Tabled(list) == table' = IF form' # form \/ table = {} THEN list ELSE table

-----------------------------------------------------------------------------
(* The pages. *)

\* A form is opened again when its answers have come.
OpenForm(where) ==
  /\ visits < MaxVisits /\ visits' = visits + 1
  /\ where # form /\ where \in {"list", "add"} \cup (listed \cap Hosts)
  /\ where \in Hosts => Free(where)
  /\ form' = where /\ Tabled(listed)
  /\ UNCHANGED <<store, listed, requests, reply, removed, disturbed, submits, reloads>>

Submit(new) ==
  /\ submits < MaxSubmits /\ submits' = submits + 1
  /\ requests' = requests \cup new
  /\ disturbed' = (disturbed \/ reply.is # "none")
  /\ UNCHANGED <<store, shownList, reply, removed, visits, reloads>>

AddConnection(h) ==
  /\ form = "add" /\ Free(h)
  /\ Submit({NewRequest("create", h)})

SaveConnection(h) ==
  /\ form = h /\ Free(h)
  /\ Submit({NewRequest("update", h)})

(* The click on "Delete", and the submission of the form it causes.         *)
DeleteConnection(h) ==
  /\ form = h /\ Free(h)
  /\ Submit({NewRequest("remove", h), NewRequest("update", h)})

-----------------------------------------------------------------------------
(* The server.  A handler works on an object it has found, which is not     *)
(* found any more once another has removed it.                              *)

Passes(r, state, ok) ==
  /\ requests' = (requests \ {r}) \cup {[r EXCEPT !.state = state, !.ok = ok]}
  /\ UNCHANGED <<shownList, reply, bounds>>

Asked(kind, r) == r \in requests /\ r.state = "asked" /\ r.kind = kind

CreateConnection(r) ==
  /\ Asked("create", r)
  /\ kept' = kept \cup {r.host}
  /\ Passes(r, "held", TRUE) /\ UNCHANGED <<saved, removed, disturbed>>

UpdateConnection(r) ==
  /\ Asked("update", r)
  /\ IF r.host \in kept THEN Passes(r, "held", TRUE) ELSE Passes(r, "answered", FALSE)
  /\ UNCHANGED <<store, removed, disturbed>>

RemoveConnection(r) ==
  /\ Asked("remove", r)
  /\ kept' = kept \ {r.host}
  /\ Passes(r, IF r.host \in kept THEN "held" ELSE "answered", TRUE)
  /\ UNCHANGED <<saved, removed, disturbed>>

(* The files are written or removed.                                        *)
Write(r) ==
  /\ r \in requests /\ r.state = "held" /\ Passes(r, "answered", TRUE)
  /\ saved' = IF r.kind = "remove" THEN saved \ {r.host} ELSE saved \cup {r.host}
  /\ removed' = IF r.kind = "remove" THEN removed \cup {r.host}
                ELSE IF r.kind = "create" THEN removed \ {r.host} ELSE removed
  /\ UNCHANGED <<kept, disturbed>>

(* The network or the disk fails.                                           *)
BreaksOff(r) ==
  /\ r \in requests /\ r.state # "answered" /\ Passes(r, "answered", FALSE)
  /\ disturbed' = TRUE /\ UNCHANGED <<store, removed>>

-----------------------------------------------------------------------------
(* The answers. *)

(* ensureConversation: what an answer says is listed, also when it is an    *)
(* error and names no connection.                                           *)
Ensure(id) == listed \cup {id}

Unlisted(id) == listed \ {id}

\* The connection made from an answer: one that names none is "ERR".
Made(r) == IF r.ok THEN r.host ELSE Nameless

Answered(kind, r) ==
  /\ r \in requests /\ r.state = "answered" /\ r.kind = kind
  /\ UNCHANGED <<store, reply, removed, disturbed, bounds>>

\* All three go to the table, whatever is open by then.
ToTable == form' = "list" /\ Tabled(listed')

\* Faulty variant: the server is trusted to tell of the new connection.
CreatedQuietly(r) ==
  /\ Answered("create", r)
  /\ requests' = requests \ {r}
  /\ UNCHANGED listed /\ ToTable

Created(r) ==
  /\ Answered("create", r)
  /\ requests' = requests \ {r}
  /\ listed' = (IF r.ok THEN Ensure(r.host) ELSE listed) /\ ToTable

(* The form is from now on about what the answer was made into; a deletion  *)
(* that is under way takes that from the list.                              *)
UpdateAnswered(r) ==
  /\ Answered("update", r)
  /\ LET id == Made(r) IN
     /\ listed' = Ensure(id)
     /\ requests' = {IF q.host = r.host THEN [q EXCEPT !.subject = id] ELSE q : q \in requests \ {r}}
  /\ ToTable

(* Nobody asks whether the deletion succeeded.                              *)
RemoveAnswered(r) ==
  /\ Answered("remove", r)
  /\ requests' = requests \ {r}
  /\ listed' = Unlisted(r.subject) /\ ToTable

-----------------------------------------------------------------------------
(* The connection to the server was lost and is there again.                *)
AskLoad ==
  /\ reply.is = "none" /\ reloads < MaxReloads /\ reloads' = reloads + 1
  /\ reply' = [NoReply EXCEPT !.is = "asked"] /\ disturbed' = (disturbed \/ requests # {})
  /\ UNCHANGED <<store, shownList, requests, removed, submits, visits>>

AnswerLoad ==
  /\ reply.is = "asked" /\ reply' = [is |-> "answered", list |-> kept]
  /\ UNCHANGED <<store, shownList, requests, removed, disturbed, bounds>>

LoadConnections ==
  /\ reply.is = "answered" /\ reply' = NoReply
  /\ listed' = reply.list /\ form' = form /\ Tabled(listed')
  /\ UNCHANGED <<store, requests, removed, disturbed, bounds>>

FormNext ==
  \/ \E where \in {"list", "add"} \cup Hosts : OpenForm(where)
  \/ \E h \in Hosts : AddConnection(h) \/ SaveConnection(h) \/ DeleteConnection(h)
  \/ \E r \in requests :
       \/ CreateConnection(r) \/ UpdateConnection(r) \/ RemoveConnection(r)
       \/ Write(r) \/ BreaksOff(r)
       \/ Created(r) \/ UpdateAnswered(r) \/ RemoveAnswered(r)
  \/ AskLoad \/ AnswerLoad \/ LoadConnections

FormSpec == FormInit /\ [][FormNext]_formVars

-----------------------------------------------------------------------------
AllAnswered == requests = {} /\ reply.is = "none" /\ ~disturbed

(* When everything has been answered, and nothing failed, every connection  *)
(* the server has is listed and will be there after a restart, however      *)
(* often it was added, changed and deleted (User.js:59-81,107-110).         *)
ConnectionsListed == AllAnswered => kept \subseteq listed /\ kept \subseteq saved

(* ConnectionForm.svelte:161: "This will permanently remove chat logs and   *)
(* other connection related data": what was deleted does not come back.     *)
DeletedForGood == AllAnswered => (removed \ kept) \cap (listed \cup saved) = {}
=============================================================================
