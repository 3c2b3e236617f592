------------------------------ MODULE Operation ------------------------------
(***************************************************************************)
(* A call to the HTTP API: store/Operation.js, the specification of the    *)
(* API it needs first (js/Api.js), and the form/Button.svelte that submits *)
(* a form and must not do so twice.                                        *)
(*                                                                         *)
(* perform() keeps its promise in _promise until it is settled.  The       *)
(* status follows later: it says "loading" only when the specification is  *)
(* there, and the button knows it when the update event has come.          *)
(***************************************************************************)
EXTENDS Naturals

CONSTANTS
  Callers, Forms,   \* who calls perform(): submitted forms, and pages that load
  Values, Invalid,  \* what they send; a required parameter is missing from the invalid
  None,
  Faults            \* what the network can do to a request: it "failed", or "expired"

ASSUME OperationAssumption ==
  /\ Forms \subseteq Callers /\ Invalid \subseteq Values /\ None \notin Values
  /\ Faults \subseteq {"failed", "expired"}

VARIABLES
  spec,     \* Api._ops is filled
  promise,  \* _promise: "none", waiting for the "spec", or request "sent"
  params,   \* the parameters of the call that made the promise
  waiting,  \* callers that wait for it
  xhr,      \* what became of the XMLHttpRequest
  applied,  \* the server did what the last request asked for
  status,   \* Operation.status
  seen,     \* the status the page was last told
  locked,   \* Button's forceDisable
  timer     \* the button is released when the 500 ms are over

flying == <<spec, promise, params, waiting>>
button == <<seen, locked, timer>>
vars == <<spec, promise, params, waiting, xhr, applied, status, seen, locked, timer>>

Statuses == {"pending", "loading", "success", "error"}
Outcomes == {"unsent", "sent", "ok", "refused", "garbage", "failed", "expired"}

TypeOK ==
  /\ spec \in BOOLEAN
  /\ promise \in {"none", "spec", "sent"}
  /\ params \in Values \cup {None}
  /\ waiting \subseteq Callers
  /\ xhr \in Outcomes
  /\ applied \in BOOLEAN
  /\ status \in Statuses /\ seen \in Statuses
  /\ locked \in BOOLEAN /\ timer \in BOOLEAN

Init ==
  /\ spec = FALSE /\ promise = "none" /\ params = None /\ waiting = {}
  /\ xhr = "unsent" /\ applied = FALSE
  /\ status = "pending" /\ seen = "pending" /\ locked = FALSE /\ timer = FALSE

\* The page has not been told of the status yet.
Due == seen # status

-----------------------------------------------------------------------------
(* A form is submitted with its button, and the update event is there      *)
(* before the hand of the user.  A page loads whenever it likes.           *)
Perform(c, v) ==
  /\ c \in Callers \ waiting
  /\ c \in Forms => ~locked /\ ~Due
  /\ waiting' = waiting \cup {c}
  /\ IF promise = "none" THEN promise' = "spec" /\ params' = v
                         ELSE UNCHANGED <<promise, params>>
  /\ UNCHANGED <<spec, xhr, applied, status, button>>

\* All who wait go on.
Settle(s) ==
  /\ status' = s /\ promise' = "none" /\ params' = None /\ waiting' = {}
  /\ xhr' = "unsent" /\ UNCHANGED <<spec, button>>

FetchSpec ==
  /\ promise = "spec" /\ ~spec /\ spec' = TRUE
  /\ UNCHANGED <<promise, params, waiting, xhr, applied, status, button>>

FetchFails == promise = "spec" /\ ~spec /\ Settle("error") /\ UNCHANGED applied

Send ==
  /\ promise = "spec" /\ spec /\ params \notin Invalid
  /\ promise' = "sent" /\ xhr' = "sent" /\ status' = "loading" /\ applied' = FALSE
  /\ UNCHANGED <<spec, params, waiting, button>>

Missing ==
  /\ promise = "spec" /\ spec /\ params \in Invalid
  /\ Settle("error") /\ UNCHANGED applied

-----------------------------------------------------------------------------
(* The server and the network.                                             *)

\* Something in between may answer, and not in JSON ("garbage"); after 15 seconds
\* the browser gives up ("expired") with an event that nobody listens to.
Becomes(outcome) ==
  /\ xhr = "sent" /\ xhr' = outcome
  /\ applied' \in CASE outcome = "ok" -> {TRUE}
                    [] outcome = "refused" -> {FALSE}
                    [] OTHER -> BOOLEAN
  /\ UNCHANGED <<flying, status, button>>

Network == \E outcome \in {"ok", "refused", "garbage"} \cup Faults : Becomes(outcome)

-----------------------------------------------------------------------------
(* The answer.  A request that failed has status 0, which is taken for 201. *)

\* Faulty variant: what cannot be read is left alone.
SettledLoosely ==
  /\ xhr \in {"ok", "refused", "garbage", "failed"}
  /\ Settle(IF xhr = "refused" THEN "error" ELSE "success") /\ UNCHANGED applied

\* Faulty variant: the promise of a refused request is kept.
SettledUnlessRefused ==
  /\ xhr \in {"ok", "garbage", "failed"}
  /\ Settle(IF xhr = "garbage" THEN "error" ELSE "success") /\ UNCHANGED applied

Settled ==
  /\ xhr \in {"ok", "refused", "garbage", "failed"}
  /\ Settle(IF xhr \in {"refused", "garbage"} THEN "error" ELSE "success")
  /\ UNCHANGED applied

\* Faulty variant: a reset gives up the request as well.
ResetAbandons ==
  /\ status' = "pending" /\ promise' = "none" /\ params' = None
  /\ UNCHANGED <<spec, waiting, xhr, applied, button>>

\* reset() and error("...") by the page; a request under way goes on.
Reset == status' = "pending" /\ UNCHANGED <<flying, xhr, applied, button>>

SetError == status' = "error" /\ UNCHANGED <<flying, xhr, applied, button>>

-----------------------------------------------------------------------------
(* The update event, and the timers of the button, which all end 500 ms    *)
(* after the start of the last request: at once, and with nothing to do,   *)
(* when the button is not locked.                                          *)
\* Faulty variant: the button is not told.
UpdateUnlocked ==
  /\ Due /\ seen' = status /\ timer' = (locked /\ status # "loading")
  /\ UNCHANGED <<flying, xhr, applied, status, locked>>

Update ==
  /\ Due /\ seen' = status
  /\ IF status = "loading" THEN locked' = TRUE /\ UNCHANGED timer
                           ELSE timer' = locked /\ UNCHANGED locked
  /\ UNCHANGED <<flying, xhr, applied, status>>

Release ==
  /\ timer /\ timer' = FALSE /\ locked' = FALSE
  /\ UNCHANGED <<flying, xhr, applied, status, seen>>

-----------------------------------------------------------------------------
Next ==
  \/ \E c \in Callers, v \in Values : Perform(c, v)
  \/ FetchSpec \/ FetchFails \/ Send \/ Missing
  \/ Network \/ Settled \/ Reset \/ SetError
  \/ Update \/ Release

\* The server answers, and the browser runs what is due.
Fairness ==
  /\ WF_vars(FetchSpec \/ FetchFails) /\ WF_vars(Send \/ Missing)
  /\ WF_vars(Network) /\ WF_vars(Settled) /\ WF_vars(Update) /\ WF_vars(Release)

Spec == Init /\ [][Next]_vars /\ Fairness

-----------------------------------------------------------------------------
(* Properties.                                                             *)

\* There is somebody to answer exactly while there is a promise, and a request
\* exactly while it was sent (Operation.js 75-104).
PromiseHeld ==
  /\ (promise = "none") <=> (waiting = {})
  /\ (promise = "none") <=> (params = None)
  /\ (promise = "sent") <=> (xhr # "unsent")

\* "Saved." is true: a success means that the server did what the request asked
\* for.  @property {Null} err: "If no errors" (Operation.js 9).
SuccessIsTrue == status = "success" => applied

\* No form is swallowed by the request of an earlier form: while that is under
\* way, and nobody has reset the operation, the button is locked (Button.svelte
\* 22-34).  A page that loads with the same operation is not held back.
SubmitIsSent ==
  [][\A c \in Forms : c \in waiting' \ waiting /\ waiting \subseteq Forms
       => ~(promise = "sent" /\ status = "loading")]_vars

\* The promise is resolved on error and on success (Operation.js 73).
PerformEnds == \A c \in Callers : c \in waiting ~> c \notin waiting

\* What a caller sees is a single flight.
Flight == INSTANCE SingleFlight WITH flight <- params
SingleFlightSpec == Flight!Spec
=============================================================================
