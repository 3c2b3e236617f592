------------------------------- MODULE Notify -------------------------------
(***************************************************************************)
(* How somebody is told of a message: js/Notify.js in the page, the push   *)
(* handler of the service worker (pkg/server/templates/sw.js), the form    *)
(* that switches notifications on (page/SettingsAccount.svelte) and the    *)
(* subscriptions the server keeps (pkg/handler/handlers_push.go and        *)
(* pkg/irc/notifications.go).                                              *)
(*                                                                         *)
(* A message comes twice, over the socket to the page and as a push to the *)
(* worker, and each decides alone whether it is the one to tell.  There is *)
(* one browser with one tab.                                               *)
(***************************************************************************)
EXTENDS Naturals, FiniteSets

CONSTANTS
  Endpoints, None,  \* what a push service calls a subscription
  Slots,            \* bound: calls of subscribeToPush and unsubscribeFromPush under way
  Faults,           \* a subset of {"network", "refused", "expired"}
  MaxActs           \* bound: what the user does, and messages

ASSUME NotifyAssumption ==
  None \notin Endpoints /\ Faults \subseteq {"network", "refused", "expired"} /\ MaxActs \in Nat

VARIABLES
  want, access,   \* wantNotifications and the permission of the browser
  enabled, reg,   \* pushEnabled; swRegistration is there, and has been asked
  open, account, focus,  \* the page is open, shows the account, has the focus
  prompt, due,    \* the browser asks for permission; an update event is on its way
  sub, server,    \* the subscription of the browser, those the server knows
  tasks,          \* what runs in a slot, and where it waits
  msg,            \* the last message: what is still under way, how often it was told
  acts, crossed   \* crossed: two calls ran at a time, or one did not run to its end

choice == <<want, access, prompt, due>>
page   == <<open, account, focus>>
push   == <<enabled, reg, sub, server, tasks>>
notifyVars == <<choice, page, push, msg, acts, crossed>>

Idle   == [kind |-> "none", at |-> "end", sub |-> None]
Active == {i \in Slots : tasks[i] # Idle}

\* Nothing is under way that changes who is to tell.
Settled == Active = {} /\ ~due /\ (reg = "ready" \/ sub = None)

NotifyInit ==
  /\ want = FALSE /\ access = "default" /\ prompt = FALSE /\ due = FALSE
  /\ open = TRUE /\ account = FALSE /\ focus = TRUE
  /\ enabled = FALSE /\ reg = "none" /\ sub = None /\ server = {}
  /\ tasks = [i \in Slots |-> Idle]
  /\ msg = [kind |-> "none", ws |-> FALSE, push |-> {}, told |-> 0, calm |-> FALSE]
  /\ acts = 0 /\ crossed = FALSE

Act     == acts < MaxActs /\ acts' = acts + 1
Disturb == msg' = [msg EXCEPT !.calm = FALSE]
Run(i, task) == tasks' = [tasks EXCEPT ![i] = task]
At(i, kind, at) == tasks[i].kind = kind /\ tasks[i].at = at

-----------------------------------------------------------------------------
(* The page and its worker. *)

(* saveAccount: requestDesktopAccess asks at most once.                     *)
Save(w) ==
  /\ account /\ focus /\ ~prompt /\ ~due /\ Act
  /\ want' = w /\ due' = (w # want)
  /\ prompt' = (w /\ access = "default")
  /\ Disturb /\ UNCHANGED <<access, page, push, crossed>>

Permit(answer) ==
  /\ prompt /\ prompt' = FALSE
  /\ access' = answer /\ due' = TRUE
  /\ Disturb /\ UNCHANGED <<want, page, push, acts, crossed>>

(* The listener of the account page, if that is still there.  Nothing can  *)
(* be asked of a registration that has not come.                            *)
Updated ==
  /\ due /\ due' = FALSE
  /\ IF account /\ reg # "none" /\ (want => access = "granted")
       THEN \E i \in Slots \ Active :
              /\ Run(i, [kind |-> IF want THEN "subscribe" ELSE "unsubscribe",
                         at |-> "start", sub |-> None])
              /\ crossed' = (crossed \/ Active # {})
       ELSE /\ crossed' = (crossed \/ (~want /\ sub # None))
            /\ UNCHANGED tasks
  /\ Disturb /\ UNCHANGED <<want, access, prompt, page, enabled, reg, sub, server, acts>>

Visit ==
  /\ open /\ focus /\ ~due /\ Act /\ account' = ~account
  /\ Disturb /\ UNCHANGED <<choice, open, focus, push, crossed>>

Focus ==
  /\ open /\ ~due /\ Act /\ focus' = ~focus
  /\ Disturb /\ UNCHANGED <<choice, open, account, push, crossed>>

Close ==
  /\ open /\ ~due /\ Act
  /\ open' = FALSE /\ account' = FALSE /\ focus' = FALSE /\ prompt' = FALSE
  /\ enabled' = FALSE /\ reg' = "none"
  /\ tasks' = [i \in Slots |-> Idle] /\ crossed' = (crossed \/ Active # {})
  /\ msg' = [msg EXCEPT !.ws = FALSE, !.calm = FALSE]
  /\ UNCHANGED <<want, access, due, sub, server>>

OpenPage ==
  /\ ~open /\ open' = TRUE /\ focus' = TRUE
  /\ Disturb /\ UNCHANGED <<choice, account, push, crossed>>

Open == Act /\ OpenPage

(* A click on what the worker shows opens the page.                         *)
ClickPush == msg.told > 0 /\ OpenPage /\ UNCHANGED acts

Register ==
  /\ open /\ reg = "none" /\ reg' = "asking"
  /\ Disturb /\ UNCHANGED <<choice, page, enabled, sub, server, tasks, acts, crossed>>

Registered ==
  /\ reg = "asking" /\ reg' = "ready" /\ enabled' = (sub # None)
  /\ Disturb /\ UNCHANGED <<choice, page, sub, server, tasks, acts, crossed>>

-----------------------------------------------------------------------------
(* subscribeToPush and unsubscribeFromPush, one step for every await. *)

Quiet == Disturb /\ UNCHANGED <<choice, page, reg, acts>>

FetchVapid(i) ==
  /\ At(i, "subscribe", "start")
  /\ Run(i, [tasks[i] EXCEPT !.at = "key"])
  /\ Quiet /\ UNCHANGED <<enabled, sub, server, crossed>>

\* The server has no key, or does not tell it.
NoVapid(i) ==
  /\ "refused" \in Faults /\ At(i, "subscribe", "start")
  /\ Run(i, Idle) /\ crossed' = TRUE
  /\ Quiet /\ UNCHANGED <<enabled, sub, server>>

Subscribe(i) ==
  /\ At(i, "subscribe", "key")
  /\ sub' \in IF sub # None THEN {sub}
              ELSE Endpoints \ (server \cup msg.push \cup {tasks[j].sub : j \in Slots})
  /\ Run(i, [tasks[i] EXCEPT !.at = "post", !.sub = sub'])
  /\ Quiet /\ UNCHANGED <<enabled, server, crossed>>

(* Nobody looks at the status of the answer.                                *)
SubscribeToPush(i, refused) ==
  /\ At(i, "subscribe", "post")
  /\ refused => "refused" \in Faults
  /\ server' = IF refused THEN server ELSE server \cup {tasks[i].sub}
  /\ Run(i, [tasks[i] EXCEPT !.at = "posted"])
  /\ crossed' = (crossed \/ refused)
  /\ Quiet /\ UNCHANGED <<enabled, sub>>

Subscribed(i) ==
  /\ At(i, "subscribe", "posted")
  /\ enabled' = TRUE /\ Run(i, Idle)
  /\ Quiet /\ UNCHANGED <<sub, server, crossed>>

GetSubscription(i) ==
  /\ At(i, "unsubscribe", "start")
  /\ Run(i, IF sub = None THEN Idle ELSE [tasks[i] EXCEPT !.at = "got", !.sub = sub])
  /\ Quiet /\ UNCHANGED <<enabled, sub, server, crossed>>

Unsubscribe(i) ==
  /\ At(i, "unsubscribe", "got")
  /\ sub' = IF sub = tasks[i].sub THEN None ELSE sub
  /\ Run(i, [tasks[i] EXCEPT !.at = "post"])
  /\ Quiet /\ UNCHANGED <<enabled, server, crossed>>

\* Faulty variant: the server is not told.
UnsubscribeSilently(i, refused) ==
  /\ At(i, "unsubscribe", "post")
  /\ refused => "refused" \in Faults
  /\ Run(i, [tasks[i] EXCEPT !.at = "posted"])
  /\ crossed' = (crossed \/ refused)
  /\ Quiet /\ UNCHANGED <<enabled, sub, server>>

UnsubscribeFromPush(i, refused) ==
  /\ At(i, "unsubscribe", "post")
  /\ refused => "refused" \in Faults
  /\ server' = IF refused THEN server ELSE server \ {tasks[i].sub}
  /\ Run(i, [tasks[i] EXCEPT !.at = "posted"])
  /\ crossed' = (crossed \/ refused)
  /\ Quiet /\ UNCHANGED <<enabled, sub>>

Unsubscribed(i) ==
  /\ At(i, "unsubscribe", "posted")
  /\ enabled' = FALSE /\ Run(i, Idle)
  /\ Quiet /\ UNCHANGED <<sub, server, crossed>>

(* catch: only subscribeToPush says what is left.                           *)
Throws(i) ==
  /\ "network" \in Faults /\ tasks[i].at \in {"start", "key", "post"}
  /\ enabled' = (enabled /\ tasks[i].kind # "subscribe")
  /\ Run(i, Idle) /\ crossed' = TRUE
  /\ Quiet /\ UNCHANGED <<sub, server>>

(* The push service forgets a subscription; the page does not notice.       *)
Expire ==
  /\ "expired" \in Faults /\ sub # None /\ sub' = None /\ crossed' = TRUE
  /\ Quiet /\ UNCHANGED <<enabled, server, tasks>>

-----------------------------------------------------------------------------
(* A message.  "highlight" is one the server sends a push for, "channel"   *)
(* one of a channel whose notifications are on.                             *)

Kinds == {"highlight", "channel"}  \* what is worth a notification

\* What has been told of is over when both ways are.
Over == ~msg.ws /\ msg.push = {}

Send(kind) ==
  /\ Over /\ Act
  /\ msg' = [kind |-> kind, ws |-> open, told |-> 0, calm |-> Settled,
             push |-> IF kind = "highlight" THEN server ELSE {}]
  /\ UNCHANGED <<choice, page, push, crossed>>

Told(n) == msg' = [msg EXCEPT !.ws = FALSE, !.told = @ + n]

\* Conversation.notify: who has the page before him sees the message.
Unseen == ~focus

\* Faulty variant: the page does not leave it to the worker.
ShowAlways ==
  /\ msg.ws
  /\ Told(IF Unseen /\ want THEN 1 ELSE 0)
  /\ UNCHANGED <<choice, page, push, acts, crossed>>

(* Notify.show: the worker tells if there is a subscription.                *)
Show ==
  /\ msg.ws
  /\ Told(IF Unseen /\ want /\ ~(access = "granted" /\ enabled) THEN 1 ELSE 0)
  /\ UNCHANGED <<choice, page, push, acts, crossed>>

(* The worker shows what comes, or the push service knows the endpoint no  *)
(* longer and the server forgets it.                                        *)
Push(e) ==
  /\ e \in msg.push
  /\ msg' = [msg EXCEPT !.push = @ \ {e}, !.told = IF e = sub /\ ~focus THEN @ + 1 ELSE @]
  /\ server' = IF e = sub THEN server ELSE server \ {e}
  /\ UNCHANGED <<choice, page, enabled, reg, sub, tasks, acts, crossed>>

-----------------------------------------------------------------------------
Task(i) ==
  \/ FetchVapid(i) \/ NoVapid(i) \/ Subscribe(i) \/ Subscribed(i)
  \/ GetSubscription(i) \/ Unsubscribe(i) \/ Unsubscribed(i)
  \/ \E refused \in BOOLEAN : SubscribeToPush(i, refused) \/ UnsubscribeFromPush(i, refused)

NotifyNext ==
  \/ \E w \in BOOLEAN : Save(w)
  \/ \E answer \in {"granted", "denied"} : Permit(answer)
  \/ Updated \/ Visit \/ Focus \/ Close \/ Open \/ ClickPush \/ Register \/ Registered
  \/ \E i \in Slots : Task(i) \/ Throws(i)
  \/ Expire
  \/ \E kind \in Kinds : Send(kind)
  \/ Show
  \/ \E e \in Endpoints : Push(e)

NotifySpec == NotifyInit /\ [][NotifyNext]_notifyVars

-----------------------------------------------------------------------------
(* Somebody who wants to know of a message and does not look at the page   *)
(* is told, once, whether by the page or by the worker, if nothing about   *)
(* the subscription is under way (Notify.js:43-48 and sw.js:86-93, which   *)
(* know nothing of each other).                                             *)
ToldOnce ==
  Over /\ msg.calm /\ msg.kind = "highlight" /\ ~crossed
    => msg.told = IF want /\ ~focus /\ (open \/ sub # None) THEN 1 ELSE 0

(* When the calls have come to their end, one after the other, the browser *)
(* the page and the server agree, and nobody is pushed what he has switched*)
(* off (Notify.js:97-155).                                                  *)
AllAgree ==
  Settled /\ ~crossed
    => /\ server = {sub} \ {None}
       /\ open => enabled = (sub # None)
       /\ ~want => sub = None
=============================================================================
