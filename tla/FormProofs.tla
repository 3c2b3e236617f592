----------------------------- MODULE FormProofs -----------------------------
(***************************************************************************)
(* Theorems about what somebody types and submits.                         *)
(*                                                                         *)
(* About Operation: its types, that a request that cannot fail on the      *)
(* network is answered truly, and that every step is a step of             *)
(* SingleFlight or a stutter.  About ChatInput: that no text is lost, and  *)
(* that none goes to another conversation.                                 *)
(***************************************************************************)
EXTENDS Operation, ChatInput, FiniteSetTheorems, TLAPS

\* A request that is not settled has not succeeded yet.
Truth ==
  /\ xhr # "unsent" => status # "success"
  /\ xhr = "ok" => applied
  /\ xhr = "failed" => "failed" \in Faults
  /\ status = "success" => applied

Inv == TypeOK /\ PromiseHeld

LEMMA InvInit == Init => Inv /\ Truth
  BY OperationAssumption DEF Init, Inv, TypeOK, PromiseHeld, Truth, Statuses, Outcomes

LEMMA InvStep == Inv /\ [Next]_vars => Inv'
<1> SUFFICES ASSUME Inv, [Next]_vars PROVE Inv'
  OBVIOUS
<1> USE OperationAssumption
    DEF Inv, TypeOK, PromiseHeld, Statuses, Outcomes, flying, button, Settle
<1>1. ASSUME NEW c \in Callers, NEW v \in Values, Perform(c, v) PROVE Inv'
  BY <1>1 DEF Perform
<1>2. CASE FetchSpec
  BY <1>2 DEF FetchSpec
<1>3. CASE FetchFails
  BY <1>3 DEF FetchFails
<1>4. CASE Send
  BY <1>4 DEF Send
<1>5. CASE Missing
  BY <1>5 DEF Missing
<1>6. ASSUME NEW outcome \in {"ok", "refused", "garbage"} \cup Faults, Becomes(outcome)
      PROVE Inv'
  BY <1>6 DEF Becomes
<1>7. CASE Settled
  BY <1>7 DEF Settled
<1>8. CASE Reset \/ SetError
  BY <1>8 DEF Reset, SetError
<1>9. CASE Update \/ Release
  BY ZenonT(60), <1>9 DEF Update, Release
<1>10. CASE UNCHANGED vars
  BY <1>10 DEF vars
<1> QED
  BY <1>1, <1>2, <1>3, <1>4, <1>5, <1>6, <1>7, <1>8, <1>9, <1>10 DEF Next, Network

LEMMA Invariance == Spec => []Inv
  BY InvInit, InvStep, PTL DEF Spec

(* The variables keep their types, whoever calls perform() and whatever    *)
(* becomes of the requests.                                                *)
THEOREM TypeCorrect == Spec => []TypeOK
  BY Invariance, PTL DEF Inv

(* There is somebody to answer exactly while there is a promise, for every *)
(* number of callers: nobody joins a promise that was settled.             *)
THEOREM PromiseIsHeld == Spec => []PromiseHeld
  BY Invariance, PTL DEF Inv

-----------------------------------------------------------------------------
LEMMA TruthStep ==
  ASSUME "failed" \notin Faults
  PROVE  Inv /\ Truth /\ [Next]_vars => Truth'
<1> SUFFICES ASSUME Inv, Truth, [Next]_vars PROVE Truth'
  OBVIOUS
<1> USE OperationAssumption
    DEF Inv, TypeOK, PromiseHeld, Truth, Statuses, Outcomes, flying, button, Settle
<1>1. ASSUME NEW c \in Callers, NEW v \in Values, Perform(c, v) PROVE Truth'
  BY <1>1 DEF Perform
<1>2. CASE FetchSpec \/ FetchFails
  BY <1>2 DEF FetchSpec, FetchFails
<1>3. CASE Send \/ Missing
  BY <1>3 DEF Send, Missing
<1>4. ASSUME NEW outcome \in {"ok", "refused", "garbage"} \cup Faults, Becomes(outcome)
      PROVE Truth'
  \* A request under way has no success to take back.
  BY <1>4 DEF Becomes
<1>5. CASE Settled
  \* Only "ok" and "failed" are taken for a success, and nothing fails.
  BY <1>5 DEF Settled
<1>6. CASE Reset \/ SetError
  BY <1>6 DEF Reset, SetError
<1>7. CASE Update \/ Release
  BY <1>7 DEF Update, Release
<1>8. CASE UNCHANGED vars
  BY <1>8 DEF vars
<1> QED
  BY <1>1, <1>2, <1>3, <1>4, <1>5, <1>6, <1>7, <1>8 DEF Next, Network

(* Where no request fails on the network, a success means that the server  *)
(* did what the request asked for.                                         *)
THEOREM SuccessTrue ==
  ASSUME "failed" \notin Faults
  PROVE  Spec => []SuccessIsTrue
<1>1. Truth => SuccessIsTrue
  BY DEF Truth, SuccessIsTrue
<1>2. Inv /\ Truth /\ [Next]_vars => Truth'
  BY TruthStep
<1> QED
  BY <1>1, <1>2, InvInit, Invariance, PTL DEF Spec

-----------------------------------------------------------------------------
(* The button is released by a timer of its own, so it must be known which *)
(* requests start with one that runs: those that no form has asked for.    *)
ButtonInv ==
  /\ timer => locked
  /\ status = "loading" => promise = "sent"
  /\ waiting \subseteq Forms /\ promise = "spec" => ~locked /\ seen # "loading"
  /\ waiting \subseteq Forms /\ status = "loading" => ~timer /\ (seen = "loading" => locked)

\* Nothing is under way, and the button is free.
LEMMA ButtonInvInit == Init => ButtonInv
  BY DEF Init, ButtonInv

\* A form that is submitted finds the button free, and its timer stopped.
LEMMA ButtonInvStep == Inv /\ ButtonInv /\ [Next]_vars => ButtonInv'
<1> SUFFICES ASSUME Inv, ButtonInv, [Next]_vars PROVE ButtonInv'
  OBVIOUS
<1> USE DEF Inv, TypeOK, PromiseHeld, ButtonInv, Statuses, flying, button, Settle
<1>1. ASSUME NEW c \in Callers, NEW v \in Values, Perform(c, v) PROVE ButtonInv'
  <2>1. UNCHANGED <<status, seen, locked, timer>> /\ waiting' = waiting \cup {c}
    BY <1>1 DEF Perform
  <2>2. waiting' \subseteq Forms => waiting \subseteq Forms /\ ~locked /\ seen = status
    BY <1>1, <2>1 DEF Perform, Due
  <2>3. CASE promise = "none"
    BY <1>1, <2>1, <2>2, <2>3 DEF Perform
  <2>4. CASE promise # "none"
    BY <1>1, <2>1, <2>2, <2>4 DEF Perform
  <2> QED
    BY <2>3, <2>4
<1>2. CASE FetchSpec \/ FetchFails \/ Missing
  BY <1>2 DEF FetchSpec, FetchFails, Missing
<1>3. CASE Send
  BY <1>3 DEF Send
<1>4. CASE Network
  BY <1>4 DEF Network, Becomes
<1>5. CASE Settled
  BY <1>5 DEF Settled
<1>6. CASE Reset \/ SetError
  BY <1>6 DEF Reset, SetError
<1>7. CASE Update
  BY <1>7 DEF Update, Due
<1>8. CASE Release
  BY <1>8 DEF Release
<1>9. CASE UNCHANGED vars
  BY <1>9 DEF vars
<1> QED
  BY <1>1, <1>2, <1>3, <1>4, <1>5, <1>6, <1>7, <1>8, <1>9 DEF Next

\* Who starts to wait has called perform(), and a form does so with a free button.
LEMMA SubmitStep ==
  ASSUME Inv, ButtonInv, [Next]_vars, NEW c \in Forms, c \in waiting' \ waiting, waiting \subseteq Forms
  PROVE  ~(promise = "sent" /\ status = "loading")
<1>1. ~(\A b \in Callers, v \in Values : ~Perform(b, v))
  BY DEF Next, FetchSpec, FetchFails, Send, Missing, Network, Becomes, Settled, Settle, Reset,
       SetError, Update, Release, flying, button, vars
<1>2. PICK b \in Callers, v \in Values : Perform(b, v)
  BY <1>1
<1>3. b = c /\ ~locked /\ ~Due
  BY <1>2 DEF Perform
<1> QED
  BY <1>3 DEF ButtonInv, Due

(* No form is swallowed by the request of an earlier form, for any forms   *)
(* and pages, whatever the network does (Button.svelte 22-34).             *)
THEOREM FormIsNotSwallowed == Spec => SubmitIsSent
<1>1. Inv /\ ButtonInv /\ [Next]_vars =>
        [\A c \in Forms : c \in waiting' \ waiting /\ waiting \subseteq Forms
           => ~(promise = "sent" /\ status = "loading")]_vars
  BY SubmitStep
<1> QED
  BY <1>1, ButtonInvInit, ButtonInvStep, Invariance, PTL DEF Spec, SubmitIsSent

-----------------------------------------------------------------------------
LEMMA FlightInit == Init => Flight!Init
  BY DEF Init, Flight!Init

LEMMA FlightStep == Inv /\ [Next]_vars => [Flight!Next]_(Flight!vars)
<1> SUFFICES ASSUME Inv, [Next]_vars PROVE Flight!Next \/ UNCHANGED <<params, waiting>>
  BY DEF Flight!vars
<1> USE OperationAssumption DEF Inv, TypeOK, PromiseHeld
<1>1. ASSUME NEW c \in Callers, NEW v \in Values, Perform(c, v) PROVE Flight!Join(c)
  \* The first call names the flight, a later one finds it.
  BY <1>1 DEF Perform, Flight!Join
<1>2. ASSUME FetchFails \/ Missing \/ Settled PROVE Flight!Land
  BY <1>2 DEF FetchFails, Missing, Settled, Settle, Outcomes, Flight!Land
<1>3. ASSUME FetchSpec \/ Send \/ Network \/ Reset \/ SetError \/ Update \/ Release
      PROVE  UNCHANGED <<params, waiting>>
  BY <1>3 DEF FetchSpec, Send, Network, Becomes, Reset, SetError, Update, Release, flying
<1>4. CASE UNCHANGED vars
  BY <1>4 DEF vars
<1> QED
  BY <1>1, <1>2, <1>3, <1>4 DEF Next, Flight!Next

(* An operation is a single flight: every behaviour is one that            *)
(* SingleFlight allows.                                                    *)
THEOREM ImplementsFlight == Spec => Flight!Safety
  BY Invariance, FlightInit, FlightStep, PTL DEF Spec, Flight!Safety

-----------------------------------------------------------------------------
(* What was written stays. *)

(* A conversation nobody has cut shows what its writer has left, and it is *)
(* the draft as well, unless a key was pressed on the page since.           *)
Kept(c) ==
  /\ Shown(c) = left[c]
  /\ draft[c] = left[c] \/ (here /\ c = at[mount] /\ dirty)

UploadType == [is : {"none", "under way", "linked", "refused", "silent", "gone"}, by : 1..MaxMounts]

PageType ==
  /\ mount \in 1..MaxMounts /\ at \in [1..MaxMounts -> Convs]
  /\ DOMAIN box = 1..MaxMounts /\ DOMAIN draft = Convs /\ DOMAIN stored = Convs
     /\ DOMAIN left = Convs
  /\ dead \subseteq 1..mount /\ (here => mount \notin dead)
  /\ upload \in [Uploads -> UploadType]

TextInv == PageType /\ \A c \in Convs \ cut : Kept(c)

LEMMA TextInvInit == InputInit => TextInv
<1> SUFFICES ASSUME InputInit PROVE TextInv
  OBVIOUS
<1>1. MaxMounts \in Nat \ {0} /\ (CHOOSE c \in Convs : TRUE) \in Convs
  BY InputAssumption
<1>2. /\ here /\ mount = 1 /\ dead = {} /\ at \in [1..MaxMounts -> Convs]
         /\ box = [k \in 1..MaxMounts |-> <<>>]
      /\ draft = [c \in Convs |-> <<>>] /\ stored = draft /\ left = draft
      /\ upload = [f \in Uploads |-> [is |-> "none", by |-> 1]]
  BY <1>1 DEF InputInit
<1>3. upload \in [Uploads -> UploadType]
  BY <1>1, <1>2 DEF UploadType
<1> QED
  BY <1>1, <1>2, <1>3 DEF TextInv, PageType, Kept, Shown

LEMMA PageTypeStep ==
  ASSUME PageType, [InputNext]_inputVars
  PROVE  PageType'
<1>0. MaxMounts \in Nat \ {0}
  BY InputAssumption
<1>1. CASE Type \/ Erase \/ Keyup \/ Click \/ Focus \/ Blur
  <2>1. UNCHANGED <<page, upload>>
    BY <1>1 DEF Type, Erase, Keyup, Click, Focus, Blur
  <2>2. DOMAIN box' = DOMAIN box /\ DOMAIN draft' = DOMAIN draft /\ DOMAIN stored' = DOMAIN stored
        /\ DOMAIN left' = DOMAIN left
    BY <1>1 DEF Type, Erase, Keyup, Click, Focus, Blur, OnChange, Save, Written, saved, ghost
  <2> QED
    BY <2>1, <2>2 DEF page, PageType
<1>2. CASE FocusItem \/ SelectOption \/ TakeOption \/ SendMessage \/ Recall
  <2>1. UNCHANGED <<page, upload>>
    BY <1>2 DEF FocusItem, SelectOption, TakeOption, SendMessage, Recall
  <2>2. DOMAIN box' = DOMAIN box /\ DOMAIN draft' = DOMAIN draft /\ DOMAIN stored' = DOMAIN stored
        /\ DOMAIN left' = DOMAIN left
    BY <1>2 DEF FocusItem, SelectOption, TakeOption, SendMessage, Recall, Replace, SetValue,
       Save, Written, saved
  <2> QED
    BY <2>1, <2>2 DEF page, PageType
<1>3. CASE Switch \/ Leave \/ Store \/ Reload
  <2>1. UNCHANGED <<mount, upload>>
    BY <1>3 DEF Switch, Leave, Store, Reload, page
  <2>2. at' \in [1..MaxMounts -> Convs]
    BY <1>3 DEF Switch, Leave, Store, Reload, page, PageType
  <2>3. DOMAIN box' = DOMAIN box /\ DOMAIN draft' = Convs /\ DOMAIN stored' = Convs
        /\ DOMAIN left' = DOMAIN left
    BY <1>3 DEF Switch, Leave, Store, Reload, saved, ghost, PageType
  <2>4. dead' \subseteq 1..mount /\ (here' => mount \notin dead')
    BY <1>3 DEF Switch, Leave, Store, Reload, page, PageType
  <2> QED
    BY <2>1, <2>2, <2>3, <2>4 DEF PageType
<1>4. CASE Return \/ Refresh
  <2>0. PICK c \in Convs : Fresh(c, draft[c]) \/ Fresh(c, stored[c])
    BY <1>4 DEF Return, Refresh
  <2>1. PICK t : Fresh(c, t)
    BY <2>0
  <2>2. /\ mount' = mount + 1 /\ mount' \in 1..MaxMounts /\ at' \in [1..MaxMounts -> Convs]
        /\ DOMAIN box' = 1..MaxMounts
    BY <1>0, <2>1 DEF Fresh, PageType
  <2>3. dead' \subseteq 1..mount /\ mount' \notin 1..mount /\ 1..mount \subseteq 1..mount'
    <3>1. mount \in Nat /\ mount' = mount + 1
      BY <1>0, <2>2 DEF PageType
    <3>2. dead' = dead \/ dead' = 1..mount
      BY <1>4 DEF Return, Refresh
    <3>3. mount' \notin 1..mount /\ 1..mount \subseteq 1..mount'
      BY <3>1
    <3>4. dead \subseteq 1..mount
      BY DEF PageType
    <3> QED
      BY <3>2, <3>3, <3>4
  <2>4. DOMAIN draft' = Convs /\ DOMAIN stored' = Convs /\ DOMAIN left' = Convs
    BY <1>4 DEF Return, Refresh, saved, PageType
  <2>5. upload' \in [Uploads -> UploadType]
    <3>1. CASE Return
      BY <3>1 DEF Return, PageType
    <3>2. CASE Refresh
      <4>1. upload' = [f \in Uploads |->
               IF upload[f].is = "under way" THEN [upload[f] EXCEPT !.is = "gone"] ELSE upload[f]]
        BY <3>2 DEF Refresh
      <4>2. \A f \in Uploads : upload[f] \in UploadType /\ [upload[f] EXCEPT !.is = "gone"] \in UploadType
        BY DEF PageType, UploadType
      <4> QED
        BY <4>1, <4>2
    <3> QED
      BY <1>4, <3>1, <3>2
  <2> QED
    BY <2>2, <2>3, <2>4, <2>5 DEF PageType
<1>5. ASSUME NEW f \in Uploads, UploadFiles(f) \/ UploadEnds(f) \/ UploadFails(f) PROVE PageType'
  <2>1. UNCHANGED page
    BY <1>5 DEF UploadFiles, UploadEnds, UploadFails
  <2>2. DOMAIN box' = DOMAIN box /\ DOMAIN draft' = DOMAIN draft /\ DOMAIN stored' = DOMAIN stored
        /\ DOMAIN left' = DOMAIN left
    BY <1>5 DEF UploadFiles, UploadEnds, UploadFails, Save, saved, ghost
  <2>3. upload' \in [Uploads -> UploadType]
    <3>1. upload[f] \in UploadType /\ upload \in [Uploads -> UploadType]
      BY DEF PageType
    <3>2. \A is \in {"none", "under way", "linked", "refused", "silent", "gone"} :
            [upload[f] EXCEPT !.is = is] \in UploadType
      BY <3>1 DEF UploadType
    <3>3. [is |-> "under way", by |-> mount] \in UploadType
      BY DEF PageType, UploadType
    <3>4. \/ \E is \in {"linked", "refused", "silent"} : upload' = [upload EXCEPT ![f].is = is]
          \/ upload' = [upload EXCEPT ![f] = [is |-> "under way", by |-> mount]]
      BY <1>5 DEF UploadFiles, UploadEnds, UploadFails, Done
    <3> QED
      BY <3>1, <3>2, <3>3, <3>4
  <2> QED
    BY <2>1, <2>2, <2>3 DEF page, PageType
<1>6. CASE UNCHANGED inputVars
  BY <1>6 DEF inputVars, page, saved, ghost, PageType
<1> QED
  BY <1>1, <1>2, <1>3, <1>4, <1>5, <1>6 DEF InputNext

\* Of a page nothing happens to but in the conversation it shows.
LEMMA KeptElsewhere ==
  ASSUME PageType, NEW c \in Convs, Kept(c), UNCHANGED <<mount, at, here>>,
         here => c # at[mount],
         draft'[c] = draft[c], left'[c] = left[c]
  PROVE  Kept(c)'
BY DEF Kept, Shown

LEMMA TextStep ==
  ASSUME TextInv, [InputNext]_inputVars
  PROVE  TextInv'
<1> USE DEF PageType
<1>0. PageType /\ PageType'
  BY PageTypeStep DEF TextInv
<1> SUFFICES ASSUME NEW c \in Convs, c \notin cut' PROVE Kept(c)'
  BY <1>0 DEF TextInv
<1>k. c \notin cut => Kept(c)
  BY DEF TextInv
<1>1. CASE Type \/ Erase
  <2>1. /\ here /\ UNCHANGED <<page, saved, cut>> /\ Written(box'[mount]) /\ dirty' = TRUE
        /\ \E t : box' = [box EXCEPT ![mount] = t]
    BY <1>1 DEF Type, Erase
  <2> QED
    BY <1>0, <1>k, <2>1 DEF page, saved, Written, Kept, Shown
<1>2. CASE Keyup \/ Blur
  <2>1. CASE \E n : OnChange(Text, n)
    <3>1. PICK n : OnChange(Text, n)
      BY <2>1
    <3>2. here /\ UNCHANGED <<page, box, left>>
      BY <1>2 DEF Keyup, Blur
    <3>3. mount \notin dead /\ draft' = [draft EXCEPT ![at[mount]] = Text]
          /\ cut' = cut \ {d \in {at[mount]} : Text = left[d]}
      BY <1>0, <3>1, <3>2 DEF OnChange, Save
    <3> QED
      BY <1>0, <1>k, <3>2, <3>3 DEF page, Kept, Shown, Text
  <2>2. CASE UNCHANGED <<cursor, dirty, menu, recalled, saved, cut>>
    <3>1. UNCHANGED <<page, box, left>>
      BY <1>2 DEF Keyup, Blur
    <3> QED
      BY <1>k, <2>2, <3>1 DEF page, saved, Kept, Shown
  <2> QED
    BY <1>2, <2>1, <2>2 DEF Keyup, Blur
<1>3. CASE Click \/ Focus \/ (\E f \in Uploads : UploadFiles(f) \/ UploadFails(f)) \/ UNCHANGED inputVars
  <2>1. UNCHANGED <<page, box, draft, left, cut, dirty>>
    BY <1>3 DEF Click, Focus, UploadFiles, UploadFails, inputVars, saved, ghost, caret
  <2> QED
    BY <1>k, <2>1 DEF page, Kept, Shown
<1>4. CASE FocusItem \/ SelectOption \/ TakeOption \/ SendMessage
  <2>1. here /\ UNCHANGED page /\ \E t : SetValue(t)
    BY <1>4 DEF FocusItem, SelectOption, TakeOption, SendMessage, Replace
  <2>2. PICK t : SetValue(t)
    BY <2>1
  <2>3. /\ box' = [box EXCEPT ![mount] = t] /\ draft' = [draft EXCEPT ![at[mount]] = t]
        /\ left' = [left EXCEPT ![at[mount]] = t] /\ cut' = cut \ {at[mount]}
    BY <1>0, <2>1, <2>2 DEF SetValue, Save, Written
  <2> QED
    BY <1>0, <1>k, <2>1, <2>3 DEF page, Kept, Shown
<1>5. CASE Recall
  <2>1. here /\ UNCHANGED <<page, draft>> /\ cut' = cut \cup {at[mount]} /\ \E t : Written(t)
    BY <1>5 DEF Recall, saved
  <2>2. c # at[mount] /\ left'[c] = left[c]
    BY <1>0, <2>1 DEF Written
  <2> QED
    BY <1>0, <1>k, <2>1, <2>2, KeptElsewhere DEF page
\* Where the page goes the draft is shown, where it comes from it was saved.
<1>6. CASE Switch
  <2>1. PICK d \in Convs \ {at[mount]} :
          at' = [at EXCEPT ![mount] = d] /\ box' = [box EXCEPT ![mount] = draft[d]]
    BY <1>6 DEF Switch
  <2>2. here /\ cut' = cut \cup Unsaved /\ UNCHANGED <<here, mount, saved, left>>
    BY <1>6 DEF Switch
  <2> QED
    BY <1>0, <1>k, <2>1, <2>2 DEF saved, Unsaved, Kept, Shown
<1>7. CASE Leave
  BY <1>0, <1>k, <1>7 DEF Leave, saved, Unsaved, Kept, Shown
<1>8. CASE Return
  <2>1. PICK d \in Convs : Fresh(d, draft[d])
    BY <1>8 DEF Return
  <2>2. ~here /\ UNCHANGED <<draft, left, cut>>
    BY <1>8 DEF Return, saved
  <2>3. mount' \in 1..MaxMounts /\ at'[mount'] = d /\ box'[mount'] = draft[d]
    BY <1>0, <2>1 DEF Fresh
  <2> QED
    BY <1>0, <1>k, <2>2, <2>3 DEF Kept, Shown
<1>9. CASE Store
  BY <1>k, <1>9 DEF Store, page, caret, ghost, Kept, Shown
<1>10. CASE Reload
  <2>1. draft' = stored /\ cut' = cut \cup Unstored
        /\ UNCHANGED <<here, mount, at, box, caret, left>>
    BY <1>10 DEF Reload
  <2> QED
    BY <1>0, <1>k, <2>1 DEF Unstored, caret, Kept, Shown
<1>11. CASE Refresh
  <2>1. PICK d \in Convs : Fresh(d, stored[d])
    BY <1>11 DEF Refresh
  <2>2. draft' = stored /\ cut' = (cut \cup Unstored \cup Unsaved) /\ UNCHANGED left
    BY <1>11 DEF Refresh
  <2>3. mount' \in 1..MaxMounts /\ at'[mount'] = d /\ box'[mount'] = stored[d]
    BY <1>0, <2>1 DEF Fresh
  <2> QED
    BY <1>0, <1>k, <2>2, <2>3 DEF Unstored, Unsaved, Kept, Shown
<1>12. ASSUME NEW f \in Uploads, UploadEnds(f) PROVE Kept(c)'
  <2> DEFINE by == upload[f].by
             t == box[by] \o <<[is |-> "link", by |-> "file", of |-> at[by]]>>
  <2>1. by \in 1..MaxMounts
    BY <1>0 DEF UploadType
  <2>2. box' = [box EXCEPT ![by] = t] /\ Save(by, t) /\ UNCHANGED page
    BY <1>12 DEF UploadEnds
  <2>3. CASE here /\ by = mount
    <3>1. left' = [left EXCEPT ![at[by]] = t] /\ cut' = cut \ {at[by]} /\ dirty' = FALSE
      BY <1>12, <2>3 DEF UploadEnds
    <3>2. draft' = [draft EXCEPT ![at[by]] = t]
      BY <1>0, <2>2, <2>3 DEF Save
    <3> HIDE DEF t
    <3> QED
      BY <1>0, <1>k, <2>1, <2>2, <2>3, <3>1, <3>2 DEF page, Kept, Shown
  <2>4. CASE ~(here /\ by = mount)
    <3>1. left' = left /\ cut' = cut \cup {at[by]} /\ UNCHANGED dirty
      BY <1>12, <2>4 DEF UploadEnds
    <3>2. draft'[c] = draft[c] /\ c # at[by]
      BY <1>0, <2>1, <2>2, <3>1 DEF Save
    <3> HIDE DEF t
    <3> QED
      BY <1>0, <1>k, <2>1, <2>2, <2>4, <3>1, <3>2 DEF page, Kept, Shown
  <2> QED
    BY <2>3, <2>4
<1> QED
  BY <1>1, <1>2, <1>3, <1>4, <1>5, <1>6, <1>7, <1>8, <1>9, <1>10, <1>11, <1>12 DEF InputNext

(* Nobody loses what they were writing: not by going to other              *)
(* conversations or pages, nor with a lost connection or a restart         *)
(* (ChatInput.svelte saves the draft when a key is let go and puts it back *)
(* when the conversation changes).                                         *)
THEOREM NothingWrittenIsLost == InputSpec => []TextStays
<1>1. TextInv => TextStays
  BY DEF TextInv, TextStays, Kept
<1> QED
  BY <1>1, TextInvInit, TextStep, PTL DEF InputSpec

-----------------------------------------------------------------------------
(* What was typed in a conversation is sent nowhere else. *)

(* A word that was typed was typed in c; a word that the menu offers, that *)
(* was recalled or is the link to a file was not typed anywhere.            *)
IsWord(w)   == w = [is |-> w.is, by |-> w.by, of |-> w.of]
Mine(w, c)  == IsWord(w) /\ (w.by = "key" => w.of = c)
Keyed(t, c) == \E S : t \in Seq(S) /\ \A w \in S : Mine(w, c)
Given(t)    == \E S : t \in Seq(S) /\ \A w \in S : IsWord(w) /\ w.by # "key"

BoxesKeyed  == \A k \in 1..MaxMounts : Keyed(box[k], at[k])
DraftsKeyed == \A c \in Convs : Keyed(draft[c], c) /\ Keyed(stored[c], c)
Recallable  == \E H : history \in Seq(H) /\ \A h \in H : \E T : h \in Seq(T)

KeysInv ==
  /\ BoxesKeyed /\ DraftsKeyed
  /\ Given(options) /\ index \in Int
  /\ Recallable
  /\ cursor \in 0..Len(box[mount])
  /\ SentWhereTyped

LEMMA KeyedEmpty == (\A c : Keyed(<<>>, c)) /\ Given(<<>>)
<1>1. PICK S : S = {}
  OBVIOUS
<1>2. <<>> \in Seq(S) /\ (\A w \in S : w # w)
  BY <1>1
<1> QED
  BY <1>2 DEF Keyed, Given

LEMMA KeyedOne ==
  ASSUME NEW c, NEW w, Mine(w, c)
  PROVE  Keyed(<<w>>, c)
<1>1. PICK S : S = {w}
  OBVIOUS
<1>2. <<w>> \in Seq(S) /\ (\A v \in S : Mine(v, c))
  BY <1>1
<1> QED
  BY <1>2 DEF Keyed

LEMMA KeyedConcat ==
  ASSUME NEW c, NEW t, NEW u, Keyed(t, c), Keyed(u, c)
  PROVE  Keyed(t \o u, c) /\ Len(t \o u) = Len(t) + Len(u) /\ Len(t) \in Nat /\ Len(u) \in Nat
<1>1. PICK S : t \in Seq(S) /\ \A w \in S : Mine(w, c)
  BY DEF Keyed
<1>2. PICK T : u \in Seq(T) /\ \A w \in T : Mine(w, c)
  BY DEF Keyed
<1>3. t \in Seq(S \cup T) /\ u \in Seq(S \cup T)
  BY <1>1, <1>2
<1>4. t \o u \in Seq(S \cup T) /\ Len(t \o u) = Len(t) + Len(u) /\ Len(t) \in Nat /\ Len(u) \in Nat
  BY <1>3
<1> QED
  BY <1>1, <1>2, <1>4 DEF Keyed

LEMMA KeyedPart ==
  ASSUME NEW c, NEW t, Keyed(t, c), NEW n \in 0..Len(t)
  PROVE  /\ Keyed(SubSeq(t, 1, n), c) /\ Len(SubSeq(t, 1, n)) = n
         /\ Keyed(SubSeq(t, n + 1, Len(t)), c) /\ Len(SubSeq(t, n + 1, Len(t))) = Len(t) - n
         /\ Len(t) \in Nat
<1>1. PICK S : t \in Seq(S) /\ \A w \in S : Mine(w, c)
  BY DEF Keyed
<1>2. /\ SubSeq(t, 1, n) \in Seq(S) /\ Len(SubSeq(t, 1, n)) = n
      /\ SubSeq(t, n + 1, Len(t)) \in Seq(S) /\ Len(SubSeq(t, n + 1, Len(t))) = Len(t) - n
      /\ Len(t) \in Nat
  BY <1>1
<1> QED
  BY <1>1, <1>2 DEF Keyed

LEMMA KeyedInsert ==
  ASSUME NEW c, NEW t, Keyed(t, c), NEW w, Mine(w, c), NEW n \in 0..Len(t)
  PROVE  Keyed(InsertAt(t, n + 1, w), c) /\ Len(InsertAt(t, n + 1, w)) = Len(t) + 1
         /\ Len(t) \in Nat
<1>1. Len(t) \in Nat /\ n \in Nat /\ (n + 1) - 1 = n
  BY KeyedPart
<1> DEFINE a == SubSeq(t, 1, n)
           b == SubSeq(t, n + 1, Len(t))
<1>2. InsertAt(t, n + 1, w) = (a \o <<w>>) \o b
  BY <1>1 DEF InsertAt
<1>3. Keyed(a, c) /\ Len(a) = n /\ Keyed(b, c) /\ Len(b) = Len(t) - n
  BY KeyedPart
<1> HIDE DEF a, b
<1>4. Keyed(<<w>>, c) /\ Len(<<w>>) = 1
  BY KeyedOne
<1>5. Keyed(a \o <<w>>, c) /\ Len(a \o <<w>>) = n + 1
  BY <1>3, <1>4, KeyedConcat
<1> DEFINE d == a \o <<w>>
<1> HIDE DEF d
<1>6. Keyed(d, c) /\ Len(d) = n + 1
  BY <1>5 DEF d
<1>7. Keyed(d \o b, c) /\ Len(d \o b) = (n + 1) + (Len(t) - n)
  BY <1>3, <1>6, KeyedConcat
<1>8. (n + 1) + (Len(t) - n) = Len(t) + 1
  BY <1>1
<1>9. InsertAt(t, n + 1, w) = d \o b
  BY <1>2 DEF d
<1> QED
  BY <1>1, <1>7, <1>8, <1>9

LEMMA KeyedRemove ==
  ASSUME NEW c, NEW t, Keyed(t, c), NEW n \in 1..Len(t)
  PROVE  Keyed(RemoveAt(t, n), c) /\ Len(RemoveAt(t, n)) = Len(t) - 1 /\ Len(t) \in Nat
<1>1. PICK S : t \in Seq(S) /\ \A w \in S : Mine(w, c)
  BY DEF Keyed
<1>2. Len(t) \in Nat /\ n - 1 \in 0..Len(t) /\ n \in 0..Len(t)
  BY <1>1
<1> DEFINE a == SubSeq(t, 1, n - 1)
           b == SubSeq(t, n + 1, Len(t))
<1>3. RemoveAt(t, n) = a \o b
  BY DEF RemoveAt
<1>4. Keyed(a, c) /\ Len(a) = n - 1 /\ Keyed(b, c) /\ Len(b) = Len(t) - n
  BY <1>2, KeyedPart
<1> HIDE DEF a, b
<1>5. Keyed(a \o b, c) /\ Len(a \o b) = (n - 1) + (Len(t) - n)
  BY <1>4, KeyedConcat
<1> QED
  BY <1>2, <1>3, <1>5

LEMMA KeyedElement ==
  ASSUME NEW c, NEW t, Keyed(t, c), NEW i \in DOMAIN t
  PROVE  Mine(t[i], c)
<1>1. PICK S : t \in Seq(S) /\ \A w \in S : Mine(w, c)
  BY DEF Keyed
<1>2. t[i] \in S
  BY <1>1
<1> QED
  BY <1>1, <1>2

LEMMA OptionOf ==
  ASSUME NEW v, IsWord(v), NEW new
  PROVE  [v EXCEPT !.is = new, !.by = "menu"] = [is |-> new, by |-> "menu", of |-> v.of]
<1>1. PICK u : u = [v EXCEPT !.is = new]
  OBVIOUS
<1>2. u = [is |-> new, by |-> v.by, of |-> v.of]
  BY <1>1 DEF IsWord
<1>3. [u EXCEPT !.by = "menu"] = [is |-> u.is, by |-> "menu", of |-> u.of]
  BY <1>2
<1>4. u.is = new /\ u.of = v.of
  BY <1>2
<1>5. [v EXCEPT !.is = new, !.by = "menu"] = [[v EXCEPT !.is = new] EXCEPT !.by = "menu"]
  OBVIOUS
<1> QED
  BY <1>1, <1>3, <1>4, <1>5

\* What the menu offers for a word was not typed.
LEMMA OfferGiven ==
  ASSUME NEW c, NEW t, Keyed(t, c), NEW n
  PROVE  Given(Offer(t, n))
<1>1. CASE n \in DOMAIN t /\ t[n].is = "part"
  <2> DEFINE v == t[n]
             W(i) == [v EXCEPT !.is = <<"part", "whole">>[i], !.by = "menu"]
             s == [i \in 1..2 |-> W(i)]
  <2>1. IsWord(v)
    BY <1>1, KeyedElement DEF Mine
  <2>2. Offer(t, n) = s
    BY <1>1 DEF Offer
  <2> HIDE DEF v
  <2>3. \A i \in 1..2 : W(i) = [is |-> <<"part", "whole">>[i], by |-> "menu", of |-> v.of]
    BY <2>1, OptionOf
  <2>4. \A i \in 1..2 : IsWord(W(i)) /\ W(i).by # "key"
    <3> HIDE DEF W
    <3> QED
      BY <2>3 DEF IsWord
  <2> HIDE DEF W
  <2>5. s \in Seq({W(i) : i \in 1..2})
    OBVIOUS
  <2>6. Given(s)
    <3>1. PICK S : S = {W(i) : i \in 1..2}
      OBVIOUS
    <3>2. s \in Seq(S) /\ \A w \in S : IsWord(w) /\ w.by # "key"
      BY <2>4, <2>5, <3>1
    <3> HIDE DEF s
    <3> QED
      BY <3>2 DEF Given
  <2> QED
    BY <2>2, <2>6
<1>2. CASE ~(n \in DOMAIN t /\ t[n].is = "part")
  BY <1>2, KeyedEmpty DEF Offer
<1> QED
  BY <1>1, <1>2

LEMMA GivenElement ==
  ASSUME NEW t, Given(t), NEW i \in DOMAIN t
  PROVE  \A c : Mine(t[i], c)
<1>1. PICK S : t \in Seq(S) /\ \A w \in S : IsWord(w) /\ w.by # "key"
  BY DEF Given
<1>2. t[i] \in S
  BY <1>1
<1> QED
  BY <1>1, <1>2 DEF Mine

LEMMA NonEmptySequence ==
  ASSUME NEW S, NEW long \in Seq(S)
  PROVE  \E T : NonEmpty(long) \in Seq(T)
<1> DEFINE kept == {i \in DOMAIN long : long[i] # ""}
           Nth(k) == CHOOSE i \in kept : Cardinality({j \in kept : j <= i}) = k
           s == [k \in 1..Cardinality(kept) |-> long[Nth(k)]]
<1>1. NonEmpty(long) = s
  BY DEF NonEmpty
<1>2. IsFiniteSet(kept)
  <2>1. DOMAIN long = 1..Len(long) /\ Len(long) \in Nat
    OBVIOUS
  <2>2. IsFiniteSet(1..Len(long))
    BY <2>1, FS_Interval, 1 \in Int
  <2> QED
    BY <2>1, <2>2, FS_Subset
<1>3. Cardinality(kept) \in Nat
  BY <1>2, FS_CardinalityType
<1> HIDE DEF kept, Nth
<1>4. PICK T : T = {long[Nth(k)] : k \in 1..Cardinality(kept)}
  OBVIOUS
<1>5. s \in Seq(T)
  BY <1>3, <1>4
<1> QED
  BY <1>1, <1>5

\* A command is made of a text of which every word is what it is.
LEMMA NormalSequence ==
  ASSUME NEW S, NEW p \in Seq(S), p # <<>>
  PROVE  \E T : NormalizeCommand(p) \in Seq(T)
<1> DEFINE R == Rewrite
           head == Head(p)
           rest == Tail(p)
           long == R[head] \o rest
<1>1. rest \in Seq(S)
  OBVIOUS
<1>2. NormalizeCommand(p) =
        CASE head = "shrug" -> <<"say">> \o Append(rest, "shrug")
          [] head \in DOMAIN R -> NonEmpty(long)
          [] OTHER -> p
  BY DEF NormalizeCommand
<1>0. "shrug" \notin DOMAIN R
  BY DEF Rewrite
<1> HIDE DEF head, rest
<1>3. CASE head = "shrug"
  <2>1. PICK U : U = S \cup {"say", "shrug"}
    OBVIOUS
  <2>2. <<"say">> \o Append(rest, "shrug") \in Seq(U)
    BY <1>1, <2>1
  <2>3. NormalizeCommand(p) = <<"say">> \o Append(rest, "shrug")
    BY <1>0, <1>2, <1>3
  <2> QED
    BY <2>2, <2>3
<1>4. CASE head # "shrug" /\ head \in DOMAIN R
  <2>1. PICK U : R[head] \in Seq(U)
    <3>1. head \in {"close", "cs", "ns", "ms", "hs", "bs", "os", "j", "raw"}
      BY <1>4 DEF Rewrite
    <3>2. /\ head = "close" => R[head] = <<"part">>
          /\ head = "cs" => R[head] = <<"quote", "chanserv">>
          /\ head = "ns" => R[head] = <<"quote", "nickserv">>
          /\ head = "ms" => R[head] = <<"quote", "memoserv">>
          /\ head = "hs" => R[head] = <<"quote", "hotserv">>
          /\ head = "bs" => R[head] = <<"quote", "botserv">>
          /\ head = "os" => R[head] = <<"quote", "operserv">>
          /\ head = "j" => R[head] = <<"join">>
          /\ head = "raw" => R[head] = <<"quote">>
      BY DEF Rewrite
    <3> DEFINE U == {"part", "join", "quote", "chanserv", "nickserv", "memoserv",
                     "hotserv", "botserv", "operserv"}
    <3>3. R[head] \in Seq(U)
      <4> HIDE DEF R
      <4>1. <<"part">> \in Seq(U) /\ <<"join">> \in Seq(U) /\ <<"quote">> \in Seq(U)
        OBVIOUS
      <4>2. \A service \in U : <<"quote", service>> \in Seq(U)
        OBVIOUS
      <4>3. {"chanserv", "nickserv", "memoserv", "hotserv", "botserv", "operserv"} \subseteq U
        OBVIOUS
      <4> HIDE DEF U
      <4> QED
        BY <3>1, <3>2, <4>1, <4>2, <4>3
    <3> HIDE DEF U
    <3> QED
      BY <3>3
  <2> HIDE DEF R
  <2>2. long \in Seq(S \cup U)
    BY <1>1, <2>1
  <2> HIDE DEF long
  <2>3. \E T : NonEmpty(long) \in Seq(T)
    BY <2>2, NonEmptySequence
  <2> QED
    BY <1>2, <1>4, <2>3
<1>5. CASE head # "shrug" /\ head \notin DOMAIN R
  BY <1>2, <1>5
<1> QED
  BY <1>3, <1>4, <1>5

-----------------------------------------------------------------------------
(* Steps. *)

LEMMA KeysInit == InputInit => PageType /\ KeysInv
<1> SUFFICES ASSUME InputInit PROVE PageType /\ KeysInv
  OBVIOUS
<1>1. PageType
  BY TextInvInit DEF TextInv
<1>2. /\ box = [k \in 1..MaxMounts |-> <<>>] /\ draft = [c \in Convs |-> <<>>] /\ stored = draft
      /\ options = <<>> /\ index = 1 /\ history = <<>> /\ cursor = 0 /\ sent.of = {}
  BY DEF InputInit
<1>3. BoxesKeyed /\ DraftsKeyed /\ Given(options)
  BY <1>2, KeyedEmpty DEF BoxesKeyed, DraftsKeyed
<1>4. Recallable
  <2>1. PICK H : H = {}
    OBVIOUS
  <2>2. history \in Seq(H) /\ \A h \in H : \E T : h \in Seq(T)
    BY <1>2, <2>1
  <2> QED
    BY <2>2 DEF Recallable
<1>5. cursor \in 0..Len(box[mount])
  <2>1. box[mount] = <<>>
    BY <1>1, <1>2 DEF PageType
  <2> QED
    BY <1>2, <2>1
<1> QED
  BY <1>1, <1>2, <1>3, <1>4, <1>5 DEF KeysInv, SentWhereTyped

\* A text that is put where it was typed.
LEMMA BoxKept ==
  ASSUME PageType, BoxesKeyed, NEW k \in 1..MaxMounts, NEW t, Keyed(t, at[k]),
         box' = [box EXCEPT ![k] = t], at' = at
  PROVE  BoxesKeyed' /\ box'[k] = t
BY DEF PageType, BoxesKeyed

LEMMA SaveKept ==
  ASSUME PageType, DraftsKeyed, NEW k \in 1..MaxMounts, NEW t, Keyed(t, at[k]), Save(k, t)
  PROVE  DraftsKeyed'
BY DEF PageType, DraftsKeyed, Save

LEMMA ChangeKept ==
  ASSUME PageType, KeysInv, NEW n, OnChange(Text, n)
  PROVE  DraftsKeyed' /\ Given(options') /\ index' \in Int /\ cursor' = n
<1>1. mount \in 1..MaxMounts /\ Keyed(Text, at[mount])
  BY DEF PageType, KeysInv, BoxesKeyed, Text
<1>2. DraftsKeyed'
  <2>1. Save(mount, Text)
    BY DEF OnChange
  <2> QED
    BY <1>1, <2>1, SaveKept DEF KeysInv
<1>3. Given(options')
  <2>1. Given(Offer(Text, n))
    BY <1>1, OfferGiven
  <2> QED
    BY <2>1 DEF OnChange, Split, KeysInv
<1> QED
  BY <1>2, <1>3 DEF OnChange

\* One word gives way to another that was typed here or nowhere.
LEMMA ReplaceKept ==
  ASSUME PageType, KeysInv, NEW word, Mine(word, at[mount]), Replace(word), at' = at, mount' = mount
  PROVE  BoxesKeyed' /\ DraftsKeyed' /\ cursor' \in 0..Len(box'[mount])
<1> DEFINE m == IF cursor = 0 THEN 0 ELSE cursor - 1
           a == SubSeq(Text, 1, m)
           b == SubSeq(Text, cursor + 1, Len(Text))
<1>1. mount \in 1..MaxMounts /\ Keyed(Text, at[mount]) /\ cursor \in 0..Len(Text)
  BY DEF PageType, KeysInv, BoxesKeyed, Text
<1>2. Len(Text) \in Nat /\ Keyed(b, at[mount]) /\ Len(b) = Len(Text) - cursor
  BY <1>1, KeyedPart
<1>3. m \in 0..Len(Text)
  BY <1>1, <1>2
<1>4. Keyed(a, at[mount]) /\ Len(a) = m
  <2> HIDE DEF m
  <2> QED
    BY <1>1, <1>3, KeyedPart
<1>5. SetValue((a \o <<word>>) \o b) /\ cursor' = Len(a \o <<word>>)
  BY DEF Replace, Replaced
<1> HIDE DEF a, b
<1>6. Keyed(<<word>>, at[mount])
  BY KeyedOne
<1>7. PICK d : d = a \o <<word>>
  OBVIOUS
<1>8. Keyed(d, at[mount]) /\ Len(d) \in Nat
  <2>1. Keyed(a \o <<word>>, at[mount])
    BY <1>4, <1>6, KeyedConcat
  <2>2. Keyed(d, at[mount])
    BY <1>7, <2>1
  <2> QED
    BY <2>2, KeyedConcat
<1>9. PICK t : t = d \o b
  OBVIOUS
<1>10. Keyed(t, at[mount]) /\ Len(t) = Len(d) + Len(b) /\ Len(b) \in Nat
  BY <1>2, <1>8, <1>9, KeyedConcat
<1>11. box' = [box EXCEPT ![mount] = t] /\ Save(mount, t) /\ cursor' = Len(d)
  BY <1>5, <1>7, <1>9 DEF SetValue
<1>12. BoxesKeyed' /\ box'[mount] = t
  BY <1>1, <1>10, <1>11, BoxKept DEF KeysInv
<1>13. DraftsKeyed'
  BY <1>1, <1>10, <1>11, SaveKept DEF KeysInv
<1> QED
  BY <1>8, <1>10, <1>11, <1>12, <1>13

LEMMA WritingKeys ==
  ASSUME PageType, KeysInv, Type \/ Erase \/ Keyup \/ Click \/ Focus \/ Blur
  PROVE  KeysInv'
<1>0. /\ mount \in 1..MaxMounts /\ Keyed(Text, at[mount]) /\ cursor \in 0..Len(Text)
         /\ Len(Text) \in Nat
      /\ mount' = mount /\ at' = at /\ history' = history /\ sent' = sent
  <2>1. mount \in 1..MaxMounts /\ Keyed(Text, at[mount]) /\ cursor \in 0..Len(Text)
    BY DEF PageType, KeysInv, BoxesKeyed, Text
  <2>2. UNCHANGED <<mount, at, history, sent>>
    BY DEF Type, Erase, Keyup, Click, Focus, Blur, page, past
  <2> QED
    BY <2>1, <2>2, KeyedPart
<1>1. CASE Type
  <2>1. PICK is \in Words : box' = [box EXCEPT ![mount] = InsertAt(Text, cursor + 1, Word(is, "key"))]
    BY <1>1 DEF Type
  <2>2. Mine(Word(is, "key"), at[mount])
    BY DEF Word, Mine, IsWord
  <2>3. PICK t : t = InsertAt(Text, cursor + 1, Word(is, "key"))
    OBVIOUS
  <2>4. Keyed(t, at[mount]) /\ Len(t) = Len(Text) + 1
    BY <1>0, <2>2, <2>3, KeyedInsert
  <2>5. BoxesKeyed' /\ box'[mount] = t
    BY <1>0, <2>1, <2>3, <2>4, BoxKept DEF KeysInv
  <2>6. cursor' = cursor + 1 /\ UNCHANGED <<draft, stored, options, index>>
    BY <1>1 DEF Type, menu, saved
  <2>7. cursor' \in 0..Len(box'[mount'])
    BY <1>0, <2>4, <2>5, <2>6
  <2> QED
    BY <1>0, <2>5, <2>6, <2>7 DEF KeysInv, DraftsKeyed, Recallable, SentWhereTyped
<1>2. CASE Erase
  <2>1. cursor \in 1..Len(Text)
    BY <1>0, <1>2 DEF Erase
  <2>2. PICK t : t = RemoveAt(Text, cursor)
    OBVIOUS
  <2>3. Keyed(t, at[mount]) /\ Len(t) = Len(Text) - 1
    BY <1>0, <2>1, <2>2, KeyedRemove
  <2>4. box' = [box EXCEPT ![mount] = t] /\ cursor' = cursor - 1
        /\ UNCHANGED <<draft, stored, options, index>>
    BY <1>2, <2>2 DEF Erase, menu, saved
  <2>5. BoxesKeyed' /\ box'[mount] = t
    BY <1>0, <2>3, <2>4, BoxKept DEF KeysInv
  <2>6. cursor' \in 0..Len(box'[mount'])
    BY <1>0, <2>1, <2>3, <2>4, <2>5
  <2> QED
    BY <1>0, <2>4, <2>5, <2>6 DEF KeysInv, DraftsKeyed, Recallable, SentWhereTyped
<1>3. CASE Keyup
  <2>1. PICK n \in 0..Len(Text) : OnChange(Text, n)
    BY <1>3 DEF Keyup
  <2>2. DraftsKeyed' /\ Given(options') /\ index' \in Int /\ cursor' = n
    BY <2>1, ChangeKept
  <2>3. box' = box
    BY <1>3 DEF Keyup
  <2>4. cursor' \in 0..Len(box'[mount'])
    BY <1>0, <2>2, <2>3 DEF Text
  <2> QED
    BY <1>0, <2>2, <2>3, <2>4 DEF KeysInv, BoxesKeyed, Recallable, SentWhereTyped
<1>4. CASE Click
  <2>1. cursor' \in 0..Len(Text) /\ UNCHANGED <<box, draft, stored, options, index>>
    BY <1>4 DEF Click, menu, saved
  <2> QED
    BY <1>0, <2>1 DEF Text, KeysInv, BoxesKeyed, DraftsKeyed, Recallable, SentWhereTyped
<1>5. CASE Focus
  <2>1. UNCHANGED <<box, cursor, draft, stored, index>> /\ (options' = options \/ options' = <<>>)
    BY <1>5 DEF Focus, Split, saved
  <2>2. Given(options')
    BY <2>1, KeyedEmpty DEF KeysInv
  <2> QED
    BY <1>0, <2>1, <2>2 DEF Text, KeysInv, BoxesKeyed, DraftsKeyed, Recallable, SentWhereTyped
<1>6. CASE Blur
  <2>1. box' = box
    BY <1>6 DEF Blur
  <2>2. CASE dirty
    <3>1. OnChange(Text, cursor)
      BY <1>6, <2>2 DEF Blur
    <3>2. DraftsKeyed' /\ Given(options') /\ index' \in Int /\ cursor' = cursor
      BY <3>1, ChangeKept
    <3> QED
      BY <1>0, <2>1, <3>2 DEF Text, KeysInv, BoxesKeyed, Recallable, SentWhereTyped
  <2>3. CASE ~dirty
    <3>1. UNCHANGED <<cursor, options, index, draft, stored>>
      BY <1>6, <2>3 DEF Blur, menu, saved
    <3> QED
      BY <1>0, <2>1, <3>1 DEF Text, KeysInv, BoxesKeyed, DraftsKeyed, Recallable, SentWhereTyped
  <2> QED
    BY <2>2, <2>3
<1> QED
  BY <1>1, <1>2, <1>3, <1>4, <1>5, <1>6

LEMMA CompletionKeys ==
  ASSUME PageType, KeysInv, FocusItem \/ SelectOption \/ TakeOption
  PROVE  KeysInv'
<1>1. /\ UNCHANGED <<mount, at, history, sent>>
      /\ \E i \in DOMAIN options : Replace(options[i])
      /\ index' \in Int /\ (options' = options \/ options' = <<>>)
  <2>1. CASE FocusItem
    <3>1. PICK by \in {-4, -1, 1, 4} : index' = Moved(by) /\ options # <<>> /\ Replace(options[index'])
                                       /\ UNCHANGED <<mount, at, history, sent, options>>
      BY <2>1 DEF FocusItem, page, past
    <3>2. PICK S : options \in Seq(S)
      BY DEF KeysInv, Given
    <3>3. index + by \in Int /\ Len(options) \in Nat \ {0} /\ DOMAIN options = 1..Len(options)
      BY <3>1, <3>2 DEF KeysInv
    <3>4. index' \in 1..Len(options)
      BY <3>1, <3>3 DEF Moved
    <3> QED
      BY <3>1, <3>3, <3>4
  <2>2. CASE SelectOption
    BY <2>2 DEF SelectOption, Split, page, past
  <2>3. CASE TakeOption
    <3>1. /\ UNCHANGED <<mount, at, history, sent, index>> /\ index \in DOMAIN options
          /\ Replace(options[index]) /\ (options' = options \/ options' = <<>>)
      BY <2>3 DEF TakeOption, Split, page, past
    <3> QED
      BY <3>1 DEF KeysInv
  <2> QED
    BY <2>1, <2>2, <2>3
<1>2. PICK i \in DOMAIN options : Replace(options[i])
  BY <1>1
<1>3. Mine(options[i], at[mount])
  BY GivenElement DEF KeysInv
<1>4. BoxesKeyed' /\ DraftsKeyed' /\ cursor' \in 0..Len(box'[mount])
  BY <1>1, <1>2, <1>3, ReplaceKept
<1>5. Given(options')
  BY <1>1, KeyedEmpty DEF KeysInv
<1> QED
  BY <1>1, <1>4, <1>5 DEF KeysInv, Recallable, SentWhereTyped

\* What was typed elsewhere is not among the words of this text.
LEMMA SendKeys ==
  ASSUME PageType, KeysInv, SendMessage
  PROVE  KeysInv'
<1> DEFINE msg == IF Text = <<>> THEN <<>> ELSE NormalizeCommand(Plain(Text))
<1>0. mount \in 1..MaxMounts /\ Keyed(Text, at[mount]) /\ UNCHANGED <<mount, at, options, index>>
  BY DEF PageType, KeysInv, BoxesKeyed, Text, SendMessage, page, menu
<1>1. SetValue(<<>>) /\ cursor' = 0
  BY DEF SendMessage
<1>2. BoxesKeyed' /\ DraftsKeyed' /\ cursor' \in 0..Len(box'[mount])
  <2>1. PICK t : t = <<>>
    OBVIOUS
  <2>2. Keyed(t, at[mount]) /\ box' = [box EXCEPT ![mount] = t] /\ Save(mount, t)
    BY <1>1, <2>1, KeyedEmpty DEF SetValue
  <2>3. BoxesKeyed' /\ box'[mount] = t
    BY <1>0, <2>2, BoxKept DEF KeysInv
  <2>4. DraftsKeyed'
    BY <1>0, <2>2, SaveKept DEF KeysInv
  <2> QED
    BY <1>1, <2>1, <2>3, <2>4
<1>3. IF msg = <<>> THEN UNCHANGED <<sent, past>>
      ELSE
      /\ sent' = [to |-> at[mount], of |-> {Text[i].of : i \in {j \in DOMAIN Text : Text[j].by = "key"}}]
           /\ history' = SubSeq(<<msg>> \o history, 1, Min({Len(history) + 1, MaxHistory}))
  BY DEF SendMessage
<1>4. CASE msg = <<>>
  BY <1>0, <1>2, <1>3, <1>4 DEF past, KeysInv, Recallable, SentWhereTyped
<1>5. CASE msg # <<>>
  <2>1. SentWhereTyped'
    <3>1. \A j \in DOMAIN Text : Text[j].by = "key" => Text[j].of = at[mount]
      BY <1>0, KeyedElement DEF Mine
    <3>2. sent'.to = at[mount]
          /\ sent'.of = {Text[i].of : i \in {j \in DOMAIN Text : Text[j].by = "key"}}
      BY <1>3, <1>5
    <3> QED
      BY <3>1, <3>2 DEF SentWhereTyped
  <2>2. \E T : msg \in Seq(T)
    <3>1. Text # <<>> /\ msg = NormalizeCommand(Plain(Text))
      BY <1>5
    <3>2. PICK S : Text \in Seq(S)
      BY <1>0 DEF Keyed
    <3>3. PICK U : U = {Text[i].is : i \in DOMAIN Text}
      OBVIOUS
    <3>4. Plain(Text) \in Seq(U) /\ Plain(Text) # <<>>
      <4> HIDE DEF Text
      <4>1. DOMAIN Text = 1..Len(Text) /\ Len(Text) \in Nat \ {0}
        BY <3>1, <3>2
      <4>2. Plain(Text) = [i \in 1..Len(Text) |-> Text[i].is]
        BY <4>1 DEF Plain
      <4>3. Plain(Text) \in Seq(U) /\ Len(Plain(Text)) # 0
        BY <3>3, <4>1, <4>2
      <4> QED
        BY <4>3
    <3> HIDE DEF msg
    <3> QED
      BY <3>1, <3>4, NormalSequence
  <2>3. Recallable'
    <3>1. PICK H : history \in Seq(H) /\ \A h \in H : \E T : h \in Seq(T)
      BY DEF KeysInv, Recallable
    <3> HIDE DEF msg
    <3>2. PICK I : I = H \cup {msg}
      OBVIOUS
    <3>3. (<<msg>> \o history) \in Seq(I) /\ Len(<<msg>> \o history) = Len(history) + 1
          /\ Len(history) \in Nat
      BY <3>1, <3>2
    <3>4. PICK n : n = Min({Len(history) + 1, MaxHistory})
      OBVIOUS
    <3>5. n \in 0..Len(history) + 1
      <4>1. MaxHistory \in Nat
        BY InputAssumption
      <4>2. n \in {Len(history) + 1, MaxHistory} /\ \A y \in {Len(history) + 1, MaxHistory} : n <= y
        <5>1. \E x \in {Len(history) + 1, MaxHistory} : \A y \in {Len(history) + 1, MaxHistory} : x <= y
          <6>1. Len(history) + 1 <= MaxHistory \/ MaxHistory <= Len(history) + 1
            BY <3>3, <4>1
          <6> QED
            BY <3>3, <4>1, <6>1
        <5> QED
          BY <3>4, <5>1 DEF Min
      <4> QED
        BY <3>3, <4>1, <4>2
    <3>6. SubSeq(<<msg>> \o history, 1, n) \in Seq(I)
      <4>1. PICK e : e = <<msg>> \o history
        OBVIOUS
      <4>2. SubSeq(e, 1, n) \in Seq(I)
        BY <3>3, <3>5, <4>1
      <4> QED
        BY <4>1, <4>2
    <3>7. history' \in Seq(I)
      BY <1>3, <1>5, <3>4, <3>6
    <3>8. \A h \in I : \E T : h \in Seq(T)
      BY <2>2, <3>1, <3>2
    <3> QED
      BY <3>7, <3>8 DEF Recallable
  <2> QED
    BY <1>0, <1>2, <2>1, <2>3 DEF KeysInv
<1> QED
  BY <1>4, <1>5

LEMMA RecallKeys ==
  ASSUME PageType, KeysInv, Recall
  PROVE  KeysInv'
<1>0. mount \in 1..MaxMounts
      /\ UNCHANGED <<mount, at, options, index, history, draft, stored, sent>>
  BY DEF PageType, Recall, page, menu, saved
<1> DEFINE old == [i \in DOMAIN history[recalled'] |-> Word(history[recalled'][i], "past")]
<1>1. PICK n : n \in 0..Len(history) /\ recalled' = n
  BY DEF Recall
<1>2. PICK t : t = IF recalled' = 0 THEN <<>> ELSE old
  OBVIOUS
<1>3. box' = [box EXCEPT ![mount] = t] /\ cursor' = Len(t)
  BY <1>2 DEF Recall
<1>4. Keyed(t, at[mount])
  <2>1. CASE n = 0
    BY <1>1, <1>2, <2>1, KeyedEmpty
  <2>2. CASE n # 0
    <3>1. PICK H : history \in Seq(H) /\ \A h \in H : \E T : h \in Seq(T)
      BY DEF KeysInv, Recallable
    <3>2. PICK h : h = history[n]
      OBVIOUS
    <3>3. h \in H
      BY <1>1, <2>2, <3>1, <3>2
    <3>4. PICK T : h \in Seq(T)
      BY <3>1, <3>3
    <3>5. t = [i \in DOMAIN h |-> Word(h[i], "past")]
      BY <1>1, <1>2, <2>2, <3>2
    <3>6. PICK S : S = {Word(h[i], "past") : i \in DOMAIN h}
      OBVIOUS
    <3>7. t \in Seq(S)
      <4>1. DOMAIN h = 1..Len(h) /\ Len(h) \in Nat
        BY <3>4
      <4> QED
        BY <3>5, <3>6, <4>1
    <3>8. \A w \in S : Mine(w, at[mount])
      BY <3>6 DEF Word, Mine, IsWord
    <3> QED
      BY <3>7, <3>8 DEF Keyed
  <2> QED
    BY <2>1, <2>2
<1>5. BoxesKeyed' /\ box'[mount] = t
  BY <1>0, <1>3, <1>4, BoxKept DEF KeysInv
<1>6. cursor' \in 0..Len(box'[mount'])
  BY <1>0, <1>3, <1>4, <1>5, KeyedPart, KeyedConcat
<1> QED
  BY <1>0, <1>5, <1>6 DEF KeysInv, DraftsKeyed, Recallable, SentWhereTyped

\* Length of a text somebody typed.
LEMMA KeyedLength ==
  ASSUME NEW c, NEW t, Keyed(t, c)
  PROVE  Len(t) \in Nat
BY DEF Keyed

LEMMA GoingKeys ==
  ASSUME PageType, KeysInv, Switch \/ Leave \/ Return \/ Store \/ Reload \/ Refresh
  PROVE  KeysInv'
<1>0. MaxMounts \in Nat \ {0} /\ mount \in 1..MaxMounts
  BY InputAssumption DEF PageType
<1>1. CASE Switch
  <2>1. PICK c \in Convs \ {at[mount]} :
          at' = [at EXCEPT ![mount] = c] /\ box' = [box EXCEPT ![mount] = draft[c]]
          /\ cursor' = Len(draft[c])
    BY <1>1 DEF Switch
  <2>2. UNCHANGED <<mount, options, index, history, draft, stored, sent>>
    BY <1>1 DEF Switch, menu, saved
  <2>3. Keyed(draft[c], c)
    BY <2>1 DEF KeysInv, DraftsKeyed
  <2>4. BoxesKeyed' /\ box'[mount] = draft[c]
    BY <1>0, <2>1, <2>3 DEF PageType, KeysInv, BoxesKeyed
  <2>5. cursor' \in 0..Len(box'[mount'])
    BY <2>1, <2>2, <2>3, <2>4, KeyedLength
  <2> QED
    BY <2>2, <2>4, <2>5 DEF KeysInv, DraftsKeyed, Recallable, SentWhereTyped
<1>2. CASE Leave
  <2>1. UNCHANGED <<mount, at, box, cursor, options, index, history, draft, stored, sent>>
    BY <1>2 DEF Leave, menu, past, saved
  <2> QED
    BY <2>1 DEF KeysInv, BoxesKeyed, DraftsKeyed, Recallable, SentWhereTyped
<1>3. CASE Return \/ Refresh
  <2>0. PICK c \in Convs : Fresh(c, draft[c]) \/ Fresh(c, stored[c])
    BY <1>3 DEF Return, Refresh
  <2>1. PICK t : Fresh(c, t) /\ (t = draft[c] \/ t = stored[c])
    BY <2>0
  <2>2. Keyed(t, c)
    BY <2>1 DEF KeysInv, DraftsKeyed
  <2>3. /\ mount' \in 1..MaxMounts /\ at' = [at EXCEPT ![mount'] = c]
           /\ box' = [box EXCEPT ![mount'] = t]
        /\ cursor' = Len(t) /\ options' = <<>> /\ index' = 1
    BY <1>0, <2>1 DEF Fresh
  <2>4. BoxesKeyed' /\ box'[mount'] = t
    BY <2>2, <2>3 DEF PageType, KeysInv, BoxesKeyed
  <2>5. cursor' \in 0..Len(box'[mount'])
    BY <2>2, <2>3, <2>4, KeyedLength
  <2>6. DraftsKeyed' /\ UNCHANGED <<history, sent>>
    BY <1>3 DEF Return, Refresh, saved, KeysInv, DraftsKeyed
  <2>7. Given(options')
    BY <2>3, KeyedEmpty
  <2> QED
    BY <2>3, <2>4, <2>5, <2>6, <2>7 DEF KeysInv, Recallable, SentWhereTyped
<1>4. CASE Store
  <2>1. UNCHANGED <<mount, at, box, cursor, options, index, history, draft, sent>>
    BY <1>4 DEF Store, page, caret, menu, past
  <2>2. PICK c \in Unstored : stored' = [stored EXCEPT ![c] = draft[c]]
    BY <1>4 DEF Store
  <2>3. DraftsKeyed'
    BY <2>1, <2>2 DEF PageType, KeysInv, DraftsKeyed
  <2> QED
    BY <2>1, <2>3 DEF KeysInv, BoxesKeyed, Recallable, SentWhereTyped
<1>5. CASE Reload
  <2>1. UNCHANGED <<mount, at, box, cursor, options, index, history, sent>> /\ draft' = stored
        /\ stored' = draft
    BY <1>5 DEF Reload, caret, menu
  <2> QED
    BY <2>1 DEF KeysInv, BoxesKeyed, DraftsKeyed, Recallable, SentWhereTyped
<1> QED
  BY <1>1, <1>2, <1>3, <1>4, <1>5

\* The link to a file is not typed, and goes to a text with its words.
LEMMA FileKeys ==
  ASSUME PageType, KeysInv, NEW f \in Uploads, UploadFiles(f) \/ UploadEnds(f) \/ UploadFails(f)
  PROVE  KeysInv'
<1>0. UNCHANGED <<mount, at, options, index, history, sent>>
  BY DEF UploadFiles, UploadEnds, UploadFails, page, menu, past
<1>1. CASE UploadFiles(f) \/ UploadFails(f)
  <2>1. UNCHANGED <<box, cursor, draft, stored>>
    BY <1>1 DEF UploadFiles, UploadFails, caret, saved
  <2> QED
    BY <1>0, <2>1 DEF KeysInv, BoxesKeyed, DraftsKeyed, Recallable, SentWhereTyped
<1>2. CASE UploadEnds(f)
  <2>1. PICK by : by = upload[f].by
    OBVIOUS
  <2>2. by \in 1..MaxMounts /\ mount \in 1..MaxMounts
    BY <2>1 DEF PageType, UploadType
  <2>3. PICK link : link = [is |-> "link", by |-> "file", of |-> at[by]]
    OBVIOUS
  <2>4. PICK t : t = box[by] \o <<link>>
    OBVIOUS
  <2>5. /\ box' = [box EXCEPT ![by] = t] /\ Save(by, t)
        /\ IF here /\ by = mount THEN cursor' = Len(t) ELSE UNCHANGED cursor
    BY <1>2, <2>1, <2>3, <2>4 DEF UploadEnds
  <2>6. Keyed(t, at[by]) /\ Len(t) = Len(box[by]) + 1 /\ Len(box[by]) \in Nat
    <3>1. Keyed(<<link>>, at[by])
      <4>1. Mine(link, at[by])
        BY <2>3 DEF Mine, IsWord
      <4> QED
        BY <4>1, KeyedOne
    <3>2. Keyed(box[by], at[by])
      BY <2>2 DEF KeysInv, BoxesKeyed
    <3>3. Keyed(box[by] \o <<link>>, at[by])
          /\ Len(box[by] \o <<link>>) = Len(box[by]) + Len(<<link>>)
          /\ Len(box[by]) \in Nat
      BY <3>1, <3>2, KeyedConcat
    <3>4. Len(<<link>>) = 1
      OBVIOUS
    <3> QED
      BY <2>4, <3>3, <3>4
  <2>7. BoxesKeyed' /\ box'[by] = t /\ (by # mount => box'[mount] = box[mount])
    BY <1>0, <2>2, <2>5, <2>6, BoxKept DEF KeysInv, PageType
  <2>8. DraftsKeyed'
    BY <2>2, <2>5, <2>6, SaveKept DEF KeysInv
  <2>9. cursor' \in 0..Len(box'[mount'])
    BY <1>0, <2>5, <2>6, <2>7 DEF KeysInv
  <2> QED
    BY <1>0, <2>7, <2>8, <2>9 DEF KeysInv, Recallable, SentWhereTyped
<1> QED
  BY <1>1, <1>2

LEMMA KeysStep ==
  ASSUME PageType, KeysInv, [InputNext]_inputVars
  PROVE  KeysInv'
<1>1. CASE Type \/ Erase \/ Keyup \/ Click \/ Focus \/ Blur
  BY <1>1, WritingKeys
<1>2. CASE FocusItem \/ SelectOption \/ TakeOption
  BY <1>2, CompletionKeys
<1>3. CASE SendMessage
  BY <1>3, SendKeys
<1>4. CASE Recall
  BY <1>4, RecallKeys
<1>5. CASE Switch \/ Leave \/ Return \/ Store \/ Reload \/ Refresh
  BY <1>5, GoingKeys
<1>6. ASSUME NEW f \in Uploads, UploadFiles(f) \/ UploadEnds(f) \/ UploadFails(f) PROVE KeysInv'
  BY <1>6, FileKeys
<1>7. CASE UNCHANGED inputVars
  <2>1. UNCHANGED <<mount, at, box, cursor, options, index, history, draft, stored, sent>>
    BY <1>7 DEF inputVars, page, caret, menu, past, saved
  <2> QED
    BY <2>1 DEF KeysInv, BoxesKeyed, DraftsKeyed, Recallable, SentWhereTyped
<1> QED
  BY <1>1, <1>2, <1>3, <1>4, <1>5, <1>6, <1>7 DEF InputNext

(* What is typed in one conversation is never sent to another, however the *)
(* texts go to and fro between the textarea, the drafts and the            *)
(* localStorage (ChatInput.svelte, Conversation.userInput).                *)
THEOREM SentOnlyWhereTyped == InputSpec => []SentWhereTyped
<1>1. PageType /\ KeysInv /\ [InputNext]_inputVars => PageType' /\ KeysInv'
  BY PageTypeStep, KeysStep
<1>2. KeysInv => SentWhereTyped
  BY DEF KeysInv
<1> QED
  BY <1>1, <1>2, KeysInit, PTL DEF InputSpec
=============================================================================
