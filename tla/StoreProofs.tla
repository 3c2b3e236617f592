----------------------------- MODULE StoreProofs -----------------------------
(***************************************************************************)
(* Theorems about what is kept and what is shown of it.  About Store: its  *)
(* types, that the files are complete whenever the server crashes, and     *)
(* that no change is lost, for any number of goroutines.  About History:   *)
(* that nobody who reads the log is moved by what arrives, and that the    *)
(* list of messages is a piece of the log.  About Embeds: that the card of *)
(* a link is shown once, and that "expand" unfolds its own message.         *)
(***************************************************************************)
EXTENDS Store, History, Embeds, FiniteSetTheorems, WellFoundedInduction, TLAPS

LEMMA ZeroType == Zero \in Values
  BY DEF Zero, Values

LEMMA AgeType == ASSUME NEW v \in Values PROVE Age(v) \in Nat /\ Age(Restored(v)) = Age(v)
  BY DEF Age, Restored, Values, Fields

LEMMA RestoredType == ASSUME NEW v \in Values PROVE Restored(v) \in Values
  BY DEF Restored, Values

(* A change moves one object forward and leaves the other alone. *)
LEMMA TouchType ==
  ASSUME TypeOK, NEW r \in Records, NEW f \in Fields, Touch(r, f)
  PROVE  /\ mem[r] \in Values
         /\ mem' \in [Records -> Values \cup {None}]
         /\ mem'[r] \in Values \ {None} /\ changes' \in Nat
         /\ Age(mem[r]) \in Nat /\ Age(mem'[r]) \in Nat /\ Age(mem'[r]) >= Age(mem[r])
         /\ \A q \in Records \ {r} : mem'[q] = mem[q]
<1>1. mem[r] \in Values
  BY DEF Touch, TypeOK
<1>2. [mem[r] EXCEPT ![f] = @ + 1] \in Values
  BY <1>1 DEF Values
<1>3. mem' = [mem EXCEPT ![r] = [mem[r] EXCEPT ![f] = @ + 1]]
  BY DEF Touch
<1>4. mem' \in [Records -> Values \cup {None}] /\ mem'[r] = [mem[r] EXCEPT ![f] = @ + 1]
  BY <1>2, <1>3 DEF TypeOK
<1>5. None \notin Values
  BY ConstantAssumption DEF Values
<1>6. Age(mem[r]) \in Nat /\ Age(mem'[r]) \in Nat /\ Age(mem'[r]) >= Age(mem[r])
  BY <1>1, <1>4 DEF Age, Values, Fields
<1>7. changes' \in Nat
  BY DEF Touch, TypeOK
<1> QED
  BY <1>1, <1>2, <1>3, <1>4, <1>5, <1>6, <1>7 DEF TypeOK

LEMMA TypeInit == Init => TypeOK /\ Held
  BY ZeroType DEF Init, TypeOK, Held, Points, Records

LEMMA TypeStep == TypeOK /\ Held /\ [Next]_vars => TypeOK' /\ Held'
<1> SUFFICES ASSUME TypeOK, Held, [Next]_vars PROVE TypeOK' /\ Held'
  OBVIOUS
<1> USE DEF TypeOK, Held, Points, Records, Step, counts, task
<1>1. ASSUME NEW w \in Writers, NEW r \in Records, NEW f \in Fields, Change(w, r, f)
      PROVE  TypeOK' /\ Held'
  <2>1. /\ mem' \in [Records -> Values \cup {None}]
        /\ mem'[r] \in Values \ {None} /\ Age(mem'[r]) \in Nat
        /\ changes' \in Nat /\ \A q \in Records \ {r} : mem'[q] = mem[q]
    BY <1>1, TouchType DEF Change
  <2>2. TypeOK'
    BY <1>1, <2>1 DEF Change
  <2>3. Held'
    BY <1>1, <2>1 DEF Change
  <2> QED
    BY <2>2, <2>3
<1>0. ASSUME NEW f \in Fields, ChangeOnly(f) PROVE TypeOK' /\ Held'
  <2>1. /\ mem' \in [Records -> Values \cup {None}]
        /\ mem'["conn"] \in Values \ {None}
        /\ changes' \in Nat /\ \A q \in Records \ {"conn"} : mem'[q] = mem[q]
    BY <1>0, TouchType DEF ChangeOnly
  <2> QED
    BY <1>0, <2>1 DEF ChangeOnly
<1>2. ASSUME NEW w \in Writers, Marshal(w) PROVE TypeOK' /\ Held'
  BY <1>2 DEF Marshal
<1>3. ASSUME NEW w \in Writers, WriteBegin(w) PROVE TypeOK' /\ Held'
  BY <1>3 DEF WriteBegin
<1>4. ASSUME NEW w \in Writers, WriteEnd(w) PROVE TypeOK' /\ Held'
  BY <1>4 DEF WriteEnd
<1>5. ASSUME NEW w \in Writers, Rename(w) PROVE TypeOK' /\ Held'
  BY <1>5 DEF Rename
<1>6. ASSUME NEW w \in Writers, NEW r \in Records, RemoveConnection(w, r) PROVE TypeOK' /\ Held'
  BY <1>6 DEF RemoveConnection
<1>7. ASSUME NEW w \in Writers, Delete(w) PROVE TypeOK' /\ Held'
  BY <1>7 DEF Delete, Under
<1>8. ASSUME NEW w \in Writers, NEW r \in Records, RemoveFile(w, r) PROVE TypeOK' /\ Held'
  BY <1>8 DEF RemoveFile
<1>9. ASSUME NEW w \in Writers, DeleteEnd(w) PROVE TypeOK' /\ Held'
  BY <1>9 DEF DeleteEnd, Under
<1>10. CASE Crash
  <2>1. pc' \in [Writers -> Points] /\ lock' \in Writers \cup {None} /\ crashes' \in Nat
    BY <1>10 DEF Crash, Idle
  <2>2. TypeOK'
    BY <1>10, <2>1 DEF Crash, Idle
  <2>3. \A w \in Writers : pc'[w] = "idle"
    BY <1>10 DEF Crash, Idle
  <2> QED
    BY <2>2, <2>3
<1>11. CASE Initialize
  <2>1. /\ live' \subseteq {r \in Records : file[r] \notin {None, Torn}}
        /\ mem' = [r \in Records |-> IF r \in live' THEN Restored(file[r]) ELSE None]
        /\ running' \in BOOLEAN
        /\ owed' = [r \in Records |-> IF r \in live' THEN Age(file[r]) ELSE 0]
        /\ UNCHANGED <<file, swap, task, counts>>
    BY <1>11 DEF Initialize
  <2>2. \A r \in live' : file[r] \in Values
    BY <2>1
  <2>3. /\ mem' \in [Records -> Values \cup {None}]
        /\ owed' \in [Records -> Nat]
    BY <2>1, <2>2, RestoredType, AgeType
  <2>4. TypeOK'
    BY <2>1, <2>3
  <2>5. \A w \in Writers : pc'[w] = "idle"
    BY <1>11 DEF Initialize
  <2> QED
    BY <2>4, <2>5
<1>12. CASE UNCHANGED vars
  BY <1>12 DEF vars
<1> QED
  BY <1>0, <1>1, <1>2, <1>3, <1>4, <1>5, <1>6, <1>7, <1>8, <1>9, <1>10, <1>11, <1>12 DEF Next

(* The variables keep their types. *)
THEOREM TypeCorrect == Spec => []TypeOK
<1>1. Spec => [](TypeOK /\ Held)
  BY TypeInit, TypeStep, PTL DEF Spec
<1> QED
  BY <1>1, PTL

-----------------------------------------------------------------------------
(* The file that is renamed was written to its end by the goroutine that    *)
(* holds the lock.                                                          *)

Safe == TypeOK /\ Held /\ Owner /\ NeverTorn

LEMMA SafeInit == Init => Owner /\ NeverTorn
  BY ConstantAssumption, ZeroType DEF Init, Owner, NeverTorn, Values

LEMMA SafeStep == Safe /\ [Next]_vars => Owner' /\ NeverTorn'
<1> SUFFICES ASSUME Safe, [Next]_vars PROVE Owner' /\ NeverTorn'
  OBVIOUS
<1> USE ConstantAssumption DEF Safe, TypeOK, Owner, NeverTorn, Points, Step, counts, task
<1>0. ASSUME NEW f \in Fields, ChangeOnly(f) PROVE Owner' /\ NeverTorn'
  BY <1>0 DEF ChangeOnly
<1>1. ASSUME NEW w \in Writers, NEW r \in Records, NEW f \in Fields, Change(w, r, f)
      PROVE  Owner' /\ NeverTorn'
  BY <1>1 DEF Change
<1>2. ASSUME NEW w \in Writers, Marshal(w) PROVE Owner' /\ NeverTorn'
  BY <1>2 DEF Marshal
<1>3. ASSUME NEW w \in Writers, WriteBegin(w) PROVE Owner' /\ NeverTorn'
  BY <1>3 DEF WriteBegin
<1>4. ASSUME NEW w \in Writers, WriteEnd(w) PROVE Owner' /\ NeverTorn'
  BY <1>4 DEF WriteEnd
<1>5. ASSUME NEW w \in Writers, Rename(w) PROVE Owner' /\ NeverTorn'
  <2>1. swap[rec[w]] \in Values /\ swap[rec[w]] # Torn
    BY <1>5 DEF Rename, Values
  <2>2. NeverTorn'
    BY <1>5, <2>1 DEF Rename
  <2>3. Owner'
    BY <1>5 DEF Rename
  <2> QED
    BY <2>2, <2>3
<1>6. ASSUME NEW w \in Writers, NEW r \in Records, RemoveConnection(w, r) PROVE Owner' /\ NeverTorn'
  BY <1>6 DEF RemoveConnection
<1>7. ASSUME NEW w \in Writers, Delete(w) PROVE Owner' /\ NeverTorn'
  BY <1>7 DEF Delete
<1>8. ASSUME NEW w \in Writers, NEW r \in Records, RemoveFile(w, r)
      PROVE  Owner' /\ NeverTorn'
  BY <1>8 DEF RemoveFile
<1>9. ASSUME NEW w \in Writers, DeleteEnd(w) PROVE Owner' /\ NeverTorn'
  BY <1>9 DEF DeleteEnd
<1>10. CASE Crash
  BY <1>10 DEF Crash, Idle
<1>11. CASE Initialize
  BY <1>11 DEF Initialize
<1>12. CASE UNCHANGED vars
  BY <1>12 DEF vars
<1> QED
  BY <1>0, <1>1, <1>2, <1>3, <1>4, <1>5, <1>6, <1>7, <1>8, <1>9, <1>10, <1>11, <1>12 DEF Next

(* Whenever the server crashes, user.json and connection.json are absent or *)
(* complete: os.Rename only ever puts a whole file in place.                *)
THEOREM FilesComplete == Spec => []NeverTorn
<1>1. Init => Safe
  BY TypeInit, SafeInit DEF Safe
<1>2. Safe /\ [Next]_vars => Safe'
  BY TypeStep, SafeStep DEF Safe
<1>3. Safe => NeverTorn
  BY DEF Safe
<1> QED
  BY <1>1, <1>2, <1>3, PTL DEF Spec

-----------------------------------------------------------------------------
(* A change that is to be saved is on disk, or on its way there.  A         *)
(* goroutine that saves older data holds the lock; the one that made the    *)
(* newer change is behind it.                                               *)

Kept == Safe /\ Unlinked /\ OwedIsDone /\ AllOnTheirWay

LEMMA UnlinkedStep == Safe /\ Unlinked /\ [Next]_vars => Unlinked'
<1> SUFFICES ASSUME Safe, Unlinked, [Next]_vars PROVE Unlinked'
  OBVIOUS
<1> USE DEF Safe, TypeOK, Unlinked, Under, Points, Step, counts, task
<1>0. ASSUME NEW f \in Fields, ChangeOnly(f) PROVE Unlinked'
  BY <1>0 DEF ChangeOnly
<1>1. ASSUME NEW w \in Writers, NEW r \in Records, NEW f \in Fields, Change(w, r, f)
      PROVE  Unlinked'
  BY <1>1 DEF Change
<1>2. ASSUME NEW w \in Writers, \/ Marshal(w) \/ WriteBegin(w) \/ WriteEnd(w) \/ Rename(w)
      PROVE  Unlinked'
  BY <1>2 DEF Marshal, WriteBegin, WriteEnd, Rename
<1>3. ASSUME NEW w \in Writers, NEW r \in Records, RemoveConnection(w, r) PROVE Unlinked'
  BY <1>3 DEF RemoveConnection
<1>4. ASSUME NEW w \in Writers, Delete(w) PROVE Unlinked'
  BY <1>4 DEF Delete
<1>5. ASSUME NEW w \in Writers, NEW r \in Records, RemoveFile(w, r) PROVE Unlinked'
  BY <1>5 DEF RemoveFile
<1>6. ASSUME NEW w \in Writers, DeleteEnd(w) PROVE Unlinked'
  BY <1>6 DEF DeleteEnd
<1>7. CASE Crash
  BY <1>7 DEF Crash, Idle
<1>8. CASE Initialize
  <2>1. \A w \in Writers : pc'[w] = "idle"
    BY <1>8 DEF Initialize, Held
  <2> QED
    BY <2>1
<1>9. CASE UNCHANGED vars
  BY <1>9 DEF vars
<1> QED
  BY <1>0, <1>1, <1>2, <1>3, <1>4, <1>5, <1>6, <1>7, <1>8, <1>9 DEF Next

LEMMA OwedStep == Safe /\ OwedIsDone /\ [Next]_vars => OwedIsDone'
<1> SUFFICES ASSUME Safe, OwedIsDone, [Next]_vars PROVE OwedIsDone'
  OBVIOUS
<1> USE DEF Safe, TypeOK, OwedIsDone
<1>1. ASSUME NEW w \in Writers, NEW r \in Records, NEW f \in Fields, Change(w, r, f)
      PROVE  OwedIsDone'
  <2>1. Age(mem'[r]) \in Nat /\ \A q \in Records \ {r} : mem'[q] = mem[q]
    BY <1>1, TouchType DEF Change
  <2>2. owed'[r] = Age(mem'[r]) /\ \A q \in Records \ {r} : owed'[q] = owed[q]
    BY <1>1 DEF Change
  <2> QED
    BY <2>1, <2>2
<1>2. ASSUME NEW f \in Fields, ChangeOnly(f) PROVE OwedIsDone'
  <2>1. /\ mem["conn"] \in Values \ {None} /\ owed' = owed /\ "conn" \in Records
        /\ Age(mem["conn"]) \in Nat /\ Age(mem'["conn"]) \in Nat
        /\ Age(mem'["conn"]) >= Age(mem["conn"])
        /\ \A q \in Records \ {"conn"} : mem'[q] = mem[q]
    BY <1>2, TouchType DEF ChangeOnly, Records, Touch
  <2>2. Age(mem["conn"]) >= owed["conn"] /\ owed["conn"] \in Nat
    BY <2>1
  <2>3. Age(mem'["conn"]) >= owed'["conn"]
    BY <2>1, <2>2
  <2> QED
    BY <2>1, <2>3
<1>3. CASE Initialize
  <2>1. ASSUME NEW r \in Records, mem'[r] # None PROVE Age(mem'[r]) >= owed'[r]
    <3>1. r \in live' /\ file[r] \in Values
      BY <1>3, <2>1 DEF Initialize
    <3>2. mem'[r] = Restored(file[r]) /\ owed'[r] = Age(file[r])
      BY <1>3, <3>1 DEF Initialize
    <3> QED
      BY <3>1, <3>2, AgeType
  <2> QED
    BY <2>1
<1>4. CASE UNCHANGED <<mem, owed>>
  BY <1>4
<1> QED
  BY <1>1, <1>2, <1>3, <1>4
     DEF Next, Marshal, WriteBegin, WriteEnd, Rename, RemoveConnection, Delete, RemoveFile,
         DeleteEnd, Crash, vars

LEMMA OnItsWayStep == Kept /\ [Next]_vars => AllOnTheirWay'
<1> SUFFICES ASSUME Kept, [Next]_vars, running', NEW q \in live' PROVE OnItsWay(q)'
  BY DEF AllOnTheirWay
<1> USE DEF Kept, Safe, TypeOK, AllOnTheirWay, OnItsWay, Saving, Step, counts, task
<1>0. ASSUME NEW f \in Fields, ChangeOnly(f) PROVE OnItsWay(q)'
  BY <1>0 DEF ChangeOnly
<1>1. ASSUME NEW w \in Writers, NEW r \in Records, NEW f \in Fields, Change(w, r, f)
      PROVE  OnItsWay(q)'
  <2>1. CASE q = r
    BY <1>1, <2>1 DEF Change
  <2>2. CASE q # r
    <3>1. owed'[q] = owed[q] /\ q \in live /\ running
      BY <1>1, <2>2 DEF Change
    <3>2. \A v \in Writers : pc[v] # "idle" => pc'[v] = pc[v] /\ rec'[v] = rec[v]
      BY <1>1 DEF Change
    <3> QED
      BY <1>1, <3>1, <3>2 DEF Change
  <2> QED
    BY <2>1, <2>2
<1>2. ASSUME NEW w \in Writers, Marshal(w) PROVE OnItsWay(q)'
  <2>1. \A v \in Writers : pc[v] \notin {"locked", "writing", "written"}
    BY <1>2, ConstantAssumption DEF Marshal, Owner
  <2>2. /\ \A v \in Writers : v # w => pc'[v] = pc[v] /\ data'[v] = data[v]
        /\ pc[w] = "changed" /\ data'[w] = mem[rec[w]] /\ pc'[w] = "locked"
        /\ UNCHANGED <<mem, live, file, rec, owed, running>>
    BY <1>2 DEF Marshal
  <2>3. CASE rec[w] = q
    <3>1. Age(data'[w]) >= owed'[q]
      BY <2>2, <2>3 DEF OwedIsDone, Held
    <3> QED
      BY <2>1, <2>2, <2>3, <3>1
  <2>4. CASE rec[w] # q
    BY <2>1, <2>2, <2>4
  <2> QED
    BY <2>3, <2>4
<1>3. ASSUME NEW w \in Writers, WriteBegin(w) \/ WriteEnd(w) PROVE OnItsWay(q)'
  <2>1. Saving(q)' = Saving(q)
    BY <1>3 DEF WriteBegin, WriteEnd
  <2>2. \A v \in Writers : pc[v] = "changed" => pc'[v] = "changed"
    BY <1>3 DEF WriteBegin, WriteEnd
  <2>3. UNCHANGED <<live, file, rec, data, running, owed>>
    BY <1>3 DEF WriteBegin, WriteEnd
  <2> QED
    BY <2>1, <2>2, <2>3
<1>4. ASSUME NEW w \in Writers, Rename(w) PROVE OnItsWay(q)'
  <2>1. \A v \in Writers : v # w => pc[v] \notin {"locked", "writing", "written"}
    BY <1>4, ConstantAssumption DEF Rename, Owner
  <2>2. \A v \in Writers : pc'[v] \notin {"locked", "writing", "written"}
    BY <1>4, <2>1 DEF Rename
  <2>3. \A v \in Writers : pc[v] = "changed" => pc'[v] = "changed" /\ rec'[v] = rec[v]
    BY <1>4 DEF Rename
  <2>4. CASE \E v \in Writers : pc[v] = "changed" /\ rec[v] = q
    BY <2>3, <2>4
  <2>5. CASE rec[w] = q /\ Age(data[w]) >= owed[q]
    <3>1. file'[q] = data[w] /\ owed' = owed
      BY <1>4, <2>5 DEF Rename, Owner
    <3>2. data[w] # None
      BY ConstantAssumption DEF Values
    <3> QED
      BY <2>2, <2>5, <3>1, <3>2
  <2>6. CASE rec[w] # q
    BY <1>4, <2>1, <2>2, <2>3, <2>6 DEF Rename
  <2> QED
    BY <1>4, <2>4, <2>5, <2>6 DEF Rename
<1>5. ASSUME NEW w \in Writers, NEW r \in Records, RemoveConnection(w, r) PROVE OnItsWay(q)'
  BY <1>5 DEF RemoveConnection
<1>6. ASSUME NEW w \in Writers, Delete(w) PROVE OnItsWay(q)'
  BY <1>6 DEF Delete
<1>7. ASSUME NEW w \in Writers, NEW r \in Records, RemoveFile(w, r) PROVE OnItsWay(q)'
  <2>1. q # r
    BY <1>7 DEF RemoveFile, Unlinked
  <2> QED
    BY <1>7, <2>1 DEF RemoveFile
<1>8. ASSUME NEW w \in Writers, DeleteEnd(w) PROVE OnItsWay(q)'
  BY <1>8 DEF DeleteEnd
<1>9. CASE Crash
  BY <1>9 DEF Crash
<1>10. CASE Initialize
  <2>1. q \in Records /\ file[q] \in Values /\ owed'[q] = Age(file[q]) /\ file' = file
    BY <1>10 DEF Initialize
  <2>2. file[q] # None /\ Age(file[q]) >= owed'[q]
    BY <2>1, AgeType, ConstantAssumption DEF Values
  <2>3. \A w \in Writers : pc'[w] = "idle"
    BY <1>10 DEF Initialize, Held
  <2> QED
    BY <2>1, <2>2, <2>3
<1>11. CASE UNCHANGED vars
  BY <1>11 DEF vars
<1> QED
  BY <1>0, <1>1, <1>2, <1>3, <1>4, <1>5, <1>6, <1>7, <1>8, <1>9, <1>10, <1>11 DEF Next

(* However many goroutines change and save objects at once, and wherever    *)
(* the server crashed, what can be found and that nobody is about to save   *)
(* is on disk up to the last change that was to be saved, in the fields a   *)
(* restart takes over.                                                      *)
THEOREM ChangesKept == Spec => []NothingLost
<1>1. Init => Kept
  <2>1. Init => OwedIsDone /\ Unlinked /\ AllOnTheirWay
    BY ConstantAssumption, ZeroType, AgeType
       DEF Init, OwedIsDone, Unlinked, AllOnTheirWay, OnItsWay, Saving, Values, Age, Zero, Fields
  <2> QED
    BY <2>1, TypeInit, SafeInit DEF Kept, Safe
<1>2. Kept /\ [Next]_vars => Kept'
  BY TypeStep, SafeStep, UnlinkedStep, OwedStep, OnItsWayStep DEF Kept, Safe
<1>3. Kept => NothingLost
  BY DEF Kept, AllOnTheirWay, OnItsWay, Saving, NothingLost, Busy, Safe, TypeOK
<1> QED
  BY <1>1, <1>2, <1>3, PTL DEF Spec

-----------------------------------------------------------------------------
(* Saves are in order.                                                      *)

Ordered == Safe /\ NotAhead

LEMMA NotAheadStep == Ordered /\ [Next]_vars => NotAhead' /\ [Newer("restored")]_file
<1> SUFFICES ASSUME Ordered, [Next]_vars PROVE NotAhead' /\ [Newer("restored")]_file
  OBVIOUS
<1> USE DEF Ordered, Safe, TypeOK, NotAhead, Step, counts, task
<1> DEFINE Past(v) == pc[v] \in {"locked", "writing", "written"}
<1>a. ASSUME NEW r \in Records, NEW f \in Fields, Touch(r, f), UNCHANGED <<file, data>>,
             \A v \in Writers : Past(v)' => Past(v) /\ rec'[v] = rec[v]
      PROVE  NotAhead' /\ file' = file
  <2>1. /\ mem[r] \in Values /\ mem'[r] \in Values
        /\ Age(mem[r]) \in Nat /\ Age(mem'[r]) \in Nat /\ Age(mem'[r]) >= Age(mem[r])
        /\ \A q \in Records : q # r => mem'[q] = mem[q]
    BY <1>a, TouchType
  <2>2. UNCHANGED <<file, data>>
    BY <1>a
  <2>3. ASSUME NEW q \in Records, file'[q] \in Values, mem'[q] \in Values
        PROVE  Age(mem'[q]) >= Age(file'[q])
    <3>1. CASE q = r
      <4>1. Age(file[r]) \in Nat /\ Age(mem[r]) >= Age(file[r])
        BY <2>1, <2>2, <2>3, <3>1, AgeType
      <4> QED
        BY <2>1, <2>2, <3>1, <4>1
    <3>2. CASE q # r
      BY <2>1, <2>2, <2>3, <3>2
    <3> QED
      BY <3>1, <3>2
  <2>4. ASSUME NEW v \in Writers, Past(v)'
        PROVE  /\ mem'[rec'[v]] \in Values
               /\ Age(mem'[rec'[v]]) >= Age(data'[v])
               /\ file'[rec'[v]] \in Values => Age(data'[v]) >= Age(file'[rec'[v]])
    <3>1. Past(v) /\ rec'[v] = rec[v]
      BY <1>a, <2>4
    <3>2. CASE rec[v] = r
      <4>1. Age(data[v]) \in Nat /\ Age(mem[r]) >= Age(data[v])
        BY <3>1, <3>2, AgeType
      <4> QED
        BY <2>1, <2>2, <3>1, <3>2, <4>1
    <3>3. CASE rec[v] # r
      BY <2>1, <2>2, <3>1, <3>3
    <3> QED
      BY <3>2, <3>3
  <2> QED
    BY <2>2, <2>3, <2>4
<1>0. ASSUME NEW f \in Fields, ChangeOnly(f) PROVE NotAhead' /\ file' = file
  <2>1. "conn" \in Records /\ Touch("conn", f)
    BY <1>0 DEF ChangeOnly, Records
  <2>2. UNCHANGED <<file, data, pc, rec>>
    BY <1>0 DEF ChangeOnly
  <2> QED
    BY <1>a, <2>1, <2>2
<1>1. ASSUME NEW w \in Writers, NEW r \in Records, NEW f \in Fields, Change(w, r, f)
      PROVE  NotAhead' /\ file' = file
  <2>1. Touch(r, f) /\ UNCHANGED <<file, data>>
    BY <1>1 DEF Change
  <2>2. \A v \in Writers : Past(v)' => Past(v) /\ rec'[v] = rec[v]
    BY <1>1 DEF Change
  <2> QED
    BY <1>a, <2>1, <2>2
<1> USE DEF Age
<1>2. ASSUME NEW w \in Writers, Marshal(w) PROVE NotAhead' /\ file' = file
  <2>1. mem[rec[w]] \in Values
    BY <1>2 DEF Marshal, Held
  <2>2. \A v \in Values : v["restored"] \in Nat
    BY DEF Values, Fields
  <2>3. \A v \in Writers : pc[v] \notin {"locked", "writing", "written"}
    BY <1>2, ConstantAssumption DEF Marshal, Owner
  <2>4. \A v \in Writers : pc'[v] \in {"locked", "writing", "written"} => v = w
    BY <1>2, <2>3 DEF Marshal
  <2>5. data'[w] = mem[rec[w]] /\ UNCHANGED <<mem, file, rec>>
    BY <1>2 DEF Marshal
  <2>6. file[rec[w]] \in Values => mem[rec[w]]["restored"] >= file[rec[w]]["restored"]
    BY <2>1
  <2> QED
    BY <2>1, <2>2, <2>4, <2>5, <2>6
<1>3. ASSUME NEW w \in Writers, WriteBegin(w) \/ WriteEnd(w) PROVE NotAhead' /\ file' = file
  BY <1>3 DEF WriteBegin, WriteEnd
<1>4. ASSUME NEW w \in Writers, Rename(w) PROVE NotAhead' /\ Newer("restored")
  <2>1. \A v \in Writers : pc'[v] \notin {"locked", "writing", "written"}
    BY <1>4, ConstantAssumption DEF Rename, Owner
  <2>2. file' = [file EXCEPT ![rec[w]] = data[w]] /\ mem' = mem
    BY <1>4 DEF Rename, Owner
  <2>3. \A v \in Values : v["restored"] \in Nat
    BY DEF Values, Fields
  <2>4. NotAhead'
    BY <1>4, <2>1, <2>2 DEF Rename
  <2>5. Newer("restored")
    BY <1>4, <2>2, <2>3 DEF Newer, Rename
  <2> QED
    BY <2>4, <2>5
<1>5. ASSUME NEW w \in Writers, NEW r \in Records, RemoveConnection(w, r) PROVE NotAhead'
             /\ file' = file
  BY <1>5 DEF RemoveConnection
<1>6. ASSUME NEW w \in Writers, Delete(w) PROVE NotAhead' /\ file' = file
  BY <1>6 DEF Delete
<1>7. ASSUME NEW w \in Writers, NEW r \in Records, RemoveFile(w, r)
      PROVE  NotAhead' /\ Newer("restored")
  <2>1. /\ file' = [file EXCEPT ![r] = None]
        /\ UNCHANGED <<mem, pc, rec, data>>
    BY <1>7 DEF RemoveFile
  <2>2. None \notin Values
    BY ConstantAssumption DEF Values
  <2>3. \A v \in Values : v["restored"] \in Nat
    BY DEF Values, Fields
  <2> QED
    BY <2>1, <2>2, <2>3 DEF Newer
<1>8. ASSUME NEW w \in Writers, DeleteEnd(w) PROVE NotAhead' /\ file' = file
  BY <1>8 DEF DeleteEnd
<1>9. ASSUME Crash PROVE NotAhead' /\ file' = file
  BY <1>9 DEF Crash, Idle
<1>10. ASSUME Initialize PROVE NotAhead' /\ file' = file
  <2>1. /\ file' = file
        /\ \A q \in Records : mem'[q] = None \/ mem'[q] = Restored(file[q])
    BY <1>10 DEF Initialize
  <2>2. \A v \in Values : v["restored"] \in Nat /\ Restored(v)["restored"] = v["restored"]
    BY DEF Values, Fields, Restored
  <2>3. \A w \in Writers : pc'[w] = "idle"
    BY <1>10 DEF Initialize, Held
  <2>4. None \notin Values
    BY ConstantAssumption DEF Values
  <2>5. NotAhead'
    BY <2>1, <2>2, <2>3, <2>4
  <2> QED
    BY <2>1, <2>5
<1>11. ASSUME UNCHANGED vars PROVE NotAhead' /\ file' = file
  BY <1>11 DEF vars
<1> QED
  BY <1>0, <1>1, <1>2, <1>3, <1>4, <1>5, <1>6, <1>7, <1>8, <1>9, <1>10, <1>11 DEF Next

(* No save replaces a file by one with an older value of a field that       *)
(* restarts keep: not after another goroutine's, nor after a crash.         *)
THEOREM SavesInOrder == Spec => RestoredGrows
<1>1. Init => Ordered
  <2>1. Init => NotAhead
    BY ZeroType DEF Init, NotAhead, Values, Zero, Fields, Age
  <2> QED
    BY <2>1, TypeInit, SafeInit DEF Ordered, Safe
<1>2. Ordered /\ [Next]_vars => Ordered' /\ [Newer("restored")]_file
  BY TypeStep, SafeStep, NotAheadStep DEF Ordered, Safe
<1> QED
  BY <1>1, <1>2, PTL DEF Spec, RestoredGrows

-----------------------------------------------------------------------------
(* History.  Unless he is moving, a reader is at the message the address   *)
(* names or at the bottom, and that is where the page would put him back.   *)
ReaderInv ==
  /\ view = 0 \/ view \in ToSet(shown)
  /\ kept \in {0, hash}
  /\ ~settling => view \in {0, hash}

LEMMA ClampIn ==
  ASSUME NEW v, NEW list
  PROVE  Clamp(v, list) \in {0, v} /\ (Clamp(v, list) = 0 \/ Clamp(v, list) \in ToSet(list))
  BY DEF Clamp

\* A list that changed its height.
LEMMA RefitKeeps ==
  ASSUME ReaderInv, NEW list, shown' = list, Refit(list)
  PROVE  /\ ReaderInv' /\ hash' = hash
         /\ view # 0 /\ ~settling /\ hash \in ToSet(list) /\ active => view' = view
<1>1. /\ view = 0 \/ view \in ToSet(shown)
      /\ kept \in {0, hash} /\ (~settling => view \in {0, hash})
  BY DEF ReaderInv
<1>2. CASE active /\ (hash = 0 \/ hash \in ToSet(list))
  <2>1. view' = hash /\ kept' = hash /\ hash' = hash /\ settling' = settling
    BY <1>2 DEF Refit
  <2> QED
    BY <1>1, <1>2, <2>1 DEF ReaderInv
<1>3. CASE ~(active /\ (hash = 0 \/ hash \in ToSet(list)))
  <2>1. view' = Clamp(view, list) /\ kept' = kept /\ hash' = hash /\ settling' = settling
    BY <1>3 DEF Refit
  <2>2. view' \in {0, view} /\ (view' = 0 \/ view' \in ToSet(list))
    BY <2>1, ClampIn
  <2> QED
    BY <1>1, <1>3, <2>1, <2>2 DEF ReaderInv
<1> QED
  BY <1>2, <1>3

\* What a step does to a reader who is not moving.
Stays == view # 0 /\ ~settling /\ hash \in ToSet(shown') /\ active
/\ active' => view' = view \/ settling'

LEMMA ReaderStep == ReaderInv /\ [HistoryNext]_historyVars => ReaderInv' /\ Stays
<1> SUFFICES ASSUME ReaderInv, [HistoryNext]_historyVars PROVE ReaderInv' /\ Stays
  OBVIOUS
<1>1. /\ view = 0 \/ view \in ToSet(shown)
      /\ kept \in {0, hash} /\ (~settling => view \in {0, hash})
  BY DEF ReaderInv
<1>2. CASE UNCHANGED <<shown, view, kept, hash, settling>>
  BY <1>2 DEF ReaderInv, Stays
<1>3. CASE Emit \/ Save \/ Tick \/ Serve \/ Leave \/ Fill \/ Release \/ UNCHANGED historyVars
  BY <1>2, <1>3 DEF Emit, Save, Tick, Serve, Leave, Fill, Release, store, scroll, historyVars
<1>4. ASSUME NEW list, shown' = list, Refit(list) PROVE ReaderInv' /\ Stays
  BY <1>4, RefitKeeps DEF Stays
<1>5. CASE Answered
  BY <1>4, <1>5 DEF Answered
<1>6. CASE Deliver
  <2>1. CASE stop
    <3>1. PICK list : list = Append(shown, Head(wire))
      OBVIOUS
    <3> QED
      BY <1>4, <1>6, <2>1, <3>1 DEF Deliver
  <2>2. CASE ~stop
    BY <1>2, <1>6, <2>2 DEF Deliver, scroll
  <2> QED
    BY <2>1, <2>2
<1>7. CASE Notice
  <2>1. PICK list : list = Append(shown, 0)
    OBVIOUS
  <2> QED
    BY <1>4, <1>7, <2>1 DEF Notice
<1>8. CASE Open
  <2>1. ~active /\ view' = Clamp(hash', shown) /\ kept' = view' /\ shown' = shown
    BY <1>8 DEF Open
  <2>2. view' \in {0, hash'} /\ (view' = 0 \/ view' \in ToSet(shown))
    BY <2>1, ClampIn
  <2> QED
    BY <2>1, <2>2 DEF ReaderInv, Stays
<1>9. CASE Reload
  <2>1. view' = 0 /\ kept' = 0 /\ shown' = <<>> /\ ToSet(<<>>) = {}
    BY <1>9 DEF Reload, ToSet
  <2> QED
    BY <2>1 DEF ReaderInv, Stays
<1>10. CASE Scroll
  <2>1. view' \in ToSet(shown) \cup {0} /\ settling' = TRUE /\ UNCHANGED <<shown, kept, hash>>
    BY <1>10 DEF Scroll, Listed, store
  <2> QED
    BY <1>1, <2>1 DEF ReaderInv, Stays
<1>11. CASE Undo
  <2>1. settling /\ view' = Clamp(kept, shown) /\ UNCHANGED <<shown, kept, hash>>
    BY <1>11 DEF Undo, store
  <2>2. view' \in {0, kept} /\ (view' = 0 \/ view' \in ToSet(shown))
    BY <2>1, ClampIn
  <2> QED
    BY <1>1, <2>1, <2>2 DEF ReaderInv, Stays
<1>12. CASE Scrolled
  <2>1. /\ settling /\ kept' = view /\ UNCHANGED <<shown, view>>
        /\ hash' = IF Listed = {} THEN hash ELSE view
    BY <1>12 DEF Scrolled
  <2>2. Listed = {} => view = 0
    BY <1>1 DEF Listed
  <2> QED
    BY <1>1, <2>1, <2>2 DEF ReaderInv, Stays
<1> QED
  BY <1>3, <1>5, <1>6, <1>7, <1>8, <1>9, <1>10, <1>11, <1>12 DEF HistoryNext

(* Who reads older messages is not moved by what arrives, for pages of any *)
(* size and any number of messages.                                        *)
THEOREM ReaderIsNotMoved == HistorySpec => NotMoved
<1>1. HistoryInit => ReaderInv
  BY DEF HistoryInit, ReaderInv
<1>2. ReaderInv /\ [HistoryNext]_historyVars => [Stays]_historyVars
  BY ReaderStep
<1> QED
  BY ReaderStep, <1>1, <1>2, PTL DEF HistorySpec, NotMoved, Stays

-----------------------------------------------------------------------------
(* What the proof below needs to know of numbers and lists.                *)

\* The least and the greatest of some numbers.
LEMMA MinIs ==
  ASSUME NEW S, S \subseteq Nat, S # {}
  PROVE  Min(S) \in S /\ \A y \in S : Min(S) <= y
<1> DEFINE R == OpToRel(<, Nat)
<1>1. PICK x \in S : \A y \in S : ~(<<y, x>> \in R)
  <2>1. IsWellFoundedOn(R, Nat)
    BY NatLessThanWellFounded
  <2> HIDE DEF R
  <2> QED
    BY <2>1, WFMin
<1>2. ASSUME NEW y \in S PROVE x <= y
  <2>1. x \in Nat /\ y \in Nat /\ ~(<<y, x>> \in R)
    BY <1>1
  <2>2. ~(y < x)
    BY <2>1 DEF OpToRel
  <2>3. x \in Nat /\ y \in Nat
    BY <2>1
  <2> QED
    BY <2>2, <2>3
<1>3. \E z \in S : \A y \in S : z =< y
  BY <1>2
<1> QED
  BY <1>3 DEF Min

LEMMA MaxIs ==
  ASSUME NEW N \in Nat, NEW S, S \subseteq 0..N, S # {}
  PROVE  Max(S) \in S /\ \A y \in S : y <= Max(S)
<1> DEFINE T == {k \in Nat : N - k \in S}
<1>1. T \subseteq Nat /\ T # {}
  <2>1. PICK y \in S : TRUE
    OBVIOUS
  <2>2. N - y \in Nat /\ N - (N - y) = y
    BY <2>1
  <2> QED
    BY <2>1, <2>2
<1>2. PICK k \in T : \A j \in T : k <= j
  <2> HIDE DEF T
  <2> QED
    BY <1>1, MinIs
<1>3. ASSUME NEW y \in S PROVE N - k >= y
  <2>1. N - y \in Nat /\ N - (N - y) = y /\ k \in Nat /\ y \in Nat
    OBVIOUS
  <2>2. k <= N - y
    BY <1>2, <2>1
  <2> QED
    BY <2>1, <2>2
<1>4. \E z \in S : \A y \in S : z >= y
  BY <1>3
<1>5. Max(S) \in S /\ \A y \in S : Max(S) >= y
  BY <1>4 DEF Max
<1> QED
  BY <1>5

\* The first message of a list.
FirstOf(s) == s[Min({i \in DOMAIN s : s[i] # 0})]

LEMMA FirstOfIs ==
  ASSUME NEW s \in Seq(Nat), ToSet(s) \ {0} # {}
  PROVE  \E k \in 1..Len(s) : s[k] # 0 /\ FirstOf(s) = s[k] /\ \A i \in 1..(k - 1) : s[i] = 0
<1> DEFINE S == {i \in DOMAIN s : s[i] # 0}
           k == Min(S)
<1>1. S \subseteq Nat /\ S # {} /\ DOMAIN s = 1..Len(s)
  BY DEF ToSet
<1>2. k \in S /\ \A y \in S : k <= y
  <2> HIDE DEF S
  <2> QED
    BY <1>1, MinIs
<1>3. ASSUME NEW i \in 1..(k - 1), s[i] # 0 PROVE FALSE
  <2>1. i \in S /\ k \in 1..Len(s) /\ i < k
    BY <1>1, <1>2, <1>3
  <2>2. k <= i
    BY <1>2, <2>1
  <2> QED
    BY <2>1, <2>2
<1> QED
  BY <1>1, <1>2, <1>3 DEF FirstOf

LEMMA FirstOfOnly ==
  ASSUME NEW s \in Seq(Nat), NEW k \in 1..Len(s), s[k] # 0, \A i \in 1..(k - 1) : s[i] = 0
  PROVE  ToSet(s) \ {0} # {} /\ FirstOf(s) = s[k]
<1>1. s[k] \in ToSet(s) \ {0}
  BY DEF ToSet
<1>2. PICK m \in 1..Len(s) : s[m] # 0 /\ FirstOf(s) = s[m] /\ \A i \in 1..(m - 1) : s[i] = 0
  BY <1>1, FirstOfIs
<1>3. m = k
  <2>1. ~(m < k)
    BY <1>2
  <2>2. ~(k < m)
    BY <1>2
  <2> QED
    BY <2>1, <2>2
<1> QED
  BY <1>1, <1>2, <1>3

LEMMA ConcatIs ==
  ASSUME NEW s \in Seq(Nat), NEW t \in Seq(Nat)
  PROVE  /\ s \o t \in Seq(Nat) /\ Len(s \o t) = Len(s) + Len(t)
         /\ \A i \in 1..Len(s) : (s \o t)[i] = s[i]
         /\ \A i \in (Len(s) + 1)..(Len(s) + Len(t)) : (s \o t)[i] = t[i - Len(s)]
  OBVIOUS

LEMMA AppendIs ==
  ASSUME NEW s \in Seq(Nat), NEW e \in Nat
  PROVE  /\ Append(s, e) \in Seq(Nat) /\ Len(Append(s, e)) = Len(s) + 1
         /\ Append(s, e)[Len(s) + 1] = e
         /\ \A i \in 1..Len(s) : Append(s, e)[i] = s[i]
  OBVIOUS

\* A page and the notices of a list.
LEMMA PieceIs ==
  ASSUME NEW p, NEW e \in Nat, NEW b \in Nat \ {0}, b <= e + 1, p = [i \in 1..(e + 1 - b) |-> b + i - 1]
  PROVE  p \in Seq(Nat) /\ Len(p) = e + 1 - b /\ \A i \in 1..Len(p) : p[i] = b + i - 1
  OBVIOUS

LEMMA NoticesIs ==
  ASSUME NEW s \in Seq(Nat)
  PROVE  Notices(s) \in Seq(Nat) /\ \A i \in 1..Len(Notices(s)) : Notices(s)[i] = 0
<1>1. Cardinality({k \in DOMAIN s : s[k] = 0}) \in Nat
  <2>1. IsFiniteSet(DOMAIN s)
    BY FS_Interval
  <2> QED
    BY <2>1, FS_Subset, FS_CardinalityType
<1> QED
  BY <1>1 DEF Notices

-----------------------------------------------------------------------------
(* The list of a conversation that was not loaded from a link into the     *)
(* past.  The events come in the order of the log, so that those that were  *)
(* delivered are its beginning.                                             *)
Delivered == Len(sent) - Len(wire)
Old(n)    == sent[n] + Year <= now

ServerType ==
  /\ now \in Nat /\ log \in Seq(Nat) /\ sent \in Seq(Nat)
  /\ Len(sent) \in {Len(log), Len(log) + 1}
  /\ \A n \in 1..Len(log) : log[n] = sent[n]
  /\ \A m, n \in 1..Len(sent) : m <= n => sent[m] <= sent[n]
  /\ \A n \in 1..Len(sent) : sent[n] <= now
  /\ wire \in Seq(Nat) /\ Len(wire) <= Len(sent)
  /\ \A i \in 1..Len(wire) : wire[i] = Delivered + i

Loading == (status = "loading") <=> (call.kind # "none")

ListType == shown \in Seq(Nat) /\ \A i \in 1..Len(shown) : shown[i] <= Len(sent)

\* Messages rise, but for those whose event came after the page had them.
Rising ==
  \A i, j \in 1..Len(shown) : i < j /\ shown[i] # 0 /\ shown[j] # 0 => shown[i] < shown[j] \/ shown[j] \in late

\* What is between two neighbours was missed or is of the second of the latter.
Chained ==
  \A i, j \in 1..Len(shown) : Follows(i, j) =>
     \/ shown[j] \in late
     \/ \A n \in (shown[i] + 1)..(shown[j] - 1) : n \in missed \/ sent[n] = sent[shown[j]]

\* Where the list is ahead of the events, these will be late.
Ahead == \A i \in 1..Len(shown) : (Delivered + 1)..shown[i] \subseteq late

\* What was delivered after the last message was missed.
IsLast(l) ==
  \/ l = 0 /\ \A i \in 1..Len(shown) : shown[i] = 0
  \/ l # 0 /\ \E k \in 1..Len(shown) : l = shown[k] /\ \A i \in 1..Len(shown) : i > k => shown[i] = 0

Covered ==
  /\ stop => \A l \in 0..Len(sent) : IsLast(l) => (l + 1)..Delivered \subseteq missed
  /\ ~stop => \A i \in 1..Len(shown) : shown[i] = 0

Started ==
  start /\ status = "success" /\ Listed # {} =>
    \A n \in 1..(First - 1) : n \in missed \/ sent[n] = sent[First] \/ Old(n)

\* An answer is a piece of the log that ends at e, and if it is an older
\* page, at the first message of the list.
Fits(b, e) ==
  /\ call.page = [i \in 1..(e + 1 - b) |-> b + i - 1]
  /\ e = 0 \/ b <= e
  /\ (call.ok /\ call.end) \/ (e # 0 /\ b = e) => \A n \in 1..(b - 1) : Old(n)
  /\ call.before =>
       /\ Listed # {}
       /\ e # 0 => e < First /\ \A n \in (e + 1)..(First - 1) : sent[n] = sent[First]
       /\ e = 0 /\ call.ok => \A n \in 1..(First - 1) : sent[n] = sent[First] \/ Old(n)

Awaited ==
  /\ call.kind \in {"none", "around", "before", "answer"}
  /\ call.kind = "around" => call.at \in Nat /\ call.at <= now
  /\ call.kind = "before" => Listed # {} /\ call.at = sent[First]
  /\ call.kind = "answer" => \E e \in 0..Len(sent) : \E b \in 1..(e + 1) : Fits(b, e)

ListInv  == ListType /\ Rising /\ Chained /\ Ahead /\ Covered
PieceInv == ServerType /\ Loading /\ (~jumped => ListInv /\ Started /\ Awaited)

LEMMA PieceInit == HistoryInit => PieceInv
<1> SUFFICES ASSUME HistoryInit PROVE PieceInv
  OBVIOUS
<1>1. /\ log \in [1..MaxOld -> 1..now] /\ log[1] = 1 /\ MaxOld \in Nat \ {0} /\ now = MaxNow - 1
      /\ MaxNow \in Nat
      /\ sent = log /\ wire = <<>> /\ shown = <<>> /\ status = "pending" /\ call = NoCall
      /\ ~start /\ ~stop
      /\ \A i, j \in DOMAIN log : i <= j => log[i] <= log[j]
  BY BoundAssumption DEF HistoryInit
<1>2. 1 \in 1..MaxOld /\ log[1] \in 1..now /\ now \in Int
  BY <1>1
<1>3. now \in Nat /\ DOMAIN log = 1..MaxOld /\ log \in [1..MaxOld -> Nat]
      /\ \A n \in 1..MaxOld : log[n] <= now
  BY <1>1, <1>2
<1>4. log \in Seq(Nat) /\ Len(log) = MaxOld
  BY <1>1, <1>3
<1>5. ServerType
  BY <1>1, <1>3, <1>4 DEF ServerType, Delivered
<1>6. ListType /\ Loading
  BY <1>1 DEF ListType, Loading, NoCall
<1>7. Listed = {}
  BY <1>1 DEF Listed, ToSet
<1>8. ListInv
  BY <1>1, <1>6 DEF ListInv, Rising, Chained, Follows, Ahead, Covered
<1> QED
  BY <1>1, <1>5, <1>6, <1>8 DEF PieceInv, Started, Awaited, NoCall

\* A list that no step touches.
LEMMA SameList ==
  ASSUME ListInv, UNCHANGED <<sent, wire, shown, stop, missed, late>>
  PROVE  ListInv'
<1>1. Delivered' = Delivered /\ \A l : IsLast(l)' <=> IsLast(l)
  BY DEF Delivered, IsLast
<1>2. \A i, j : Follows(i, j)' <=> Follows(i, j)
  BY DEF Follows
<1>3. ListType' /\ Rising' /\ Ahead'
  BY <1>1 DEF ListInv, ListType, Rising, Ahead
<1>4. Chained'
  BY <1>2 DEF ListInv, Chained
<1>5. Covered'
  BY <1>1 DEF ListInv, Covered
<1> QED
  BY <1>3, <1>4, <1>5 DEF ListInv

\* The first message of the list, before a step and after it.
LEMMA FirstIs ==
  ASSUME ListType, Listed # {}
  PROVE  \E k \in 1..Len(shown) : shown[k] # 0 /\ First = shown[k] /\ \A i \in 1..(k - 1) : shown[i] = 0
<1>1. shown \in Seq(Nat) /\ ToSet(shown) \ {0} # {}
  BY DEF ListType, Listed
<1>2. First = FirstOf(shown)
  BY DEF First, FirstOf
<1> QED
  BY <1>1, <1>2, FirstOfIs

LEMMA FirstNext ==
  ASSUME shown' \in Seq(Nat), NEW k \in 1..Len(shown'), shown'[k] # 0, \A i \in 1..(k - 1) : shown'[i] = 0
  PROVE  Listed' # {} /\ First' = shown'[k]
<1>1. First' = FirstOf(shown')
  BY DEF First, FirstOf
<1>2. PICK s : s = shown'
  OBVIOUS
<1>3. ToSet(s) \ {0} # {} /\ FirstOf(s) = s[k]
  BY <1>2, FirstOfOnly
<1> QED
  BY <1>1, <1>2, <1>3 DEF Listed

LEMMA ListedNext ==
  ASSUME shown' \in Seq(Nat), Listed' # {}
  PROVE  \E k \in 1..Len(shown') : shown'[k] # 0 /\ First' = shown'[k] /\ \A i \in 1..(k - 1) : shown'[i] = 0
<1>1. First' = FirstOf(shown')
  BY DEF First, FirstOf
<1>2. PICK s : s = shown'
  OBVIOUS
<1>3. ToSet(s) \ {0} # {}
  BY <1>2 DEF Listed
<1> QED
  BY <1>1, <1>2, <1>3, FirstOfIs

\* The page the server answers with ends at e and begins at b.
PageFits(at, b, e) ==
  /\ Page(at) = [i \in 1..(e + 1 - b) |-> b + i - 1]
  /\ e = 0 \/ (b <= e /\ sent[e] < at)
  /\ End(at) \/ (e # 0 /\ b = e) => \A n \in 1..(b - 1) : sent[n] + Year <= at
  /\ \A n \in (e + 1)..Len(log) : sent[n] >= at \/ (e = 0 /\ sent[n] + Year <= at)

LEMMA PageIs ==
  ASSUME ServerType, NEW at \in Nat
  PROVE  \E e \in 0..Len(log) : \E b \in 1..(e + 1) : PageFits(at, b, e)
<1> DEFINE W == Window(at)
           e == PageEnd(at)
           I == InReach(at)
           b == Min(I \cup {e + 1})
<1>1. /\ Year \in Nat /\ PageSize \in Nat /\ PageSize >= 2 /\ Len(log) \in Nat
      /\ Len(log) <= Len(sent)
      /\ \A n \in 1..Len(log) : log[n] = sent[n] /\ sent[n] \in Nat
      /\ \A m, n \in 1..Len(log) : m <= n => sent[m] <= sent[n]
  <2>1. Year \in Nat /\ PageSize \in Nat \ {0, 1}
    BY SizeAssumption
  <2>2. /\ Len(log) \in Nat /\ Len(sent) \in {Len(log), Len(log) + 1} /\ sent \in Seq(Nat)
        /\ \A n \in 1..Len(log) : log[n] = sent[n]
        /\ \A m, n \in 1..Len(sent) : m <= n => sent[m] <= sent[n]
    BY DEF ServerType
  <2>3. Len(log) <= Len(sent) /\ \A n \in 1..Len(log) : n \in 1..Len(sent) /\ sent[n] \in Nat
    BY <2>2
  <2>4. \A m, n \in 1..Len(log) : m <= n => sent[m] <= sent[n]
    BY <2>2, <2>3
  <2>5. PageSize \in Nat /\ PageSize >= 2
    BY <2>1
  <2> QED
    BY <2>1, <2>2, <2>3, <2>4, <2>5
<1>2. /\ W \subseteq 1..Len(log)
      /\ \A n \in 1..Len(log) : n \in W <=> sent[n] < at /\ sent[n] + Year > at
  BY <1>1 DEF Window, Saved
<1>3. e \in W \cup {0} /\ \A n \in W : n <= e
  <2>1. W \cup {0} \subseteq 0..Len(log) /\ W \cup {0} # {}
    BY <1>2
  <2> HIDE DEF W
  <2>2. e = Max(W \cup {0})
    BY DEF PageEnd, W
  <2> HIDE DEF e
  <2> QED
    BY <1>1, <2>1, <2>2, MaxIs
<1>4. \A n \in 1..Len(log) : n \in I <=> n \in W /\ e < n + PageSize
  BY DEF InReach
<1>5. I \subseteq W
  BY DEF InReach
<1>6. e \in 0..Len(log)
  BY <1>1, <1>2, <1>3
<1> HIDE DEF W, I, e
<1>7. b \in I \cup {e + 1} /\ \A n \in I : b <= n
  <2>1. I \cup {e + 1} \subseteq Nat /\ I \cup {e + 1} # {}
    BY <1>2, <1>5, <1>6
  <2> QED
    BY <2>1, MinIs
<1>8. b \in 1..(e + 1)
  <2>1. \A n \in I : n \in 1..e
    BY <1>2, <1>3, <1>5
  <2> QED
    BY <1>6, <1>7, <2>1
<1>9. Page(at) = [i \in 1..(e + 1 - b) |-> b + i - 1]
  BY DEF Page, e, I
<1> HIDE DEF b
<1>10. e = 0 \/ (b <= e /\ sent[e] < at)
  <2>1. CASE e # 0
    <3>1. e \in W /\ e \in 1..Len(log)
      BY <1>2, <1>3, <2>1
    <3>2. e \in I
      BY <1>1, <1>4, <3>1
    <3> QED
      BY <1>2, <1>7, <3>1, <3>2
  <2> QED
    BY <2>1
<1>11. ASSUME End(at) \/ (e # 0 /\ b = e), NEW n \in 1..(b - 1) PROVE sent[n] + Year <= at
  <2>1. n <= e /\ e # 0 /\ n \in 1..Len(log) /\ e \in 1..Len(log) /\ b <= e /\ sent[e] < at /\ n < b
    BY <1>6, <1>8, <1>10, <1>11
  <2>2. n \notin I
    <3>1. ~(b <= n)
      BY <1>6, <1>8, <2>1
    <3> QED
      BY <1>7, <3>1
  <2>3. CASE n \in W
    <3>1. CASE End(at)
      <4>1. W = I
        BY <3>1 DEF End, W, I
      <4> QED
        BY <2>2, <2>3, <4>1
    <3>2. CASE b = e
      <4>1. e - 1 \in 1..Len(log) /\ n <= e - 1 /\ e - 1 <= e
        BY <2>1, <3>2
      <4>2. e - 1 \in W
        <5>1. sent[n] <= sent[e - 1] /\ sent[e - 1] <= sent[e] /\ sent[n] \in Nat /\ sent[e] \in Nat
              /\ sent[e - 1] \in Nat
          BY <1>1, <2>1, <4>1
        <5>2. sent[e] < at /\ sent[n] + Year > at
          BY <1>2, <2>1, <2>3
        <5>3. sent[e - 1] < at /\ sent[e - 1] + Year > at
          BY <1>1, <5>1, <5>2
        <5> QED
          BY <1>2, <4>1, <5>3
      <4>3. e - 1 \in I
        <5>1. e < (e - 1) + PageSize
          BY <1>1, <1>6
        <5> QED
          BY <1>4, <4>1, <4>2, <5>1
      <4> QED
        BY <1>7, <2>1, <3>2, <4>3
    <3> QED
      BY <1>11, <3>1, <3>2
  <2>4. CASE n \notin W
    <3>1. sent[n] <= sent[e] /\ sent[n] \in Nat /\ sent[e] \in Nat
      BY <1>1, <2>1
    <3> QED
      BY <1>1, <1>2, <2>1, <2>4, <3>1
  <2> QED
    BY <2>3, <2>4
<1>12. ASSUME NEW n \in (e + 1)..Len(log) PROVE sent[n] >= at \/ (e = 0 /\ sent[n] + Year <= at)
  <2>1. n \in 1..Len(log) /\ n \notin W
    BY <1>3, <1>6
  <2>2. sent[n] >= at \/ sent[n] + Year <= at
    BY <1>1, <1>2, <2>1
  <2>3. CASE e # 0
    <3>1. e \in W /\ e \in 1..Len(log) /\ e <= n
      BY <1>2, <1>3, <2>3
    <3>2. sent[e] <= sent[n] /\ sent[e] + Year > at /\ sent[e] \in Nat /\ sent[n] \in Nat
      BY <1>1, <1>2, <2>1, <3>1
    <3> QED
      BY <1>1, <2>2, <3>2
  <2> QED
    BY <2>2, <2>3
<1> QED
  BY <1>6, <1>8, <1>9, <1>10, <1>11, <1>12 DEF PageFits

\* Serve: the page is asked for by the time, or by the first message.
LEMMA ServePiece ==
  ASSUME PieceInv, Serve
  PROVE  PieceInv'
<1>1. /\ call.kind \in {"around", "before"}
      /\ UNCHANGED <<now, log, sent, wire, active, status, shown, start, stop, missed, late, jumped>>
  BY DEF Serve, server
<1>2. PICK ok \in BOOLEAN :
       call' = [kind |-> "answer", before |-> call.kind = "before", ok |-> ok,
                page |-> IF ok THEN Page(call.at) ELSE <<>>,
                end  |-> IF ok THEN End(call.at) ELSE TRUE]
  BY DEF Serve
<1>3. ServerType'
  BY <1>1 DEF PieceInv, ServerType, Delivered
<1>4. Loading'
  BY <1>1, <1>2 DEF PieceInv, Loading
<1>5. ASSUME ~jumped PROVE ListInv' /\ Started' /\ Awaited'
  <2>1. ListInv /\ Started /\ Awaited /\ ServerType /\ ListType
    BY <1>5 DEF PieceInv, ListInv
  <2>2. ListInv'
    BY <1>1, <2>1, SameList
  <2>3. Started'
    BY <1>1, <2>1 DEF Started, Old, Listed, First
  <2>4. /\ call'.kind = "answer" /\ call'.before = (call.kind = "before") /\ call'.ok = ok
        /\ call'.page = IF ok THEN Page(call.at) ELSE <<>>
        /\ call'.end = IF ok THEN End(call.at) ELSE TRUE
    BY <1>2
  <2>5. Listed' = Listed /\ First' = First /\ \A n : Old(n)' <=> Old(n)
    BY <1>1 DEF Listed, First, Old
  <2>6. call.kind = "before" => Listed # {}
    BY <2>1 DEF Awaited
  <2>7. \E e \in 0..Len(sent) : \E b \in 1..(e + 1) : Fits(b, e)'
    <3>1. CASE ~ok
      <4>1. Fits(1, 0)'
        BY <2>4, <2>5, <2>6, <3>1 DEF Fits
      <4>2. 0 \in 0..Len(sent) /\ 1 \in 1..(0 + 1)
        BY <2>1 DEF ServerType
      <4> QED
        BY <4>1, <4>2
    <3>2. CASE ok
      <4>0. /\ Len(sent) \in Nat /\ Len(log) \in Nat /\ Len(sent) <= Len(log) + 1
            /\ Len(log) <= Len(sent)
            /\ \A n \in 1..Len(sent) : sent[n] \in Nat
            /\ Year \in Nat /\ now \in Nat
        <5>1. Year \in Nat
          BY SizeAssumption
        <5>2. /\ now \in Nat /\ log \in Seq(Nat) /\ sent \in Seq(Nat)
              /\ Len(sent) \in {Len(log), Len(log) + 1}
          BY <2>1 DEF ServerType
        <5> QED
          BY <5>1, <5>2
      <4>1. /\ call.at \in Nat /\ call.at <= now
            /\ call.kind = "before" => First \in 1..Len(sent) /\ call.at = sent[First]
        <5>1. CASE call.kind = "around"
          BY <2>1, <5>1 DEF Awaited
        <5>2. CASE call.kind = "before"
          <6>1. Listed # {} /\ call.at = sent[First]
            BY <2>1, <5>2 DEF Awaited
          <6>2. PICK k \in 1..Len(shown) : shown[k] # 0 /\ First = shown[k]
            BY <2>1, <6>1, FirstIs
          <6>3. First \in 1..Len(sent)
            BY <2>1, <6>2 DEF ListType
          <6> QED
            BY <2>1, <4>0, <6>1, <6>3 DEF ServerType
        <5> QED
          BY <1>1, <5>1, <5>2
      <4>2. PICK e \in 0..Len(log) : \E b \in 1..(e + 1) : PageFits(call.at, b, e)
        BY <2>1, <4>1, PageIs
      <4>3. PICK b \in 1..(e + 1) : PageFits(call.at, b, e)
        BY <4>2
      <4>4. \A n \in 1..(b - 1) : sent[n] + Year <= call.at => Old(n)
        BY <4>0, <4>1 DEF Old
      <4>5. call.kind = "before" =>
              /\ e # 0 => e < First /\ \A n \in (e + 1)..(First - 1) : sent[n] = sent[First]
              /\ e = 0 => \A n \in 1..(First - 1) : sent[n] = sent[First] \/ Old(n)
        <5> SUFFICES ASSUME call.kind = "before"
                     PROVE  /\ e # 0 => e < First
                               /\ \A n \in (e + 1)..(First - 1) : sent[n] = sent[First]
                            /\ e = 0 => \A n \in 1..(First - 1) : sent[n] = sent[First] \/ Old(n)
          OBVIOUS
        <5>1. \A m, n \in 1..Len(sent) : m <= n => sent[m] <= sent[n]
          BY <2>1 DEF ServerType
        <5>2. First \in 1..Len(sent) /\ call.at = sent[First]
          BY <4>1
        <5>3. ASSUME e # 0 PROVE e < First
          <6>1. e \in 1..Len(sent) /\ sent[e] < sent[First]
            BY <4>0, <4>3, <5>2, <5>3 DEF PageFits
          <6>2. ~(First <= e)
            BY <4>0, <5>1, <5>2, <6>1
          <6> QED
            BY <5>2, <6>1, <6>2
        <5>4. ASSUME NEW n \in (e + 1)..(First - 1)
              PROVE  sent[n] = sent[First] \/ (e = 0 /\ Old(n))
          <6>1. n \in (e + 1)..Len(log) /\ n \in 1..Len(sent) /\ n <= First
            BY <4>0, <5>2
          <6>2. sent[n] >= sent[First] \/ (e = 0 /\ sent[n] + Year <= sent[First])
            BY <4>3, <5>2, <6>1 DEF PageFits
          <6>3. sent[n] <= sent[First] /\ sent[n] \in Nat /\ sent[First] \in Nat
            BY <4>0, <5>1, <5>2, <6>1
          <6> QED
            BY <4>0, <4>1, <5>2, <6>2, <6>3 DEF Old
        <5> QED
          BY <5>2, <5>3, <5>4
      <4>6. Fits(b, e)'
        <5>1. call'.page = [i \in 1..(e + 1 - b) |-> b + i - 1] /\ (e = 0 \/ b <= e)
          BY <2>4, <3>2, <4>3 DEF PageFits
        <5>2. (call'.ok /\ call'.end) \/ (e # 0 /\ b = e) => \A n \in 1..(b - 1) : Old(n)'
          BY <2>4, <2>5, <3>2, <4>3, <4>4 DEF PageFits
        <5> QED
          BY <1>1, <2>4, <2>5, <2>6, <4>5, <5>1, <5>2 DEF Fits
      <4>7. e \in 0..Len(sent)
        BY <4>0
      <4> QED
        BY <4>6, <4>7
    <3> QED
      BY <3>1, <3>2
  <2>8. Awaited'
    BY <1>1, <2>4, <2>7 DEF Awaited
  <2> QED
    BY <2>2, <2>3, <2>8
<1> QED
  BY <1>1, <1>3, <1>4, <1>5 DEF PieceInv

\* What is asked for.
Asks ==
  /\ UNCHANGED <<now, log, sent, wire, shown, start, stop, missed, late>>
  /\ jumped => jumped'
  /\ \/ UNCHANGED <<status, call>>
     \/ /\ status # "loading" /\ status' = "loading"
        /\ call'.kind \in {"around", "before"}
        /\ ~jumped' => /\ call'.kind = "around" => call'.at = now
                       /\ call'.kind = "before" => Listed # {} /\ call'.at = sent[First]

Sends(kind, at) == status # "loading" /\ status' = "loading" /\ call' = [kind |-> kind, at |-> at]

LEMMA LoadIs ==
  ASSUME NEW kind, NEW at, NEW found, Load(kind, at, found)
  PROVE  UNCHANGED <<status, call>> \/ Sends(kind, at)
  BY DEF Load, Skip, Sends

LEMMA AsksPiece ==
  ASSUME PieceInv, Asks
  PROVE  PieceInv'
<1>1. /\ UNCHANGED <<now, log, sent, wire, shown, start, stop, missed, late>>
      /\ (~jumped' => ~jumped)
      /\ ServerType /\ Loading
  BY DEF Asks, PieceInv
<1>2. ServerType'
  BY <1>1 DEF ServerType, Delivered
<1>3. Loading'
  BY <1>1 DEF Asks, Loading
<1>4. ASSUME ~jumped' PROVE ListInv' /\ Started' /\ Awaited'
  <2>1. ListInv /\ Started /\ Awaited
    BY <1>1, <1>4 DEF PieceInv
  <2>2. ListInv'
    BY <1>1, <2>1, SameList
  <2>3. Listed' = Listed /\ First' = First
    BY <1>1 DEF Listed, First
  <2>4. CASE UNCHANGED <<status, call>>
    <3>1. Started'
      BY <1>1, <2>1, <2>3, <2>4 DEF Started, Old
    <3>2. \A b, e : Fits(b, e) => Fits(b, e)'
      BY <1>1, <2>3, <2>4 DEF Fits, Old
    <3>3. Awaited'
      BY <1>1, <2>1, <2>3, <2>4, <3>2 DEF Awaited
    <3> QED
      BY <2>2, <3>1, <3>3
  <2>5. CASE ~UNCHANGED <<status, call>>
    <3>1. /\ status' = "loading" /\ call'.kind \in {"around", "before"}
          /\ call'.kind = "around" => call'.at = now
          /\ call'.kind = "before" => Listed # {} /\ call'.at = sent[First]
      BY <1>4, <2>5 DEF Asks
    <3>2. now \in Nat
      BY <1>1 DEF ServerType
    <3>3. Started' /\ Awaited'
      BY <1>1, <2>3, <3>1, <3>2 DEF Started, Awaited
    <3> QED
      BY <2>2, <3>3
  <2> QED
    BY <2>4, <2>5
<1> QED
  BY <1>2, <1>3, <1>4 DEF PieceInv

LEMMA PageAsks ==
  ASSUME PieceInv, Open \/ Leave \/ Fill \/ Scroll \/ Undo \/ Scrolled \/ Release \/ UNCHANGED historyVars
  PROVE  Asks
<1>1. CASE Leave \/ Scroll \/ Undo \/ Release \/ UNCHANGED historyVars
  BY <1>1 DEF Leave, Scroll, Undo, Release, historyVars, server, store, scroll, Asks
<1>2. CASE Open
  <2>1. UNCHANGED <<now, log, sent, wire, shown, start, stop, missed, late>>
    BY <1>2 DEF Open, server
  <2>2. CASE /\ hash' = 0
             /\ IF stop THEN UNCHANGED <<status, call>> ELSE Load("around", now, FALSE)
             /\ UNCHANGED jumped
    <3>1. UNCHANGED <<status, call>> \/ Sends("around", now)
      BY <2>2, LoadIs
    <3>2. \/ UNCHANGED <<status, call>>
          \/ /\ status # "loading" /\ status' = "loading"
             /\ call'.kind = "around" /\ call'.at = now
      BY <3>1 DEF Sends
    <3> QED
      BY <2>1, <2>2, <3>2 DEF Asks
  <2>3. CASE \E n \in Saved :
               /\ hash' = n
               /\ Load("around", log[n], n \in ToSet(shown))
               /\ jumped' = (jumped \/ call' # call)
    <3>1. PICK n \in Saved : Load("around", log[n], n \in ToSet(shown)) /\ jumped' = (jumped \/ call' # call)
      BY <2>3
    <3>2. UNCHANGED <<status, call>> \/ Sends("around", log[n])
      BY <3>1, LoadIs
    <3>3. CASE UNCHANGED <<status, call>>
      BY <2>1, <3>1, <3>3 DEF Asks
    <3>4. CASE Sends("around", log[n])
      <4>1. call.kind = "none" /\ call'.kind = "around" /\ status # "loading" /\ status' = "loading"
        BY <3>4 DEF PieceInv, Loading, Sends
      <4>2. call' # call
        BY <4>1
      <4> QED
        BY <2>1, <3>1, <4>1, <4>2 DEF Asks
    <3> QED
      BY <3>2, <3>3, <3>4
  <2> QED
    BY <1>2, <2>2, <2>3 DEF Open
<1>3. CASE Fill
  <2>1. /\ UNCHANGED <<now, log, sent, wire, shown, start, stop, missed, late, jumped>>
        /\ Listed # {} /\ Load("before", sent[First], FALSE)
    BY <1>3 DEF Fill, server
  <2>2. UNCHANGED <<status, call>> \/ Sends("before", sent[First])
    BY <2>1, LoadIs
  <2>3. \/ UNCHANGED <<status, call>>
        \/ /\ status # "loading" /\ status' = "loading"
           /\ call'.kind = "before" /\ call'.at = sent[First]
    BY <2>2 DEF Sends
  <2> QED
    BY <2>1, <2>3 DEF Asks
<1>4. CASE Scrolled
  <2>1. /\ UNCHANGED <<now, log, sent, wire, shown, start, stop, missed, late, jumped>>
        /\ IF AtTop THEN Load("before", sent[view], FALSE) ELSE UNCHANGED <<status, call>>
    BY <1>4 DEF Scrolled, server
  <2>2. CASE AtTop
    <3>1. Listed # {} /\ view = First
      BY <2>2 DEF AtTop
    <3>2. UNCHANGED <<status, call>> \/ Sends("before", sent[First])
      BY <2>1, <2>2, <3>1, LoadIs
    <3>3. \/ UNCHANGED <<status, call>>
          \/ /\ status # "loading" /\ status' = "loading"
             /\ call'.kind = "before" /\ call'.at = sent[First]
      BY <3>2 DEF Sends
    <3> QED
      BY <2>1, <3>1, <3>3 DEF Asks
  <2>3. CASE ~AtTop
    BY <2>1, <2>3 DEF Asks
  <2> QED
    BY <2>2, <2>3
<1> QED
  BY <1>1, <1>2, <1>3, <1>4

\* Emit, Save, Tick: the log grows at its end, and time goes on.
LEMMA LogPiece ==
  ASSUME PieceInv, Emit \/ Save \/ Tick
  PROVE  PieceInv'
<1>1. /\ UNCHANGED <<shown, start, stop, missed, late, jumped, status, call>>
      /\ ServerType /\ Loading
  BY DEF PieceInv, Emit, Save, Tick, server, store
<1>2. ServerType'
  <2>1. CASE Emit
    <3>1. /\ Len(sent) = Len(log) /\ sent' = Append(sent, now)
          /\ wire' = Append(wire, Len(sent) + 1)
          /\ UNCHANGED <<now, log>>
      BY <2>1 DEF Emit
    <3>2. /\ now \in Nat /\ log \in Seq(Nat) /\ sent \in Seq(Nat) /\ wire \in Seq(Nat)
          /\ \A n \in 1..Len(log) : log[n] = sent[n]
          /\ \A m, n \in 1..Len(sent) : m <= n => sent[m] <= sent[n]
          /\ \A n \in 1..Len(sent) : sent[n] <= now
          /\ Len(wire) <= Len(sent) /\ \A i \in 1..Len(wire) : wire[i] = Len(sent) - Len(wire) + i
      BY <1>1 DEF ServerType, Delivered
    <3>3. /\ sent' \in Seq(Nat) /\ Len(sent') = Len(sent) + 1 /\ sent'[Len(sent) + 1] = now
          /\ \A n \in 1..Len(sent) : sent'[n] = sent[n]
      BY <3>1, <3>2, AppendIs
    <3>4. Len(sent) + 1 \in Nat
      BY <3>2
    <3>5. /\ wire' \in Seq(Nat) /\ Len(wire') = Len(wire) + 1
          /\ wire'[Len(wire) + 1] = Len(sent) + 1
          /\ \A i \in 1..Len(wire) : wire'[i] = wire[i]
      BY <3>1, <3>2, <3>4, AppendIs
    <3>6. ASSUME NEW m \in 1..Len(sent'), NEW n \in 1..Len(sent'), m <= n PROVE sent'[m] <= sent'[n]
      <4>1. Len(sent) \in Nat /\ m \in Nat /\ n \in Nat /\ n <= Len(sent) + 1 /\ m >= 1
        BY <3>2, <3>3
      <4>2. CASE n = Len(sent) + 1
        <5>1. CASE m = n
          BY <3>2, <3>3, <4>2, <5>1
        <5>2. CASE m # n
          <6>1. m \in 1..Len(sent)
            BY <3>6, <4>1, <4>2, <5>2
          <6> QED
            BY <3>2, <3>3, <4>2, <6>1
        <5> QED
          BY <5>1, <5>2
      <4>3. CASE n # Len(sent) + 1
        <5>1. n \in 1..Len(sent) /\ m \in 1..Len(sent)
          BY <3>6, <4>1, <4>3
        <5> QED
          BY <3>2, <3>3, <3>6, <5>1
      <4> QED
        BY <4>2, <4>3
    <3>7. \A n \in 1..Len(sent') : sent'[n] <= now'
      BY <3>1, <3>2, <3>3
    <3>8. ASSUME NEW i \in 1..Len(wire') PROVE wire'[i] = Len(sent') - Len(wire') + i
      <4>1. Len(sent) \in Nat /\ Len(wire) \in Nat
            /\ Len(sent') - Len(wire') = Len(sent) - Len(wire)
        BY <3>2, <3>3, <3>5
      <4>2. CASE i = Len(wire) + 1
        BY <3>5, <4>1, <4>2
      <4>3. CASE i # Len(wire) + 1
        <5>1. i \in 1..Len(wire)
          BY <3>5, <4>1, <4>3
        <5> QED
          BY <3>2, <3>5, <4>1, <5>1
      <4> QED
        BY <4>2, <4>3
    <3>9. Len(wire') <= Len(sent') /\ Len(sent') = Len(log') + 1
          /\ \A n \in 1..Len(log') : log'[n] = sent'[n]
      BY <3>1, <3>2, <3>3, <3>5
    <3> QED
      BY <3>1, <3>2, <3>3, <3>5, <3>6, <3>7, <3>8, <3>9 DEF ServerType, Delivered
  <2>2. CASE Save
    BY <1>1, <2>2 DEF Save, ServerType, Delivered
  <2>3. CASE Tick
    BY <1>1, <2>3 DEF Tick, ServerType, Delivered
  <2> QED
    BY <2>1, <2>2, <2>3
<1>3. /\ Len(sent) \in Nat /\ Len(sent') \in Nat /\ Len(sent) <= Len(sent')
      /\ Delivered' = Delivered /\ Delivered <= Len(sent)
      /\ Delivered \in Nat
      /\ \A n \in 1..Len(sent) : sent'[n] = sent[n] /\ sent[n] \in Nat
      /\ now \in Nat /\ now' \in Nat /\ now <= now'
  <2>0. /\ now \in Nat /\ sent \in Seq(Nat) /\ wire \in Seq(Nat)
        /\ Len(wire) <= Len(sent)
    BY <1>1 DEF ServerType
  <2>1. CASE Emit
    <3>1. sent' = Append(sent, now) /\ wire' = Append(wire, Len(sent) + 1) /\ now' = now
      BY <2>1 DEF Emit
    <3>2. /\ Len(sent') = Len(sent) + 1 /\ \A n \in 1..Len(sent) : sent'[n] = sent[n] /\ sent[n] \in Nat
      BY <2>0, <3>1, AppendIs
    <3>3. Len(sent) \in Nat /\ Len(wire) \in Nat /\ Len(wire') = Len(wire) + 1
      BY <2>0, <3>1, AppendIs
    <3> QED
      BY <2>0, <3>1, <3>2, <3>3 DEF Delivered
  <2>2. CASE Save \/ Tick
    <3>1. UNCHANGED <<sent, wire>> /\ (now' = now \/ now' = now + 1)
      BY <2>2 DEF Save, Tick
    <3>2. Delivered' = Delivered
      BY <3>1 DEF Delivered
    <3>3. Len(sent) \in Nat /\ Len(wire) \in Nat /\ \A n \in 1..Len(sent) : sent[n] \in Nat
      BY <2>0
    <3> QED
      BY <2>0, <3>1, <3>2, <3>3 DEF Delivered
  <2> QED
    BY <2>1, <2>2
<1>4. Loading'
  BY <1>1 DEF Loading
<1>5. ASSUME ~jumped' PROVE ListInv' /\ Started' /\ Awaited'
  <2>1. ListInv /\ Started /\ Awaited /\ ListType
    BY <1>1, <1>5 DEF PieceInv, ListInv
  <2>2. Listed' = Listed /\ First' = First /\ (Listed # {} => First \in 1..Len(sent))
    <3>1. Listed' = Listed /\ First' = First
      BY <1>1 DEF Listed, First
    <3>2. ASSUME Listed # {} PROVE First \in 1..Len(sent)
      BY <2>1, <3>2, FirstIs DEF ListType
    <3> QED
      BY <3>1, <3>2
  <2>3. /\ shown \in Seq(Nat) /\ \A i \in 1..Len(shown) : shown[i] \in 0..Len(sent)
    BY <2>1 DEF ListType
  <2>4. \A n \in 1..Len(sent) : Old(n) => Old(n)'
    <3>1. Year \in Nat
      BY SizeAssumption
    <3> QED
      BY <1>3, <3>1 DEF Old
  <2>5. ListType' /\ Rising' /\ Ahead'
    BY <1>1, <1>3, <2>1 DEF ListInv, ListType, Rising, Ahead
  <2>6. Chained'
    <3> SUFFICES ASSUME NEW i \in 1..Len(shown), NEW j \in 1..Len(shown), Follows(i, j), shown[j] \notin late,
                        NEW n \in (shown[i] + 1)..(shown[j] - 1), n \notin missed
                 PROVE  sent'[n] = sent'[shown[j]]
      BY <1>1 DEF Chained, Follows
    <3>1. sent[n] = sent[shown[j]]
      BY <2>1 DEF ListInv, Chained
    <3>2. n \in 1..Len(sent) /\ shown[j] \in 1..Len(sent)
      <4>1. shown[i] \in Nat /\ shown[j] \in Nat /\ shown[j] <= Len(sent)
        <5>1. shown[i] \in Nat
          BY <2>3
        <5>2. shown[j] \in Nat /\ shown[j] <= Len(sent)
          BY <2>3
        <5> QED
          BY <5>1, <5>2
      <4>2. n \in Nat /\ n >= 1 /\ n + 1 <= shown[j]
        BY <4>1
      <4> QED
        BY <1>3, <4>1, <4>2
    <3> QED
      BY <1>3, <3>1, <3>2
  <2>7. Covered'
    <3>1. ASSUME stop, NEW l \in 0..Len(sent'), IsLast(l)' PROVE (l + 1)..Delivered \subseteq missed
      <4>1. IsLast(l) /\ l \in 0..Len(sent)
        BY <1>1, <1>3, <2>3, <3>1 DEF IsLast
      <4> QED
        BY <2>1, <3>1, <4>1 DEF ListInv, Covered
    <3> QED
      BY <1>1, <1>3, <2>1, <3>1 DEF ListInv, Covered
  <2>8. Started'
    <3> SUFFICES ASSUME start, status = "success", Listed # {}, NEW n \in 1..(First - 1), n \notin missed
                 PROVE  sent'[n] = sent'[First] \/ Old(n)'
      BY <1>1, <2>2 DEF Started
    <3>1. sent[n] = sent[First] \/ Old(n)
      BY <2>1 DEF Started
    <3>2. n \in 1..Len(sent) /\ First \in 1..Len(sent)
      BY <1>3, <2>2
    <3> QED
      BY <1>3, <2>4, <3>1, <3>2
  <2>9. ASSUME NEW e \in 0..Len(sent), NEW b \in 1..(e + 1), Fits(b, e) PROVE Fits(b, e)'
    <3>1. ASSUME NEW n \in 1..(b - 1), Old(n) PROVE Old(n)'
      <4>1. n \in 1..Len(sent)
        BY <1>3
      <4> QED
        BY <2>4, <3>1, <4>1
    <3>2. ASSUME Listed # {}, NEW n \in 1..(First - 1)
          PROVE  (sent[n] = sent[First] => sent'[n] = sent'[First]) /\ (Old(n) => Old(n)')
      <4>1. n \in 1..Len(sent) /\ First \in 1..Len(sent)
        BY <1>3, <2>2, <3>2
      <4> QED
        BY <1>3, <2>4, <4>1
    <3>3. ASSUME Listed # {} PROVE \A n \in (e + 1)..(First - 1) : n \in 1..(First - 1)
      BY <2>2, <3>3
    <3> QED
      BY <1>1, <2>2, <2>9, <3>1, <3>2, <3>3 DEF Fits
  <2>10. Awaited'
    <3>1. call.kind = "around" => call.at \in Nat /\ call.at <= now'
      BY <1>3, <2>1 DEF Awaited
    <3>2. call.kind = "before" => Listed # {} /\ call.at = sent'[First]
      BY <1>3, <2>1, <2>2 DEF Awaited
    <3>3. ASSUME call.kind = "answer" PROVE \E e \in 0..Len(sent') : \E b \in 1..(e + 1) : Fits(b, e)'
      <4>1. PICK e \in 0..Len(sent) : \E b \in 1..(e + 1) : Fits(b, e)
        BY <2>1, <3>3 DEF Awaited
      <4>2. PICK b \in 1..(e + 1) : Fits(b, e)
        BY <4>1
      <4>3. e \in 0..Len(sent') /\ Fits(b, e)'
        BY <1>3, <2>9, <4>2
      <4> QED
        BY <4>3
    <3> QED
      BY <1>1, <2>1, <2>2, <3>1, <3>2, <3>3 DEF Awaited
  <2> QED
    BY <2>5, <2>6, <2>7, <2>8, <2>10 DEF ListInv
<1> QED
  BY <1>2, <1>4, <1>5 DEF PieceInv

LEMMA WireIs ==
  ASSUME ServerType
  PROVE  ToSet(wire) = (Delivered + 1)..Len(sent) /\ Delivered \in Nat /\ Len(sent) \in Nat
         /\ Delivered <= Len(sent)
<1>1. /\ Len(sent) \in Nat /\ Len(wire) \in Nat /\ Len(wire) <= Len(sent)
      /\ Delivered = Len(sent) - Len(wire)
      /\ DOMAIN wire = 1..Len(wire) /\ \A i \in 1..Len(wire) : wire[i] = Delivered + i
  BY DEF ServerType, Delivered
<1>2. Delivered \in Nat /\ Delivered <= Len(sent)
  BY <1>1
<1>3. ASSUME NEW n \in (Delivered + 1)..Len(sent) PROVE n \in ToSet(wire)
  <2>1. n - Delivered \in 1..Len(wire)
    BY <1>1, <1>2
  <2>2. wire[n - Delivered] = n
    BY <1>1, <1>2, <2>1
  <2> QED
    BY <1>1, <2>1, <2>2 DEF ToSet
<1>4. ASSUME NEW i \in 1..Len(wire) PROVE wire[i] \in (Delivered + 1)..Len(sent)
  BY <1>1, <1>2
<1> QED
  BY <1>1, <1>2, <1>3, <1>4 DEF ToSet

\* A list that gets a notice, or the next message, at its end.
LEMMA AppendPiece ==
  ASSUME PieceInv, ~jumped, NEW h \in 0..Len(sent), shown' = Append(shown, h), ServerType',
         UNCHANGED <<now, log, sent, start, stop, status, call, missed, late, jumped>>,
         \/ h = 0 /\ Delivered' = Delivered
         \/ h = Delivered + 1 /\ Delivered' = Delivered + 1 /\ stop
  PROVE  ListInv' /\ Started' /\ Awaited'
<1> DEFINE N == Len(shown)
<1>1. /\ ServerType /\ ListType /\ shown \in Seq(Nat) /\ N \in Nat /\ h \in Nat
      /\ \A i \in 1..N : shown[i] \in Nat /\ shown[i] <= Len(sent)
      /\ Delivered \in Nat /\ Len(sent) \in Nat /\ Delivered <= Len(sent)
  BY WireIs DEF PieceInv, ListInv, ListType
<1>2. /\ shown' \in Seq(Nat) /\ Len(shown') = N + 1 /\ shown'[N + 1] = h
      /\ \A i \in 1..N : shown'[i] = shown[i]
  BY <1>1, AppendIs
<1>3. \A i \in 1..(N + 1) : i \in 1..N \/ i = N + 1
  BY <1>1
<1> HIDE DEF N
<1>4. ListType'
  BY <1>1, <1>2, <1>3 DEF ListType
<1>5. Rising /\ Chained /\ Ahead /\ Covered /\ Started /\ Awaited
  BY DEF PieceInv, ListInv
<1>6. ASSUME NEW i \in 1..N, shown[i] # 0, h # 0 PROVE shown[i] < h \/ h \in late
  <2>1. h = Delivered + 1 /\ shown[i] \in Nat
    BY <1>1, <1>6
  <2>2. CASE shown[i] <= Delivered
    BY <1>1, <2>1, <2>2
  <2>3. CASE ~(shown[i] <= Delivered)
    <3>1. h \in (Delivered + 1)..shown[i]
      BY <1>1, <2>1, <2>3
    <3> QED
      BY <1>5, <3>1 DEF Ahead, N
  <2> QED
    BY <2>2, <2>3
<1>7. Rising'
  <2> SUFFICES ASSUME NEW i \in 1..(N + 1), NEW j \in 1..(N + 1), i < j, shown'[i] # 0, shown'[j] # 0
               PROVE  shown'[i] < shown'[j] \/ shown'[j] \in late
    BY <1>2 DEF Rising
  <2>1. i \in 1..N
    BY <1>1
  <2>2. CASE j \in 1..N
    BY <1>2, <1>5, <2>1, <2>2 DEF Rising, N
  <2>3. CASE j = N + 1
    BY <1>2, <1>6, <2>1, <2>3
  <2> QED
    BY <1>3, <2>2, <2>3
<1>8. Chained'
  <2> SUFFICES ASSUME NEW i \in 1..(N + 1), NEW j \in 1..(N + 1), Follows(i, j)', shown'[j] \notin late,
                      NEW n \in (shown'[i] + 1)..(shown'[j] - 1), n \notin missed
               PROVE  sent[n] = sent[shown'[j]]
    <3>1. UNCHANGED <<sent, missed, late>> /\ Len(shown') = N + 1
      BY <1>2
    <3> QED
      BY <3>1 DEF Chained
  <2>1. i < j /\ i \in 1..N /\ shown'[i] # 0 /\ shown'[j] # 0
        /\ \A k \in (i + 1)..(j - 1) : k \in 1..N /\ shown'[k] = 0
    <3>1. i < j /\ shown'[i] # 0 /\ shown'[j] # 0 /\ \A k \in (i + 1)..(j - 1) : shown'[k] = 0
      BY DEF Follows
    <3>2. i \in 1..N /\ \A k \in (i + 1)..(j - 1) : k \in 1..N
      BY <1>1, <3>1
    <3> QED
      BY <3>1, <3>2
  <2>2. CASE j \in 1..N
    <3>1. Follows(i, j)
      BY <1>2, <2>1, <2>2 DEF Follows
    <3> QED
      BY <1>2, <1>5, <2>1, <2>2, <3>1 DEF Chained, N
  <2>3. CASE j = N + 1
    <3>1. h = Delivered + 1 /\ stop /\ shown'[i] = shown[i] /\ shown[i] \in Nat /\ shown[i] # 0
      BY <1>1, <1>2, <2>1, <2>3
    <3>2. IsLast(shown[i])
      <4>1. \A k \in 1..N : k > i => k \in (i + 1)..(j - 1) /\ shown'[k] = shown[k]
        BY <1>1, <1>2, <2>3
      <4> QED
        BY <2>1, <3>1, <4>1 DEF IsLast, N
    <3>3. (shown[i] + 1)..Delivered \subseteq missed
      <4>1. shown[i] \in 0..Len(sent)
        BY <1>1, <2>1
      <4> QED
        BY <1>5, <3>1, <3>2, <4>1 DEF Covered
    <3>4. n \in (shown[i] + 1)..Delivered
      BY <1>1, <1>2, <2>3, <3>1
    <3> QED
      BY <3>3, <3>4
  <2> QED
    BY <1>3, <2>2, <2>3
<1>9. Ahead'
  <2> SUFFICES ASSUME NEW i \in 1..(N + 1), NEW n \in (Delivered' + 1)..shown'[i]
               PROVE  n \in late
    BY <1>2 DEF Ahead
  <2>1. CASE i \in 1..N
    <3>1. n \in (Delivered + 1)..shown[i]
      BY <1>1, <1>2, <2>1
    <3> QED
      BY <1>5, <2>1, <3>1 DEF Ahead, N
  <2>2. CASE i = N + 1
    BY <1>1, <1>2, <2>2
  <2> QED
    BY <1>3, <2>1, <2>2
<1>10. Covered'
  <2>1. ASSUME stop, NEW l \in 0..Len(sent), IsLast(l)' PROVE (l + 1)..Delivered' \subseteq missed
    <3>1. CASE h = 0
      <4>1. IsLast(l)
        <5>1. CASE l = 0
          BY <1>2, <1>3, <2>1, <5>1 DEF IsLast, N
        <5>2. CASE l # 0
          <6>1. PICK k \in 1..(N + 1) : l = shown'[k] /\ \A i \in 1..(N + 1) : i > k => shown'[i] = 0
            BY <1>2, <2>1, <5>2 DEF IsLast
          <6>2. k \in 1..N
            BY <1>2, <1>3, <3>1, <5>2, <6>1
          <6>3. l = shown[k] /\ \A i \in 1..N : i > k => shown[i] = 0
            BY <1>1, <1>2, <6>1, <6>2
          <6> QED
            BY <5>2, <6>2, <6>3 DEF IsLast, N
        <5> QED
          BY <5>1, <5>2
      <4> QED
        BY <1>1, <1>5, <2>1, <3>1, <4>1 DEF Covered
    <3>2. CASE h # 0
      <4>1. l = h
        <5>1. N + 1 \in 1..(N + 1) /\ shown'[N + 1] # 0
          BY <1>1, <1>2, <3>2
        <5>2. l # 0
          BY <1>2, <2>1, <5>1 DEF IsLast
        <5>3. PICK k \in 1..(N + 1) : l = shown'[k] /\ \A i \in 1..(N + 1) : i > k => shown'[i] = 0
          BY <1>2, <2>1, <5>2 DEF IsLast
        <5>4. ~(N + 1 > k)
          BY <5>1, <5>3
        <5> QED
          BY <1>1, <1>2, <1>3, <5>3, <5>4
      <4> QED
        BY <1>1, <3>2, <4>1
    <3> QED
      BY <3>1, <3>2
  <2>2. ASSUME ~stop PROVE \A i \in 1..(N + 1) : shown'[i] = 0
    <3>1. h = 0 /\ \A i \in 1..N : shown[i] = 0
      BY <1>5, <2>2 DEF Covered, N
    <3> QED
      BY <1>2, <1>3, <3>1
  <2> QED
    BY <1>2, <2>1, <2>2 DEF Covered
<1>11. ASSUME Listed # {} PROVE Listed' # {} /\ First' = First
  <2>1. PICK k \in 1..N : shown[k] # 0 /\ First = shown[k] /\ \A i \in 1..(k - 1) : shown[i] = 0
    BY <1>1, <1>11, FirstIs DEF N
  <2>2. /\ k \in 1..Len(shown') /\ shown'[k] = shown[k]
        /\ \A i \in 1..(k - 1) : i \in 1..N /\ shown'[i] = 0
    BY <1>1, <1>2, <2>1
  <2> QED
    BY <1>2, <2>1, <2>2, FirstNext
<1>12. Started'
  <2> SUFFICES ASSUME start, status = "success", Listed' # {}, NEW n \in 1..(First' - 1)
               PROVE  n \in missed \/ sent[n] = sent[First'] \/ Old(n)
    BY DEF Started, Old
  <2>1. CASE Listed # {}
    BY <1>5, <1>11, <2>1 DEF Started
  <2>2. CASE Listed = {}
    <3>1. \A i \in 1..N : shown[i] = 0
      <4>1. ASSUME NEW i \in 1..N, shown[i] # 0 PROVE shown[i] \in Listed
        BY <1>1, <4>1 DEF Listed, ToSet, N
      <4> QED
        BY <2>2, <4>1
    <3>2. PICK k \in 1..(N + 1) : shown'[k] # 0 /\ First' = shown'[k]
      BY <1>2, ListedNext
    <3>3. k = N + 1 /\ First' = h /\ h # 0
      BY <1>2, <1>3, <3>1, <3>2
    <3>4. h = Delivered + 1 /\ stop /\ IsLast(0) /\ 0 \in 0..Len(sent)
      BY <1>1, <3>1, <3>3 DEF IsLast, N
    <3>5. 1..Delivered \subseteq missed
      BY <1>5, <3>4 DEF Covered
    <3> QED
      BY <1>1, <3>3, <3>4, <3>5
  <2> QED
    BY <2>1, <2>2
<1>13. Awaited'
  <2>1. ASSUME NEW b, NEW e, Fits(b, e) PROVE Fits(b, e)'
    BY <1>11, <2>1 DEF Fits, Old
  <2> QED
    BY <1>5, <1>11, <2>1 DEF Awaited
<1> QED
  BY <1>4, <1>7, <1>8, <1>9, <1>10, <1>12, <1>13 DEF ListInv

LEMMA DeliverPiece ==
  ASSUME PieceInv, Deliver \/ Notice
  PROVE  PieceInv'
<1>1. UNCHANGED <<now, log, sent, start, stop, status, call, missed, late, jumped>>
  BY DEF Deliver, Notice, server
<1>2. /\ ServerType /\ wire \in Seq(Nat) /\ Len(wire) <= Len(sent) /\ Len(sent) \in Nat
      /\ Len(wire) \in Nat
      /\ Delivered = Len(sent) - Len(wire) /\ Delivered \in Nat
      /\ \A i \in 1..Len(wire) : wire[i] = Delivered + i
  BY WireIs DEF PieceInv, ServerType, Delivered
<1>0. Loading'
  BY <1>1 DEF PieceInv, Loading
<1>3. CASE Notice
  <2>1. shown' = Append(shown, 0) /\ wire' = wire
    BY <1>3 DEF Notice
  <2>2. ServerType' /\ Delivered' = Delivered
    BY <1>1, <1>2, <2>1 DEF ServerType, Delivered
  <2>3. 0 \in 0..Len(sent)
    BY <1>2
  <2>4. ~jumped => ListInv' /\ Started' /\ Awaited'
    BY <1>1, <2>1, <2>2, <2>3, AppendPiece
  <2> QED
    BY <1>0, <1>1, <2>2, <2>4 DEF PieceInv
<1>4. CASE Deliver
  <2>1. wire # <<>> /\ wire' = Tail(wire)
        /\ shown' = IF stop THEN Append(shown, Head(wire)) ELSE shown
    BY <1>4 DEF Deliver
  <2>2. /\ wire' \in Seq(Nat) /\ Len(wire') = Len(wire) - 1 /\ Len(wire) > 0
        /\ \A i \in 1..Len(wire') : i + 1 \in 1..Len(wire) /\ wire'[i] = wire[i + 1]
        /\ Head(wire) = wire[1] /\ 1 \in 1..Len(wire)
    BY <1>2, <2>1
  <2>3. Head(wire) = Delivered + 1 /\ Delivered' = Delivered + 1 /\ Delivered + 1 \in 0..Len(sent)
    BY <1>1, <1>2, <2>2 DEF Delivered
  <2>4. \A i \in 1..Len(wire') : wire'[i] = Delivered' + i
    BY <1>2, <2>2, <2>3
  <2>5. Len(wire') <= Len(sent)
    BY <1>2, <2>2
  <2>6. ServerType'
    BY <1>1, <1>2, <2>2, <2>4, <2>5 DEF ServerType
  <2>7. CASE stop
    <3>1. ~jumped => ListInv' /\ Started' /\ Awaited'
      BY <1>1, <2>1, <2>3, <2>6, <2>7, AppendPiece
    <3> QED
      BY <1>0, <1>1, <2>6, <3>1 DEF PieceInv
  <2>8. CASE ~stop
    <3>1. shown' = shown
      BY <2>1, <2>8
    <3>3. ASSUME ~jumped PROVE ListInv' /\ Started' /\ Awaited'
      <4>1. ListInv /\ Started /\ Awaited
        BY <3>3 DEF PieceInv
      <4>2. \A i \in 1..Len(shown) : shown[i] = 0
        BY <2>8, <4>1 DEF ListInv, Covered
      <4>3. Covered' /\ Rising' /\ Chained'
        BY <1>1, <2>8, <3>1, <4>2 DEF Covered, Rising, Chained, Follows
      <4>4. Ahead' /\ ListType'
        <5>1. ListType'
          BY <1>1, <3>1, <4>1 DEF ListInv, ListType
        <5>2. Ahead'
          BY <1>2, <2>3, <3>1, <4>2 DEF Ahead
        <5> QED
          BY <5>1, <5>2
      <4>5. Listed' = Listed /\ First' = First
        BY <3>1 DEF Listed, First
      <4>6. \A b, e : Fits(b, e)' <=> Fits(b, e)
        BY <1>1, <4>5 DEF Fits, Old
      <4>7. Started' /\ Awaited'
        BY <1>1, <4>1, <4>5, <4>6 DEF Started, Awaited, Old
      <4> QED
        BY <4>3, <4>4, <4>7 DEF ListInv
    <3> QED
      BY <1>0, <1>1, <2>6, <3>3 DEF PieceInv
  <2> QED
    BY <2>7, <2>8
<1> QED
  BY <1>3, <1>4

\* The list is loaded: all but the notices are replaced by a page.
LEMMA LoadedPiece ==
  ASSUME PieceInv, Answered, ~jumped, ~call.before, ServerType',
         NEW e \in 0..Len(sent), NEW b \in 1..(e + 1), Fits(b, e)
  PROVE  ListInv' /\ Started' /\ Awaited'
<1> DEFINE p == call.page
           m == e + 1 - b
           z == Notices(shown)
           N == Len(p) + Len(z)
<1>1. /\ call.kind = "answer" /\ shown' = p \o z
      /\ status' = (IF call.ok THEN "success" ELSE "error")
      /\ start' = (call.end \/ Len(p) <= 1) /\ stop' /\ call' = NoCall
      /\ missed' = ((IF p = <<>> THEN 0 ELSE Last(p)) + 1..Len(sent)) \ ToSet(wire)
      /\ late'   = (1..(IF p = <<>> THEN 0 ELSE Last(p))) \cap ToSet(wire)
      /\ UNCHANGED <<now, log, sent, wire, jumped>>
  BY DEF Answered, Filled, EndOfStream, server
<1>2. /\ p = [i \in 1..(e + 1 - b) |-> b + i - 1]
      /\ e = 0 \/ b <= e
      /\ (call.ok /\ call.end) \/ (e # 0 /\ b = e) => \A n \in 1..(b - 1) : Old(n)
  BY DEF Fits
<1>3. /\ ToSet(wire) = (Delivered + 1)..Len(sent) /\ Delivered \in Nat /\ Len(sent) \in Nat
      /\ Delivered <= Len(sent)
      /\ Delivered' = Delivered /\ e \in Nat /\ b \in Nat /\ b >= 1 /\ b <= e + 1 /\ e <= Len(sent)
  BY <1>1, WireIs DEF PieceInv, Delivered
<1>4. p \in Seq(Nat) /\ Len(p) = m /\ \A i \in 1..m : p[i] = b + i - 1
  BY <1>2, <1>3, PieceIs
<1>5. z \in Seq(Nat) /\ \A i \in 1..Len(z) : z[i] = 0
  BY NoticesIs DEF PieceInv, ListInv, ListType
<1> HIDE DEF z, p
<1>6. m \in Nat /\ m = e + 1 - b /\ (e = 0 <=> m = 0) /\ (p = <<>> <=> e = 0)
  BY <1>2, <1>3, <1>4
<1> HIDE DEF m
<1>7. (IF p = <<>> THEN 0 ELSE Last(p)) = e
  <2>1. CASE e # 0
    BY <1>3, <1>4, <1>6, <2>1 DEF Last
  <2> QED
    BY <1>6, <2>1
<1>8. missed' = (e + 1)..Delivered /\ late' = (Delivered + 1)..e
  BY <1>1, <1>3, <1>7
<1>9. /\ shown' \in Seq(Nat) /\ Len(shown') = N /\ N \in Nat /\ m <= N
      /\ \A i \in 1..m : i \in 1..N /\ shown'[i] = b + i - 1
      /\ \A i \in 1..N : i \in 1..m \/ (i > m /\ shown'[i] = 0)
  <2>1. /\ shown' \in Seq(Nat) /\ Len(shown') = m + Len(z) /\ Len(z) \in Nat
        /\ \A i \in 1..m : shown'[i] = p[i]
        /\ \A i \in (m + 1)..(m + Len(z)) : shown'[i] = z[i - m]
    <3>1. /\ p \o z \in Seq(Nat) /\ Len(p \o z) = Len(p) + Len(z)
          /\ \A i \in 1..Len(p) : (p \o z)[i] = p[i]
          /\ \A i \in (Len(p) + 1)..(Len(p) + Len(z)) : (p \o z)[i] = z[i - Len(p)]
      BY <1>4, <1>5, ConcatIs
    <3>2. Len(z) \in Nat
      BY <1>5
    <3> QED
      BY <1>1, <1>4, <3>1, <3>2
  <2>2. ASSUME NEW i \in (m + 1)..(m + Len(z)) PROVE i - m \in 1..Len(z) /\ shown'[i] = 0
    <3>1. i - m \in 1..Len(z)
      <4>1. m \in Nat /\ Len(z) \in Nat
        BY <1>6, <2>1
      <4> QED
        BY <4>1
    <3> QED
      BY <1>5, <2>1, <3>1
  <2>3. N = m + Len(z) /\ N \in Nat /\ m <= N
    BY <1>4, <1>6, <2>1
  <2>4. ASSUME NEW i \in 1..m PROVE i \in 1..N /\ shown'[i] = b + i - 1
    <3>1. shown'[i] = p[i] /\ p[i] = b + i - 1
      BY <1>4, <2>1
    <3>2. i \in 1..N
      BY <1>6, <2>3
    <3> QED
      BY <3>1, <3>2
  <2>5. ASSUME NEW i \in 1..N PROVE i \in 1..m \/ (i > m /\ shown'[i] = 0)
    <3>1. i \in 1..m \/ i \in (m + 1)..(m + Len(z))
      BY <1>6, <2>1, <2>3
    <3>2. i \in (m + 1)..(m + Len(z)) => i > m
      BY <1>6, <2>1
    <3> QED
      BY <2>2, <3>1, <3>2
  <2> QED
    BY <2>1, <2>3, <2>4, <2>5
<1> HIDE DEF N
<1>10. \A i \in 1..N : shown'[i] # 0 => i \in 1..m /\ shown'[i] = b + i - 1
  BY <1>9
<1>11. ListType'
  <2>1. ASSUME NEW i \in 1..N PROVE shown'[i] <= Len(sent)
    <3>1. CASE shown'[i] # 0
      <4>1. i \in 1..m /\ shown'[i] = b + i - 1
        BY <1>10, <3>1
      <4> QED
        BY <1>3, <1>6, <4>1
    <3> QED
      BY <1>3, <3>1
  <2> QED
    BY <1>1, <1>9, <2>1 DEF ListType
<1>12. Rising'
  <2> SUFFICES ASSUME NEW i \in 1..N, NEW j \in 1..N, i < j, shown'[i] # 0, shown'[j] # 0
               PROVE  shown'[i] < shown'[j]
    BY <1>9 DEF Rising
  <2> QED
    BY <1>3, <1>10
<1>13. Chained'
  <2> SUFFICES ASSUME NEW i \in 1..N, NEW j \in 1..N, Follows(i, j)',
                      NEW n \in (shown'[i] + 1)..(shown'[j] - 1)
               PROVE  FALSE
    BY <1>9 DEF Chained
  <2>1. i < j /\ shown'[i] # 0 /\ shown'[j] # 0 /\ \A k \in (i + 1)..(j - 1) : shown'[k] = 0
    BY DEF Follows
  <2>2. i \in 1..m /\ j \in 1..m /\ shown'[i] = b + i - 1 /\ shown'[j] = b + j - 1
    BY <1>10, <2>1
  <2>3. CASE i + 1 = j
    BY <1>3, <2>2, <2>3
  <2>4. CASE i + 1 # j
    <3>1. i + 1 \in (i + 1)..(j - 1) /\ i + 1 \in 1..m
      BY <1>6, <2>1, <2>2, <2>4
    <3>2. shown'[i + 1] = b + (i + 1) - 1
      BY <1>9, <3>1
    <3> QED
      BY <1>3, <2>1, <3>1, <3>2
  <2> QED
    BY <2>3, <2>4
<1>14. Ahead'
  <2> SUFFICES ASSUME NEW i \in 1..N, NEW n \in (Delivered + 1)..shown'[i] PROVE n \in late'
    BY <1>3, <1>9 DEF Ahead
  <2>1. CASE shown'[i] = 0
    BY <1>3, <2>1
  <2>2. CASE shown'[i] # 0
    <3>1. i \in 1..m /\ shown'[i] = b + i - 1
      BY <1>10, <2>2
    <3>2. shown'[i] <= e
      BY <1>3, <1>6, <3>1
    <3> QED
      BY <1>3, <1>8, <3>1, <3>2
  <2> QED
    BY <2>1, <2>2
<1>15. Covered'
  <2> SUFFICES ASSUME NEW l \in 0..Len(sent), IsLast(l)' PROVE (l + 1)..Delivered \subseteq missed'
    BY <1>1, <1>3 DEF Covered
  <2>1. l = e
    <3>1. CASE e = 0
      <4>1. \A i \in 1..N : shown'[i] = 0
        BY <1>6, <1>9, <3>1
      <4> QED
        BY <1>9, <3>1, <4>1 DEF IsLast
    <3>2. CASE e # 0
      <4>1. m \in 1..m /\ m \in 1..N /\ shown'[m] = e
        BY <1>3, <1>6, <1>9, <3>2
      <4>2. l # 0
        BY <1>9, <3>2, <4>1 DEF IsLast
      <4>3. PICK k \in 1..N : l = shown'[k] /\ \A i \in 1..N : i > k => shown'[i] = 0
        BY <1>9, <4>2 DEF IsLast
      <4>4. k \in 1..m
        BY <1>10, <4>2, <4>3
      <4>5. ~(m > k)
        BY <3>2, <4>1, <4>3
      <4> QED
        BY <1>6, <4>1, <4>3, <4>4, <4>5
    <3> QED
      BY <3>1, <3>2
  <2> QED
    BY <1>8, <2>1
<1>16. Started'
  <2> SUFFICES ASSUME start', status' = "success", Listed' # {}, NEW n \in 1..(First' - 1)
               PROVE  Old(n)
    BY <1>1 DEF Started, Old
  <2>1. PICK k \in 1..N : shown'[k] # 0 /\ First' = shown'[k] /\ \A i \in 1..(k - 1) : shown'[i] = 0
    BY <1>9, ListedNext
  <2>2. k \in 1..m /\ First' = b + k - 1
    BY <1>10, <2>1
  <2>3. k = 1
    <3>1. 1 \in 1..m /\ shown'[1] # 0
      BY <1>3, <1>6, <1>9, <2>2
    <3>2. ~(1 \in 1..(k - 1))
      BY <2>1, <3>1
    <3> QED
      BY <2>2, <3>2
  <2>4. e # 0 /\ First' = b
    BY <1>3, <1>6, <2>2, <2>3
  <2>5. call.ok
    BY <1>1
  <2>6. call.end \/ b = e
    <3>1. call.end \/ m <= 1
      BY <1>1, <1>4
    <3>2. b <= e
      BY <1>2, <2>4
    <3> QED
      BY <1>3, <1>6, <3>1, <3>2
  <2> QED
    BY <1>2, <2>4, <2>5, <2>6
<1>17. Awaited'
  BY <1>1 DEF Awaited, NoCall
<1> QED
  BY <1>11, <1>12, <1>13, <1>14, <1>15, <1>16, <1>17 DEF ListInv

\* An older page goes before what is there.
LEMMA OlderPiece ==
  ASSUME PieceInv, Answered, ~jumped, call.before, ServerType',
         NEW e \in 0..Len(sent), NEW b \in 1..(e + 1), Fits(b, e)
  PROVE  ListInv' /\ Started' /\ Awaited'
<1> DEFINE p == call.page
           m == e + 1 - b
           N == Len(shown)
<1>1. /\ call.kind = "answer" /\ shown' = p \o shown
      /\ status' = (IF call.ok THEN "success" ELSE "error")
      /\ start' = (call.end \/ Len(p) <= 1) /\ (stop => stop') /\ call' = NoCall
      /\ UNCHANGED <<now, log, sent, wire, jumped, missed, late>>
  BY DEF Answered, Filled, EndOfStream, server
<1>2. /\ p = [i \in 1..(e + 1 - b) |-> b + i - 1]
      /\ e = 0 \/ b <= e
      /\ (call.ok /\ call.end) \/ (e # 0 /\ b = e) => \A n \in 1..(b - 1) : Old(n)
      /\ Listed # {}
      /\ e # 0 => e < First /\ \A n \in (e + 1)..(First - 1) : sent[n] = sent[First]
      /\ e = 0 /\ call.ok => \A n \in 1..(First - 1) : sent[n] = sent[First] \/ Old(n)
  BY DEF Fits
<1>3. /\ Delivered \in Nat /\ Len(sent) \in Nat /\ Delivered <= Len(sent)
      /\ Delivered' = Delivered /\ e \in Nat /\ b \in Nat /\ b >= 1 /\ b <= e + 1 /\ e <= Len(sent)
  BY <1>1, WireIs DEF PieceInv, Delivered
<1>4. p \in Seq(Nat) /\ Len(p) = m /\ \A i \in 1..m : p[i] = b + i - 1
  BY <1>2, <1>3, PieceIs
<1>5. /\ shown \in Seq(Nat) /\ N \in Nat /\ \A i \in 1..N : shown[i] \in Nat /\ shown[i] <= Len(sent)
      /\ Rising /\ Chained /\ Ahead /\ Covered /\ ListType
  BY DEF PieceInv, ListInv, ListType
<1> HIDE DEF p
<1>6. m \in Nat /\ m = e + 1 - b /\ (e = 0 <=> m = 0)
  BY <1>2, <1>3
<1> HIDE DEF m
<1>7. /\ shown' \in Seq(Nat) /\ Len(shown') = m + N
      /\ \A i \in 1..m : shown'[i] = b + i - 1
      /\ \A i \in (m + 1)..(m + N) : shown'[i] = shown[i - m]
  <2>1. /\ p \o shown \in Seq(Nat) /\ Len(p \o shown) = Len(p) + N
        /\ \A i \in 1..Len(p) : (p \o shown)[i] = p[i]
        /\ \A i \in (Len(p) + 1)..(Len(p) + N) : (p \o shown)[i] = shown[i - Len(p)]
    BY <1>4, <1>5, ConcatIs
  <2> QED
    BY <1>1, <1>4, <2>1
<1> HIDE DEF N
\* Where an index of the new list lies.
<1>8. ASSUME NEW i \in 1..(m + N)
      PROVE  \/ i \in 1..m /\ shown'[i] = b + i - 1 /\ shown'[i] # 0 /\ shown'[i] <= e /\ e # 0
             \/ i > m /\ i - m \in 1..N /\ shown'[i] = shown[i - m]
  <2>1. CASE i <= m
    BY <1>3, <1>6, <1>7, <2>1
  <2>2. CASE ~(i <= m)
    <3>1. i \in (m + 1)..(m + N) /\ i - m \in 1..N
      BY <1>5, <1>6, <2>2
    <3> QED
      BY <1>6, <1>7, <3>1
  <2> QED
    BY <2>1, <2>2
<1>9. ASSUME NEW i \in 1..N PROVE i + m \in 1..(m + N) /\ i + m > m /\ shown'[i + m] = shown[i]
  <2>1. i + m \in (m + 1)..(m + N) /\ (i + m) - m = i
    BY <1>5, <1>6
  <2> QED
    BY <1>6, <1>7, <2>1
<1>10. PICK f \in 1..N : shown[f] # 0 /\ First = shown[f] /\ \A i \in 1..(f - 1) : shown[i] = 0
  BY <1>2, <1>5, FirstIs DEF N
<1>11. First \in 1..Len(sent)
  BY <1>3, <1>5, <1>10
<1>12. ASSUME NEW i \in 1..N, shown[i] # 0 PROVE f <= i /\ (First <= shown[i] \/ shown[i] \in late)
  <2>1. f <= i
    BY <1>10, <1>12
  <2>2. CASE i = f
    BY <1>5, <1>10, <2>2
  <2>3. CASE i # f
    <3>1. First < shown[i] \/ shown[i] \in late
      BY <1>5, <1>10, <1>12, <2>1, <2>3 DEF Rising, N
    <3> QED
      BY <1>5, <1>11, <2>1, <3>1
  <2> QED
    BY <2>2, <2>3, <2>1
<1>13. Rising'
  <2> SUFFICES ASSUME NEW i \in 1..(m + N), NEW j \in 1..(m + N), i < j, shown'[i] # 0, shown'[j] # 0
               PROVE  shown'[i] < shown'[j] \/ shown'[j] \in late
    BY <1>1, <1>7 DEF Rising
  <2>1. CASE j <= m
    <3>1. i \in 1..m /\ j \in 1..m
      BY <1>6, <2>1
    <3> QED
      BY <1>3, <1>7, <3>1
  <2>2. CASE ~(j <= m)
    <3>1. j - m \in 1..N /\ shown'[j] = shown[j - m]
      BY <1>6, <1>8, <2>2
    <3>2. CASE i <= m
      <4>1. shown'[i] <= e /\ e # 0 /\ shown'[i] \in Nat
        BY <1>3, <1>6, <1>8, <3>2
      <4>2. First <= shown[j - m] \/ shown[j - m] \in late
        BY <1>12, <3>1
      <4> QED
        <5>1. e < First /\ First \in Nat /\ shown[j - m] \in Nat
          BY <1>2, <1>5, <1>11, <3>1, <4>1
        <5>2. First <= shown[j - m] => shown'[i] < shown[j - m]
          BY <1>3, <4>1, <5>1
        <5> QED
          BY <3>1, <4>2, <5>2
    <3>3. CASE ~(i <= m)
      <4>1. i - m \in 1..N /\ shown'[i] = shown[i - m] /\ i - m < j - m
        BY <1>6, <1>8, <3>3
      <4> QED
        BY <1>5, <3>1, <4>1 DEF Rising, N
    <3> QED
      BY <3>2, <3>3
  <2> QED
    BY <2>1, <2>2
<1>14. Chained'
  <2> SUFFICES ASSUME NEW i \in 1..(m + N), NEW j \in 1..(m + N), Follows(i, j)', shown'[j] \notin late,
                      NEW n \in (shown'[i] + 1)..(shown'[j] - 1), n \notin missed
               PROVE  sent[n] = sent[shown'[j]]
    <3>1. UNCHANGED <<sent, missed, late>> /\ Len(shown') = m + N
      BY <1>1, <1>7
    <3> QED
      BY <3>1 DEF Chained
  <2>1. i < j /\ shown'[i] # 0 /\ shown'[j] # 0 /\ \A k \in (i + 1)..(j - 1) : shown'[k] = 0
    BY DEF Follows
  <2>2. CASE i < m
    <3>1. i + 1 \in 1..m /\ i \in 1..m
      BY <1>6, <2>2
    <3>2. shown'[i + 1] = b + (i + 1) - 1 /\ shown'[i] = b + i - 1
      BY <1>7, <3>1
    <3>3. shown'[i + 1] # 0 /\ shown'[i + 1] = shown'[i] + 1 /\ shown'[i] \in Nat
      BY <1>3, <3>1, <3>2
    <3>4. ~(i + 1 \in (i + 1)..(j - 1))
      BY <2>1, <3>3
    <3>5. j = i + 1
      BY <2>1, <3>4
    <3> QED
      BY <3>3, <3>5
  <2>3. CASE i = m
    <3>1. shown'[i] = e /\ e # 0
      BY <1>3, <1>6, <1>7, <2>3
    <3>2. j - m \in 1..N /\ shown'[j] = shown[j - m]
      BY <1>6, <1>8, <2>1, <2>3
    <3>3. j - m = f
      <4>1. f <= j - m
        BY <1>12, <2>1, <3>2
      <4>2. ~(f < j - m)
        <5> SUFFICES ASSUME f < j - m PROVE FALSE
          OBVIOUS
        <5>1. f + m \in (i + 1)..(j - 1)
          BY <1>6, <2>3
        <5>2. shown'[f + m] = shown[f]
          BY <1>9
        <5> QED
          BY <1>10, <2>1, <5>1, <5>2
      <4> QED
        BY <1>6, <4>1, <4>2
    <3> QED
      BY <1>2, <1>10, <3>1, <3>2, <3>3
  <2>4. CASE i > m
    <3>1. /\ i - m \in 1..N /\ shown'[i] = shown[i - m] /\ j - m \in 1..N
          /\ shown'[j] = shown[j - m]
          /\ i - m < j - m
      BY <1>6, <1>8, <2>1, <2>4
    <3>2. ASSUME NEW k \in ((i - m) + 1)..((j - m) - 1) PROVE shown[k] = 0
      <4>1. k \in 1..N /\ k + m \in (i + 1)..(j - 1)
        BY <1>5, <1>6, <2>4, <3>1
      <4> QED
        BY <1>9, <2>1, <4>1
    <3>3. Follows(i - m, j - m)
      BY <2>1, <3>1, <3>2 DEF Follows
    <3>4. /\ i - m \in 1..Len(shown) /\ j - m \in 1..Len(shown) /\ shown[j - m] \notin late
          /\ n \in (shown[i - m] + 1)..(shown[j - m] - 1)
      BY <3>1 DEF N
    <3>5. sent[n] = sent[shown[j - m]]
      <4>1. Chained
        BY <1>5
      <4>2. PICK k : k = i - m
        OBVIOUS
      <4>3. PICK o : o = j - m
        OBVIOUS
      <4>4. /\ k \in 1..Len(shown) /\ o \in 1..Len(shown) /\ shown[o] \notin late /\ Follows(k, o)
            /\ n \in (shown[k] + 1)..(shown[o] - 1)
        BY <3>3, <3>4, <4>2, <4>3
      <4>5. sent[n] = sent[shown[o]]
        BY <4>1, <4>4 DEF Chained
      <4> QED
        BY <4>3, <4>5
    <3> QED
      BY <3>1, <3>5
  <2> QED
    BY <1>6, <2>2, <2>3, <2>4
<1>15. Ahead'
  <2> SUFFICES ASSUME NEW i \in 1..(m + N), NEW n \in (Delivered + 1)..shown'[i] PROVE n \in late
    BY <1>1, <1>3, <1>7 DEF Ahead
  <2>1. CASE i <= m
    <3>1. shown'[i] \in Nat /\ shown'[i] <= e /\ e # 0
      BY <1>3, <1>6, <1>8, <2>1
    <3>2. n \in (Delivered + 1)..shown[f]
      BY <1>2, <1>3, <1>10, <1>11, <3>1
    <3> QED
      BY <1>5, <3>2 DEF Ahead, N
  <2>2. CASE ~(i <= m)
    <3>1. i - m \in 1..N /\ shown'[i] = shown[i - m]
      BY <1>6, <1>8, <2>2
    <3> QED
      BY <1>5, <3>1 DEF Ahead, N
  <2> QED
    BY <2>1, <2>2
<1>16. Covered'
  <2>1. stop /\ stop'
    BY <1>1, <1>5, <1>10 DEF Covered, N
  <2> SUFFICES ASSUME NEW l \in 0..Len(sent), IsLast(l)' PROVE (l + 1)..Delivered \subseteq missed
    BY <1>1, <1>3, <2>1 DEF Covered
  <2>2. f + m \in 1..(m + N) /\ shown'[f + m] # 0
    BY <1>9, <1>10
  <2>3. l # 0
    BY <1>7, <2>2 DEF IsLast
  <2>4. PICK k \in 1..(m + N) : l = shown'[k] /\ \A i \in 1..(m + N) : i > k => shown'[i] = 0
    BY <1>7, <2>3 DEF IsLast
  <2>5. ~(f + m > k)
    BY <2>2, <2>4
  <2>6. k > m
    BY <1>6, <2>5
  <2>7. k - m \in 1..N /\ l = shown[k - m]
    BY <1>6, <1>8, <2>4, <2>6
  <2>8. ASSUME NEW i \in 1..N, i > k - m PROVE shown[i] = 0
    <3>1. i + m > k
      BY <1>6, <2>8
    <3> QED
      BY <1>9, <2>4, <3>1
  <2>9. IsLast(l)
    BY <2>3, <2>7, <2>8 DEF IsLast, N
  <2> QED
    BY <1>5, <2>1, <2>9 DEF Covered
<1>17. Started'
  <2> SUFFICES ASSUME start', status' = "success", NEW n \in 1..(First' - 1), n \notin missed
               PROVE  sent[n] = sent[First'] \/ Old(n)
    BY <1>1 DEF Started, Old
  <2>1. call.ok /\ (call.end \/ m <= 1)
    BY <1>1, <1>4
  <2>2. CASE e # 0
    <3>1. 1 \in 1..m /\ 1 \in 1..Len(shown') /\ shown'[1] = b /\ shown'[1] # 0
          /\ \A i \in 1..(1 - 1) : shown'[i] = 0
      BY <1>3, <1>5, <1>6, <1>7, <2>2
    <3>2. First' = b
      BY <1>7, <3>1, FirstNext
    <3>3. call.end \/ b = e
      BY <1>2, <1>3, <1>6, <2>1, <2>2
    <3> QED
      BY <1>2, <2>1, <2>2, <3>2, <3>3
  <2>3. CASE e = 0
    <3>1. m = 0
      BY <1>6, <2>3
    <3>2. f \in 1..Len(shown') /\ shown'[f] = shown[f] /\ \A i \in 1..(f - 1) : i \in 1..N /\ shown'[i] = shown[i]
      BY <1>5, <1>7, <3>1
    <3>3. First' = First
      BY <1>7, <1>10, <3>2, FirstNext
    <3> QED
      BY <1>2, <2>1, <2>3, <3>3
  <2> QED
    BY <2>2, <2>3
<1>18. ListType'
  <2>1. ASSUME NEW i \in 1..(m + N) PROVE shown'[i] <= Len(sent)
    BY <1>3, <1>5, <1>8
  <2> QED
    BY <1>1, <1>7, <2>1 DEF ListType
<1>19. Awaited'
  BY <1>1 DEF Awaited, NoCall
<1> QED
  BY <1>13, <1>14, <1>15, <1>16, <1>17, <1>18, <1>19 DEF ListInv

\* load ends with its answer.
LEMMA AnsweredPiece ==
  ASSUME PieceInv, Answered
  PROVE  PieceInv'
<1>1. /\ call.kind = "answer" /\ status' \in {"success", "error"} /\ call' = NoCall
      /\ UNCHANGED <<now, log, sent, wire, jumped>>
  BY DEF Answered, server
<1>2. ServerType' /\ Loading'
  BY <1>1 DEF PieceInv, ServerType, Delivered, Loading, NoCall
<1>3. ASSUME ~jumped PROVE ListInv' /\ Started' /\ Awaited'
  <2>1. PICK e \in 0..Len(sent) : \E b \in 1..(e + 1) : Fits(b, e)
    BY <1>1, <1>3 DEF PieceInv, Awaited
  <2>2. PICK b \in 1..(e + 1) : Fits(b, e)
    BY <2>1
  <2> QED
    BY <1>2, <1>3, <2>2, LoadedPiece, OlderPiece
<1> QED
  BY <1>1, <1>2, <1>3 DEF PieceInv

LEMMA ReloadPiece ==
  ASSUME PieceInv, Reload
  PROVE  PieceInv'
<1>1. /\ wire' = <<>> /\ shown' = <<>> /\ ~start' /\ ~stop' /\ UNCHANGED <<now, log, sent>>
      /\ ~jumped' => (status' = "loading" /\ call'.kind = "around" /\ call'.at = now)
                       \/ (status' = "pending" /\ call' = NoCall)
      /\ (status' = "loading" /\ call'.kind = "around") \/ (status' = "pending" /\ call' = NoCall)
  <2>1. /\ IF active
              THEN /\ status' = "loading"
                   /\ call' = [kind |-> "around", at |-> IF hash = 0 THEN now ELSE sent[hash]]
              ELSE status' = "pending" /\ call' = NoCall
        /\ jumped' = (active /\ hash # 0)
    BY DEF Reload
  <2>2. CASE active
    <3>1. /\ status' = "loading" /\ call'.kind = "around"
          /\ call'.at = IF hash = 0 THEN now ELSE sent[hash]
      BY <2>1, <2>2
    <3>2. ~jumped' => hash = 0
      BY <2>1, <2>2
    <3> QED
      BY <3>1, <3>2 DEF Reload, server
  <2>3. CASE ~active
    BY <2>1, <2>3 DEF Reload, server
  <2> QED
    BY <2>2, <2>3
<1>2. ServerType' /\ now \in Nat
  BY <1>1 DEF PieceInv, ServerType, Delivered
<1>3. Loading'
  BY <1>1 DEF Loading, NoCall
<1>4. ListInv'
  BY <1>1 DEF ListInv, ListType, Rising, Chained, Follows, Ahead, Covered
<1>5. ~jumped' => Started' /\ Awaited'
  BY <1>1, <1>2 DEF Started, Awaited, NoCall
<1> QED
  BY <1>2, <1>3, <1>4, <1>5 DEF PieceInv

LEMMA PieceStep == PieceInv /\ [HistoryNext]_historyVars => PieceInv'
<1> SUFFICES ASSUME PieceInv, [HistoryNext]_historyVars PROVE PieceInv'
  OBVIOUS
<1>1. CASE Open \/ Leave \/ Fill \/ Scroll \/ Undo \/ Scrolled \/ Release \/ UNCHANGED historyVars
  BY <1>1, PageAsks, AsksPiece
<1>2. CASE Emit \/ Save \/ Tick
  BY <1>2, LogPiece
<1>3. CASE Deliver \/ Notice
  BY <1>3, DeliverPiece
<1> QED
  BY <1>1, <1>2, <1>3, ServePiece, AnsweredPiece, ReloadPiece DEF HistoryNext

(* A list that was not loaded from a link into the past is a piece of the  *)
(* log (Conversation.load and addMessages), and where the page says that   *)
(* the history starts, nothing older is left out but by the second or year. *)
THEOREM ListIsPiece == HistorySpec => []Piece
<1>1. PieceInv => Piece
  <2> SUFFICES ASSUME PieceInv, ~jumped PROVE Piece
    BY DEF Piece
  <2>1. /\ ServerType /\ shown \in Seq(Nat) /\ Rising /\ Chained /\ Started
        /\ DOMAIN shown = 1..Len(shown) /\ \A i \in 1..Len(shown) : shown[i] \in Nat
    BY DEF PieceInv, ListInv, ListType
  <2>2. ASSUME start, status = "success", Listed # {}, NEW n \in Saved, n < First
        PROVE  n \in missed \/ sent[n] = sent[First] \/ sent[n] + Year <= now
    <3>1. First \in Nat
      BY <2>2, FirstIs DEF PieceInv, ListInv, ListType
    <3>2. n \in 1..(First - 1)
      BY <2>2, <3>1 DEF Saved
    <3> QED
      BY <2>1, <2>2, <3>2 DEF Started, Old
  <2>3. ASSUME NEW i \in 1..Len(shown), NEW j \in 1..Len(shown), Follows(i, j)
        PROVE  \/ /\ shown[i] < shown[j]
                  /\ \A n \in (shown[i] + 1)..(shown[j] - 1) : n \in missed \/ sent[n] = sent[shown[j]]
               \/ shown[j] \in late
    <3>1. shown[j] \in late \/ shown[i] < shown[j]
      BY <2>1, <2>3 DEF Rising, Follows
    <3>2. \/ shown[j] \in late
          \/ \A n \in (shown[i] + 1)..(shown[j] - 1) : n \in missed \/ sent[n] = sent[shown[j]]
      BY <2>1, <2>3 DEF Chained
    <3> QED
      BY <3>1, <3>2
  <2>4. ASSUME NEW i \in 1..Len(shown), NEW j \in 1..Len(shown), i # j, shown[i] = shown[j], shown[i] # 0
        PROVE  shown[i] \in late
    <3>1. ~(shown[i] < shown[j]) /\ ~(shown[j] < shown[i]) /\ (i < j \/ j < i)
      BY <2>1, <2>4
    <3> QED
      BY <2>1, <2>4, <3>1 DEF Rising
  <2> QED
    BY <2>1, <2>2, <2>3, <2>4 DEF Piece
<1> QED
  BY <1>1, PieceInit, PieceStep, PTL DEF HistorySpec

-----------------------------------------------------------------------------
LEMMA LeastIs ==
  ASSUME NEW S \in SUBSET Nat, S # {}
  PROVE  \E x \in S : \A y \in S : x <= y
<1> DEFINE R == OpToRel(<, Nat)
<1>1. PICK x \in S : \A y \in S : ~(<<y, x>> \in R)
  <2>1. IsWellFoundedOn(R, Nat)
    BY NatLessThanWellFounded
  <2> HIDE DEF R
  <2> QED
    BY <2>1, WFMin
<1>2. ASSUME NEW y \in S PROVE x <= y
  <2>1. x \in Nat /\ y \in Nat
    OBVIOUS
  <2>2. ~(y < x)
    BY <1>1, <2>1 DEF OpToRel
  <2> QED
    BY <2>1, <2>2
<1> QED
  BY <1>2

LEMMA GreatestIs ==
  ASSUME NEW n \in Nat, NEW S \in SUBSET (1..n), S # {}
  PROVE  \E x \in S : \A y \in S : y <= x
<1> DEFINE T == {d \in Nat : \E y \in S : d = n - y}
<1>1. T \in SUBSET Nat /\ T # {}
  <2>1. PICK y \in S : TRUE
    OBVIOUS
  <2>2. n - y \in Nat
    OBVIOUS
  <2> QED
    BY <2>1, <2>2
<1>2. PICK d \in T : \A e \in T : d <= e
  <2> HIDE DEF T
  <2> QED
    BY <1>1, LeastIs
<1>3. PICK x \in S : d = n - x
  BY <1>2
<1>4. ASSUME NEW y \in S PROVE y <= x
  <2>1. n - y \in T /\ x \in Nat /\ y \in Nat
    OBVIOUS
  <2> QED
    BY <1>2, <1>3, <2>1
<1> QED
  BY <1>4

-----------------------------------------------------------------------------
Mail == [id : Nat, link : Links \cup {Plain}, seen : BOOLEAN, embeds : SUBSET Links, anew : BOOLEAN, index : Nat]
Box  == [of : Nat, has : SUBSET Links, is : {"waiting", "card", "hidden", "box"}]
Entry == [is : {"no", "asked", "card", "empty"}, by : Nat, at : Nat]

EmbedsTyped ==
  /\ lists \in [Rooms -> Seq(Mail)] /\ cells \in Seq(Box) /\ cards \in [Links -> Entry]
  /\ raw \in [Rooms -> BOOLEAN] /\ expanding \in [Rooms -> BOOLEAN]
  /\ room \in Rooms /\ wish \in BOOLEAN /\ stale \in BOOLEAN
  /\ clicked \in [on : Nat, hit : Nat] /\ shifted \in SUBSET Links

\* Every number is given once.
Numbers(n) == \A x : x \in 1..n <=> \E r \in Rooms : \E k \in 1..Len(lists[r]) : lists[r][k].id = x

IdsApart ==
  /\ \E n \in Nat : Numbers(n)
  /\ \A r, s \in Rooms : \A k \in 1..Len(lists[r]), l \in 1..Len(lists[s]) :
       lists[r][k].id = lists[s][l].id => r = s /\ k = l

EmbedsFollow ==
  /\ expanding[room] = wish
  /\ \A r \in Rooms : \A k \in 1..Len(lists[r]) :
       lists[r][k].embeds = IF lists[r][k].seen /\ expanding[r]
       /\ ~raw[r] THEN {lists[r][k].link} \ {Plain} ELSE {}

\* Message k of a conversation is the one for which a card was asked.
AskedAt(u, r, k) ==
  /\ lists[r][k].id = cards[u].by /\ lists[r][k].link = u
  /\ u \notin shifted => /\ lists[r][k].anew \/ lists[r][k].index = k
                         /\ cards[u].is = "card" => cards[u].at = k

AskedThere ==
  \A u \in Links : cards[u].is # "no" => \E r \in Rooms : \E k \in 1..Len(lists[r]) : AskedAt(u, r, k)

\* Cell k is of message k + j.
Shift(j) ==
  /\ Len(cells) + j <= Len(lists[room])
  /\ \A k \in 1..Len(cells) : cells[k].of = lists[room][k + j].id
  /\ ~stale => j = 0 /\ Len(cells) = Len(lists[room])
     /\ \A k \in 1..Len(cells) : ~lists[room][k].anew
  /\ j = 0 =>
       /\ \A k \in 1..Len(cells) : lists[room][k].anew \/ cells[k].has = lists[room][k].embeds
       /\ \/ \A k \in 1..Len(cells) : lists[room][k].anew
          \/ \A k \in 1..Len(cells) : lists[room][k].anew => cells[k].has = {}

CellsFollow == \E j \in Nat : Shift(j)

\* What is in a cell is what the cache has; a card is in one cell only.
ShowsCell(d, c, k) ==
  /\ d[k].has = {} => d[k].is = "waiting"
  /\ d[k].has # {} => \E u \in Links :
       /\ d[k].has = {u}
       /\ d[k].is = "waiting" => c[u].is \notin {"card", "empty"}
       /\ d[k].is = "box" => c[u].is = "empty"
       /\ d[k].is \in {"card", "hidden"} => c[u].is = "card"
  /\ d[k].is = "card" => \A l \in 1..Len(d) : d[l].is = "card" /\ d[l].has = d[k].has => l = k
  /\ d[k].is = "hidden" => \E l \in 1..Len(d) : d[l].is = "card" /\ d[l].has = d[k].has

Shows(d, c) == \A k \in 1..Len(d) : ShowsCell(d, c, k)

\* Message x has link u.
Has(u, x) == \E r \in Rooms : \E k \in 1..Len(lists[r]) : lists[r][k].id = x /\ lists[r][k].link = u

OwnClick == clicked.on # 0 =>
  \/ clicked.hit = clicked.on
  \/ \E u \in shifted : Has(u, clicked.on)
  \/ \E u \in Links : Has(u, clicked.on) /\ \E x \in Nat : x # clicked.on /\ Has(u, x)

EmbedsInv ==
  EmbedsTyped /\ IdsApart /\ EmbedsFollow /\ AskedThere /\ CellsFollow /\ Shows(cells, cards)
  /\ OwnClick

-----------------------------------------------------------------------------
LEMMA SaidIs ==
  ASSUME NEW ls \in [Rooms -> Seq(Mail)], NEW x
  PROVE  x \in UNION {{m.id : m \in ToSet(ls[r])} : r \in Rooms} <=>
           \E r \in Rooms : \E k \in 1..Len(ls[r]) : ls[r][k].id = x
<1>1. \A r \in Rooms : ToSet(ls[r]) = {ls[r][k] : k \in 1..Len(ls[r])}
  <2> TAKE r \in Rooms
  <2>1. ls[r] \in Seq(Mail)
    OBVIOUS
  <2>2. DOMAIN ls[r] = 1..Len(ls[r])
    BY <2>1
  <2> QED
    BY <2>2 DEF ToSet
<1> QED
  BY <1>1

\* A card that is asked for is asked for ever.
LEMMA ShowsLater ==
  ASSUME NEW d \in Seq(Box), NEW c, NEW e, Shows(d, c),
         \A u \in Links : e[u].is = c[u].is \/ (c[u].is = "no" /\ e[u].is = "asked")
  PROVE  Shows(d, e)
<1> SUFFICES ASSUME NEW k \in 1..Len(d) PROVE ShowsCell(d, e, k)
  BY DEF Shows
<1>1. ShowsCell(d, c, k)
  BY DEF Shows
<1> QED
  BY <1>1 DEF ShowsCell

LEMMA CellsAre ==
  ASSUME NEW list \in Seq(Mail), NEW old \in Seq(Box), EmbedsTyped, Shows(old, cards),
         \A k \in 1..Len(list) : list[k].embeds = {} \/ \E u \in Links : list[k].embeds = {u},
         \A k \in 1..Len(list) : k <= Len(old) /\ Same(list[k], old[k]) =>
           /\ old[k].has = list[k].embeds
           /\ \A l \in 1..Len(old) : l <= Len(list) /\ (Same(list[l], old[l]) \/ old[l].has = {})
  PROVE  /\ Cells(list, old) \in Seq(Box) /\ Len(Cells(list, old)) = Len(list)
         /\ \A k \in 1..Len(list) : Cells(list, old)[k].of = list[k].id /\ Cells(list, old)[k].has = list[k].embeds
         /\ Shows(Cells(list, old), cards)
<1> DEFINE n == Len(list)
           IsKept(k) == k <= Len(old) /\ Same(list[k], old[k])
           next == [k \in DOMAIN list |->
                     IF k \in DOMAIN old /\ Same(list[k], old[k])
                       THEN [old[k] EXCEPT !.of = list[k].id] ELSE Cell(list[k])]
           Now(is) == {k \in DOMAIN list : next[k].is = "waiting" /\ \E u \in next[k].has : cards[u].is = is}
           empty == Now("empty")
           ready == Now("card")
           boxed == [k \in DOMAIN list |-> IF k \in empty THEN [next[k] EXCEPT !.is = "box"] ELSE next[k]]
           last == {k \in ready : \A i \in ready : next[i].has = next[k].has => i <= k}
           d == Cells(list, old)
<1>1. n \in Nat /\ DOMAIN list = 1..n /\ DOMAIN old = 1..Len(old) /\ Len(old) \in Nat
  OBVIOUS
<1>2. /\ DOMAIN next = 1..n
      /\ \A k \in 1..n : IsKept(k) => next[k] = [old[k] EXCEPT !.of = list[k].id]
      /\ \A k \in 1..n : ~IsKept(k) => next[k] = [of |-> list[k].id, has |-> list[k].embeds, is |-> "waiting"]
  BY <1>1 DEF Cell
<1>3. /\ empty = {k \in 1..n : next[k].is = "waiting" /\ \E u \in next[k].has : cards[u].is = "empty"}
      /\ ready = {k \in 1..n : next[k].is = "waiting" /\ \E u \in next[k].has : cards[u].is = "card"}
  BY <1>1
<1>4. /\ DOMAIN boxed = 1..n
      /\ \A k \in 1..n : boxed[k] = IF k \in empty THEN [next[k] EXCEPT !.is = "box"] ELSE next[k]
  BY <1>1
<1>5. d = RenderEmbed(boxed, ready, last)
  BY DEF Cells
<1> HIDE DEF next, empty, ready, boxed, d
<1>6. \A k \in 1..n : list[k] \in Mail
  BY <1>1
<1>7. \A k \in 1..Len(old) : old[k] \in Box
  BY <1>1
<1>8. ASSUME NEW k \in 1..n
      PROVE  /\ next[k] \in Box /\ next[k].of = list[k].id /\ next[k].has = list[k].embeds
             /\ IsKept(k) => k \in 1..Len(old) /\ next[k].is = old[k].is /\ next[k].has = old[k].has
             /\ ~IsKept(k) => next[k].is = "waiting"
  <2>1. list[k].id \in Nat /\ list[k].embeds \in SUBSET Links
    BY <1>6 DEF Mail
  <2>2. CASE IsKept(k)
    <3>1. k \in 1..Len(old) /\ old[k] \in Box /\ next[k] = [old[k] EXCEPT !.of = list[k].id]
          /\ old[k].has = list[k].embeds
      BY <1>1, <1>2, <1>7, <2>2
    <3> QED
      BY <2>1, <2>2, <3>1 DEF Box
  <2>3. CASE ~IsKept(k)
    BY <1>2, <2>1, <2>3 DEF Box
  <2> QED
    BY <2>2, <2>3
<1>9. ASSUME NEW k \in 1..n
      PROVE  /\ boxed[k] \in Box /\ boxed[k].of = list[k].id /\ boxed[k].has = list[k].embeds
             /\ k \in empty => boxed[k].is = "box"
             /\ k \notin empty => boxed[k].is = next[k].is
  BY <1>4, <1>8 DEF Box
<1>10. /\ DOMAIN d = 1..n
       /\ \A k \in 1..n : d[k] =
            IF k \in last THEN [boxed[k] EXCEPT !.is = "card"]
            ELSE IF (k \in ready \/ boxed[k].is = "card")
            /\ \E i \in last : boxed[i].has = boxed[k].has
                   THEN [boxed[k] EXCEPT !.is = "hidden"]
            ELSE boxed[k]
  BY <1>4, <1>5 DEF RenderEmbed
<1>11. last \subseteq ready /\ ready \subseteq 1..n
  BY <1>3
<1>12. ASSUME NEW k \in 1..n
       PROVE  /\ d[k] \in Box /\ d[k].of = list[k].id /\ d[k].has = list[k].embeds
              /\ k \in last => d[k].is = "card"
              /\ k \notin last /\ (k \in ready \/ boxed[k].is = "card")
                 /\ (\E i \in last : list[i].embeds = list[k].embeds)
                   => d[k].is = "hidden"
              /\ k \notin last
                 /\ ~((k \in ready \/ boxed[k].is = "card") /\ \E i \in last : list[i].embeds = list[k].embeds)
                   => d[k].is = boxed[k].is
  <2>1. \A i \in last : i \in 1..n /\ boxed[i].has = list[i].embeds
    BY <1>9, <1>11
  <2>2. boxed[k] \in Box /\ boxed[k].of = list[k].id /\ boxed[k].has = list[k].embeds
    BY <1>9
  <2>3. /\ boxed[k] = [of |-> boxed[k].of, has |-> boxed[k].has, is |-> boxed[k].is]
        /\ \A x : [boxed[k] EXCEPT !.is = x] = [of |-> boxed[k].of, has |-> boxed[k].has, is |-> x]
    BY <2>2 DEF Box
  <2>4. CASE k \in last
    <3>1. d[k] = [of |-> list[k].id, has |-> list[k].embeds, is |-> "card"]
      BY <1>10, <2>2, <2>3, <2>4
    <3> QED
      BY <2>2, <2>4, <3>1 DEF Box
  <2>5. CASE k \notin last /\ (k \in ready \/ boxed[k].is = "card")
             /\ \E i \in last : list[i].embeds = list[k].embeds
    <3>1. d[k] = [of |-> list[k].id, has |-> list[k].embeds, is |-> "hidden"]
      <4>1. \E i \in last : boxed[i].has = boxed[k].has
        BY <2>1, <2>2, <2>5
      <4>2. d[k] = [boxed[k] EXCEPT !.is = "hidden"]
        BY <1>10, <2>5, <4>1
      <4> QED
        BY <2>2, <2>3, <4>2
    <3> QED
      BY <2>2, <2>5, <3>1 DEF Box
  <2>6. CASE k \notin last
             /\ ~((k \in ready \/ boxed[k].is = "card") /\ \E i \in last : list[i].embeds = list[k].embeds)
    <3>1. d[k] = boxed[k]
      BY <1>10, <2>1, <2>2, <2>6
    <3> QED
      BY <2>2, <2>6, <3>1
  <2> QED
    BY <2>4, <2>5, <2>6
<1>13. d \in Seq(Box) /\ Len(d) = n
  <2>1. d = [k \in 1..n |-> d[k]]
    BY <1>10, <1>5 DEF RenderEmbed
  <2>2. d \in [1..n -> Box]
    BY <1>12, <2>1
  <2> QED
    BY <1>1, <2>2
<1>14. ASSUME NEW k \in ready PROVE \E i \in last : list[i].embeds = list[k].embeds
  <2> DEFINE S == {i \in ready : list[i].embeds = list[k].embeds}
  <2>1. S \in SUBSET (1..n) /\ S # {}
    BY <1>11
  <2>2. PICK x \in S : \A y \in S : y <= x
    <3> HIDE DEF S
    <3> QED
      BY <1>1, <2>1, GreatestIs
  <2>3. x \in last
    <3>1. \A i \in ready : i \in 1..n /\ next[i].has = list[i].embeds
      BY <1>8, <1>11
    <3> QED
      BY <2>2, <3>1
  <2> QED
    BY <2>2, <2>3
<1>15. ASSUME NEW i \in last, NEW k \in last, list[i].embeds = list[k].embeds PROVE i = k
  <2>1. i \in 1..n /\ k \in 1..n /\ next[i].has = next[k].has /\ i \in ready /\ k \in ready
    BY <1>8, <1>11, <1>15
  <2>2. i <= k /\ k <= i
    BY <2>1
  <2> QED
    BY <2>1, <2>2
<1>16. ASSUME NEW k \in 1..n
       PROVE  /\ boxed[k].is # "waiting" /\ k \notin empty => IsKept(k) /\ boxed[k].is = old[k].is
              /\ boxed[k].is = "waiting" => k \notin empty /\ next[k].is = "waiting"
              /\ k \in empty => boxed[k].is = "box"
  BY <1>8, <1>9
<1>17. \A k \in 1..Len(old) : ShowsCell(old, cards, k)
  BY DEF Shows
<1>18. \A k \in 1..n : IsKept(k) => k \in 1..Len(old) /\ old[k].has = list[k].embeds
  BY <1>8
<1>19. ASSUME NEW k \in 1..n, list[k].embeds = {} PROVE d[k].is = "waiting"
  <2>1. next[k].is = "waiting" /\ next[k].has = {}
    <3>1. CASE IsKept(k)
      BY <1>8, <1>17, <1>18, <1>19, <3>1 DEF ShowsCell
    <3>2. CASE ~IsKept(k)
      BY <1>8, <1>19, <3>2
    <3> QED
      BY <3>1, <3>2
  <2>2. k \notin empty /\ k \notin ready
    BY <1>3, <2>1
  <2>3. k \notin last /\ boxed[k].is = "waiting"
    BY <1>9, <1>11, <2>1, <2>2
  <2> QED
    BY <1>12, <2>2, <2>3
<1>20. ASSUME NEW k \in 1..n, NEW u \in Links, list[k].embeds = {u}
       PROVE  /\ d[k].is = "waiting" => cards[u].is \notin {"card", "empty"}
              /\ d[k].is = "box" => cards[u].is = "empty"
              /\ d[k].is \in {"card", "hidden"} => cards[u].is = "card"
  <2>1. next[k].has = {u}
    BY <1>8, <1>20
  <2>2. /\ k \in empty <=> next[k].is = "waiting" /\ cards[u].is = "empty"
        /\ k \in ready <=> next[k].is = "waiting" /\ cards[u].is = "card"
    BY <1>3, <2>1
  <2>3. boxed[k].is # "waiting" /\ k \notin empty =>
          /\ boxed[k].is = "box" => cards[u].is = "empty"
          /\ boxed[k].is \in {"card", "hidden"} => cards[u].is = "card"
    BY <1>16, <1>17, <1>18, <1>20 DEF ShowsCell
  <2>4. CASE k \in last
    BY <1>11, <1>12, <2>2, <2>4
  <2>5. CASE k \notin last /\ (k \in ready \/ boxed[k].is = "card")
             /\ \E i \in last : list[i].embeds = list[k].embeds
    <3>1. d[k].is = "hidden"
      BY <1>12, <2>5
    <3>2. k \in ready \/ boxed[k].is = "card"
      BY <2>5
    <3>3. boxed[k].is = "card" => k \notin empty
      BY <1>16
    <3> QED
      BY <2>2, <2>3, <3>1, <3>2, <3>3
  <2>6. CASE k \notin last
             /\ ~((k \in ready \/ boxed[k].is = "card") /\ \E i \in last : list[i].embeds = list[k].embeds)
    <3>1. d[k].is = boxed[k].is
      BY <1>12, <2>6
    <3>2. k \notin ready
      BY <1>14, <2>6
    <3> QED
      BY <1>16, <2>2, <2>3, <3>1, <3>2
  <2> QED
    BY <2>4, <2>5, <2>6
<1>21. ASSUME NEW k \in 1..n, NEW l \in 1..n, d[k].is = "card", d[l].is = "card", list[l].embeds = list[k].embeds
       PROVE  l = k
  <2>1. ASSUME NEW i \in {k, l}, i \notin last
        PROVE  boxed[i].is = "card" /\ ~\E j \in last : list[j].embeds = list[k].embeds
    <3>1. i \in 1..n /\ d[i].is = "card" /\ list[i].embeds = list[k].embeds
      BY <1>21
    <3> QED
      BY <1>12, <2>1, <3>1
  <2>2. CASE k \in last
    BY <1>15, <1>21, <2>1, <2>2
  <2>3. CASE k \notin last
    <3>1. l \notin last /\ boxed[k].is = "card" /\ boxed[l].is = "card"
      BY <1>21, <2>1, <2>3
    <3>2. k \notin empty /\ l \notin empty
      BY <1>16, <3>1
    <3>3. k \in 1..Len(old) /\ l \in 1..Len(old) /\ old[k].is = "card" /\ old[l].is = "card"
          /\ old[l].has = old[k].has
      BY <1>16, <1>18, <1>21, <3>1, <3>2
    <3> QED
      BY <1>17, <3>3 DEF ShowsCell
  <2> QED
    BY <2>2, <2>3
<1>22. ASSUME NEW k \in 1..n, d[k].is = "hidden"
       PROVE  \E l \in 1..n : d[l].is = "card" /\ list[l].embeds = list[k].embeds
  <2>1. CASE \E i \in last : list[i].embeds = list[k].embeds
    BY <1>11, <1>12, <2>1
  <2>2. CASE ~\E i \in last : list[i].embeds = list[k].embeds
    <3>1. k \notin last /\ boxed[k].is = "hidden"
      BY <1>12, <1>22, <2>2
    <3>2. IsKept(k) /\ k \in 1..Len(old) /\ old[k].is = "hidden" /\ old[k].has = list[k].embeds
      BY <1>16, <1>18, <3>1
    <3>3. PICK l \in 1..Len(old) : old[l].is = "card" /\ old[l].has = list[k].embeds
      BY <1>17, <3>2 DEF ShowsCell
    <3>4. old[l].has # {}
      BY <1>17, <3>3 DEF ShowsCell
    <3>5. l <= Len(list) /\ (Same(list[l], old[l]) \/ old[l].has = {})
      BY <3>2, <3>3
    <3>6. l \in 1..n /\ IsKept(l)
      BY <1>1, <3>4, <3>5
    <3>7. next[l].is = "card" /\ list[l].embeds = list[k].embeds
      BY <1>8, <1>18, <3>3, <3>6
    <3>8. boxed[l].is = "card"
      BY <1>3, <1>9, <3>6, <3>7
    <3>9. l \notin last
      BY <2>2, <3>7
    <3>10. d[l].is = "card"
      BY <1>12, <2>2, <3>6, <3>7, <3>8, <3>9
    <3> QED
      BY <3>6, <3>7, <3>10
  <2> QED
    BY <2>1, <2>2
<1>23. Shows(d, cards)
  <2> SUFFICES ASSUME NEW k \in 1..n PROVE ShowsCell(d, cards, k)
    BY <1>13 DEF Shows
  <2>1. \A l \in 1..n : d[l].has = list[l].embeds
    BY <1>12
  <2>2. d[k].has # {} => \E u \in Links : list[k].embeds = {u}
    BY <2>1
  <2> QED
    <3>1. d[k].is = "card" => \A l \in 1..n : d[l].is = "card" /\ d[l].has = d[k].has => l = k
      BY <1>21, <2>1
    <3>2. d[k].is = "hidden" => \E l \in 1..n : d[l].is = "card" /\ d[l].has = d[k].has
      BY <1>22, <2>1
    <3>3. d[k].has = {} => d[k].is = "waiting"
      BY <1>13, <1>19, <1>20, <2>1, <2>2
    <3>4. d[k].has # {} => \E u \in Links :
            /\ d[k].has = {u}
            /\ d[k].is = "waiting" => cards[u].is \notin {"card", "empty"}
            /\ d[k].is = "box" => cards[u].is = "empty"
            /\ d[k].is \in {"card", "hidden"} => cards[u].is = "card"
      BY <1>13, <1>19, <1>20, <2>1, <2>2
    <3> QED
      BY <1>13, <3>1, <3>2, <3>3, <3>4 DEF ShowsCell
<1> QED
  BY <1>12, <1>13, <1>23 DEF d

-----------------------------------------------------------------------------
LEMMA SeqIs ==
  ASSUME NEW S, NEW n \in Nat, NEW f \in [1..n -> S]
  PROVE  f \in Seq(S) /\ Len(f) = n
  OBVIOUS

LEMMA NumberedIs ==
  ASSUME NEW list \in Seq(Mail)
  PROVE  /\ Numbered(list) \in Seq(Mail) /\ Len(Numbered(list)) = Len(list)
         /\ \A k \in 1..Len(list) : LET m == Numbered(list)[k] IN
              /\ m.id = list[k].id /\ m.link = list[k].link /\ m.seen = list[k].seen
                 /\ m.embeds = list[k].embeds
              /\ m.index = k /\ ~m.anew
<1> DEFINE n == Len(list)
<1>1. n \in Nat /\ DOMAIN list = 1..n /\ \A k \in 1..n : list[k] \in Mail
  OBVIOUS
<1>2. DOMAIN Numbered(list) = 1..n
      /\ \A k \in 1..n : Numbered(list)[k] = [list[k] EXCEPT !.index = k, !.anew = FALSE]
  BY <1>1 DEF Numbered
<1>3. ASSUME NEW k \in 1..n
      PROVE  LET m == Numbered(list)[k] IN
             /\ m \in Mail
             /\ m.id = list[k].id /\ m.link = list[k].link /\ m.seen = list[k].seen
                /\ m.embeds = list[k].embeds
             /\ m.index = k /\ ~m.anew
  <2>1. list[k] \in Mail
    BY <1>1
  <2>2. Numbered(list)[k] = [id |-> list[k].id, link |-> list[k].link, seen |-> list[k].seen,
                             embeds |-> list[k].embeds, anew |-> FALSE, index |-> k]
    BY <1>2, <2>1 DEF Mail
  <2>3. k \in Nat /\ FALSE \in BOOLEAN
    OBVIOUS
  <2> QED
    BY <2>1, <2>2, <2>3 DEF Mail
<1>4. Numbered(list) = [k \in 1..n |-> Numbered(list)[k]]
  BY <1>2 DEF Numbered
<1>5. Numbered(list) \in [1..n -> Mail]
  BY <1>3, <1>4
<1>6. Numbered(list) \in Seq(Mail) /\ Len(Numbered(list)) = n
  BY <1>1, <1>5, SeqIs
<1> QED
  BY <1>3, <1>6

\* What the settings of a conversation make of a message.
Setting(r) == expanding'[r] /\ ~raw'[r]

LEMMA EmbedsIs ==
  ASSUME NEW m \in Mail, NEW r
  PROVE  Embeds(m, r) = (IF Setting(r) THEN {m.link} \ {Plain} ELSE {})
         /\ Embeds(m, r) \in SUBSET Links
BY DEF Embeds, Setting, Mail

LEMMA AnewIs ==
  ASSUME EmbedsTyped, NEW r \in Rooms
  PROVE  /\ Anew(r) \in Seq(Mail) /\ Len(Anew(r)) = Len(lists[r])
         /\ \A k \in 1..Len(lists[r]) : LET m == Anew(r)[k] IN
              /\ m.id = lists[r][k].id /\ m.link = lists[r][k].link /\ m.seen = lists[r][k].seen
              /\ m.embeds = IF m.seen /\ Setting(r) THEN {m.link} \ {Plain} ELSE {}
              /\ m.index = lists[r][k].index /\ m.anew
<1> DEFINE list == lists[r]
           n == Len(list)
<1>1. n \in Nat /\ DOMAIN list = 1..n /\ \A k \in 1..n : list[k] \in Mail
  <2>1. list \in Seq(Mail)
    BY DEF EmbedsTyped
  <2> HIDE DEF list
  <2> QED
    BY <2>1
<1>2. DOMAIN Anew(r) = 1..n
      /\ \A k \in 1..n : Anew(r)[k] = [list[k] EXCEPT !.embeds = IF list[k].seen THEN Embeds(list[k], r) ELSE {}, !.anew = TRUE]
  BY <1>1 DEF Anew
<1>3. ASSUME NEW k \in 1..n
      PROVE  LET m == Anew(r)[k] IN
             /\ m \in Mail
             /\ m.id = list[k].id /\ m.link = list[k].link /\ m.seen = list[k].seen
             /\ m.embeds = IF m.seen /\ Setting(r) THEN {m.link} \ {Plain} ELSE {}
             /\ m.index = list[k].index /\ m.anew
  <2>1. list[k] \in Mail
        /\ Embeds(list[k], r) = (IF Setting(r) THEN {list[k].link} \ {Plain} ELSE {})
        /\ Embeds(list[k], r) \in SUBSET Links
    BY <1>1, EmbedsIs
  <2> DEFINE e == IF list[k].seen THEN Embeds(list[k], r) ELSE {}
  <2>2. e = (IF list[k].seen /\ Setting(r) THEN {list[k].link} \ {Plain} ELSE {})
        /\ e \in SUBSET Links
    BY <2>1
  <2>3. Anew(r)[k] = [list[k] EXCEPT !.embeds = e, !.anew = TRUE]
    BY <1>2
  <2> HIDE DEF e, list
  <2>4. list[k] = [id |-> list[k].id, link |-> list[k].link, seen |-> list[k].seen, embeds |-> list[k].embeds,
                   anew |-> list[k].anew, index |-> list[k].index]
    BY <2>1 DEF Mail
  <2>5. Anew(r)[k] = [id |-> list[k].id, link |-> list[k].link, seen |-> list[k].seen, embeds |-> e, anew |-> TRUE,
                      index |-> list[k].index]
    BY <2>3, <2>4
  <2>6. TRUE \in BOOLEAN
    OBVIOUS
  <2> QED
    BY <2>1, <2>2, <2>5, <2>6 DEF Mail
<1>4. Anew(r) = [k \in 1..n |-> Anew(r)[k]]
  BY <1>2 DEF Anew
<1>5. Anew(r) \in [1..n -> Mail]
  BY <1>3, <1>4
<1>6. Anew(r) \in Seq(Mail) /\ Len(Anew(r)) = n
  BY <1>1, <1>5, SeqIs
<1> QED
  BY <1>3, <1>6

LEMMA RequestAllIs ==
  ASSUME EmbedsTyped, NEW r \in Rooms
  PROVE  /\ RequestAll(r) \in [Links -> Entry]
         /\ \A u \in Links :
              \/ RequestAll(r)[u] = cards[u]
              \/ /\ cards[u].is = "no" /\ RequestAll(r)[u].is = "asked"
                 /\ \E k \in 1..Len(lists[r]) : lists[r][k].id = RequestAll(r)[u].by /\ lists[r][k].link = u
<1> DEFINE list == lists[r]
           n == Len(list)
           c == RequestAll(r)
           MS(u) == {m \in ToSet(list) : m.seen /\ u \in Embeds(m, r)}
           by(u) == CHOOSE m \in MS(u) : \A o \in MS(u) : m.index <= o.index
<1>1. n \in Nat /\ DOMAIN list = 1..n /\ \A k \in 1..n : list[k] \in Mail
  <2>1. list \in Seq(Mail)
    BY DEF EmbedsTyped
  <2> HIDE DEF list
  <2> QED
    BY <2>1
<1>2. DOMAIN c = Links /\ \A u \in Links : c[u] = IF MS(u) # {} /\ cards[u].is = "no"
                                                   THEN [cards[u] EXCEPT !.is = "asked", !.by = by(u).id] ELSE cards[u]
  BY DEF RequestAll
<1>3. \A u \in Links : cards[u] \in Entry
  BY DEF EmbedsTyped
<1>4. c = [u \in Links |-> c[u]]
  BY DEF RequestAll
<1>5. ToSet(list) = {list[k] : k \in 1..n}
  BY <1>1 DEF ToSet
<1> HIDE DEF c, list, n
<1>6. ASSUME NEW u \in Links, MS(u) # {}
      PROVE  by(u) \in MS(u)
  <2> DEFINE I == {m.index : m \in MS(u)}
  <2>1. I \in SUBSET Nat /\ I # {}
    <3>1. \A m \in MS(u) : m.index \in Nat
      BY <1>1, <1>5 DEF Mail
    <3> QED
      BY <1>6, <3>1
  <2>2. PICK i \in I : \A j \in I : i <= j
    <3> HIDE DEF I
    <3> QED
      BY <2>1, LeastIs
  <2>3. \E m \in MS(u) : \A o \in MS(u) : m.index <= o.index
    BY <2>2
  <2> HIDE DEF MS
  <2> QED
    BY <2>3
<1>7. ASSUME NEW u \in Links
      PROVE  /\ c[u] \in Entry
             /\ \/ c[u] = cards[u]
                \/ /\ cards[u].is = "no" /\ c[u].is = "asked"
                   /\ \E k \in 1..n : list[k].id = c[u].by /\ list[k].link = u
  <2>1. CASE ~(MS(u) # {} /\ cards[u].is = "no")
    BY <1>2, <1>3, <2>1
  <2>2. CASE MS(u) # {} /\ cards[u].is = "no"
    <3>1. by(u) \in MS(u)
      BY <1>6, <2>2
    <3>2. PICK k \in 1..n : by(u) = list[k] /\ u \in Embeds(list[k], r)
      BY <1>5, <3>1
    <3>3. list[k].link = u /\ list[k].id \in Nat
      BY <1>1, <3>2, EmbedsIs DEF Mail
    <3>4. c[u] = [cards[u] EXCEPT !.is = "asked", !.by = list[k].id]
      BY <1>2, <2>2, <3>2
    <3>5. c[u] \in Entry /\ c[u].is = "asked" /\ c[u].by = list[k].id
      BY <1>3, <3>3, <3>4 DEF Entry
    <3> QED
      BY <2>2, <3>3, <3>5
  <2> QED
    BY <2>1, <2>2
<1>8. c \in [Links -> Entry]
  BY <1>4, <1>7
<1> QED
  BY <1>7, <1>8 DEF c, list, n

-----------------------------------------------------------------------------
\* The messages are the same, with other marks.
Relabels == \A r \in Rooms :
  /\ Len(lists'[r]) = Len(lists[r])
  /\ \A k \in 1..Len(lists[r]) : lists'[r][k].id = lists[r][k].id /\ lists'[r][k].link = lists[r][k].link

LEMMA RelabelKeeps ==
  ASSUME IdsApart, Relabels
  PROVE  IdsApart' /\ \A u, x : Has(u, x)' <=> Has(u, x)
<1>1. PICK n \in Nat : Numbers(n)
  BY DEF IdsApart
<1>2. Numbers(n)'
  <2>1. ASSUME NEW x
        PROVE  (\E r \in Rooms : \E k \in 1..Len(lists'[r]) : lists'[r][k].id = x) <=>
                 \E r \in Rooms : \E k \in 1..Len(lists[r]) : lists[r][k].id = x
    BY DEF Relabels
  <2> QED
    BY <1>1, <2>1 DEF Numbers
<1>3. \A r, s \in Rooms : \A k \in 1..Len(lists'[r]), l \in 1..Len(lists'[s]) :
        lists'[r][k].id = lists'[s][l].id => r = s /\ k = l
  BY DEF IdsApart, Relabels
<1>4. \A u, x : Has(u, x)' <=> Has(u, x)
  BY DEF Has, Relabels
<1> QED
  BY <1>2, <1>3, <1>4 DEF IdsApart

LEMMA OwnClickKept ==
  ASSUME OwnClick, clicked' = clicked, shifted \subseteq shifted', \A u, x : Has(u, x) => Has(u, x)'
  PROVE  OwnClick'
BY DEF OwnClick

LEMMA ListsAre ==
  ASSUME EmbedsTyped
  PROVE  \A r \in Rooms : /\ lists[r] \in Seq(Mail) /\ Len(lists[r]) \in Nat
                          /\ \A k \in 1..Len(lists[r]) : lists[r][k] \in Mail
<1> TAKE r \in Rooms
<1>1. lists[r] \in Seq(Mail)
  BY DEF EmbedsTyped
<1> QED
  BY <1>1

LEMMA OneEmbed ==
  ASSUME EmbedsTyped, EmbedsFollow, NEW r \in Rooms, NEW k \in 1..Len(lists[r])
  PROVE  lists[r][k].embeds = {} \/ \E u \in Links : lists[r][k].embeds = {u}
<1>1. lists[r][k] \in Mail
  BY ListsAre
<1>2. lists[r][k].link \in Links \cup {Plain}
  BY <1>1 DEF Mail
<1>3. lists[r][k].embeds = {} \/ lists[r][k].embeds = {lists[r][k].link} \ {Plain}
  BY DEF EmbedsFollow
<1> QED
  BY <1>2, <1>3

\* A cell that stays has what its message has, and where one stays, only cells
\* that are empty are made anew.
LEMMA SameIs ==
  ASSUME EmbedsInv, NEW k \in 1..Len(lists[room]), k <= Len(cells), Same(lists[room][k], cells[k])
  PROVE  /\ cells[k].has = lists[room][k].embeds
         /\ \A l \in 1..Len(cells) : l <= Len(lists[room]) /\ (Same(lists[room][l], cells[l]) \/ cells[l].has = {})
<1>1. room \in Rooms /\ Len(lists[room]) \in Nat /\ Len(cells) \in Nat
  BY ListsAre DEF EmbedsInv, EmbedsTyped
<1>2. PICK j \in Nat : Shift(j)
  BY DEF EmbedsInv, CellsFollow
<1>3. k \in 1..Len(cells) /\ k + j \in 1..Len(lists[room])
  BY <1>1, <1>2 DEF Shift
<1>4. lists[room][k].id = lists[room][k + j].id
  BY <1>2, <1>3 DEF Shift, Same
<1>5. k = k + j
  BY <1>1, <1>3, <1>4 DEF EmbedsInv, IdsApart
<1>6. j = 0
  BY <1>3, <1>5
<1>7. Shift(0)
  BY <1>2, <1>6
<1>8. ~lists[room][k].anew
  BY DEF Same
<1>9. cells[k].has = lists[room][k].embeds
      /\ \A l \in 1..Len(cells) : lists[room][l].anew => cells[l].has = {}
  BY <1>3, <1>7, <1>8 DEF Shift
<1>10. ASSUME NEW l \in 1..Len(cells) PROVE l <= Len(lists[room]) /\ cells[l].of = lists[room][l].id
  <2>1. l + 0 = l /\ Len(cells) + 0 = Len(cells) /\ l \in Nat
    BY <1>1
  <2> QED
    BY <1>1, <1>7, <2>1 DEF Shift
<1> QED
  BY <1>9, <1>10 DEF Same

\* Just drawn.
LEMMA DrawnFollow ==
  ASSUME NEW list \in Seq(Mail), cells' \in Seq(Box), Len(cells') = Len(list),
         \A k \in 1..Len(list) : cells'[k].of = list[k].id /\ cells'[k].has = list[k].embeds,
         lists'[room'] = Numbered(list)
  PROVE  CellsFollow'
<1>1. Shift(0)'
  <2>1. Len(list) \in Nat /\ Len(list) + 0 = Len(list) /\ \A k \in 1..Len(list) : k + 0 = k
    OBVIOUS
  <2> QED
    <3>1. Len(lists'[room']) = Len(list)
          /\ \A k \in 1..Len(list) : /\ lists'[room'][k].id = list[k].id /\ lists'[room'][k].embeds = list[k].embeds
                                     /\ ~lists'[room'][k].anew
      BY NumberedIs
    <3> QED
      BY <2>1, <3>1 DEF Shift
<1> QED
  BY <1>1 DEF CellsFollow

LEMMA DrawStep == EmbedsInv /\ Draw => EmbedsInv'
<1> SUFFICES ASSUME EmbedsInv, Draw PROVE EmbedsInv'
  OBVIOUS
<1> DEFINE list == lists[room]
<1>1. room \in Rooms /\ list \in Seq(Mail) /\ Len(list) \in Nat /\ cells \in Seq(Box)
  BY ListsAre DEF EmbedsInv, EmbedsTyped
<1>2. \A s \in Rooms : lists'[s] = IF s = room THEN Numbered(list) ELSE lists[s]
  BY DEF Draw, EmbedsInv, EmbedsTyped
<1>3. /\ cells' \in Seq(Box) /\ Len(cells') = Len(list)
      /\ \A k \in 1..Len(list) : cells'[k].of = list[k].id /\ cells'[k].has = list[k].embeds
      /\ Shows(cells', cards)
  <2>1. \A k \in 1..Len(list) : list[k].embeds = {} \/ \E u \in Links : list[k].embeds = {u}
    BY <1>1, OneEmbed DEF EmbedsInv
  <2>2. \A k \in 1..Len(list) : k <= Len(cells) /\ Same(list[k], cells[k]) =>
           /\ cells[k].has = list[k].embeds
           /\ \A l \in 1..Len(cells) : l <= Len(list) /\ (Same(list[l], cells[l]) \/ cells[l].has = {})
    BY SameIs
  <2>3. EmbedsTyped /\ Shows(cells, cards) /\ cells' = Cells(list, cells)
    BY DEF EmbedsInv, Draw
  <2> HIDE DEF list
  <2> QED
    BY <1>1, <2>1, <2>2, <2>3, CellsAre
<1>4. lists' \in [Rooms -> Seq(Mail)]
  <2>1. Numbered(list) \in Seq(Mail)
    BY <1>1, NumberedIs
  <2> QED
    BY <2>1 DEF Draw, EmbedsInv, EmbedsTyped
<1>5. EmbedsTyped'
  BY <1>3, <1>4 DEF Draw, EmbedsInv, EmbedsTyped
<1>n. \A s \in Rooms :
        /\ Len(lists'[s]) = Len(lists[s])
        /\ \A k \in 1..Len(lists[s]) :
             /\ lists'[s][k].id = lists[s][k].id /\ lists'[s][k].link = lists[s][k].link
             /\ lists'[s][k].seen = lists[s][k].seen /\ lists'[s][k].embeds = lists[s][k].embeds
             /\ s = room => lists'[s][k].index = k /\ ~lists'[s][k].anew
             /\ s # room => lists'[s][k] = lists[s][k]
  <2> TAKE s \in Rooms
  <2>1. CASE s = room
    <3>1. lists'[s] = Numbered(list) /\ list = lists[s]
      BY <1>2, <2>1
    <3> HIDE DEF list
    <3> QED
      BY <1>1, <2>1, <3>1, NumberedIs
  <2>2. CASE s # room
    BY <1>2, <2>2
  <2> QED
    BY <2>1, <2>2
<1>6. Relabels
  BY <1>n DEF Relabels
<1>7. IdsApart' /\ \A u, x : Has(u, x)' <=> Has(u, x)
  BY <1>6, RelabelKeeps DEF EmbedsInv
<1>8. EmbedsFollow'
  <2>1. EmbedsFollow /\ raw' = raw /\ expanding' = expanding /\ room' = room /\ wish' = wish
    BY DEF Draw, EmbedsInv
  <2> QED
    <3> SUFFICES ASSUME NEW s \in Rooms, NEW k \in 1..Len(lists[s])
                 PROVE  lists'[s][k].embeds = IF lists'[s][k].seen /\ expanding[s]
                        /\ ~raw[s] THEN {lists'[s][k].link} \ {Plain} ELSE {}
      BY <1>n, <2>1 DEF EmbedsFollow
    <3>1. lists[s][k].embeds = IF lists[s][k].seen /\ expanding[s]
          /\ ~raw[s] THEN {lists[s][k].link} \ {Plain} ELSE {}
      BY <2>1 DEF EmbedsFollow
    <3>2. /\ lists'[s][k].link = lists[s][k].link /\ lists'[s][k].seen = lists[s][k].seen
          /\ lists'[s][k].embeds = lists[s][k].embeds
      BY <1>n
    <3> QED
      BY <3>1, <3>2
<1>9. AskedThere'
  <2> SUFFICES ASSUME NEW u \in Links, cards[u].is # "no"
               PROVE  \E r \in Rooms : \E k \in 1..Len(lists'[r]) : AskedAt(u, r, k)'
    BY DEF AskedThere, Draw
  <2>1p. PICK r \in Rooms : \E k \in 1..Len(lists[r]) : AskedAt(u, r, k)
    BY DEF EmbedsInv, AskedThere
  <2>1. PICK k \in 1..Len(lists[r]) : AskedAt(u, r, k)
    BY <2>1p
  <2>2. AskedAt(u, r, k)' /\ k \in 1..Len(lists'[r])
    <3>1. cards' = cards /\ shifted' = shifted
      BY DEF Draw
    <3> QED
      BY <1>n, <2>1, <3>1 DEF AskedAt
  <2> QED
    BY <2>2
<1>10. CellsFollow'
  <2>1. lists'[room'] = Numbered(list)
    BY <1>1, <1>2 DEF Draw
  <2> HIDE DEF list
  <2> QED
    BY <1>1, <1>3, <2>1, DrawnFollow
<1>11. Shows(cells, cards)'
  BY <1>3 DEF Draw
<1>12. OwnClick'
  BY <1>7, OwnClickKept DEF Draw, EmbedsInv
<1> QED
  BY <1>5, <1>7, <1>8, <1>9, <1>10, <1>11, <1>12 DEF EmbedsInv

LEMMA FreshId ==
  ASSUME EmbedsTyped, IdsApart
  PROVE  \E n \in Nat : Numbers(n) /\ Cardinality(Said) = n
<1>1. PICK n \in Nat : Numbers(n)
  BY DEF IdsApart
<1>2. lists \in [Rooms -> Seq(Mail)]
  BY DEF EmbedsTyped
<1>3. \A x : x \in Said <=> x \in 1..n
  BY <1>1, <1>2, SaidIs DEF Numbers, Said
<1>4. Said = 1..n
  BY <1>3
<1>5. Cardinality(1..n) = n
  BY FS_Interval
<1> QED
  BY <1>1, <1>4, <1>5

LEMMA MessageIs ==
  ASSUME NEW u \in Links \cup {Plain}, Cardinality(Said) \in Nat
  PROVE  Message(u) \in Mail /\ Message(u).id = Cardinality(Said) + 1 /\ Message(u).link = u
         /\ Message(u).embeds = {} /\ ~Message(u).seen /\ ~Message(u).anew
BY DEF Message, Mail

\* One message more, at place p of conversation s.
Gains(s, p, m) ==
  /\ p \in 1..(Len(lists[s]) + 1)
  /\ Len(lists'[s]) = Len(lists[s]) + 1 /\ lists'[s][p] = m
  /\ \A k \in 1..Len(lists[s]) : lists'[s][IF k < p THEN k ELSE k + 1] = lists[s][k]
  /\ \A r \in Rooms : r # s => lists'[r] = lists[r]

LEMMA GainsKeeps ==
  ASSUME EmbedsTyped, IdsApart, NEW s \in Rooms, NEW p, NEW m \in Mail, Gains(s, p, m), m.id = Cardinality(Said) + 1
  PROVE  IdsApart' /\ \A u, x : Has(u, x) => Has(u, x)'
<1>1. PICK n \in Nat : Numbers(n) /\ Cardinality(Said) = n
  BY FreshId
<1>2. \A r \in Rooms : Len(lists[r]) \in Nat
  BY ListsAre
<1> DEFINE len == Len(lists[s])
           To(k) == IF k < p THEN k ELSE k + 1
           From(k) == IF k < p THEN k ELSE k - 1
<1>3. len \in Nat /\ p \in 1..(len + 1) /\ Len(lists'[s]) = len + 1
  BY <1>2 DEF Gains
<1>4. \A k \in 1..len : To(k) \in 1..(len + 1) /\ To(k) # p /\ lists'[s][To(k)] = lists[s][k]
  BY <1>3 DEF Gains
<1>5. \A k \in 1..(len + 1) : k # p => From(k) \in 1..len /\ To(From(k)) = k
  BY <1>3
<1>6. \A k \in 1..(len + 1) : k # p => From(k) \in 1..len /\ lists'[s][k] = lists[s][From(k)]
  BY <1>4, <1>5
<1>7. \A k, l \in 1..(len + 1) : k # p /\ l # p /\ From(k) = From(l) => k = l
  BY <1>3
<1> HIDE DEF To, From
<1>8. lists'[s][p] = m /\ m.id = n + 1 /\ \A r \in Rooms : r # s => lists'[r] = lists[r]
  BY <1>1 DEF Gains
<1>9. \A r \in Rooms : \A k \in 1..Len(lists[r]) : lists[r][k].id # n + 1
  <2> SUFFICES ASSUME NEW r \in Rooms, NEW k \in 1..Len(lists[r]), lists[r][k].id = n + 1 PROVE FALSE
    OBVIOUS
  <2>1. n + 1 \in 1..n
    BY <1>1 DEF Numbers
  <2> QED
    BY <2>1
<1>10. Numbers(n + 1)'
  <2>1. ASSUME NEW x \in 1..(n + 1)
        PROVE  \E r \in Rooms : \E k \in 1..Len(lists'[r]) : lists'[r][k].id = x
    <3>1. CASE x = n + 1
      BY <1>3, <1>8, <3>1
    <3>2. CASE x # n + 1
      <4>1p. PICK r \in Rooms : \E k \in 1..Len(lists[r]) : lists[r][k].id = x
        <5>1. x \in 1..n
          BY <3>2
        <5> QED
          BY <1>1, <5>1 DEF Numbers
      <4>1. PICK k \in 1..Len(lists[r]) : lists[r][k].id = x
        BY <4>1p
      <4>2. CASE r = s
        BY <1>3, <1>4, <4>1, <4>2
      <4>3. CASE r # s
        BY <1>8, <4>1, <4>3
      <4> QED
        BY <4>2, <4>3
    <3> QED
      BY <3>1, <3>2
  <2>2. ASSUME NEW r \in Rooms, NEW k \in 1..Len(lists'[r])
        PROVE  lists'[r][k].id \in 1..(n + 1)
    <3>1. CASE r = s /\ k = p
      BY <1>8, <3>1
    <3>2. CASE r = s /\ k # p
      <4>1. From(k) \in 1..len /\ lists'[s][k] = lists[s][From(k)]
        BY <1>3, <1>6, <3>2
      <4>2. lists[s][From(k)].id \in 1..n
        BY <1>1, <4>1 DEF Numbers
      <4> QED
        BY <3>2, <4>1, <4>2
    <3>3. CASE r # s
      <4>1. lists'[r] = lists[r]
        BY <1>8, <3>3
      <4>2. lists[r][k].id \in 1..n
        BY <1>1, <4>1 DEF Numbers
      <4> QED
        BY <4>1, <4>2
    <3> QED
      BY <3>1, <3>2, <3>3
  <2> QED
    BY <2>1, <2>2 DEF Numbers
<1>11. ASSUME NEW q \in Rooms, NEW r \in Rooms, NEW k \in 1..Len(lists'[q]), NEW l \in 1..Len(lists'[r]),
              lists'[q][k].id = lists'[r][l].id
       PROVE  q = r /\ k = l
  <2> DEFINE Former(a, b) == a # s \/ b # p
             Was(a, b) == IF a = s THEN From(b) ELSE b
  <2>1. \A a \in Rooms : \A b \in 1..Len(lists'[a]) : Former(a, b) => Was(a, b) \in 1..Len(lists[a]) /\ lists'[a][b] = lists[a][Was(a, b)]
    BY <1>3, <1>6, <1>8
  <2>2. CASE Former(q, k) /\ Former(r, l)
    <3>1. q = r /\ Was(q, k) = Was(r, l)
      <4> HIDE DEF Former, Was
      <4> QED
        <5>1. /\ Was(q, k) \in 1..Len(lists[q]) /\ lists'[q][k] = lists[q][Was(q, k)]
              /\ Was(r, l) \in 1..Len(lists[r]) /\ lists'[r][l] = lists[r][Was(r, l)]
          BY <2>1, <2>2
        <5>2. lists[q][Was(q, k)].id = lists[r][Was(r, l)].id
          BY <1>11, <5>1
        <5> QED
          <6>1. PICK i \in 1..Len(lists[q]), j \in 1..Len(lists[r]) : i = Was(q, k) /\ j = Was(r, l)
            BY <5>1
          <6>2. q = r /\ i = j
            BY <5>2, <6>1 DEF IdsApart
          <6> QED
            BY <6>1, <6>2
    <3> QED
      BY <1>3, <1>7, <2>2, <3>1
  <2>3. CASE ~Former(q, k) /\ ~Former(r, l)
    BY <2>3
  <2>4. CASE Former(q, k) /\ ~Former(r, l)
    <3>1. lists'[r][l].id = n + 1 /\ lists'[q][k].id # n + 1
      BY <1>8, <1>9, <2>1, <2>4
    <3> QED
      BY <1>11, <3>1
  <2>5. CASE ~Former(q, k) /\ Former(r, l)
    <3>1. lists'[q][k].id = n + 1 /\ lists'[r][l].id # n + 1
      BY <1>8, <1>9, <2>1, <2>5
    <3> QED
      BY <1>11, <3>1
  <2> QED
    BY <2>2, <2>3, <2>4, <2>5
<1>12. ASSUME NEW u, NEW x, Has(u, x) PROVE Has(u, x)'
  <2>1p. PICK r \in Rooms : \E k \in 1..Len(lists[r]) : lists[r][k].id = x /\ lists[r][k].link = u
    BY <1>12 DEF Has
  <2>1. PICK k \in 1..Len(lists[r]) : lists[r][k].id = x /\ lists[r][k].link = u
    BY <2>1p
  <2>2. CASE r = s
    BY <1>3, <1>4, <2>1, <2>2 DEF Has
  <2>3. CASE r # s
    BY <1>8, <2>1, <2>3 DEF Has
  <2> QED
    BY <2>2, <2>3
<1>13. n + 1 \in Nat
  OBVIOUS
<1> QED
  BY <1>10, <1>11, <1>12, <1>13 DEF IdsApart

LEMMA TalkStep == EmbedsInv /\ (\E r \in Rooms, u \in Links \cup {Plain} : Talk(r, u)) => EmbedsInv'
<1> SUFFICES ASSUME EmbedsInv, NEW r \in Rooms, NEW u \in Links \cup {Plain}, Talk(r, u) PROVE EmbedsInv'
  OBVIOUS
<1> DEFINE m == Message(u)
           len == Len(lists[r])
<1>1. room \in Rooms /\ lists[r] \in Seq(Mail) /\ len \in Nat /\ EmbedsTyped /\ IdsApart
      /\ EmbedsFollow
      /\ \A s \in Rooms : Len(lists[s]) \in Nat
  BY ListsAre DEF EmbedsInv, EmbedsTyped
<1>2. m \in Mail /\ m.id = Cardinality(Said) + 1 /\ m.embeds = {} /\ ~m.seen /\ ~m.anew
  <2>1. Cardinality(Said) \in Nat
    BY <1>1, FreshId
  <2> QED
    BY <2>1, MessageIs
<1> HIDE DEF m
<1>3. \A s \in Rooms : lists'[s] = IF s = r THEN Append(lists[r], m) ELSE lists[s]
  BY <1>1 DEF Talk, EmbedsTyped, m
<1>4. /\ Append(lists[r], m) \in Seq(Mail) /\ Len(Append(lists[r], m)) = len + 1
      /\ \A k \in 1..len : Append(lists[r], m)[k] = lists[r][k]
      /\ Append(lists[r], m)[len + 1] = m
  BY <1>1, <1>2
<1>5. lists' \in [Rooms -> Seq(Mail)]
  BY <1>1, <1>4 DEF Talk, EmbedsTyped, m
<1>6. EmbedsTyped'
  BY <1>1, <1>5 DEF Talk, EmbedsTyped
<1>7. Gains(r, len + 1, m)
  <2>1. \A k \in 1..len : k < len + 1
    BY <1>1
  <2>2. lists'[r] = Append(lists[r], m) /\ \A s \in Rooms : s # r => lists'[s] = lists[s]
    BY <1>3
  <2> QED
    BY <1>1, <1>4, <2>1, <2>2 DEF Gains
<1>8. IdsApart' /\ \A v, x : Has(v, x) => Has(v, x)'
  BY <1>1, <1>2, <1>7, GainsKeeps
<1>9. \A s \in Rooms : \A k \in 1..Len(lists[s]) : k \in 1..Len(lists'[s]) /\ lists'[s][k] = lists[s][k]
  <2> TAKE s \in Rooms
  <2> TAKE k \in 1..Len(lists[s])
  <2>1. CASE s = r
    <3>1. lists'[s] = Append(lists[r], m)
      BY <1>3, <2>1
    <3>2. k \in 1..len /\ k \in 1..(len + 1)
      BY <1>1, <2>1
    <3> QED
      BY <1>4, <2>1, <3>1, <3>2
  <2>2. CASE s # r
    BY <1>3, <2>2
  <2> QED
    BY <2>1, <2>2
<1>t. raw' = raw /\ expanding' = expanding /\ wish' = wish /\ cards' = cards /\ room' = room
      /\ cells' = cells
      /\ clicked' = clicked /\ shifted' = shifted
  BY DEF Talk
<1>10. EmbedsFollow'
  <2> SUFFICES ASSUME NEW s \in Rooms, NEW k \in 1..Len(lists'[s])
               PROVE  lists'[s][k].embeds = IF lists'[s][k].seen /\ expanding[s]
                      /\ ~raw[s] THEN {lists'[s][k].link} \ {Plain} ELSE {}
    BY <1>1, <1>t DEF EmbedsFollow
  <2>1. CASE k \in 1..Len(lists[s])
    BY <1>1, <1>9, <2>1 DEF EmbedsFollow
  <2>2. CASE k \notin 1..Len(lists[s])
    <3>1. s = r /\ k = len + 1
      <4>1. s = r
        BY <1>3, <2>2
      <4>2. k \in 1..(len + 1) /\ k \notin 1..len
        BY <1>3, <1>4, <2>2, <4>1
      <4> QED
        BY <1>1, <4>1, <4>2
    <3>2. lists'[s][k] = m
      BY <1>3, <1>4, <3>1
    <3> QED
      BY <1>2, <3>2
  <2> QED
    BY <2>1, <2>2
<1>11. AskedThere'
  <2> SUFFICES ASSUME NEW v \in Links, cards[v].is # "no"
               PROVE  \E s \in Rooms : \E k \in 1..Len(lists'[s]) : AskedAt(v, s, k)'
    BY DEF AskedThere, Talk
  <2>1p. PICK s \in Rooms : \E k \in 1..Len(lists[s]) : AskedAt(v, s, k)
    BY DEF EmbedsInv, AskedThere
  <2>1. PICK k \in 1..Len(lists[s]) : AskedAt(v, s, k)
    BY <2>1p
  <2>2. AskedAt(v, s, k)' /\ k \in 1..Len(lists'[s])
    BY <1>9, <2>1 DEF AskedAt, Talk
  <2> QED
    BY <2>2
<1>12. CellsFollow'
  <2>1. PICK j \in Nat : Shift(j)
    BY DEF EmbedsInv, CellsFollow
  <2>2. Len(cells) \in Nat /\ Len(lists[room]) \in Nat
    BY <1>1 DEF EmbedsTyped
  <2>3. \A k \in 1..Len(cells) : k + j \in 1..Len(lists[room])
    BY <2>1, <2>2 DEF Shift
  <2>4. j = 0 => \A k \in 1..Len(cells) : k \in 1..Len(lists[room])
    BY <2>1, <2>2 DEF Shift
  <2>5. CASE r = room
    <3>1. stale' /\ cells' = cells /\ room' = room /\ Len(lists'[room]) = Len(lists[room]) + 1
      BY <1>1, <1>3, <1>4, <2>5 DEF Talk
    <3>2. Shift(j)'
      <4>1. \A k \in 1..Len(lists[room]) : lists'[room][k] = lists[room][k]
        BY <1>1, <1>9
      <4>2. Len(cells) + j <= Len(lists'[room])
        BY <2>1, <2>2, <3>1 DEF Shift
      <4>3. \A k \in 1..Len(cells) : cells[k].of = lists'[room][k + j].id
        BY <2>1, <2>3, <4>1 DEF Shift
      <4>4. j = 0 =>
              /\ \A k \in 1..Len(cells) : lists'[room][k].anew \/ cells[k].has = lists'[room][k].embeds
              /\ \/ \A k \in 1..Len(cells) : lists'[room][k].anew
                 \/ \A k \in 1..Len(cells) : lists'[room][k].anew => cells[k].has = {}
        <5> SUFFICES ASSUME j = 0
                     PROVE  /\ \A k \in 1..Len(cells) : lists'[room][k].anew \/ cells[k].has = lists'[room][k].embeds
                            /\ \/ \A k \in 1..Len(cells) : lists'[room][k].anew
                               \/ \A k \in 1..Len(cells) : lists'[room][k].anew => cells[k].has = {}
          OBVIOUS
        <5>1. \A k \in 1..Len(cells) : lists'[room][k] = lists[room][k]
          BY <2>4, <4>1
        <5> QED
          BY <2>1, <5>1 DEF Shift
      <4> QED
        BY <3>1, <4>2, <4>3, <4>4 DEF Shift
    <3> QED
      BY <3>2 DEF CellsFollow
  <2>6. CASE r # room
    <3>1. (stale' <=> stale) /\ cells' = cells /\ room' = room /\ lists'[room] = lists[room]
      BY <1>1, <1>3, <2>6 DEF Talk
    <3>2. Shift(j)'
      BY <2>1, <3>1 DEF Shift
    <3> QED
      BY <3>2 DEF CellsFollow
  <2> QED
    BY <2>5, <2>6
<1>13. Shows(cells, cards)'
  BY DEF Talk, EmbedsInv
<1>14. OwnClick'
  BY <1>8, OwnClickKept DEF Talk, EmbedsInv
<1> QED
  BY <1>6, <1>8, <1>10, <1>11, <1>12, <1>13, <1>14 DEF EmbedsInv

LEMMA OlderStep == EmbedsInv /\ (\E u \in Links \cup {Plain} : Older(u)) => EmbedsInv'
<1> SUFFICES ASSUME EmbedsInv, NEW u \in Links \cup {Plain}, Older(u) PROVE EmbedsInv'
  OBVIOUS
<1> DEFINE m == Message(u)
           list == lists[room]
           len == Len(list)
           new == <<m>> \o list
<1>1. room \in Rooms /\ list \in Seq(Mail) /\ len \in Nat /\ EmbedsTyped /\ IdsApart /\ EmbedsFollow
      /\ \A s \in Rooms : Len(lists[s]) \in Nat
  BY ListsAre DEF EmbedsInv, EmbedsTyped
<1>2. m \in Mail /\ m.id = Cardinality(Said) + 1 /\ m.embeds = {} /\ ~m.seen /\ ~m.anew
  <2>1. Cardinality(Said) \in Nat
    BY <1>1, FreshId
  <2> QED
    BY <2>1, MessageIs
<1> HIDE DEF m
<1>3. \A s \in Rooms : lists'[s] = IF s = room THEN new ELSE lists[s]
  BY <1>1 DEF Older, EmbedsTyped, m
<1>4. /\ new \in Seq(Mail) /\ Len(new) = len + 1
      /\ \A k \in 1..len : new[k + 1] = list[k]
      /\ new[1] = m
  BY <1>1, <1>2
<1>5. lists' \in [Rooms -> Seq(Mail)]
  BY <1>1, <1>4 DEF Older, EmbedsTyped, m
<1> DEFINE already == {v \in Links : cards[v].is # "no" /\ \E o \in ToSet(list) : o.id = cards[v].by}
<1>6. shifted' = shifted \cup already /\ room' = room /\ stale' /\ cells' = cells /\ cards' = cards
      /\ expanding' = expanding /\ raw' = raw /\ wish' = wish /\ clicked' = clicked
  BY DEF Older
<1>7. EmbedsTyped'
  BY <1>1, <1>5, <1>6 DEF EmbedsTyped
<1>8. ToSet(list) = {list[k] : k \in 1..len}
  <2>1. DOMAIN list = 1..len
    BY <1>1
  <2> QED
    BY <2>1 DEF ToSet
<1> HIDE DEF new, already
<1>9. Gains(room, 1, m)
  <2>1. \A k \in 1..len : ~(k < 1)
    OBVIOUS
  <2>2. lists'[room] = new /\ \A s \in Rooms : s # room => lists'[s] = lists[s]
    BY <1>1, <1>3
  <2> QED
    BY <1>1, <1>4, <2>1, <2>2 DEF Gains
<1>10. IdsApart' /\ \A v, x : Has(v, x) => Has(v, x)'
  BY <1>1, <1>2, <1>9, GainsKeeps
<1>11. \A k \in 1..len : k + 1 \in 1..Len(lists'[room]) /\ lists'[room][k + 1] = list[k]
  BY <1>1, <1>3, <1>4
<1>12. EmbedsFollow'
  <2> SUFFICES ASSUME NEW s \in Rooms, NEW k \in 1..Len(lists'[s])
               PROVE  lists'[s][k].embeds = IF lists'[s][k].seen /\ expanding[s]
                      /\ ~raw[s] THEN {lists'[s][k].link} \ {Plain} ELSE {}
    BY <1>1, <1>6 DEF EmbedsFollow
  <2>1. CASE s # room
    BY <1>1, <1>3, <2>1 DEF EmbedsFollow
  <2>2. CASE s = room /\ k = 1
    BY <1>2, <1>3, <1>4, <2>2
  <2>3. CASE s = room /\ k # 1
    <3>1. k - 1 \in 1..len /\ (k - 1) + 1 = k
      BY <1>1, <1>3, <1>4, <2>3
    <3>2. lists'[s][k] = lists[s][k - 1]
      BY <1>11, <2>3, <3>1
    <3>3. PICK l \in 1..Len(lists[s]) : l = k - 1
      BY <2>3, <3>1
    <3>4. lists[s][l].embeds = IF lists[s][l].seen /\ expanding[s]
          /\ ~raw[s] THEN {lists[s][l].link} \ {Plain} ELSE {}
      BY <1>1, <3>3 DEF EmbedsFollow
    <3> QED
      BY <3>2, <3>3, <3>4
  <2> QED
    BY <2>1, <2>2, <2>3
<1>13. AskedThere'
  <2> SUFFICES ASSUME NEW v \in Links, cards[v].is # "no"
               PROVE  \E s \in Rooms : \E k \in 1..Len(lists'[s]) : AskedAt(v, s, k)'
    BY <1>6 DEF AskedThere
  <2>1p. PICK s \in Rooms : \E k \in 1..Len(lists[s]) : AskedAt(v, s, k)
    BY DEF EmbedsInv, AskedThere
  <2>1. PICK k \in 1..Len(lists[s]) : AskedAt(v, s, k)
    BY <2>1p
  <2>2. CASE s = room
    <3>1. v \in shifted'
      BY <1>6, <1>8, <2>1, <2>2 DEF already, AskedAt
    <3>2. AskedAt(v, s, k + 1)'
      BY <1>6, <1>11, <2>1, <2>2, <3>1 DEF AskedAt
    <3> QED
      BY <1>11, <2>2, <3>2
  <2>3. CASE s # room
    <3>1. AskedAt(v, s, k)' /\ lists'[s] = lists[s]
      BY <1>3, <1>6, <2>1, <2>3 DEF AskedAt
    <3> QED
      BY <3>1
  <2> QED
    BY <2>2, <2>3
<1>14. CellsFollow'
  <2>1. PICK j \in Nat : Shift(j)
    BY DEF EmbedsInv, CellsFollow
  <2>2. Len(cells) \in Nat
    BY <1>1 DEF EmbedsTyped
  <2>3. \A k \in 1..Len(cells) : k + j \in 1..len /\ k + (j + 1) = (k + j) + 1
    BY <1>1, <2>1, <2>2 DEF Shift
  <2>4. Len(cells) + j <= len /\ Len(lists'[room]) = len + 1
    BY <1>1, <1>3, <1>4, <2>1 DEF Shift
  <2>5. \A k \in 1..Len(cells) : cells[k].of = lists'[room][k + (j + 1)].id
    BY <1>11, <2>1, <2>3 DEF Shift
  <2>6. j + 1 # 0 /\ j + 1 \in Nat /\ Len(cells) + (j + 1) <= Len(lists'[room])
    BY <1>1, <2>2, <2>4
  <2>7. Shift(j + 1)'
    BY <1>6, <2>5, <2>6 DEF Shift
  <2> QED
    BY <2>6, <2>7 DEF CellsFollow
<1>15. Shows(cells, cards)'
  BY <1>6 DEF EmbedsInv
<1>16. OwnClick'
  BY <1>6, <1>10, OwnClickKept DEF EmbedsInv
<1> QED
  BY <1>7, <1>10, <1>12, <1>13, <1>14, <1>15, <1>16 DEF EmbedsInv

LEMMA SeeStep == EmbedsInv /\ (\E i \in 1..MaxTalk : See(i)) => EmbedsInv'
<1> SUFFICES ASSUME EmbedsInv, NEW i \in 1..MaxTalk, See(i) PROVE EmbedsInv'
  OBVIOUS
<1> DEFINE list == lists[room]
           len == Len(list)
           w == Watched(list[i], room)
           new == [list EXCEPT ![i] = w]
<1>1. room \in Rooms /\ list \in Seq(Mail) /\ len \in Nat /\ EmbedsTyped /\ IdsApart /\ EmbedsFollow
      /\ (\A s \in Rooms : Len(lists[s]) \in Nat) /\ Len(cells) \in Nat /\ cells \in Seq(Box)
  BY ListsAre DEF EmbedsInv, EmbedsTyped
<1>2. i \in 1..len /\ i \in 1..Len(cells) /\ ~list[i].seen /\ list[i] \in Mail
      /\ list[i].embeds = {}
  <2>1. DOMAIN list = 1..len /\ DOMAIN cells = 1..Len(cells)
    BY <1>1
  <2>2. i \in 1..len /\ i \in 1..Len(cells) /\ ~list[i].seen
    BY <2>1 DEF See
  <2> HIDE DEF list
  <2>3. list[i] \in Mail
    BY <1>1, <2>2
  <2>4. list[i].embeds = {}
    BY <1>1, <2>2 DEF EmbedsFollow, list
  <2> QED
    BY <2>2, <2>3, <2>4
<1>3. /\ expanding' = expanding /\ raw' = raw /\ wish' = wish /\ clicked' = clicked
         /\ shifted' = shifted
      /\ room' = room /\ cells' = cells /\ stale' /\ lists' = [lists EXCEPT ![room] = new]
      /\ cards' = Request(list[i], room)
  BY DEF See
<1>4. /\ w \in Mail /\ w.id = list[i].id /\ w.link = list[i].link /\ w.seen /\ w.anew
      /\ w.embeds = IF expanding[room] /\ ~raw[room] THEN {w.link} \ {Plain} ELSE {}
  <2>1. Embeds(list[i], room) = (IF Setting(room) THEN {list[i].link} \ {Plain} ELSE {})
        /\ Embeds(list[i], room) \in SUBSET Links
    BY <1>2, EmbedsIs
  <2>2. w = [id |-> list[i].id, link |-> list[i].link, seen |-> TRUE, embeds |-> Embeds(list[i], room), anew |-> TRUE,
             index |-> list[i].index]
    <3> DEFINE e == Embeds(list[i], room)
    <3> HIDE DEF e
    <3>1. w = [list[i] EXCEPT !.seen = TRUE, !.embeds = e, !.anew = TRUE]
      BY DEF Watched, w, e
    <3>2. list[i] = [id |-> list[i].id, link |-> list[i].link, seen |-> list[i].seen, embeds |-> list[i].embeds,
                     anew |-> list[i].anew, index |-> list[i].index]
      BY <1>2 DEF Mail
    <3> QED
      BY <3>1, <3>2 DEF e
  <2>3. TRUE \in BOOLEAN
    OBVIOUS
  <2> QED
    BY <1>2, <1>3, <2>1, <2>2, <2>3 DEF Mail, Setting
<1> HIDE DEF w
<1>5. /\ new \in Seq(Mail) /\ Len(new) = len /\ new[i] = w
      /\ \A k \in 1..len : k # i => new[k] = list[k]
  BY <1>1, <1>2, <1>4
<1> HIDE DEF new
<1>6. \A s \in Rooms : lists'[s] = IF s = room THEN new ELSE lists[s]
  BY <1>1, <1>3 DEF EmbedsTyped
<1>7. lists' \in [Rooms -> Seq(Mail)]
  BY <1>1, <1>3, <1>5 DEF EmbedsTyped
<1>8. /\ cards' \in [Links -> Entry]
      /\ \A u \in Links : \/ cards'[u] = cards[u]
                          \/ /\ cards[u].is = "no" /\ cards'[u].is = "asked"
                             /\ cards'[u].by = list[i].id /\ list[i].link = u
  <2>1. \A u \in Links : cards[u] \in Entry
    BY <1>1 DEF EmbedsTyped
  <2>2. cards' = [u \in Links |-> cards'[u]] /\ \A u \in Links : cards'[u] =
          IF u \in Embeds(list[i], room)
          /\ cards[u].is = "no" THEN [cards[u] EXCEPT !.is = "asked", !.by = list[i].id] ELSE cards[u]
    BY <1>3 DEF Request
  <2>3. \A u \in Embeds(list[i], room) : list[i].link = u
    BY <1>2, EmbedsIs
  <2>4. ASSUME NEW u \in Links
        PROVE  /\ cards'[u] \in Entry
               /\ \/ cards'[u] = cards[u]
                  \/ /\ cards[u].is = "no" /\ cards'[u].is = "asked"
                     /\ cards'[u].by = list[i].id /\ list[i].link = u
    <3>1. CASE ~(u \in Embeds(list[i], room) /\ cards[u].is = "no")
      BY <2>1, <2>2, <3>1
    <3>2. CASE u \in Embeds(list[i], room) /\ cards[u].is = "no"
      <4>1. list[i].id \in Nat
        BY <1>2 DEF Mail
      <4>2. cards'[u] = [cards[u] EXCEPT !.is = "asked", !.by = list[i].id]
        BY <2>2, <3>2
      <4>3. cards'[u] \in Entry /\ cards'[u].is = "asked" /\ cards'[u].by = list[i].id
        BY <2>1, <4>1, <4>2 DEF Entry
      <4> QED
        BY <2>3, <3>2, <4>3
    <3> QED
      BY <3>1, <3>2
  <2> QED
    BY <2>2, <2>4
<1>9. EmbedsTyped'
  BY <1>1, <1>3, <1>7, <1>8 DEF EmbedsTyped
<1>10. \A s \in Rooms : Len(lists'[s]) = Len(lists[s]) /\ \A k \in 1..Len(lists[s]) :
         IF s = room /\ k = i THEN lists'[s][k] = w ELSE lists'[s][k] = lists[s][k]
  BY <1>1, <1>5, <1>6
<1>11. Relabels
  BY <1>4, <1>10 DEF Relabels
<1>12. IdsApart' /\ \A u, x : Has(u, x)' <=> Has(u, x)
  BY <1>1, <1>11, RelabelKeeps
<1>13. EmbedsFollow'
  <2> SUFFICES ASSUME NEW s \in Rooms, NEW k \in 1..Len(lists[s])
               PROVE  lists'[s][k].embeds = IF lists'[s][k].seen /\ expanding[s]
                      /\ ~raw[s] THEN {lists'[s][k].link} \ {Plain} ELSE {}
    <3>1. \A s \in Rooms : Len(lists'[s]) = Len(lists[s])
      BY <1>10
    <3>2. raw' = raw /\ expanding' = expanding /\ wish' = wish /\ room' = room
          /\ expanding[room] = wish
      BY <1>1, <1>3 DEF EmbedsFollow
    <3> QED
      BY <3>1, <3>2 DEF EmbedsFollow
  <2>1. CASE s = room /\ k = i
    BY <1>4, <1>10, <2>1
  <2>2. CASE ~(s = room /\ k = i)
    BY <1>1, <1>10, <2>2 DEF EmbedsFollow
  <2> QED
    BY <2>1, <2>2
<1>14. AskedThere'
  <2> SUFFICES ASSUME NEW u \in Links, cards'[u].is # "no"
               PROVE  \E s \in Rooms : \E k \in 1..Len(lists'[s]) : AskedAt(u, s, k)'
    BY DEF AskedThere
  <2>1. CASE cards'[u] = cards[u]
    <3>1p. PICK s \in Rooms : \E k \in 1..Len(lists[s]) : AskedAt(u, s, k)
      BY <2>1 DEF EmbedsInv, AskedThere
    <3>1. PICK k \in 1..Len(lists[s]) : AskedAt(u, s, k)
      BY <3>1p
    <3>2. CASE s = room /\ k = i
      BY <1>3, <1>4, <1>10, <2>1, <3>1, <3>2 DEF AskedAt
    <3>3. CASE ~(s = room /\ k = i)
      BY <1>3, <1>10, <2>1, <3>1, <3>3 DEF AskedAt
    <3> QED
      BY <1>10, <3>2, <3>3
  <2>2. CASE cards'[u] # cards[u]
    <3>1. cards'[u].is = "asked" /\ cards'[u].by = list[i].id /\ list[i].link = u
      BY <1>8, <2>2
    <3>s. PICK s \in Rooms : s = room
      BY <1>1
    <3>2. AskedAt(u, s, i)'
      <4>1. lists'[room][i] = w
        BY <1>1, <1>2, <1>10
      <4>2. w.id = cards'[u].by /\ w.link = u /\ w.anew /\ cards'[u].is # "card"
        BY <1>4, <3>1
      <4> QED
        BY <3>s, <4>1, <4>2 DEF AskedAt
    <3>3. i \in 1..Len(lists'[s])
      BY <1>1, <1>2, <1>10, <3>s
    <3> QED
      BY <3>2, <3>3
  <2> QED
    BY <2>1, <2>2
<1>15. CellsFollow'
  <2>1. PICK j \in Nat : Shift(j)
    BY DEF EmbedsInv, CellsFollow
  <2>2. Len(cells) + j <= len /\ \A k \in 1..Len(cells) : k + j \in 1..len /\ cells[k].of = lists[room][k + j].id
    BY <1>1, <2>1 DEF Shift
  <2>3. \A k \in 1..Len(cells) : cells[k].of = lists'[room][k + j].id
    BY <1>1, <1>11, <2>2 DEF Relabels
  <2>4. ASSUME j = 0
        PROVE  /\ \A k \in 1..Len(cells) : lists'[room][k].anew \/ cells[k].has = lists'[room][k].embeds
               /\ \/ \A k \in 1..Len(cells) : lists'[room][k].anew
                  \/ \A k \in 1..Len(cells) : lists'[room][k].anew => cells[k].has = {}
    <3>1. \A k \in 1..Len(cells) : k \in 1..len
      BY <1>1, <2>2, <2>4
    <3>2. \A k \in 1..Len(cells) : IF k = i THEN lists'[room][k].anew ELSE lists'[room][k] = list[k]
      BY <1>1, <1>4, <1>10, <3>1
    <3>3. list[i].anew \/ cells[i].has = {}
      BY <1>2, <2>1, <2>4 DEF Shift
    <3>4. \/ \A k \in 1..Len(cells) : list[k].anew
          \/ (\A k \in 1..Len(cells) : list[k].anew => cells[k].has = {})
      BY <2>1, <2>4 DEF Shift
    <3>5. \A k \in 1..Len(cells) : list[k].anew \/ cells[k].has = list[k].embeds
      BY <2>1, <2>4 DEF Shift
    <3> HIDE DEF list
    <3> QED
      BY <1>2, <3>2, <3>3, <3>4, <3>5
  <2>5. Shift(j)'
    BY <1>1, <1>3, <1>10, <2>2, <2>3, <2>4 DEF Shift
  <2> QED
    BY <2>5 DEF CellsFollow
<1>16. Shows(cells, cards)'
  <2>1. \A u \in Links : cards'[u].is = cards[u].is \/ (cards[u].is = "no" /\ cards'[u].is = "asked")
    BY <1>8
  <2>2. Shows(cells, cards')
    BY <1>1, <2>1, ShowsLater DEF EmbedsInv
  <2> QED
    BY <1>3, <2>2
<1>17. OwnClick'
  BY <1>3, <1>12, OwnClickKept DEF EmbedsInv
<1> QED
  BY <1>9, <1>12, <1>13, <1>14, <1>15, <1>16, <1>17 DEF EmbedsInv

LEMMA ExpandStep == EmbedsInv /\ (\E i \in 1..MaxTalk : Expand(i)) => EmbedsInv'
<1> SUFFICES ASSUME EmbedsInv, NEW i \in 1..MaxTalk, Expand(i) PROVE EmbedsInv'
  OBVIOUS
<1> DEFINE list == lists[room]
           len == Len(list)
<1>1. room \in Rooms /\ list \in Seq(Mail) /\ len \in Nat /\ EmbedsTyped /\ IdsApart
      /\ Len(cells) \in Nat /\ DOMAIN cells = 1..Len(cells) /\ DOMAIN list = 1..len
  <2>1. cells \in Seq(Box) /\ room \in Rooms /\ list \in Seq(Mail)
    BY ListsAre DEF EmbedsInv, EmbedsTyped
  <2> HIDE DEF list
  <2> QED
    BY <2>1 DEF EmbedsInv
<1>2. lists' = lists /\ raw' = raw /\ expanding' = expanding /\ wish' = wish /\ cards' = cards
      /\ room' = room
      /\ cells' = cells /\ stale' = stale /\ shifted' = shifted
  BY DEF Expand, talkVars
<1>3. ~stale /\ i \in 1..Len(cells) /\ cells[i].is = "card"
  BY <1>1 DEF Expand, Look
<1>4. PICK u \in cells[i].has :
        clicked' = [on |-> cells[i].of, hit |-> IF cards[u].at \in DOMAIN list THEN list[cards[u].at].id ELSE 0]
  BY DEF Expand
<1>5. u \in Links /\ cells[i].has = {u} /\ cards[u].is = "card"
  <2>1. ShowsCell(cells, cards, i)
    BY <1>3 DEF EmbedsInv, Shows
  <2> QED
    BY <1>3, <1>4, <2>1 DEF ShowsCell
<1>6. Shift(0) /\ Len(cells) = len
  <2>1. PICK j \in Nat : Shift(j)
    BY DEF EmbedsInv, CellsFollow
  <2> QED
    BY <1>3, <2>1 DEF Shift
<1>7. i \in 1..len /\ cells[i].of = list[i].id /\ list[i].embeds = {u}
  <2>1. i + 0 = i /\ i \in 1..len
    BY <1>3, <1>6
  <2> QED
    BY <1>3, <1>5, <1>6, <2>1 DEF Shift
<1>8. list[i].link = u
  <2>1. list[i].embeds = {} \/ list[i].embeds = {list[i].link} \ {Plain}
    BY <1>1, <1>7 DEF EmbedsInv, EmbedsFollow
  <2> QED
    BY <1>7, <2>1
<1>9. \A k \in 1..len : list[k].id \in Nat
  BY <1>1, ListsAre DEF Mail
<1>10. clicked' \in [on : Nat, hit : Nat]
  BY <1>1, <1>4, <1>7, <1>9
<1>11. EmbedsTyped'
  BY <1>1, <1>2, <1>10 DEF EmbedsTyped
<1>12. IdsApart' /\ EmbedsFollow' /\ AskedThere' /\ CellsFollow' /\ Shows(cells, cards)'
  <2>1. IdsApart'
    <3>1. Relabels
      BY <1>2 DEF Relabels
    <3> QED
      BY <3>1, RelabelKeeps DEF EmbedsInv
  <2>2. EmbedsFollow'
    BY <1>2 DEF EmbedsInv, EmbedsFollow
  <2>3. AskedThere'
    BY <1>2 DEF EmbedsInv, AskedThere, AskedAt
  <2>4. CellsFollow'
    BY <1>2 DEF EmbedsInv, CellsFollow, Shift
  <2>5. Shows(cells, cards)'
    BY <1>2 DEF EmbedsInv
  <2> QED
    BY <2>1, <2>2, <2>3, <2>4, <2>5
<1>13p. PICK r \in Rooms : \E k \in 1..Len(lists[r]) : AskedAt(u, r, k)
  BY <1>5 DEF EmbedsInv, AskedThere
<1>13. PICK k \in 1..Len(lists[r]) : AskedAt(u, r, k)
  BY <1>13p
<1>14. OwnClick'
  <2>x. PICK x \in Nat : x = list[i].id
    BY <1>7, <1>9
  <2>y. PICK y \in Nat : y = cards[u].by
    BY <1>1, <1>5 DEF EmbedsTyped, Entry
  <2>1. clicked'.on = x /\ Has(u, x)'
    BY <1>1, <1>2, <1>4, <1>7, <1>8, <2>x DEF Has
  <2>2. CASE y # x
    <3>1. Has(u, y)'
      BY <1>1, <1>2, <1>13, <2>y DEF Has, AskedAt
    <3> QED
      BY <1>5, <2>1, <2>2, <3>1 DEF OwnClick, Has
  <2>3. CASE u \in shifted
    BY <1>2, <2>1, <2>3 DEF OwnClick, Has
  <2>4. CASE y = x /\ u \notin shifted
    <3>1. r = room /\ k = i
      BY <1>1, <1>7, <1>13, <2>x, <2>y, <2>4 DEF AskedAt, IdsApart
    <3>2. cards[u].at = i
      BY <1>5, <1>13, <2>4, <3>1 DEF AskedAt
    <3>3. clicked'.hit = x
      BY <1>1, <1>4, <1>7, <2>x, <3>2
    <3> QED
      BY <2>1, <3>3 DEF OwnClick
  <2> QED
    BY <2>2, <2>3, <2>4
<1> QED
  BY <1>11, <1>12, <1>14 DEF EmbedsInv

\* The answer for u fills the cells that waited for it, one of them with the card.
Fills(d, c, u) ==
  /\ Len(d) = Len(cells) /\ c[u].is \in {"card", "empty"}
  /\ \A v \in Links : v # u => c[v] = cards[v]
  /\ \A i \in 1..Len(cells) : d[i].has = cells[i].has
  /\ \A i \in 1..Len(cells) : cells[i].has # {u} => d[i].is = cells[i].is
  /\ c[u].is = "empty" => \A i \in 1..Len(cells) : cells[i].has = {u} /\ cells[i].is = "waiting" => d[i].is = "box"
  /\ c[u].is = "card" =>
       \A i \in 1..Len(cells) : cells[i].has = {u} /\ cells[i].is = "waiting" =>
         \E last \in 1..Len(cells) :
           /\ cells[last].has = {u}
           /\ \A l \in 1..Len(cells) : cells[l].has = {u} /\ cells[l].is = "waiting" =>
                d[l].is = IF l = last THEN "card" ELSE "hidden"

LEMMA WaitingShow ==
  ASSUME EmbedsTyped, Shows(cells, cards), NEW u \in Links, cards[u].is = "asked",
         NEW d \in Seq(Box), NEW c, Fills(d, c, u)
  PROVE  Shows(d, c)
<1> USE DEF Fills
<1> SUFFICES ASSUME NEW k \in 1..Len(cells) PROVE ShowsCell(d, c, k)
  BY DEF Shows
<1>1. \A l \in 1..Len(cells) : ShowsCell(cells, cards, l)
  BY DEF Shows
<1>2. \A l \in 1..Len(cells) : cells[l].has = {u} => cells[l].is = "waiting"
  <2> TAKE l \in 1..Len(cells)
  <2> SUFFICES ASSUME cells[l].has = {u} PROVE cells[l].is = "waiting"
    OBVIOUS
  <2>1. cells[l].is \in {"waiting", "card", "hidden", "box"}
    <3>1. cells \in Seq(Box)
      BY DEF EmbedsTyped
    <3>2. cells[l] \in Box
      BY <3>1
    <3> QED
      BY <3>2 DEF Box
  <2>2. \A v \in Links : cells[l].has = {v} => v = u
    OBVIOUS
  <2>3. ShowsCell(cells, cards, l)
    BY <1>1
  <2> QED
    BY <2>1, <2>2, <2>3 DEF ShowsCell
<1>3. CASE cells[k].has = {u}
  <2>1. cells[k].is = "waiting" /\ d[k].has = {u}
    BY <1>2, <1>3
  <2>2. CASE c[u].is = "empty"
    <3>1. d[k].is = "box"
      BY <1>3, <2>1, <2>2
    <3> QED
      BY <2>1, <2>2, <3>1 DEF ShowsCell
  <2>3. CASE c[u].is = "card"
    <3>1. PICK last \in 1..Len(cells) :
            /\ cells[last].has = {u}
            /\ \A l \in 1..Len(cells) : cells[l].has = {u} /\ cells[l].is = "waiting" =>
                 d[l].is = IF l = last THEN "card" ELSE "hidden"
      BY <1>3, <2>1, <2>3
    <3>2. \A l \in 1..Len(cells) : d[l].has = {u} => d[l].is = IF l = last THEN "card" ELSE "hidden"
      BY <1>2, <3>1
    <3>3. d[last].is = "card" /\ d[last].has = {u}
      BY <3>1, <3>2
    <3>4. d[k].is = IF k = last THEN "card" ELSE "hidden"
      BY <2>1, <3>2
    <3> QED
      BY <2>1, <2>3, <3>2, <3>3, <3>4 DEF ShowsCell
  <2> QED
    BY <2>2, <2>3
<1>4. CASE cells[k].has # {u}
  <2>1. d[k].is = cells[k].is /\ d[k].has = cells[k].has
    BY <1>4
  <2>2. \A l \in 1..Len(cells) : cells[l].has = cells[k].has => d[l].is = cells[l].is
    BY <1>4
  <2>3. \A l \in 1..Len(cells) : d[l].has = cells[l].has
    OBVIOUS
  <2>4. ShowsCell(cells, cards, k)
    BY <1>1
  <2>5. \A v \in Links : cells[k].has = {v} => c[v] = cards[v]
    BY <1>4
  <2> QED
    BY <2>1, <2>2, <2>3, <2>4, <2>5 DEF ShowsCell
<1> QED
  BY <1>3, <1>4

LEMMA CardLoadedStep == EmbedsInv /\ (\E u \in Links : CardLoaded(u)) => EmbedsInv'
<1> SUFFICES ASSUME EmbedsInv, NEW u \in Links, CardLoaded(u) PROVE EmbedsInv'
  OBVIOUS
<1> DEFINE n == Len(cells)
           m == CHOOSE m \in UNION {ToSet(lists[r]) : r \in Rooms} : m.id = cards[u].by
           waiting == {i \in DOMAIN cells : cells[i].has = {u} /\ cells[i].is = "waiting"}
           boxed == [i \in DOMAIN cells |-> IF i \in waiting THEN [cells[i] EXCEPT !.is = "box"] ELSE cells[i]]
<1>1. room \in Rooms /\ EmbedsTyped /\ IdsApart /\ n \in Nat /\ DOMAIN cells = 1..n
      /\ cells \in Seq(Box)
      /\ (\A k \in 1..n : cells[k] \in Box)
      /\ \A r \in Rooms : Len(lists[r]) \in Nat
  <2>1. cells \in Seq(Box) /\ room \in Rooms
    BY DEF EmbedsInv, EmbedsTyped
  <2> QED
    BY <2>1, ListsAre DEF EmbedsInv
<1>2. /\ lists' = lists /\ raw' = raw /\ expanding' = expanding /\ wish' = wish /\ room' = room
      /\ clicked' = clicked /\ shifted' = shifted /\ stale' /\ cards[u].is = "asked" /\ ~m.anew
  BY DEF CardLoaded
<1>3. \/ /\ cards' = [cards EXCEPT ![u].is = "card", ![u].at = m.index]
         /\ IF waiting = {} THEN cells' = cells ELSE \E last \in waiting : cells' = RenderEmbed(cells, waiting, {last})
      \/ /\ cards' = [cards EXCEPT ![u].is = "empty"]
         /\ cells' = boxed
  BY DEF CardLoaded
<1>4p. PICK r \in Rooms : \E k \in 1..Len(lists[r]) : AskedAt(u, r, k)
  BY <1>2 DEF EmbedsInv, AskedThere
<1>4. PICK k \in 1..Len(lists[r]) : AskedAt(u, r, k)
  BY <1>4p
<1>5. m = lists[r][k] /\ m \in Mail
  <2>1. \A s \in Rooms : ToSet(lists[s]) = {lists[s][l] : l \in 1..Len(lists[s])}
    <3> TAKE s \in Rooms
    <3>1. lists[s] \in Seq(Mail)
      BY <1>1, ListsAre
    <3>2. DOMAIN lists[s] = 1..Len(lists[s])
      BY <3>1
    <3> QED
      BY <3>2 DEF ToSet
  <2>2. lists[r][k] \in UNION {ToSet(lists[s]) : s \in Rooms} /\ lists[r][k].id = cards[u].by
    BY <1>4, <2>1 DEF AskedAt
  <2>3. m \in UNION {ToSet(lists[s]) : s \in Rooms} /\ m.id = cards[u].by
    BY <2>2
  <2>a. PICK s \in Rooms : m \in ToSet(lists[s])
    <3> HIDE DEF m
    <3> QED
      BY <2>3
  <2> HIDE DEF m
  <2>4p. \E l \in 1..Len(lists[s]) : m = lists[s][l]
    BY <2>1, <2>a
  <2>4. PICK l \in 1..Len(lists[s]) : m = lists[s][l]
    BY <2>4p
  <2>5. s = r /\ l = k
    BY <1>1, <2>2, <2>3, <2>4 DEF IdsApart
  <2>6. lists[r][k] \in Mail
    BY <1>1, ListsAre
  <2> QED
    BY <2>4, <2>5, <2>6
<1>6. u \notin shifted => m.index = k
  BY <1>2, <1>4, <1>5 DEF AskedAt
<1> HIDE DEF m, n
<1>7. /\ cards' \in [Links -> Entry] /\ cards'[u].by = cards[u].by
         /\ cards'[u].is \in {"card", "empty"}
      /\ cards'[u].is = "card" => cards'[u].at = m.index
      /\ \A v \in Links : v # u => cards'[v] = cards[v]
  <2>1. cards \in [Links -> Entry] /\ cards[u] \in Entry /\ m.index \in Nat
    BY <1>1, <1>5 DEF EmbedsTyped, Mail
  <2>2. PICK e \in {[cards[u] EXCEPT !.is = "card", !.at = m.index], [cards[u] EXCEPT !.is = "empty"]} :
          cards' = [cards EXCEPT ![u] = e]
    BY <1>3, <2>1
  <2>3. e \in Entry /\ e.by = cards[u].by /\ e.is \in {"card", "empty"}
        /\ (e.is = "card" => e.at = m.index)
    BY <2>1, <2>2 DEF Entry
  <2> QED
    BY <2>1, <2>2, <2>3
<1>8. /\ cells' \in Seq(Box) /\ Len(cells') = n
      /\ \A i \in 1..n : cells'[i].of = cells[i].of /\ cells'[i].has = cells[i].has
      /\ \A i \in 1..n : cells[i].has # {u} => cells'[i].is = cells[i].is
      /\ cards'[u].is = "empty" => \A i \in 1..n : cells[i].has = {u} /\ cells[i].is = "waiting" => cells'[i].is = "box"
      /\ cards'[u].is = "card" =>
           \A i \in 1..n : cells[i].has = {u} /\ cells[i].is = "waiting" =>
             \E last \in 1..n :
               /\ cells[last].has = {u}
               /\ \A l \in 1..n : cells[l].has = {u} /\ cells[l].is = "waiting" =>
                    cells'[l].is = IF l = last THEN "card" ELSE "hidden"
  <2>1. waiting \subseteq 1..n /\ \A i \in 1..n : i \in waiting <=> cells[i].has = {u} /\ cells[i].is = "waiting"
    BY <1>1
  <2>2. cards \in [Links -> Entry] /\ cards[u] \in Entry
    BY <1>1 DEF EmbedsTyped
  <2>3. boxed = [i \in 1..n |-> IF i \in waiting THEN [cells[i] EXCEPT !.is = "box"] ELSE cells[i]]
    BY <1>1
  <2> HIDE DEF waiting, boxed
  <2>4. CASE cards' = [cards EXCEPT ![u].is = "empty"] /\ cells' = boxed
    <3>1. cards'[u].is = "empty"
      BY <2>2, <2>4 DEF Entry
    <3>2. \A i \in 1..n : cells'[i] = IF i \in waiting THEN [cells[i] EXCEPT !.is = "box"] ELSE cells[i]
      BY <2>3, <2>4
    <3>3. ASSUME NEW i \in 1..n
          PROVE  /\ cells'[i] \in Box /\ cells'[i].of = cells[i].of /\ cells'[i].has = cells[i].has
                 /\ IF i \in waiting THEN cells'[i].is = "box" ELSE cells'[i] = cells[i]
      BY <1>1, <3>2 DEF Box
    <3>4. cells' \in [1..n -> Box]
      BY <2>3, <2>4, <3>3
    <3>5. cells' \in Seq(Box) /\ Len(cells') = n
      BY <1>1, <3>4, SeqIs
    <3> QED
      BY <2>1, <3>1, <3>3, <3>5
  <2>5. CASE /\ cards' = [cards EXCEPT ![u].is = "card", ![u].at = m.index]
             /\ IF waiting = {} THEN cells' = cells ELSE \E last \in waiting : cells' = RenderEmbed(cells, waiting, {last})
    <3>1. cards'[u].is = "card"
      BY <2>2, <2>5 DEF Entry
    <3>2. CASE waiting = {}
      BY <1>1, <2>1, <2>5, <3>1, <3>2 DEF n
    <3>3. CASE waiting # {}
      <4>1. PICK last \in waiting : cells' = RenderEmbed(cells, waiting, {last})
        BY <2>5, <3>3
      <4>2. last \in 1..n /\ cells[last].has = {u}
        BY <2>1
      <4>3. cells' = [i \in 1..n |-> IF i \in {last} THEN [cells[i] EXCEPT !.is = "card"]
                                     ELSE IF (i \in waiting \/ cells[i].is = "card")
                                     /\ \E l \in {last} : cells[l].has = cells[i].has
                                            THEN [cells[i] EXCEPT !.is = "hidden"]
                                     ELSE cells[i]]
        BY <1>1, <4>1 DEF RenderEmbed
      <4>4. \A i \in 1..n : cells'[i] = IF i = last THEN [cells[i] EXCEPT !.is = "card"]
                                        ELSE IF (i \in waiting \/ cells[i].is = "card")
                                        /\ cells[i].has = {u}
                                            THEN [cells[i] EXCEPT !.is = "hidden"]
                                        ELSE cells[i]
        BY <4>2, <4>3
      <4>5. ASSUME NEW i \in 1..n
            PROVE  /\ cells'[i] \in Box /\ cells'[i].of = cells[i].of
                      /\ cells'[i].has = cells[i].has
                   /\ cells[i].has # {u} => cells'[i].is = cells[i].is
                   /\ i \in waiting => cells'[i].is = IF i = last THEN "card" ELSE "hidden"
        <5>1. cells[i] \in Box
          BY <1>1
        <5>2. CASE i = last
          <6>1. cells'[i] = [cells[i] EXCEPT !.is = "card"]
            BY <4>4, <5>2
          <6> QED
            BY <4>2, <5>1, <5>2, <6>1 DEF Box
        <5>3. CASE i # last /\ (i \in waiting \/ cells[i].is = "card") /\ cells[i].has = {u}
          <6>1. cells'[i] = [cells[i] EXCEPT !.is = "hidden"]
            BY <4>4, <5>3
          <6> QED
            BY <5>1, <5>3, <6>1 DEF Box
        <5>4. CASE i # last /\ ~((i \in waiting \/ cells[i].is = "card") /\ cells[i].has = {u})
          <6>1. cells'[i] = cells[i]
            BY <4>4, <5>4
          <6> QED
            BY <2>1, <5>1, <5>4, <6>1
        <5> QED
          BY <5>2, <5>3, <5>4
      <4>6. cells' \in [1..n -> Box]
        BY <4>3, <4>5
      <4>7. cells' \in Seq(Box) /\ Len(cells') = n
        BY <1>1, <4>6, SeqIs
      <4> QED
        <5>1. \A i \in 1..n : cells[i].has = {u} /\ cells[i].is = "waiting" => cells'[i].is = IF i = last THEN "card" ELSE "hidden"
          BY <2>1, <4>5
        <5> QED
          BY <3>1, <4>2, <4>5, <4>7, <5>1
    <3> QED
      BY <3>2, <3>3
  <2> QED
    BY <1>3, <2>4, <2>5 DEF boxed
<1>9. EmbedsTyped'
  BY <1>1, <1>2, <1>7, <1>8 DEF EmbedsTyped
<1>10. IdsApart' /\ EmbedsFollow' /\ \A v, x : Has(v, x) => Has(v, x)'
  <2>1. IdsApart'
    <3>1. Relabels
      BY <1>2 DEF Relabels
    <3> QED
      BY <3>1, RelabelKeeps DEF EmbedsInv
  <2>2. EmbedsFollow'
    BY <1>2 DEF EmbedsInv, EmbedsFollow
  <2>3. \A v, x : Has(v, x) => Has(v, x)'
    BY <1>2 DEF Has
  <2> QED
    BY <2>1, <2>2, <2>3
<1>11. AskedThere'
  <2> SUFFICES ASSUME NEW v \in Links, cards'[v].is # "no"
               PROVE  \E s \in Rooms : \E l \in 1..Len(lists[s]) : AskedAt(v, s, l)'
    BY <1>2 DEF AskedThere
  <2>1. CASE v = u
    <3>1. AskedAt(u, r, k)'
      BY <1>2, <1>4, <1>5, <1>6, <1>7 DEF AskedAt
    <3> QED
      BY <2>1, <3>1
  <2>2. CASE v # u
    <3>1. cards'[v] = cards[v]
      BY <1>7, <2>2
    <3>2p. PICK s \in Rooms : \E l \in 1..Len(lists[s]) : AskedAt(v, s, l)
      BY <3>1 DEF EmbedsInv, AskedThere
    <3>2. PICK l \in 1..Len(lists[s]) : AskedAt(v, s, l)
      BY <3>2p
    <3>3. AskedAt(v, s, l)'
      BY <1>2, <3>1, <3>2 DEF AskedAt
    <3> QED
      BY <3>3
  <2> QED
    BY <2>1, <2>2
<1>12. CellsFollow'
  <2>1. PICK j \in Nat : Shift(j)
    BY DEF EmbedsInv, CellsFollow
  <2>2. Shift(j)'
    BY <1>2, <1>8, <2>1 DEF Shift, n
  <2> QED
    BY <2>2 DEF CellsFollow
<1>13. Shows(cells, cards)'
  <2>1. Shows(cells, cards)
    BY DEF EmbedsInv
  <2> QED
    <3>1. Fills(cells', cards', u) /\ cells' \in Seq(Box)
      BY <1>7, <1>8 DEF Fills, n
    <3> QED
      BY <1>1, <1>2, <2>1, <3>1, WaitingShow
<1>14. OwnClick'
  BY <1>2, <1>10, OwnClickKept DEF EmbedsInv
<1> QED
  BY <1>9, <1>10, <1>11, <1>12, <1>13, <1>14 DEF EmbedsInv

LEMMA ToggleRawStep == EmbedsInv /\ ToggleRaw => EmbedsInv'
<1> SUFFICES ASSUME EmbedsInv, ToggleRaw PROVE EmbedsInv'
  OBVIOUS
<1> DEFINE len == Len(lists[room])
<1>1. room \in Rooms /\ len \in Nat /\ EmbedsTyped /\ IdsApart /\ EmbedsFollow
      /\ cells \in Seq(Box) /\ Len(cells) \in Nat
  BY ListsAre DEF EmbedsInv, EmbedsTyped
<1>2. /\ expanding' = expanding /\ wish' = wish /\ clicked' = clicked /\ shifted' = shifted
         /\ room' = room
      /\ cells' = cells /\ stale' /\ ~stale /\ lists' = [lists EXCEPT ![room] = Anew(room)]
         /\ cards' = RequestAll(room)
      /\ raw' = [raw EXCEPT ![room] = ~@]
  BY DEF ToggleRaw, Look
<1>3. /\ Anew(room) \in Seq(Mail) /\ Len(Anew(room)) = len
      /\ \A k \in 1..len : LET m == Anew(room)[k] IN
           /\ m.id = lists[room][k].id /\ m.link = lists[room][k].link
              /\ m.seen = lists[room][k].seen
           /\ m.embeds = IF m.seen /\ Setting(room) THEN {m.link} \ {Plain} ELSE {}
           /\ m.index = lists[room][k].index /\ m.anew
  BY <1>1, AnewIs
<1>4. \A s \in Rooms : lists'[s] = IF s = room THEN Anew(room) ELSE lists[s]
  BY <1>1, <1>2 DEF EmbedsTyped
<1>5. /\ cards' \in [Links -> Entry]
      /\ \A u \in Links : \/ cards'[u] = cards[u]
                          \/ /\ cards[u].is = "no" /\ cards'[u].is = "asked"
                             /\ \E k \in 1..len : lists[room][k].id = cards'[u].by /\ lists[room][k].link = u
  <2>1. PICK c : c = RequestAll(room)
    OBVIOUS
  <2>2. /\ c \in [Links -> Entry]
        /\ \A u \in Links : \/ c[u] = cards[u]
                            \/ /\ cards[u].is = "no" /\ c[u].is = "asked"
                               /\ \E k \in 1..Len(lists[room]) : lists[room][k].id = c[u].by /\ lists[room][k].link = u
    BY <1>1, <2>1, RequestAllIs
  <2>3. cards' = c
    BY <1>2, <2>1
  <2> QED
    BY <2>2, <2>3
<1>6. EmbedsTyped'
  <2>1. lists' \in [Rooms -> Seq(Mail)]
    BY <1>1, <1>2, <1>3 DEF EmbedsTyped
  <2>2. raw' \in [Rooms -> BOOLEAN]
    BY <1>1, <1>2 DEF EmbedsTyped
  <2> QED
    BY <1>1, <1>2, <1>5, <2>1, <2>2 DEF EmbedsTyped
<1>7. Relabels
  BY <1>3, <1>4 DEF Relabels
<1>8. IdsApart' /\ \A u, x : Has(u, x)' <=> Has(u, x)
  BY <1>1, <1>7, RelabelKeeps
<1>9. EmbedsFollow'
  <2> SUFFICES ASSUME NEW s \in Rooms, NEW k \in 1..Len(lists[s])
               PROVE  lists'[s][k].embeds = IF lists'[s][k].seen /\ expanding'[s]
                      /\ ~raw'[s] THEN {lists'[s][k].link} \ {Plain} ELSE {}
    <3>1. \A s \in Rooms : Len(lists'[s]) = Len(lists[s])
      BY <1>7 DEF Relabels
    <3>2. expanding' = expanding /\ wish' = wish /\ room' = room /\ expanding[room] = wish
      BY <1>1, <1>2 DEF EmbedsFollow
    <3> QED
      BY <3>1, <3>2 DEF EmbedsFollow
  <2>1. CASE s = room
    BY <1>3, <1>4, <2>1 DEF Setting
  <2>2. CASE s # room
    <3>1. raw'[s] = raw[s] /\ expanding'[s] = expanding[s] /\ lists'[s] = lists[s]
      BY <1>1, <1>2, <1>4, <2>2 DEF EmbedsTyped
    <3> QED
      BY <1>1, <3>1 DEF EmbedsFollow
  <2> QED
    BY <2>1, <2>2
<1>10. AskedThere'
  <2> SUFFICES ASSUME NEW u \in Links, cards'[u].is # "no"
               PROVE  \E s \in Rooms : \E k \in 1..Len(lists'[s]) : AskedAt(u, s, k)'
    BY DEF AskedThere
  <2>1. CASE cards'[u] = cards[u]
    <3>1p. PICK s \in Rooms : \E k \in 1..Len(lists[s]) : AskedAt(u, s, k)
      BY <2>1 DEF EmbedsInv, AskedThere
    <3>1. PICK k \in 1..Len(lists[s]) : AskedAt(u, s, k)
      BY <3>1p
    <3>2. AskedAt(u, s, k)'
      <4>1. CASE s = room
        <5>1. lists'[s][k].id = lists[s][k].id /\ lists'[s][k].link = lists[s][k].link
              /\ lists'[s][k].anew
          BY <1>3, <1>4, <4>1
        <5> QED
          BY <1>2, <2>1, <3>1, <5>1 DEF AskedAt
      <4>2. CASE s # room
        BY <1>2, <1>4, <2>1, <3>1, <4>2 DEF AskedAt
      <4> QED
        BY <4>1, <4>2
    <3> QED
      BY <1>7, <3>2 DEF Relabels
  <2>2. CASE cards'[u] # cards[u]
    <3>1. PICK k \in 1..len : lists[room][k].id = cards'[u].by /\ lists[room][k].link = u
      BY <1>5, <2>2
    <3>2. PICK s \in Rooms : s = room
      BY <1>1
    <3>3. lists'[s][k].id = cards'[u].by /\ lists'[s][k].link = u /\ lists'[s][k].anew
          /\ cards'[u].is = "asked"
      <4>1. lists'[s] = Anew(room)
        BY <1>4, <3>2
      <4>2. Anew(room)[k].id = lists[room][k].id /\ Anew(room)[k].link = lists[room][k].link
            /\ Anew(room)[k].anew
        BY <1>3
      <4>3. cards'[u].is = "asked"
        BY <1>5, <2>2
      <4> QED
        BY <3>1, <4>1, <4>2, <4>3
    <3>4. k \in 1..Len(lists'[s])
      BY <1>3, <1>4, <3>2
    <3>5. AskedAt(u, s, k)'
      BY <3>3 DEF AskedAt
    <3> QED
      BY <3>4, <3>5
  <2> QED
    BY <2>1, <2>2
<1>11. CellsFollow'
  <2>1. Shift(0)
    <3>1. PICK j \in Nat : Shift(j)
      BY DEF EmbedsInv, CellsFollow
    <3> QED
      BY <1>2, <3>1 DEF Shift
  <2>2. Len(cells) = len /\ Len(lists'[room]) = len
    BY <1>1, <1>2, <1>3, <1>4, <2>1 DEF Shift
  <2>3. \A k \in 1..Len(cells) : k + 0 = k /\ cells[k].of = lists[room][k].id
    <3>1. \A k \in 1..Len(cells) : k + 0 = k
      BY <1>1
    <3> QED
      BY <2>1, <3>1 DEF Shift
  <2>4. \A k \in 1..Len(cells) : lists'[room][k].anew /\ lists'[room][k].id = cells[k].of
    BY <1>1, <1>3, <1>4, <2>2, <2>3
  <2>5. Shift(0)'
    BY <1>1, <1>2, <2>2, <2>3, <2>4 DEF Shift
  <2> QED
    BY <2>5 DEF CellsFollow
<1>12. Shows(cells, cards)'
  <2>1. Shows(cells, cards)
        /\ \A u \in Links : cards'[u].is = cards[u].is \/ (cards[u].is = "no" /\ cards'[u].is = "asked")
    BY <1>5 DEF EmbedsInv
  <2>2. Shows(cells, cards')
    BY <1>1, <2>1, ShowsLater
  <2> QED
    BY <1>2, <2>2
<1>13. OwnClick'
  BY <1>2, <1>8, OwnClickKept DEF EmbedsInv
<1> QED
  BY <1>6, <1>8, <1>9, <1>10, <1>11, <1>12, <1>13 DEF EmbedsInv

LEMMA OpenRoomStep == EmbedsInv /\ (\E r \in Rooms, e \in BOOLEAN : OpenRoom(r, e)) => EmbedsInv'
<1> SUFFICES ASSUME EmbedsInv, NEW r \in Rooms, NEW e \in BOOLEAN, OpenRoom(r, e) PROVE EmbedsInv'
  OBVIOUS
<1> DEFINE len == Len(lists[r])
           list == IF expanding[r] = e THEN lists[r] ELSE Anew(r)
           old == IF e = wish THEN cells ELSE <<>>
<1>1. /\ room \in Rooms /\ lists[r] \in Seq(Mail) /\ len \in Nat /\ EmbedsTyped /\ IdsApart
         /\ EmbedsFollow
      /\ cells \in Seq(Box) /\ Len(cells) \in Nat
  BY ListsAre DEF EmbedsInv, EmbedsTyped
<1>2. /\ ~stale /\ (r # room \/ e # wish) /\ wish' = e /\ room' = r /\ ~stale' /\ raw' = raw
      /\ expanding' = [expanding EXCEPT ![r] = e] /\ clicked' = clicked /\ shifted' = shifted
      /\ cells' = Cells(list, old) /\ lists' = [lists EXCEPT ![r] = Numbered(list)]
      /\ stale' = FALSE
  BY DEF OpenRoom, Look
<1>3. IF expanding[r] = e THEN cards' = cards ELSE cards' = RequestAll(r)
  BY DEF OpenRoom
<1>4. /\ list \in Seq(Mail) /\ Len(list) = len
      /\ \A k \in 1..len :
           /\ list[k].id = lists[r][k].id /\ list[k].link = lists[r][k].link
              /\ list[k].seen = lists[r][k].seen
           /\ list[k].embeds = IF list[k].seen /\ e /\ ~raw[r] THEN {list[k].link} \ {Plain} ELSE {}
  <2>1. CASE expanding[r] = e
    BY <1>1, <2>1 DEF EmbedsFollow
  <2>2. CASE expanding[r] # e
    <3>1. /\ Anew(r) \in Seq(Mail) /\ Len(Anew(r)) = Len(lists[r])
          /\ \A k \in 1..Len(lists[r]) : LET m == Anew(r)[k] IN
               /\ m.id = lists[r][k].id /\ m.link = lists[r][k].link /\ m.seen = lists[r][k].seen
               /\ m.embeds = IF m.seen /\ Setting(r) THEN {m.link} \ {Plain} ELSE {}
      BY <1>1, AnewIs
    <3>2. Setting(r) <=> e /\ ~raw[r]
      BY <1>1, <1>2 DEF Setting, EmbedsTyped
    <3> QED
      BY <2>2, <3>1, <3>2
  <2> QED
    BY <2>1, <2>2
<1>5. /\ cards' \in [Links -> Entry]
      /\ \A u \in Links : \/ cards'[u] = cards[u]
                          \/ /\ cards[u].is = "no" /\ cards'[u].is = "asked"
                             /\ \E k \in 1..len : lists[r][k].id = cards'[u].by /\ lists[r][k].link = u
  <2>1. CASE cards' = cards
    BY <1>1, <2>1 DEF EmbedsTyped
  <2>2. CASE cards' = RequestAll(r)
    BY <1>1, <2>2, RequestAllIs
  <2> QED
    BY <1>3, <2>1, <2>2
<1> HIDE DEF list
<1>6. /\ Numbered(list) \in Seq(Mail) /\ Len(Numbered(list)) = len
      /\ \A k \in 1..len : LET m == Numbered(list)[k] IN
           /\ m.id = list[k].id /\ m.link = list[k].link /\ m.seen = list[k].seen
              /\ m.embeds = list[k].embeds
           /\ m.index = k /\ ~m.anew
  BY <1>4, NumberedIs
<1>7. \A s \in Rooms : lists'[s] = IF s = r THEN Numbered(list) ELSE lists[s]
  BY <1>1, <1>2 DEF EmbedsTyped
<1>m. Len(lists'[r]) = len /\ \A k \in 1..len :
        /\ lists'[r][k].id = lists[r][k].id /\ lists'[r][k].link = lists[r][k].link
           /\ lists'[r][k].index = k
        /\ lists'[r][k].embeds = IF lists'[r][k].seen /\ e
           /\ ~raw[r] THEN {lists'[r][k].link} \ {Plain} ELSE {}
  <2>1. lists'[r] = Numbered(list)
    BY <1>7
  <2>2. Len(lists'[r]) = len
    BY <1>6, <2>1
  <2>3. ASSUME NEW k \in 1..len
        PROVE  /\ lists'[r][k].id = list[k].id /\ lists'[r][k].link = list[k].link
                  /\ lists'[r][k].seen = list[k].seen
               /\ lists'[r][k].embeds = list[k].embeds /\ lists'[r][k].index = k
    BY <1>6, <2>1
  <2>4. ASSUME NEW k \in 1..len
        PROVE  /\ lists'[r][k].id = lists[r][k].id /\ lists'[r][k].link = lists[r][k].link
                  /\ lists'[r][k].index = k
               /\ lists'[r][k].embeds = IF lists'[r][k].seen /\ e
                  /\ ~raw[r] THEN {lists'[r][k].link} \ {Plain} ELSE {}
    <3>1. /\ list[k].id = lists[r][k].id /\ list[k].link = lists[r][k].link
          /\ list[k].embeds = IF list[k].seen /\ e /\ ~raw[r] THEN {list[k].link} \ {Plain} ELSE {}
      BY <1>4
    <3> QED
      BY <2>3, <3>1
  <2> QED
    BY <2>2, <2>4
<1>8. Relabels
  <2>1. \A s \in Rooms : s # r => lists'[s] = lists[s]
    BY <1>7
  <2> QED
    BY <1>m, <2>1 DEF Relabels
<1>9. IdsApart' /\ \A u, x : Has(u, x)' <=> Has(u, x)
  BY <1>1, <1>8, RelabelKeeps
<1>10. /\ cells' \in Seq(Box) /\ Len(cells') = len
       /\ \A k \in 1..len : cells'[k].of = list[k].id /\ cells'[k].has = list[k].embeds
       /\ Shows(cells', cards)
  <2>1. \A k \in 1..Len(list) : list[k].embeds = {} \/ \E u \in Links : list[k].embeds = {u}
    <3> SUFFICES ASSUME NEW k \in 1..Len(list)
                 PROVE  list[k].embeds = {} \/ \E u \in Links : list[k].embeds = {u}
      OBVIOUS
    <3>1. list[k] \in Mail
      BY <1>4
    <3>2. list[k].link \in Links \cup {Plain}
      BY <3>1 DEF Mail
    <3>3. list[k].embeds = {} \/ list[k].embeds = {list[k].link} \ {Plain}
      BY <1>4
    <3> QED
      BY <3>2, <3>3
  <2>2. old \in Seq(Box) /\ Shows(old, cards)
    <3>1. CASE e = wish
      BY <1>1, <3>1 DEF EmbedsInv
    <3>2. CASE e # wish
      <4>1. old = <<>> /\ Len(old) = 0 /\ old \in Seq(Box)
        BY <3>2
      <4> QED
        BY <4>1 DEF Shows
    <3> QED
      BY <3>1, <3>2
  <2>3. \A k \in 1..Len(list) : ~(k <= Len(old) /\ Same(list[k], old[k]))
    <3> SUFFICES ASSUME NEW k \in 1..Len(list), k <= Len(old), Same(list[k], old[k]) PROVE FALSE
      OBVIOUS
    <3>1. CASE e = wish
      <4>1. Shift(0)
        <5>1. PICK j \in Nat : Shift(j)
          BY DEF EmbedsInv, CellsFollow
        <5> QED
          BY <1>2, <5>1 DEF Shift
      <4>2. old = cells /\ r # room /\ k \in 1..Len(cells) /\ k + 0 = k
        BY <1>1, <1>2, <1>4, <3>1
      <4>3. cells[k].of = lists[room][k].id /\ k \in 1..Len(lists[room])
        BY <1>1, <1>2, <4>1, <4>2 DEF Shift
      <4>4. lists[room][k].id = lists[r][k].id /\ k \in 1..len
        BY <1>4, <4>2, <4>3 DEF Same
      <4> QED
        BY <1>1, <4>2, <4>3, <4>4 DEF IdsApart
    <3>2. CASE e # wish
      <4>1. Len(old) = 0
        BY <3>2
      <4>2. k \in Nat /\ 1 <= k
        BY <1>4
      <4> QED
        BY <4>1, <4>2
    <3> QED
      BY <3>1, <3>2
  <2> HIDE DEF old
  <2>4. /\ Cells(list, old) \in Seq(Box) /\ Len(Cells(list, old)) = Len(list)
        /\ \A k \in 1..Len(list) : Cells(list, old)[k].of = list[k].id /\ Cells(list, old)[k].has = list[k].embeds
        /\ Shows(Cells(list, old), cards)
    BY <1>1, <1>4, <2>1, <2>2, <2>3, CellsAre
  <2> QED
    BY <1>2, <1>4, <2>4
<1>11. EmbedsTyped'
  <2>1. lists' \in [Rooms -> Seq(Mail)] /\ expanding' \in [Rooms -> BOOLEAN]
    BY <1>1, <1>2, <1>6 DEF EmbedsTyped
  <2> QED
    BY <1>1, <1>2, <1>5, <1>10, <2>1 DEF EmbedsTyped
<1>12. EmbedsFollow'
  <2> SUFFICES ASSUME NEW s \in Rooms, NEW k \in 1..Len(lists[s])
               PROVE  lists'[s][k].embeds = IF lists'[s][k].seen /\ expanding'[s]
                      /\ ~raw[s] THEN {lists'[s][k].link} \ {Plain} ELSE {}
    <3>1. \A s \in Rooms : Len(lists'[s]) = Len(lists[s])
      BY <1>8 DEF Relabels
    <3>2. expanding'[room'] = wish' /\ raw' = raw
      BY <1>1, <1>2 DEF EmbedsTyped
    <3> QED
      BY <3>1, <3>2 DEF EmbedsFollow
  <2>1. CASE s = r
    <3>1. expanding'[s] = e
      BY <1>1, <1>2, <2>1 DEF EmbedsTyped
    <3> QED
      BY <1>m, <2>1, <3>1
  <2>2. CASE s # r
    <3>1. expanding'[s] = expanding[s] /\ lists'[s] = lists[s]
      BY <1>1, <1>2, <1>7, <2>2 DEF EmbedsTyped
    <3> QED
      BY <1>1, <3>1 DEF EmbedsFollow
  <2> QED
    BY <2>1, <2>2
<1>13. AskedThere'
  <2> SUFFICES ASSUME NEW u \in Links, cards'[u].is # "no"
               PROVE  \E s \in Rooms : \E k \in 1..Len(lists'[s]) : AskedAt(u, s, k)'
    BY DEF AskedThere
  <2>0. \A k \in 1..len : /\ k \in 1..Len(lists'[r]) /\ lists'[r][k].id = lists[r][k].id
                          /\ lists'[r][k].link = lists[r][k].link /\ lists'[r][k].index = k
    BY <1>m
  <2>1. CASE cards'[u] = cards[u]
    <3>1p. PICK s \in Rooms : \E k \in 1..Len(lists[s]) : AskedAt(u, s, k)
      BY <2>1 DEF EmbedsInv, AskedThere
    <3>1. PICK k \in 1..Len(lists[s]) : AskedAt(u, s, k)
      BY <3>1p
    <3>2. CASE s = r
      BY <1>2, <2>0, <2>1, <3>1, <3>2 DEF AskedAt
    <3>3. CASE s # r
      <4>1. AskedAt(u, s, k)' /\ lists'[s] = lists[s]
        BY <1>2, <1>7, <2>1, <3>1, <3>3 DEF AskedAt
      <4> QED
        BY <4>1
    <3> QED
      BY <3>2, <3>3
  <2>2. CASE cards'[u] # cards[u]
    <3>1. PICK k \in 1..len : lists[r][k].id = cards'[u].by /\ lists[r][k].link = u
      BY <1>5, <2>2
    <3>2. AskedAt(u, r, k)'
      BY <1>5, <2>0, <2>2, <3>1 DEF AskedAt
    <3> QED
      BY <2>0, <3>2
  <2> QED
    BY <2>1, <2>2
<1>14. CellsFollow'
  <2>1. lists'[room'] = Numbered(list)
    BY <1>2, <1>7
  <2> QED
    BY <1>4, <1>10, <2>1, DrawnFollow
<1>15. Shows(cells, cards)'
  <2>1. \A u \in Links : cards'[u].is = cards[u].is \/ (cards[u].is = "no" /\ cards'[u].is = "asked")
    BY <1>5
  <2> QED
    BY <1>10, <2>1, ShowsLater
<1>16. OwnClick'
  BY <1>2, <1>9, OwnClickKept DEF EmbedsInv
<1> QED
  BY <1>9, <1>11, <1>12, <1>13, <1>14, <1>15, <1>16 DEF EmbedsInv

LEMMA EmbedsInitInv == EmbedsInit => EmbedsInv
<1> SUFFICES ASSUME EmbedsInit PROVE EmbedsInv
  OBVIOUS
<1>1. /\ \A r \in Rooms : lists[r] = <<>> /\ Len(lists[r]) = 0
      /\ cells = <<>> /\ Len(cells) = 0 /\ room \in Rooms
      /\ \A u \in Links : cards[u].is = "no"
  BY EmbedsAssumption DEF EmbedsInit
<1>2. EmbedsTyped
  <2>1. <<>> \in Seq(Mail) /\ <<>> \in Seq(Box)
    OBVIOUS
  <2>2. [is |-> "no", by |-> 0, at |-> 0] \in Entry
    BY DEF Entry
  <2> QED
    BY <1>1, <2>1, <2>2 DEF EmbedsInit, EmbedsTyped
<1>3. IdsApart
  <2>1. Numbers(0)
    BY <1>1 DEF Numbers
  <2> QED
    BY <1>1, <2>1 DEF IdsApart
<1>4. EmbedsFollow
  BY <1>1 DEF EmbedsInit, EmbedsFollow
<1>5. AskedThere
  BY <1>1 DEF AskedThere
<1>6. CellsFollow
  <2>1. Shift(0)
    BY <1>1 DEF Shift
  <2> QED
    BY <2>1 DEF CellsFollow
<1>7. Shows(cells, cards)
  BY <1>1 DEF Shows
<1>8. OwnClick
  BY DEF EmbedsInit, OwnClick
<1> QED
  BY <1>2, <1>3, <1>4, <1>5, <1>6, <1>7, <1>8 DEF EmbedsInv

LEMMA EmbedsStutter == EmbedsInv /\ UNCHANGED embedVars => EmbedsInv'
<1> SUFFICES ASSUME EmbedsInv, UNCHANGED embedVars PROVE EmbedsInv'
  OBVIOUS
<1>1. /\ lists' = lists /\ raw' = raw /\ expanding' = expanding /\ wish' = wish /\ room' = room
         /\ cards' = cards
      /\ cells' = cells /\ clicked' = clicked /\ shifted' = shifted /\ stale' = stale
  BY DEF embedVars, talkVars
<1>2. Relabels
  BY <1>1 DEF Relabels
<1>3. IdsApart' /\ \A u, x : Has(u, x)' <=> Has(u, x)
  BY <1>2, RelabelKeeps DEF EmbedsInv
<1>4. EmbedsTyped' /\ EmbedsFollow'
  BY <1>1 DEF EmbedsInv, EmbedsTyped, EmbedsFollow
<1>5. AskedThere'
  BY <1>1 DEF EmbedsInv, AskedThere, AskedAt
<1>6. CellsFollow'
  BY <1>1 DEF EmbedsInv, CellsFollow, Shift
<1>7. Shows(cells, cards)'
  BY <1>1 DEF EmbedsInv
<1>8. OwnClick'
  BY <1>1, <1>3, OwnClickKept DEF EmbedsInv
<1> QED
  BY <1>3, <1>4, <1>5, <1>6, <1>7, <1>8 DEF EmbedsInv

\* The invariant of the cards holds at all times.
LEMMA EmbedsInvHolds == EmbedsSpec => []EmbedsInv
<1>1. EmbedsInv /\ [EmbedsNext]_embedVars => EmbedsInv'
  BY DrawStep, ToggleRawStep, OlderStep, TalkStep, CardLoadedStep, SeeStep, ExpandStep,
     OpenRoomStep, EmbedsStutter
  DEF EmbedsNext
<1> QED
  BY <1>1, EmbedsInitInv, PTL DEF EmbedsSpec

-----------------------------------------------------------------------------
LEMMA ShownStep == EmbedsInv => ShownOnce
<1> SUFFICES ASSUME EmbedsInv, ~stale, NEW u \in Links
             PROVE  LET of == {i \in DOMAIN cells : i \in DOMAIN lists[room] /\ lists[room][i].link = u /\ lists[room][i].seen}
                        in == {i \in of : cells[i].is = "card"}
                    IN /\ cards[u].is = "card" /\ of # {} /\ wish /\ ~raw[room] =>
                            Cardinality(in) = 1 /\ \A i \in of \ in : cells[i].is = "hidden"
                       /\ ~wish \/ raw[room] => in = {}
  BY DEF ShownOnce
<1> DEFINE list == lists[room]
           len == Len(list)
           of == {i \in DOMAIN cells : i \in DOMAIN list /\ list[i].link = u /\ list[i].seen}
           in == {i \in of : cells[i].is = "card"}
<1>1. /\ room \in Rooms /\ len \in Nat /\ Len(cells) \in Nat /\ EmbedsTyped /\ EmbedsFollow
      /\ DOMAIN list = 1..len /\ DOMAIN cells = 1..Len(cells)
  <2>1. list \in Seq(Mail) /\ cells \in Seq(Box) /\ room \in Rooms
    BY ListsAre DEF EmbedsInv, EmbedsTyped
  <2> HIDE DEF list
  <2> QED
    BY <2>1 DEF EmbedsInv
<1>2. Shift(0)
  <2>1. PICK j \in Nat : Shift(j)
    BY DEF EmbedsInv, CellsFollow
  <2> QED
    BY <2>1 DEF Shift
<1>3. Len(cells) = len /\ \A k \in 1..len : cells[k].has = list[k].embeds
  BY <1>1, <1>2 DEF Shift
<1>4. \A k \in 1..len : ShowsCell(cells, cards, k)
  BY <1>3 DEF EmbedsInv, Shows
<1>5. of = {k \in 1..len : list[k].link = u /\ list[k].seen}
  BY <1>1, <1>3
<1>6. u # Plain
  BY EmbedsAssumption
<1>7. \A k \in of : cells[k].has = IF wish /\ ~raw[room] THEN {u} ELSE {}
  <2> TAKE k \in of
  <2>1. k \in 1..len /\ list[k].link = u /\ list[k].seen
    BY <1>5
  <2>2. list[k].embeds = IF list[k].seen /\ expanding[room]
        /\ ~raw[room] THEN {list[k].link} \ {Plain} ELSE {}
    BY <1>1, <2>1 DEF EmbedsFollow
  <2>3. expanding[room] = wish
    BY <1>1 DEF EmbedsFollow
  <2> HIDE DEF of
  <2> QED
    BY <1>3, <1>6, <2>1, <2>2, <2>3
<1> HIDE DEF of, list
<1>8. ASSUME ~wish \/ raw[room] PROVE in = {}
  <2>1. \A k \in of : k \in 1..len /\ cells[k].has = {}
    BY <1>5, <1>7, <1>8
  <2> QED
    BY <1>4, <2>1 DEF ShowsCell
<1>9. ASSUME cards[u].is = "card", of # {}, wish, ~raw[room]
      PROVE  Cardinality(in) = 1 /\ \A i \in of \ in : cells[i].is = "hidden"
  <2>1. \A k \in of : k \in 1..len /\ cells[k].has = {u}
    BY <1>5, <1>7, <1>9
  <2>2. \A k \in of : cells[k].is \in {"card", "hidden"}
    <3> TAKE k \in of
    <3>1. cells[k].is \in {"waiting", "card", "hidden", "box"}
      <4>1. cells \in Seq(Box) /\ k \in 1..Len(cells)
        BY <1>1, <1>3, <2>1 DEF EmbedsTyped
      <4>2. cells[k] \in Box
        BY <4>1
      <4> QED
        BY <4>2 DEF Box
    <3>2. \A v \in Links : cells[k].has = {v} => v = u
      BY <2>1
    <3>3. ShowsCell(cells, cards, k) /\ cells[k].has # {}
      BY <1>4, <2>1
    <3> QED
      BY <1>9, <3>1, <3>2, <3>3 DEF ShowsCell
  <2>3. \A k, l \in in : k = l
    <3> SUFFICES ASSUME NEW k \in in, NEW l \in in PROVE k = l
      OBVIOUS
    <3>1. k \in 1..len /\ l \in 1..Len(cells) /\ cells[k].is = "card" /\ cells[l].is = "card"
          /\ cells[l].has = cells[k].has
      BY <1>3, <2>1
    <3> QED
      BY <1>4, <3>1 DEF ShowsCell
  <2>4. in # {}
    <3>1. PICK k \in of : cells[k].is \in {"card", "hidden"}
      BY <1>9, <2>2
    <3>2. CASE cells[k].is = "card"
      BY <3>1, <3>2
    <3>3. CASE cells[k].is = "hidden"
      <4>1. PICK l \in 1..Len(cells) : cells[l].is = "card" /\ cells[l].has = cells[k].has
        BY <1>4, <2>1, <3>3 DEF ShowsCell
      <4>2. l \in 1..len /\ list[l].embeds = {u}
        BY <1>3, <2>1, <4>1
      <4>3. list[l].embeds = IF list[l].seen /\ expanding[room]
            /\ ~raw[room] THEN {list[l].link} \ {Plain} ELSE {}
        BY <1>1, <4>2 DEF EmbedsFollow, list
      <4>4. list[l].link = u /\ list[l].seen
        BY <4>2, <4>3
      <4>5. l \in of
        BY <1>5, <4>2, <4>4
      <4> QED
        BY <4>1, <4>5
    <3> QED
      BY <3>1, <3>2, <3>3
  <2>5. PICK k \in in : in = {k}
    BY <2>3, <2>4
  <2>6. Cardinality(in) = 1
    BY <2>5, FS_Singleton
  <2> QED
    BY <2>2, <2>6
<1> QED
  BY <1>8, <1>9 DEF of, list

LEMMA OwnStep == EmbedsInv => OwnExpand
<1> SUFFICES ASSUME EmbedsInv, clicked.on # 0, clicked.hit # clicked.on, ~\E u \in shifted : clicked.on \in With(u)
             PROVE  \E u \in Links : clicked.on \in With(u) /\ Cardinality(With(u)) > 1
  BY DEF OwnExpand
<1>1. EmbedsTyped /\ IdsApart /\ lists \in [Rooms -> Seq(Mail)]
  BY DEF EmbedsInv, EmbedsTyped
<1>2. PICK n \in Nat : Numbers(n)
  BY <1>1 DEF IdsApart
<1>3. Said = 1..n
  <2>1. \A x : x \in Said <=> x \in 1..n
    BY <1>1, <1>2, SaidIs DEF Numbers, Said
  <2> QED
    BY <2>1
<1>4. \A u, x : Has(u, x) <=> x \in With(u)
  <2> SUFFICES ASSUME NEW u, NEW x PROVE Has(u, x) <=> x \in With(u)
    OBVIOUS
  <2>1. \A r \in Rooms : ToSet(lists[r]) = {lists[r][k] : k \in 1..Len(lists[r])}
    <3> TAKE r \in Rooms
    <3>1. lists[r] \in Seq(Mail)
      BY <1>1
    <3>2. DOMAIN lists[r] = 1..Len(lists[r])
      BY <3>1
    <3> QED
      BY <3>2 DEF ToSet
  <2>2. (\E r \in Rooms : \E m \in ToSet(lists[r]) : m.id = x /\ m.link = u) <=> Has(u, x)
    <3>1. ASSUME NEW r \in Rooms
          PROVE  (\E m \in ToSet(lists[r]) : m.id = x /\ m.link = u) <=>
                   \E k \in 1..Len(lists[r]) : lists[r][k].id = x /\ lists[r][k].link = u
      <4> DEFINE set == ToSet(lists[r])
      <4>1. \A m : m \in set <=> \E k \in 1..Len(lists[r]) : m = lists[r][k]
        BY <2>1
      <4> HIDE DEF set
      <4>2. (\E m \in set : m.id = x /\ m.link = u) <=>
              \E k \in 1..Len(lists[r]) : lists[r][k].id = x /\ lists[r][k].link = u
        BY <4>1
      <4> QED
        BY <4>2 DEF set
    <3> QED
      BY <3>1 DEF Has
  <2>3. ASSUME Has(u, x) PROVE x \in Said
    <3>1. \E r \in Rooms : \E k \in 1..Len(lists[r]) : lists[r][k].id = x
      BY <2>3 DEF Has
    <3> QED
      BY <1>2, <1>3, <3>1 DEF Numbers
  <2> QED
    BY <2>2, <2>3 DEF With
<1>5. PICK u \in Links : Has(u, clicked.on) /\ \E x \in Nat : x # clicked.on /\ Has(u, x)
  BY <1>4 DEF EmbedsInv, OwnClick
<1>6. PICK x \in Nat : x # clicked.on /\ Has(u, x)
  BY <1>5
<1>7. clicked.on \in With(u) /\ x \in With(u)
  BY <1>4, <1>5, <1>6
<1>8. IsFiniteSet(With(u)) /\ Cardinality(With(u)) \in Nat
  <2>1. With(u) \subseteq 1..n
    BY <1>3 DEF With
  <2>2. IsFiniteSet(1..n)
    BY FS_Interval
  <2>3. IsFiniteSet(With(u))
    BY <2>1, <2>2, FS_Subset
  <2> QED
    BY <2>3, FS_CardinalityType
<1>9. Cardinality(With(u)) # 0 /\ Cardinality(With(u)) # 1
  <2>1. Cardinality(With(u)) # 0
    BY <1>7, <1>8, FS_EmptySet
  <2>2. ~\E y : With(u) = {y}
    BY <1>6, <1>7
  <2> QED
    BY <1>8, <2>1, <2>2, FS_Singleton
<1> QED
  BY <1>7, <1>8, <1>9

(* A link that was seen has its card in one cell of its conversation, and   *)
(* none where cards are not wanted, however messages, pages, answers and    *)
(* settings come (Messages.js 125-197, Chat.svelte 100-108).                *)
THEOREM CardsAreShownOnce == EmbedsSpec => []ShownOnce
BY EmbedsInvHolds, ShownStep, PTL

(* "Expand" unfolds the message the card is in, unless messages were put    *)
(* before it since or the link was written twice (Chat.svelte 68-98).        *)
THEOREM ExpandIsOwn == EmbedsSpec => []OwnExpand
BY EmbedsInvHolds, OwnStep, PTL
=============================================================================
