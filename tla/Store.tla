-------------------------------- MODULE Store --------------------------------
(***************************************************************************)
(* How a user and a connection are kept on disk: SaveUser, SaveConnection, *)
(* DeleteUser and DeleteConnection of FileBackend (pkg/storage/file.go),   *)
(* the goroutines that change an object and save it, and what Initialize   *)
(* reads back after a restart (pkg/core/core.go, pkg/core/user.go).        *)
(*                                                                         *)
(* There are one user and one connection of his.  The data of an object    *)
(* are two fields, one that a restart restores and one that it does not;   *)
(* the value of a field is how often it was changed.  Not everybody who     *)
(* changes a connection saves it.  The server may crash between any two    *)
(* steps; what was written before is on disk.                              *)
(***************************************************************************)
EXTENDS Naturals

CONSTANTS
  Writers,     \* goroutines that change and save an object
  None,        \* no file, nobody
  Torn,        \* a file that was written in part
  MaxChanges,  \* bound: changes
  MaxCrashes   \* bound: crashes

Records == {"user", "conn"}
Fields  == {"restored", "other"}

VARIABLES
  mem,      \* the objects in memory, found or only held by a goroutine
  live,     \* Core.users and User.connections: the objects that can be found
  file,     \* user.json and connection.json
  swap,     \* .user.json.swap and .connection.json.swap
  lock,     \* FileBackend.mu
  pc,       \* where a goroutine is
  rec,      \* the record it works on
  data,     \* its jsonData
  todo,     \* os.RemoveAll: the files that are still there
  running,  \* the server runs
  owed,     \* ghost: how far the objects were at the last change to be saved
  changes, crashes

task   == <<lock, pc, rec, data, todo>>
counts == <<changes, crashes>>
vars   == <<mem, live, file, swap, task, running, owed, counts>>

ASSUME ConstantAssumption ==
  /\ MaxChanges \in Nat /\ MaxCrashes \in Nat
  /\ None \notin Writers
  /\ None \notin [Fields -> Nat] /\ Torn \notin [Fields -> Nat] /\ None # Torn

Values == [Fields -> Nat]
Zero   == [f \in Fields |-> 0]
Points == {"idle", "changed", "locked", "writing", "written", "removed", "deleting"}

(* Every variable has its type. *)
TypeOK ==
  /\ mem \in [Records -> Values \cup {None}]
  /\ live \subseteq Records
  /\ file \in [Records -> Values \cup {None, Torn}]
  /\ swap \in [Records -> Values \cup {None, Torn}]
  /\ lock \in Writers \cup {None}
  /\ pc \in [Writers -> Points]
  /\ rec \in [Writers -> Records]
  /\ data \in [Writers -> Values]
  /\ todo \in [Writers -> SUBSET Records]
  /\ running \in BOOLEAN
  /\ owed \in [Records -> Nat]
  /\ changes \in Nat /\ crashes \in Nat

Idle ==
  /\ lock' = None
  /\ pc' = [w \in Writers |-> "idle"]
  /\ UNCHANGED <<rec, data, todo>>

Init ==
  /\ mem = [r \in Records |-> Zero]
  /\ live = Records
  /\ file = [r \in Records |-> Zero]
  /\ swap = [r \in Records |-> None]
  /\ lock = None
  /\ pc = [w \in Writers |-> "idle"]
  /\ rec = [w \in Writers |-> "conn"]
  /\ data = [w \in Writers |-> Zero]
  /\ todo = [w \in Writers |-> {}]
  /\ running = TRUE
  /\ owed = [r \in Records |-> 0]
  /\ changes = 0 /\ crashes = 0

-----------------------------------------------------------------------------
(* A handler changes an object it holds, which may have been removed in the *)
(* meantime.                                                                *)

Step(w, from, to) ==
  /\ running
  /\ pc[w] = from
  /\ pc' = [pc EXCEPT ![w] = to]

(* The field that restarts keep, of an object or of a file. *)
Age(v) == v["restored"]

Touch(r, f) ==
  /\ mem[r] # None
  /\ changes < MaxChanges
  /\ changes' = changes + 1
  /\ mem' = [mem EXCEPT ![r][f] = @ + 1]

(* A topic, what the server tells of itself, a conversation that is opened   *)
(* on the way (for a JOIN of somebody else, a NAMES reply, a notice, an entry *)
(* of the server's log), what /connect and /disconnect want: nobody saves    *)
(* the connection then.                                                      *)
ChangeOnly(f) ==
  /\ running
  /\ Touch("conn", f)
  /\ UNCHANGED <<live, file, swap, task, running, owed, crashes>>

(* Every change of a user, and the other changes of a connection, are saved *)
(* by who makes them.                                                       *)
Change(w, r, f) ==
  /\ Step(w, "idle", "changed")
  /\ Touch(r, f)
  /\ rec' = [rec EXCEPT ![w] = r]
  /\ owed' = [owed EXCEPT ![r] = Age(mem'[r])]
  /\ UNCHANGED <<live, file, swap, lock, data, todo, running, crashes>>

(* Faulty variant: without the backend's lock. *)
MarshalUnlocked(w) ==
  /\ Step(w, "changed", "locked")
  /\ data' = [data EXCEPT ![w] = mem[rec[w]]]
  /\ UNCHANGED <<mem, live, file, swap, lock, rec, todo, running, owed, counts>>

(* SaveUser and SaveConnection: ToData is read under the backend's lock...  *)
Marshal(w) ==
  /\ Step(w, "changed", "locked")
  /\ lock = None
  /\ lock' = w
  /\ data' = [data EXCEPT ![w] = mem[rec[w]]]
  /\ UNCHANGED <<mem, live, file, swap, rec, todo, running, owed, counts>>

(* Faulty variant: the file itself is written. *)
WriteInPlace(w) ==
  /\ Step(w, "locked", "writing")
  /\ file' = [file EXCEPT ![rec[w]] = Torn]
  /\ UNCHANGED <<mem, live, swap, lock, rec, data, todo, running, owed, counts>>

(* ... os.WriteFile truncates the swap file and fills it...                 *)
WriteBegin(w) ==
  /\ Step(w, "locked", "writing")
  /\ swap' = [swap EXCEPT ![rec[w]] = Torn]
  /\ UNCHANGED <<mem, live, file, lock, rec, data, todo, running, owed, counts>>

WriteEnd(w) ==
  /\ Step(w, "writing", "written")
  /\ swap' = [swap EXCEPT ![rec[w]] = data[w]]
  /\ UNCHANGED <<mem, live, file, lock, rec, data, todo, running, owed, counts>>

(* ... and os.Rename puts it in place.                                      *)
Rename(w) ==
  /\ Step(w, "written", "idle")
  /\ file' = [file EXCEPT ![rec[w]] = swap[rec[w]]]
  /\ swap' = [swap EXCEPT ![rec[w]] = None]
  /\ lock' = None
  /\ UNCHANGED <<mem, live, rec, data, todo, running, owed, counts>>

-----------------------------------------------------------------------------
(* User.RemoveConnection and Core.RemoveUser: the object is taken out of    *)
(* the map, then its directory is removed.  The user's directory holds the  *)
(* one of the connection.                                                   *)

Under(r) == IF r = "user" THEN Records ELSE {"conn"}

RemoveConnection(w, r) ==
  /\ Step(w, "idle", "removed")
  /\ r \in live
  /\ live' = live \ Under(r)
  /\ rec' = [rec EXCEPT ![w] = r]
  /\ UNCHANGED <<mem, file, swap, lock, data, todo, running, owed, counts>>

Delete(w) ==
  /\ Step(w, "removed", "deleting")
  /\ lock = None
  /\ lock' = w
  /\ todo' = [todo EXCEPT ![w] = Under(rec[w])]
  /\ UNCHANGED <<mem, live, file, swap, rec, data, running, owed, counts>>

RemoveFile(w, r) ==
  /\ running /\ pc[w] = "deleting" /\ r \in todo[w]
  /\ todo' = [todo EXCEPT ![w] = @ \ {r}]
  /\ file' = [file EXCEPT ![r] = None]
  /\ swap' = [swap EXCEPT ![r] = None]
  /\ UNCHANGED <<mem, live, lock, pc, rec, data, running, owed, counts>>

DeleteEnd(w) ==
  /\ Step(w, "deleting", "idle")
  /\ todo[w] = {}
  /\ lock' = None
  /\ UNCHANGED <<mem, live, file, swap, rec, data, todo, running, owed, counts>>

-----------------------------------------------------------------------------
Crash ==
  /\ running /\ crashes < MaxCrashes
  /\ crashes' = crashes + 1
  /\ running' = FALSE
  /\ Idle
  /\ UNCHANGED <<mem, live, file, swap, owed, changes>>

(* Faulty variant: nothing is read back. *)
RestoredNothing(v) == Zero

(* What Initialize and loadConnections take over from a file. *)
Restored(v) == [f \in Fields |-> IF f = "restored" THEN v[f] ELSE 0]

(* A directory without a readable file is skipped, and a connection is      *)
(* looked for in the directories of the users that were loaded.             *)
Initialize ==
  LET readable == {r \in Records : file[r] \notin {None, Torn}} IN
    /\ ~running
    /\ running' = TRUE
    /\ live' = IF "user" \in readable THEN readable ELSE {}
    /\ mem' = [r \in Records |-> IF r \in live' THEN Restored(file[r]) ELSE None]
    /\ owed' = [r \in Records |-> IF r \in live' THEN Age(file[r]) ELSE 0]
    /\ UNCHANGED <<file, swap, task, counts>>

Next ==
  \/ \E f \in Fields : ChangeOnly(f)
  \/ \E w \in Writers :
       \/ \E r \in Records : \E f \in Fields : Change(w, r, f)
       \/ Marshal(w) \/ WriteBegin(w) \/ WriteEnd(w) \/ Rename(w)
       \/ \E r \in Records : RemoveConnection(w, r) \/ RemoveFile(w, r)
       \/ Delete(w) \/ DeleteEnd(w)
  \/ Crash \/ Initialize

Spec == Init /\ [][Next]_vars
-----------------------------------------------------------------------------
(* Properties. *)

(* Whenever the server crashes, user.json and connection.json are complete. *)
NeverTorn == \A r \in Records : file[r] # Torn

Busy(r) == {w \in Writers : pc[w] # "idle" /\ rec[w] = r}

(* A goroutine works on an object that is in memory, and none survives a    *)
(* crash: with the types, inductive.                                        *)
Held ==
  /\ \A w \in Writers : pc[w] = "changed" => mem[rec[w]] # None
  /\ ~running => \A w \in Writers : pc[w] = "idle"

(* Who is past the lock of the backend holds it, and the swap file it is    *)
(* about to rename is complete.                                             *)
Owner ==
  \A w \in Writers :
    /\ lock = w <=> pc[w] \in {"locked", "writing", "written", "deleting"}
    /\ pc[w] = "written" => swap[rec[w]] = data[w]

(* Only what was taken out of the maps is deleted from disk. *)
Unlinked ==
  \A w \in Writers :
    /\ pc[w] \in {"removed", "deleting"} => live \cap Under(rec[w]) = {}
    /\ pc[w] = "deleting" => todo[w] \subseteq Under(rec[w])

(* No more is owed than was done. *)
OwedIsDone == \A r \in Records : mem[r] # None => Age(mem[r]) >= owed[r]

(* An object has a save still ahead, or what is owed is being written, or   *)
(* else it is on disk.                                                      *)
Saving(r) == {w \in Writers : pc[w] \in {"locked", "writing", "written"} /\ rec[w] = r}

OnItsWay(r) ==
  \/ \E w \in Writers : pc[w] = "changed" /\ rec[w] = r
  \/ Saving(r) # {} /\ \A w \in Saving(r) : Age(data[w]) >= owed[r]
  \/ Saving(r) = {} /\ file[r] # None /\ Age(file[r]) >= owed[r]

AllOnTheirWay == running => \A r \in live : OnItsWay(r)

(* In the field that restarts keep, a file is never ahead of the object in  *)
(* memory nor of what is being saved.                                       *)
NotAhead ==
  /\ \A r \in Records : {file[r], mem[r]} \subseteq Values => Age(mem[r]) >= Age(file[r])
  /\ \A w \in Writers : pc[w] \in {"locked", "writing", "written"} =>
       /\ mem[rec[w]] \in Values /\ Age(mem[rec[w]]) >= Age(data[w])
       /\ file[rec[w]] \in Values => Age(data[w]) >= Age(file[rec[w]])

(* When nobody is about to save it, the file of an object that can be found *)
(* holds everything up to the last change that somebody was to save, those  *)
(* before it included that nobody saved: however the saves of several       *)
(* goroutines interleave and wherever the server crashed.  Only changes     *)
(* after it that nobody saves (ChangeOnly) are in memory alone.             *)
NothingLost ==
  \A r \in live : running /\ Busy(r) = {} => file[r] # None /\ Age(file[r]) >= owed[r]

(* No file is replaced by one with an older value of a field. *)
Newer(f) ==
  \A r \in Records : {file[r], file'[r]} \subseteq Values => file'[r][f] >= file[r][f]

(* A save never brings back an older value of a field that restarts keep.   *)
RestoredGrows == [][Newer("restored")]_file

=============================================================================
