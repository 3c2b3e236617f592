------------------------------- MODULE Files --------------------------------
(***************************************************************************)
(* The page with the uploaded files, page/SettingsFiles.svelte: the list   *)
(* it loads, the rows that are ticked and the deletion of those, with what *)
(* pkg/handler/handlers_file.go and pkg/storage/file.go make of it.         *)
(*                                                                         *)
(* The server answers with every file, whatever "limit" and "after" say,   *)
(* and takes what it shall delete for the name of one file.                 *)
(***************************************************************************)
EXTENDS FiniteSets, Naturals

CONSTANTS Uploaded, MaxClicks  \* the files there can be; bound: clicks of the user

VARIABLES
  disk,      \* the files of the user
  rows,      \* the files the page lists
  ticked,    \* those whose box is ticked
  all,       \* allSelected
  loading,   \* getFilesOp: [at, files, old], at is "no", "asked" or "answered";
             \* old: the disk has changed since it was answered
  deleting,  \* deleteFilesOp: [at, fid], at is the same
  clicks,
  strained   \* something has happened since the last load that the page cannot know

filesVars == <<disk, rows, ticked, all, loading, deleting, clicks, strained>>

LoadAsked == [at |-> "asked", files |-> {}, old |-> FALSE]
NoLoad    == [LoadAsked EXCEPT !.at = "no"]
Overtaken == loading' = [loading EXCEPT !.old = loading.at = "answered"]

FilesInit ==
  /\ disk = Uploaded /\ rows = {} /\ ticked = {} /\ all = FALSE
  /\ loading = LoadAsked
  /\ deleting = [at |-> "no", fid |-> {}]
  /\ clicks = 0 /\ strained = TRUE

Clicks == clicks < MaxClicks /\ clicks' = clicks + 1

-----------------------------------------------------------------------------
(* loadFiles runs for every route; who comes while a request is under way  *)
(* gets its answer.                                                         *)
Ask == loading' = IF loading.at = "no" THEN LoadAsked ELSE loading

Navigate ==
  /\ Clicks /\ Ask
  /\ UNCHANGED <<disk, rows, ticked, all, deleting, strained>>

GetFiles ==
  /\ loading.at = "asked"
  /\ loading' = [LoadAsked EXCEPT !.at = "answered", !.files = disk]
  /\ UNCHANGED <<disk, rows, ticked, all, deleting, clicks, strained>>

(* The new rows are not ticked, not even those that are being deleted.      *)
FilesLoaded ==
  /\ loading.at = "answered"
  /\ rows' = loading.files /\ ticked' = {} /\ all' = FALSE
  /\ loading' = NoLoad
  /\ strained' = (loading.old \/ deleting.at = "asked")
  /\ UNCHANGED <<disk, deleting, clicks>>

(* A failed answer has no files.                                            *)
LoadFails ==
  /\ loading.at = "asked"
  /\ rows' = {} /\ ticked' = {} /\ all' = FALSE
  /\ loading' = NoLoad /\ strained' = TRUE
  /\ UNCHANGED <<disk, deleting, clicks>>

-----------------------------------------------------------------------------
(* A box that is ticked while the server deletes takes its row away.        *)
TickRow(f) ==
  /\ f \in rows /\ Clicks
  /\ ticked' = IF f \in ticked THEN ticked \ {f} ELSE ticked \cup {f}
  /\ strained' = (strained \/ deleting.at # "no")
  /\ UNCHANGED <<disk, rows, all, loading, deleting>>

TickAll ==
  /\ Clicks /\ all' = ~all
  /\ ticked' = IF all' THEN rows ELSE {}
  /\ strained' = (strained \/ deleting.at # "no")
  /\ UNCHANGED <<disk, rows, loading, deleting>>

(* The button is disabled while nothing is ticked or a request is under way.*)
Delete ==
  /\ ticked # {} /\ deleting.at = "no" /\ Clicks
  /\ deleting' = [at |-> "asked", fid |-> ticked]
  /\ UNCHANGED <<disk, rows, ticked, all, loading, strained>>

(* "a,b" is the name of no file: the deletion of two files fails.           *)
DeleteFiles ==
  /\ deleting.at = "asked"
  /\ deleting' = [deleting EXCEPT !.at = "answered"]
  /\ IF Cardinality(deleting.fid) = 1
       THEN disk' = disk \ deleting.fid /\ Overtaken /\ UNCHANGED strained
       ELSE strained' = TRUE /\ UNCHANGED <<disk, loading>>
  /\ UNCHANGED <<rows, ticked, all, clicks>>

DeleteFails ==
  /\ deleting.at = "asked"
  /\ deleting' = [deleting EXCEPT !.at = "answered"] /\ strained' = TRUE
  /\ UNCHANGED <<disk, rows, ticked, all, loading, clicks>>

\* Faulty variant: the rows that were not ticked go.
DeletedOthers ==
  /\ deleting.at = "answered"
  /\ rows' = rows \cap ticked /\ ticked' = {} /\ all' = FALSE
  /\ deleting' = [at |-> "no", fid |-> {}]
  /\ IF rows' = {} THEN Ask ELSE UNCHANGED loading
  /\ UNCHANGED <<disk, clicks, strained>>

(* Nobody looks at the answer.  An empty list is loaded anew.               *)
Deleted ==
  /\ deleting.at = "answered"
  /\ rows' = rows \ ticked /\ ticked' = {} /\ all' = FALSE
  /\ deleting' = [at |-> "no", fid |-> {}]
  /\ IF rows' = {} THEN Ask ELSE UNCHANGED loading
  /\ UNCHANGED <<disk, clicks, strained>>

(* Somebody uploads a file in the chat of another tab, or deletes one there.*)
OtherTab(f) ==
  /\ Clicks /\ strained' = TRUE /\ Overtaken
  /\ disk' = IF f \in disk THEN disk \ {f} ELSE disk \cup {f}
  /\ UNCHANGED <<rows, ticked, all, deleting>>

-----------------------------------------------------------------------------
FilesNext ==
  \/ Navigate \/ GetFiles \/ FilesLoaded \/ LoadFails
  \/ TickAll \/ Delete \/ DeleteFiles \/ DeleteFails \/ Deleted
  \/ \E f \in Uploaded : TickRow(f) \/ OtherTab(f)

FilesSpec == FilesInit /\ [][FilesNext]_filesVars

-----------------------------------------------------------------------------
(* However loads and deletions overlap, the page lists what is on the disk *)
(* and, until it hears of a deletion, the ticked rows of that.  A load puts *)
(* right whatever was wrong, unless its answer was written before a deletion *)
(* or rows that are being deleted lose their ticks by it.  Wrong until then *)
(* is a page that ticked a box during a deletion, deleted several files at  *)
(* once, got no answer or has a tab beside it (SettingsFiles.svelte:35-55).  *)
ListIsTrue == ~strained => disk = IF deleting.at = "answered" THEN rows \ ticked ELSE rows
=============================================================================
