----------------------------- MODULE ChatInput -----------------------------
(***************************************************************************)
(* The text somebody is writing: components/ChatInput.svelte with its      *)
(* drafts (Conversation.userInput, a persistent property of Reactive), the *)
(* command history, the menu of completions and uploaded files.             *)
(*                                                                         *)
(* A text is a sequence of words, and the cursor stands between two of     *)
(* them.  A word knows how it came there and for which conversation. Every time *)
(* the chat page is opened a new component takes the place of the old one, *)
(* but what the old one waits for still comes to it.                       *)
(***************************************************************************)
EXTENDS CommandWords, Integers, SequencesExt, FiniteSetsExt

CONSTANTS
  Convs,         \* conversations
  Words,         \* what can be typed; completion knows what "part" stands for
  Uploads,       \* files
  UploadFaults,  \* a subset of {"network", "timeout"}
  MaxHistory,    \* CommandHistory keeps 20
  MaxText, MaxActs, MaxMounts  \* bounds

ASSUME InputAssumption ==
  /\ Convs # {} /\ UploadFaults \subseteq {"network", "timeout"}
  /\ {MaxHistory, MaxText, MaxActs, MaxMounts} \subseteq Nat \ {0}

VARIABLES
  here,     \* the chat page is open
  mount,    \* the number of components so far; the last one is on the page
  at,       \* of a component: the conversation
  box,      \* of a component: the text in the textarea
  dead,     \* components whose conversation is not the one of the user any more
  focus, cursor,
  dirty,    \* a key was pressed and not let go yet
  split, options, index,  \* splitValueAt, autocompleteOptions, autocompleteIndex
  history, recalled,      \* CommandHistory.history and index, 0 for none
  draft,    \* userInput
  stored,   \* of it: what is in the localStorage
  upload,   \* of a file: where it is, and the component that waits for it
  sent,     \* the last message: where to, and where its words were written
  acts,     \* how much the user did, but for a key let go and for the focus
  left,     \* the text as its writer has left it
  cut       \* conversations whose text was not saved, as the comments say

page  == <<here, mount, at, dead>>
caret == <<focus, cursor, dirty>>
menu  == <<split, options, index>>
past  == <<history, recalled>>
saved == <<draft, stored>>
ghost == <<acts, left, cut>>
inputVars == <<page, box, caret, menu, past, saved, upload, sent, ghost>>

Word(is, by) == [is |-> is, by |-> by, of |-> at[mount]]
Text     == box[mount]
Plain(t) == [i \in DOMAIN t |-> t[i].is]

-----------------------------------------------------------------------------
(* What the handlers have in common. *)

(* Conversation.update({userInput}) of a component.                         *)
Save(k, t) ==
  /\ draft' = IF k \in dead THEN draft ELSE [draft EXCEPT ![at[k]] = t]
  /\ stored' = IF k \in dead THEN [stored EXCEPT ![at[k]] = t] ELSE stored

(* The writer wants this text and sees it. *)
Written(t) == left' = [left EXCEPT ![at[mount]] = t]

(* calculateAutocompleteOptions: the word itself, and what it stands for.   *)
Offer(t, n) ==
  IF n \in DOMAIN t /\ t[n].is = "part"
    THEN [i \in 1 .. 2 |-> [t[n] EXCEPT !.is = <<"part", "whole">>[i], !.by = "menu"]] ELSE <<>>

(* startAutocomplete runs when splitValueAt is another one than before.     *)
Split(n, offer) == split' = n /\ options' = IF n = split THEN options ELSE offer

(* Faulty variant: only an empty text is saved. *)
OnChangeEmpty(t, n) ==
  /\ index' = 1 /\ Split(n, Offer(t, n))
  /\ IF t = <<>> THEN Save(mount, t) ELSE UNCHANGED saved
  /\ cursor' = n /\ dirty' = FALSE
  /\ recalled' = IF t = <<>> THEN 0 ELSE recalled
  /\ cut' = cut \ {c \in {at[mount]} : t = left[c]}

OnChange(t, n) ==
  /\ index' = 1 /\ Split(n, Offer(t, n))
  /\ Save(mount, t)
  /\ cursor' = n /\ dirty' = FALSE
  /\ recalled' = IF t = <<>> THEN 0 ELSE recalled
  /\ cut' = cut \ {c \in {at[mount]} : t = left[c]}

SetValue(t) ==
  /\ box' = [box EXCEPT ![mount] = t] /\ Save(mount, t)
  /\ dirty' = FALSE /\ Written(t) /\ cut' = cut \ {at[mount]}

(* fillIn: the word before the cursor gives way. *)
Replaced(word) == SubSeq(Text, 1, IF cursor = 0 THEN 0 ELSE cursor - 1) \o <<word>>

Replace(word) ==
  /\ SetValue(Replaced(word) \o SubSeq(Text, cursor + 1, Len(Text)))
  /\ cursor' = Len(Replaced(word))

-----------------------------------------------------------------------------
(* Writing. *)

Act == acts < MaxActs /\ acts' = acts + 1

(* A key is pressed: the textarea has the word, nothing else knows.         *)
Type ==
  /\ Act
  /\ here /\ focus /\ Len(Text) < MaxText
  /\ \E is \in Words : box' = [box EXCEPT ![mount] = InsertAt(Text, cursor + 1, Word(is, "key"))]
  /\ Written(box'[mount])
  /\ cursor' = cursor + 1 /\ dirty' = TRUE
  /\ UNCHANGED <<page, focus, menu, past, saved, upload, sent, cut>>

Erase ==
  /\ Act
  /\ here /\ focus /\ cursor > 0
  /\ box' = [box EXCEPT ![mount] = RemoveAt(Text, cursor)]
  /\ Written(box'[mount])
  /\ cursor' = cursor - 1 /\ dirty' = TRUE
  /\ UNCHANGED <<page, focus, menu, past, saved, upload, sent, cut>>

(* A key is let go; the arrows have moved the cursor before.                *)
Keyup ==
  /\ here /\ focus
  /\ \E n \in 0 .. Len(Text) : n \in {cursor - 1, cursor, cursor + 1} /\ OnChange(Text, n)
  /\ UNCHANGED <<page, box, focus, history, upload, sent, acts, left>>

Click ==
  /\ Act
  /\ here /\ focus
  /\ cursor' \in (0 .. Len(Text)) \ {cursor}
  /\ UNCHANGED <<page, box, focus, dirty, menu, past, saved, upload, sent, left, cut>>

(* The event "focus". *)
Focus ==
  /\ here /\ ~focus /\ focus' = TRUE
  /\ Split(Len(Text) + 1, <<>>)
  /\ UNCHANGED <<page, box, cursor, dirty, index, past, saved, upload, sent, ghost>>

(* The browser tells of a change when the textarea loses the focus.         *)
Blur ==
  /\ here /\ focus /\ focus' = FALSE
  /\ IF dirty THEN OnChange(Text, cursor)
              ELSE UNCHANGED <<cursor, dirty, menu, recalled, saved, cut>>
  /\ UNCHANGED <<page, box, history, upload, sent, acts, left>>

-----------------------------------------------------------------------------
(* Completion. *)

(* focusAutocompleteItem: one further or four, backwards too.               *)
Moved(by) == IF index + by < 1 THEN Len(options)
             ELSE IF index + by > Len(options) THEN 1 ELSE index + by

FocusItem ==
  /\ Act
  /\ here /\ focus /\ options # <<>>
  /\ \E by \in {-4, -1, 1, 4} : index' = Moved(by)
  /\ Replace(options[index'])
  /\ UNCHANGED <<page, focus, split, options, past, upload, sent>>

(* An option is clicked on: the change is handled, the textarea gets the    *)
(* focus again.                                                             *)
SelectOption ==
  /\ Act
  /\ here /\ ~focus /\ focus' = TRUE
  /\ \E i \in DOMAIN options : Replace(options[i])
  /\ index' = 1 /\ Split(Len(box'[mount]) + 1, <<>>)
  /\ UNCHANGED <<page, past, upload, sent>>

(* Enter or the button, while there is an option for it.                    *)
TakeOption ==
  /\ Act
  /\ here /\ index \in DOMAIN options
  /\ Replace(options[index])
  /\ Split(cursor' + 1, <<>>)
  /\ UNCHANGED <<page, focus, index, past, upload, sent>>

(* Enter or the button: the message goes out, and into the history.         *)
SendMessage ==
  /\ Act
  /\ here /\ index \notin DOMAIN options
  /\ LET msg == IF Text = <<>> THEN <<>> ELSE NormalizeCommand(Plain(Text)) IN
       IF msg = <<>> THEN UNCHANGED <<sent, past>>
       ELSE /\ sent' = [to |-> at[mount], of |-> {Text[i].of : i \in {j \in DOMAIN Text : Text[j].by = "key"}}]
            /\ history' = SubSeq(<<msg>> \o history, 1, Min({Len(history) + 1, MaxHistory}))
            /\ recalled' = 0
  /\ SetValue(<<>>) /\ cursor' = 0
  /\ UNCHANGED <<page, focus, menu, upload>>

(* CommandHistory.render: the text is an old message now, which is not      *)
(* saved as a draft.                                                        *)
Recall ==
  /\ Act
  /\ here /\ focus /\ cursor = Len(Text)
  /\ Text = <<>> \/ (recalled # 0 /\ Plain(Text) = history[recalled])
  /\ \E n \in 0 .. Len(history) : n \in {recalled - 1, recalled, recalled + 1} /\ recalled' = n
  /\ LET t == IF recalled' = 0 THEN <<>>
              ELSE [i \in DOMAIN history[recalled'] |-> Word(history[recalled'][i], "past")]
     IN box' = [box EXCEPT ![mount] = t] /\ cursor' = Len(t) /\ Written(t)
  /\ cut' = cut \cup {at[mount]}
  /\ UNCHANGED <<page, focus, dirty, menu, history, saved, upload, sent>>

-----------------------------------------------------------------------------
(* Going from one conversation to another. *)

Unsaved == IF here /\ dirty THEN {at[mount]} ELSE {}

(* Faulty variant: a text that was begun is not replaced. *)
SwitchEmpty ==
  /\ Act
  /\ here
  /\ \E c \in Convs \ {at[mount]} :
       /\ at' = [at EXCEPT ![mount] = c]
       /\ box' = [box EXCEPT ![mount] = IF Text = <<>> THEN draft[c] ELSE Text]
       /\ cursor' = Len(box'[mount])
  /\ dead' = dead \ {mount}
  /\ dirty' = FALSE /\ cut' = cut \cup Unsaved /\ recalled' = 0
  /\ UNCHANGED <<here, mount, focus, menu, history, saved, upload, sent, left>>

(* updateValueWhenConversationChanges; by a link, which takes the focus, or *)
(* by the program: then a key that is pressed is lost.  The menu stays.     *)
Switch ==
  /\ Act
  /\ here
  /\ \E c \in Convs \ {at[mount]} :
       /\ at' = [at EXCEPT ![mount] = c]
       /\ box' = [box EXCEPT ![mount] = draft[c]] /\ cursor' = Len(draft[c])
  /\ dead' = dead \ {mount}
  /\ dirty' = FALSE /\ cut' = cut \cup Unsaved /\ recalled' = 0
  /\ UNCHANGED <<here, mount, focus, menu, history, saved, upload, sent, left>>

Leave ==
  /\ Act
  /\ here /\ here' = FALSE
  /\ dirty' = FALSE /\ cut' = cut \cup Unsaved
  /\ UNCHANGED <<mount, at, dead, box, focus, cursor, menu, past, saved, upload, sent, left>>

(* A new component in conversation c; onReady. *)
Fresh(c, t) ==
  /\ mount < MaxMounts /\ mount' = mount + 1 /\ here' = TRUE
  /\ at' = [at EXCEPT ![mount'] = c] /\ box' = [box EXCEPT ![mount'] = t]
  /\ focus' = FALSE /\ cursor' = Len(t) /\ dirty' = FALSE
  /\ split' = 0 /\ options' = <<>> /\ index' = 1 /\ recalled' = 0

Return ==
  /\ Act
  /\ ~here
  /\ \E c \in Convs : Fresh(c, draft[c])
  /\ UNCHANGED <<dead, history, saved, upload, sent, left, cut>>

(* What was not written to the localStorage is lost with the objects.       *)
Unstored == {c \in Convs : stored[c] # draft[c]}

(* Reactive writes a change to the localStorage, 1 ms later.                *)
Store ==
  /\ \E c \in Unstored : stored' = [stored EXCEPT ![c] = draft[c]]
  /\ UNCHANGED <<page, box, caret, menu, past, draft, upload, sent, ghost>>

(* User.load: there are new conversations, which read the localStorage; the *)
(* textarea does not, since the path is the same.  What the old ones had to *)
(* write they write.                                                        *)
Reload ==
  /\ Act
  /\ draft' = stored /\ stored' = draft
  /\ dead' = (1 .. mount) \ (IF here THEN {mount} ELSE {})
  /\ recalled' = 0 /\ cut' = cut \cup Unstored
  /\ UNCHANGED <<here, mount, at, box, caret, menu, history, upload, sent, left>>

(* The page is loaded again, or the browser started. *)
Refresh ==
  /\ Act
  /\ draft' = stored
  /\ \E c \in Convs : Fresh(c, stored[c])
  /\ dead' = 1 .. mount /\ cut' = cut \cup Unstored \cup Unsaved
  /\ upload' = [f \in Uploads |->
       IF upload[f].is = "under way" THEN [upload[f] EXCEPT !.is = "gone"] ELSE upload[f]]
  /\ UNCHANGED <<stored, history, sent, left>>

-----------------------------------------------------------------------------
(* Files. *)

(* A file is chosen, dropped or pasted, or too many at once.                *)
UploadFiles(f) ==
  /\ Act
  /\ here /\ upload[f].is = "none"
  /\ \/ upload' = [upload EXCEPT ![f] = [is |-> "under way", by |-> mount]]
     \/ upload' = [upload EXCEPT ![f].is = "refused"]
  /\ UNCHANGED <<page, box, caret, menu, past, saved, sent, left, cut>>

Done(f, how) ==
  /\ upload[f].is = "under way"
  /\ upload' = [upload EXCEPT ![f].is = how]

(* The answer has a link, which goes to the end of the text: of the         *)
(* component that has asked, in whatever conversation it is now.  One that  *)
(* is not on the page overwrites the draft with the text it had.            *)
UploadEnds(f) ==
  LET by == upload[f].by
      t == box[by] \o <<[is |-> "link", by |-> "file", of |-> at[by]]>>
      shows == here /\ by = mount
  IN /\ Done(f, "linked")
     /\ box' = [box EXCEPT ![by] = t] /\ Save(by, t)
     /\ left' = IF shows THEN [left EXCEPT ![at[by]] = t] ELSE left
     /\ cut' = IF shows THEN cut \ {at[by]} ELSE cut \cup {at[by]}
     /\ IF shows THEN cursor' = Len(t) /\ dirty' = FALSE ELSE UNCHANGED <<cursor, dirty>>
     /\ UNCHANGED <<page, focus, menu, past, sent, acts>>

(* An error is shown in the conversation; of a failure on the network       *)
(* nothing is said, and after 15 seconds nothing happens at all.            *)
UploadFails(f) ==
  /\ Done(f, "refused") \/ (UploadFaults # {} /\ Done(f, "silent"))
  /\ UNCHANGED <<page, box, caret, menu, past, saved, sent, ghost>>

-----------------------------------------------------------------------------
InputInit ==
  /\ here = TRUE /\ mount = 1 /\ dead = {} /\ at \in [1 .. MaxMounts -> {CHOOSE c \in Convs : TRUE}]
  /\ box = [k \in 1 .. MaxMounts |-> <<>>]
  /\ focus = FALSE /\ cursor = 0 /\ dirty = FALSE
  /\ split = 0 /\ options = <<>> /\ index = 1
  /\ history = <<>> /\ recalled = 0
  /\ draft = [c \in Convs |-> <<>>] /\ stored = draft
  /\ upload = [f \in Uploads |-> [is |-> "none", by |-> 1]]
  /\ sent = [to |-> at[1], of |-> {}]
  /\ acts = 0 /\ left = draft /\ cut = {}

InputNext ==
  \/ Type \/ Erase \/ Keyup \/ Click \/ Focus \/ Blur
  \/ FocusItem \/ SelectOption \/ TakeOption \/ SendMessage \/ Recall
  \/ Switch \/ Leave \/ Return \/ Store \/ Reload \/ Refresh
  \/ \E f \in Uploads : UploadFiles(f) \/ UploadEnds(f) \/ UploadFails(f)

InputSpec == InputInit /\ [][InputNext]_inputVars

-----------------------------------------------------------------------------
Shown(c) == IF here /\ c = at[mount] THEN box[mount] ELSE draft[c]

(* Nobody loses what they were writing: a conversation shows the text that  *)
(* was left in it, however often they go to others, to other pages or       *)
(* restart the browser, except for a key that was pressed at that moment,   *)
(* an old message that was looked up, and the draft that an upload of an    *)
(* earlier page overwrites.                                                 *)
TextStays == \A c \in Convs \ cut : Shown(c) = left[c]

(* What is typed in one conversation is never sent to another.              *)
SentWhereTyped == sent.of \subseteq {sent.to}

=============================================================================
