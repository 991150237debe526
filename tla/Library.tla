------------------------------ MODULE Library ------------------------------
(***************************************************************************)
(* The recordings page and what it leaves behind: the list with its search *)
(* text and task filter, the store of checked recordings with its range    *)
(* anchor, the row's delete button, the bulk buttons for deletion, upload   *)
(* and export with the export dialog, and the pager of the detail page,     *)
(* which walks the same list. Editing is a module of its own.               *)
(*                                                                         *)
(* A recording is the number of its place in time: the list shows the      *)
(* greatest first. Nothing renames one here (no caller passes canRename),  *)
(* so its folder is its name. A search text is the set of the recordings   *)
(* whose name it matches; both filters live in the URL, and the store of   *)
(* checked recordings knows of neither.                                    *)
(***************************************************************************)
EXTENDS Integers, FiniteSetsExt, Client

CONSTANTS
  Folders,    \* recordings, a set of positive numbers
  Tasks,      \* task names
  NoTask,     \* the task of the recordings that have none, a choice of the filter
  AllTasks,   \* the task filter "All"
  Texts,      \* search texts, each the set of recordings it matches
  Disks,      \* the disks to start with, functions from recordings to tasks
  MaxCalls    \* bound: requests on their way when the operator acts

ASSUME FoldersAssumption == Folders \subseteq Nat \ {0}
ASSUME TextsAssumption == Folders \in Texts /\ Texts \subseteq SUBSET Folders
ASSUME TasksAssumption == NoTask \in Tasks /\ AllTasks \notin Tasks
ASSUME BoundsAssumption == MaxCalls \in Nat

Entries == UNION {[S -> Tasks] : S \in SUBSET Folders}
ASSUME DisksAssumption == Disks \subseteq Entries

VARIABLES
  at,          \* the page: the list, or the recording of the detail page
  search, task,            \* the filters in the URL
  checked, anchor,         \* the store: checkedFolders, anchorFolder
  open,        \* `open` of the export dialog
  job,         \* what the job stream says of the export the dialog follows
  calls,       \* requests on their way, and the buttons that sent them
  files,       \* the query of the recordings list
  disk,        \* the server: recordings and their tasks
  surprised    \* history: an answer took the selection under the open dialog

store == <<checked, anchor>>
dialogs == <<open, job, surprised>>
filter == <<search, task>>
vars == <<at, filter, store, dialogs, calls, files, disk>>

ListPage == 0
NoFolder == 0
NoJob == "none"
Ended == {"completed", "failed"}
NoText == Folders

Init ==
  /\ at = ListPage
  /\ search \in Texts /\ task \in Tasks \union {AllTasks}
  /\ checked = {} /\ anchor = NoFolder
  /\ open = FALSE /\ job = NoJob /\ surprised = FALSE
  /\ calls = {} /\ files = Fetch(NewQuery)
  /\ disk \in Disks

-----------------------------------------------------------------------------
(* The list as it is shown *)

\* useFileEntries
Listed == IF files.data = NoData THEN << >> ELSE files.data

\* applySearchAndFilter, with the order of the list understood.
Filtered(list, text, t) == {f \in DOMAIN list : f \in text /\ (t = AllTasks \/ list[f] = t)}

Shown == Filtered(Listed, search, task)

\* The operator reaches the list: it is on the screen without the dialog.
OnList == at = ListPage /\ (checked = {} \/ ~open)

-----------------------------------------------------------------------------
(* Who listens to an answer *)

\* A request with its button, and what the row had read when it was clicked.
Sent(req, by, was) ==
  LET call == Call(req)
  IN  [by |-> by, was |-> was, req |-> req, at |-> call.at, result |-> call.result,
       heard |-> call.heard]

\* Whether the component that called mutate() is mounted: a row while its
\* recording is shown, the dialog while something is checked.
Mounted(call) ==
  /\ at = ListPage
  /\ call.by = "row" => call.req.folders \subseteq Shown
  /\ call.by = "export" => checked # {}

\* The callbacks given to mutate() are dropped when their component unmounts,
\* for good. To be conjoined after the other primed variables.
Listen(cs) == calls' = {IF Mounted(c)' THEN c ELSE Unheard(c) : c \in cs}

Pending(by) == \E c \in calls : c.by = by /\ c.heard
RowPending(f) == \E c \in calls : c.by = "row" /\ c.heard /\ c.req.folders = {f}

Room == Cardinality(calls) < MaxCalls

\* An emptied selection unmounts the dialog; with a new one it shows again,
\* if it was open, in a new session.
Remount ==
  /\ job' = IF checked' = {} THEN NoJob ELSE job
  /\ surprised' = (surprised /\ checked' = {})

-----------------------------------------------------------------------------
(* The store *)

ToggleCheck(f) == checked' = SymDiff(checked, {f}) /\ anchor' = f

\* applyRange and checkRange: every shown row between the anchor and the
\* clicked one takes the state of the anchor.
CheckRange(f) ==
  LET between == {g \in Shown : (anchor <= g /\ g <= f) \/ (f <= g /\ g <= anchor)}
  IN  IF anchor \in Shown
      THEN /\ checked' = IF anchor \in checked THEN checked \union between ELSE checked \ between
           /\ UNCHANGED anchor
      ELSE ToggleCheck(f)

ToggleCheckAll(shown) ==
  /\ checked' = IF shown # {} /\ shown \subseteq checked THEN {} ELSE shown
  /\ anchor' = NoFolder

SetCheckedFolders(folders) == checked' = folders /\ anchor' = NoFolder
ClearChecked == SetCheckedFolders({})

-----------------------------------------------------------------------------
(* Checkboxes and filters *)

Check(f, shift) ==
  /\ OnList /\ f \in Shown
  /\ IF shift THEN CheckRange(f) ELSE ToggleCheck(f)
  /\ Remount
  /\ UNCHANGED <<at, filter, open, files, disk>>
  /\ Listen(calls)

CheckAll ==
  /\ OnList
  /\ ToggleCheckAll(Shown)
  /\ Remount
  /\ UNCHANGED <<at, filter, open, files, disk>>
  /\ Listen(calls)

SearchText(text) ==
  /\ OnList /\ text # search
  /\ search' = text
  /\ SetCheckedFolders(IF text = NoText THEN {} ELSE Filtered(Listed, text, task))
  /\ Remount
  /\ UNCHANGED <<at, task, open, files, disk>>
  /\ Listen(calls)

\* TaskFilter offers the tasks of the recordings that match the text.
TaskOptions == {AllTasks} \union {Listed[f] : f \in Filtered(Listed, search, AllTasks)}

\* Faulty variant: the recordings to check are taken before the search.
SelectTaskOfAll(option) ==
  LET new == IF option = task THEN AllTasks ELSE option
  IN  /\ OnList /\ option \in TaskOptions
      /\ task' = new
      /\ SetCheckedFolders(IF new = AllTasks THEN {} ELSE Filtered(Listed, NoText, new))
      /\ Remount
      /\ UNCHANGED <<at, search, open, files, disk>>
      /\ Listen(calls)

\* A second click on the selected task resets the filter.
SelectTask(option) ==
  LET new == IF option = task THEN AllTasks ELSE option
  IN  /\ OnList /\ option \in TaskOptions
      /\ task' = new
      /\ SetCheckedFolders(IF new = AllTasks THEN {} ELSE Filtered(Listed, search, new))
      /\ Remount
      /\ UNCHANGED <<at, search, open, files, disk>>
      /\ Listen(calls)

\* The browser goes back or forward to an earlier filter, whatever is open.
GoBack(text, t) ==
  /\ at = ListPage /\ <<text, t>> # filter
  /\ search' = text /\ task' = t
  /\ UNCHANGED <<at, store, dialogs, files, disk>>
  /\ Listen(calls)

-----------------------------------------------------------------------------
(* The row's delete button and the bulk buttons *)

DeleteRow(f) ==
  /\ OnList /\ Room /\ f \in Shown /\ ~RowPending(f)
  /\ calls' = calls \union {Sent(DeleteRecordings({f}), "row", f \in checked)}
  /\ UNCHANGED <<at, filter, store, dialogs, files, disk>>

BulkDelete ==
  /\ OnList /\ Room /\ checked # {} /\ ~Pending("delete")
  /\ calls' = calls \union {Sent(DeleteRecordings(checked), "delete", TRUE)}
  /\ UNCHANGED <<at, filter, store, dialogs, files, disk>>

BulkUpload ==
  /\ OnList /\ Room /\ checked # {} /\ ~Pending("upload")
  /\ calls' = calls \union {Sent(StartBulkUpload(checked), "upload", TRUE)}
  /\ UNCHANGED <<at, filter, store, dialogs, files, disk>>

OpenExport ==
  /\ OnList /\ checked # {}
  /\ open' = TRUE /\ job' = NoJob
  /\ UNCHANGED <<at, filter, store, surprised, calls, files, disk>>

-----------------------------------------------------------------------------
(* The export dialog *)

OnScreen == at = ListPage /\ open /\ checked # {}

Export ==
  /\ OnScreen /\ Room /\ job = NoJob /\ ~Pending("export")
  /\ calls' = calls \union {Sent(StartLeRobotExport(checked), "export", TRUE)}
  /\ UNCHANGED <<at, filter, store, dialogs, files, disk>>

ExportDone == job = "completed"

\* Faulty variant: an export that was completed only clears the selection.
CloseExportLeavesOpen ==
  /\ OnScreen
  /\ IF ExportDone THEN ClearChecked /\ UNCHANGED open
                   ELSE UNCHANGED store /\ open' = FALSE
  /\ Remount
  /\ UNCHANGED <<at, filter, files, disk>>
  /\ Listen(calls)

\* handleClose, whatever closes the dialog: Escape and the overlay do it even
\* while the request is on its way.
CloseExport ==
  /\ OnScreen
  /\ IF ExportDone THEN ClearChecked ELSE UNCHANGED store
  /\ open' = FALSE
  /\ Remount
  /\ UNCHANGED <<at, filter, files, disk>>
  /\ Listen(calls)

-----------------------------------------------------------------------------
(* The answers *)

\* Faulty variant: the row is unchecked however the deletion ended.
RowAnsweredAnyway(call) ==
  /\ IF call.was THEN ToggleCheck(Max(call.req.folders)) ELSE UNCHANGED store
  /\ UNCHANGED open

\* onSuccess of handleDelete: unchecks the row if it was checked at the click.
RowAnswered(call) ==
  /\ IF call.at = "ok" /\ call.was THEN ToggleCheck(Max(call.req.folders)) ELSE UNCHANGED store
  /\ UNCHANGED open

BulkAnswered(call) ==
  /\ IF call.at = "ok" THEN ClearChecked ELSE UNCHANGED store
  /\ UNCHANGED open

ExportAnswered == UNCHANGED <<store, open>>

Answer(c) ==
  \/ c.by = "row" /\ RowAnswered(c)
  \/ c.by \in {"delete", "upload"} /\ BulkAnswered(c)
  \/ c.by = "export" /\ ExportAnswered

\* The callbacks of the hook invalidate the list, listener or not; those given
\* to mutate() want a listener. The export may have ended before its answer came.
Receive(c) ==
  /\ c.at # "sent"
  /\ files' = IF c.at = "ok" /\ c.req.op = "deleteRecordings" THEN Refetch(files) ELSE files
  /\ IF c.heard THEN Answer(c) ELSE UNCHANGED <<store, open>>
  /\ IF checked' = {} THEN job' = NoJob
     ELSE IF c.heard /\ c.by = "export" /\ c.at = "ok" THEN job' \in {"active"} \union Ended
     ELSE UNCHANGED job
  /\ surprised' = (checked' = {} /\ (surprised \/ (checked # {} /\ open)))
  /\ UNCHANGED <<at, filter, disk>>
  /\ Listen(calls \ {c})

-----------------------------------------------------------------------------
(* The list and its pager *)

ServeFiles ==
  /\ files.get = "sent"
  /\ files' = Answered(files, disk)
  /\ UNCHANGED <<at, filter, store, dialogs, calls, disk>>

\* With the list there, the detail page of a recording that is gone goes back.
ReceiveFiles ==
  /\ files.get = "answered"
  /\ files' = Applied(files)
  /\ at' = IF at \in DOMAIN files.answer THEN at ELSE ListPage
  /\ UNCHANGED <<filter, store, dialogs, disk>>
  /\ Listen(calls)

LoseFiles ==
  /\ files.get # "none"
  /\ files' = IF files.data = NoData THEN Fetch(NewQuery) ELSE Dropped(files)
  /\ UNCHANGED <<at, filter, store, dialogs, calls, disk>>

\* Jobs that end, and whatever else invalidates the list.
RefreshList ==
  /\ files.get = "none"
  /\ files' = Refetch(files)
  /\ UNCHANGED <<at, filter, store, dialogs, calls, disk>>

\* A row scrolled out of the virtualized list unmounts.
Scroll(f) ==
  /\ OnList /\ RowPending(f)
  /\ calls' = {IF c.by = "row" /\ c.req.folders = {f} THEN Unheard(c) ELSE c : c \in calls}
  /\ UNCHANGED <<at, filter, store, dialogs, files, disk>>

\* Leaving the list unmounts its buttons, dialogs and rows; the store stays.
OpenDetail(f) ==
  /\ OnList /\ f \in Shown
  /\ at' = f
  /\ open' = FALSE /\ job' = NoJob /\ surprised' = FALSE
  /\ UNCHANGED <<filter, store, files, disk>>
  /\ Listen(calls)

BackToList ==
  /\ at # ListPage
  /\ at' = ListPage
  /\ UNCHANGED <<filter, store, dialogs, calls, files, disk>>

\* Faulty variant: the pager does not know of the filter.
WalkAll(f) == DOMAIN Listed

\* computeNeighbors: the filtered list, if the recording is in it.
Walk(f) ==
  IF f \in Filtered(Listed, search, task) THEN Filtered(Listed, search, task) ELSE DOMAIN Listed

\* The list goes from the greatest to the least; NoFolder ends it.
Prev(f) ==
  LET before == {g \in Walk(f) : g > f}
  IN  IF before = {} THEN NoFolder ELSE Min(before)
NextOne(f) ==
  LET after == {g \in Walk(f) : g < f}
  IN  IF after = {} THEN NoFolder ELSE Max(after)

\* The search is carried along.
TurnPage ==
  /\ at # ListPage
  /\ at' \in {Prev(at), NextOne(at)} \ {NoFolder}
  /\ UNCHANGED <<filter, store, dialogs, calls, files, disk>>

-----------------------------------------------------------------------------
(* The server *)

\* An answer nobody hears matters if it invalidates the list.
Reply(c, answer) ==
  calls' = (calls \ {c}) \union
           (IF c.heard \/ (answer.at = "ok" /\ c.req.op = "deleteRecordings") THEN {answer} ELSE {})

\* delete_recordings: a recording that is gone is skipped; an error ends the
\* request and leaves what was deleted before it.
ServeDelete(c) ==
  /\ c.req.op = "deleteRecordings"
  /\ \/ /\ disk' = [f \in DOMAIN disk \ c.req.folders |-> disk[f]]
        /\ Reply(c, Succeeded(c, NoData))
     \/ \E gone \in SUBSET (c.req.folders \intersect DOMAIN disk) :
          /\ disk' = [f \in DOMAIN disk \ gone |-> disk[f]]
          /\ Reply(c, Threw(c))

\* start_bulk answers for every recording, whether it is queued or not.
ServeUpload(c) ==
  /\ c.req.op = "startBulkUpload"
  /\ Reply(c, Succeeded(c, NoData))
  /\ UNCHANGED disk

ServeExport(c) ==
  /\ c.req.op = "startLeRobotExport"
  /\ Reply(c, Succeeded(c, NoData)) \/ Reply(c, Threw(c))
  /\ UNCHANGED disk

Serve(c) ==
  /\ c.at = "sent"
  /\ ServeDelete(c) \/ ServeUpload(c) \/ ServeExport(c)
  /\ UNCHANGED <<at, filter, store, dialogs, files>>

\* A request that does not arrive, or an answer that does not.
Lose(c) ==
  /\ c.at # "failed"
  /\ Reply(c, Threw(c))
  /\ UNCHANGED <<at, filter, store, dialogs, files, disk>>

JobEnds ==
  /\ job = "active" /\ job' \in Ended
  /\ UNCHANGED <<at, filter, store, open, surprised, calls, files, disk>>

\* The row's dialog names the task of a recording that has none (bound: no task
\* is changed or taken away).
NameTask(f, t) ==
  /\ f \in DOMAIN disk /\ disk[f] = NoTask
  /\ disk' = [disk EXCEPT ![f] = t]
  /\ UNCHANGED <<at, filter, store, dialogs, calls, files>>

-----------------------------------------------------------------------------

Operator ==
  \/ \E f \in Folders : \/ \E shift \in BOOLEAN : Check(f, shift)
                        \/ DeleteRow(f) \/ Scroll(f) \/ OpenDetail(f)
  \/ CheckAll
  \/ \E text \in Texts : SearchText(text)
  \/ \E t \in Tasks \union {AllTasks} : SelectTask(t)
  \/ \E text \in Texts, t \in Tasks \union {AllTasks} : GoBack(text, t)
  \/ BulkDelete \/ BulkUpload
  \/ OpenExport \/ Export \/ CloseExport
  \/ BackToList \/ TurnPage

Next ==
  \/ Operator
  \/ \E c \in calls : Serve(c) \/ Receive(c) \/ Lose(c)
  \/ ServeFiles \/ ReceiveFiles \/ LoseFiles \/ RefreshList
  \/ JobEnds
  \/ \E f \in Folders, t \in Tasks \ {NoTask} : NameTask(f, t)

Spec == Init /\ [][Next]_vars

-----------------------------------------------------------------------------
(* Properties *)

TypeOK ==
  /\ at \in Folders \union {ListPage}
  /\ search \in Texts /\ task \in Tasks \union {AllTasks}
  /\ checked \in SUBSET Folders /\ anchor \in Folders \union {NoFolder}
  /\ open \in BOOLEAN /\ surprised \in BOOLEAN
  /\ job \in {NoJob, "active"} \union Ended
  /\ \A c \in calls : /\ c.by \in {"row", "delete", "upload", "export"}
                      /\ c.req.folders \subseteq Folders /\ c.req.folders # {}
                      /\ c.at \in {"sent", "ok", "failed"}
                      /\ c.heard \in BOOLEAN /\ c.was \in BOOLEAN
  /\ files \in Query(Entries) /\ disk \in Entries

\* Setting the selection on every change of a filter keeps it within the rows
\* that are shown. What is checked but not shown, and would be deleted unseen,
\* gets there without the selection changing: by a new list, or by the browser's
\* history. No click does it, and no answer: that to the deletion of a row checks
\* nothing elsewhere, since the callback dies with the row.
HiddenOnlyByNews ==
  [][ \/ checked' \ Shown' \subseteq checked \ Shown
      \/ checked' = checked /\ (Listed' # Listed \/ filter' # filter) ]_vars

\* An answer never checks a recording that still exists: handleDelete decides by
\* the checkmark it read at the click, toggles the one of the answer, and what
\* it may check by that is gone.
AnswersNeverSelect ==
  [][\A c \in calls : Receive(c) => (checked' \ checked) \intersect DOMAIN disk = {}]_vars

\* The variables have their types, and the export dialog does not pop up:
\* "leaving `open` true would re-pop the dialog uninvited the next time a
\* recording is checked" (export-dialog.tsx): the dialog's own ways of closing
\* never do that. The answer to another request may, when it takes the
\* selection away under an open dialog.
NoUninvitedDialog ==
  /\ TypeOK
  /\ open /\ checked = {} => surprised

\* The pager walks one sequence: a step forth and one back lead to where it
\* was, unless they cross from the list into the filtered one, and a step never
\* leads out of the filtered list.
PagerReturns ==
  LET view == Filtered(Listed, search, task)
  IN  \A f \in DOMAIN Listed :
        /\ \A g \in {Prev(f), NextOne(f)} \ {NoFolder} : f \in view => g \in view
        /\ Prev(f) # NoFolder /\ (f \in view <=> Prev(f) \in view) => NextOne(Prev(f)) = f
        /\ NextOne(f) # NoFolder /\ (f \in view <=> NextOne(f) \in view) => Prev(NextOne(f)) = f

=============================================================================
