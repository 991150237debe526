---------------------------- MODULE LibraryProofs ----------------------------
(***************************************************************************)
(* Safety of Library for all recordings, tasks, search texts and numbers   *)
(* of requests on their way: NoUninvitedDialog, PagerReturns,              *)
(* HiddenOnlyByNews and AnswersNeverSelect.                                *)
(***************************************************************************)
EXTENDS Library, WellFoundedInduction, TLAPS

\* The requests of the page, and the calls that carry them.
Requests ==
  [op : {"deleteRecordings", "startBulkUpload", "startLeRobotExport"}, folders : SUBSET Folders]

Calls ==
  [by : {"row", "delete", "upload", "export"}, was : BOOLEAN, req : Requests,
   at : {"sent", "ok", "failed"}, result : {NoData}, heard : BOOLEAN]

\* A row deletes its own recording.
CallOK(c) ==
  /\ c \in Calls
  /\ c.req.folders # {}
  /\ c.by = "row" => c.req.op = "deleteRecordings" /\ \E f \in Folders : c.req.folders = {f}

\* Nothing brings a deleted recording back.
GoneOK(c) ==
  c.at = "ok" /\ c.req.op = "deleteRecordings" => c.req.folders \intersect DOMAIN disk = {}

\* Who waits for an answer is mounted: a row that is not on the screen hears
\* nothing.
CallsOK == \A c \in calls : CallOK(c) /\ GoneOK(c) /\ (c.heard => Mounted(c))

\* The types of what the page shows and the server has.
PageOK ==
  /\ at \in Folders \union {ListPage}
  /\ search \in Texts /\ task \in Tasks \union {AllTasks}
  /\ checked \in SUBSET Folders /\ anchor \in Folders \union {NoFolder}
  /\ files \in Query(Entries) /\ disk \in Entries

\* The types of the dialog, and NoUninvitedDialog.
DialogOK ==
  /\ open \in BOOLEAN /\ surprised \in BOOLEAN
  /\ job \in {NoJob, "active"} \union Ended
  /\ open /\ checked = {} => surprised

\* The inductive invariant, in the parts that different actions touch.
IInv == PageOK /\ DialogOK /\ CallsOK

-----------------------------------------------------------------------------
(* The operators of the module *)

\* Entries are functions from recordings to tasks.
LEMMA EntriesAre ==
  /\ \A e \in Entries : e \in [DOMAIN e -> Tasks] /\ DOMAIN e \subseteq Folders
  /\ \A S \in SUBSET Folders : \A e \in [S -> Tasks] : e \in Entries
  BY DEF Entries

\* What is listed are recordings.
LEMMA ListedAre ==
  ASSUME PageOK
  PROVE  DOMAIN Listed \subseteq Folders /\ Shown \subseteq DOMAIN Listed
  <1>1. DOMAIN << >> = {}
    OBVIOUS
  <1>2. files.data # NoData => files.data \in Entries
    BY DEF PageOK, Query
  <1>3. QED
    BY <1>1, <1>2, EntriesAre DEF Listed, Shown, Filtered

\* The steps of a query.
LEMMA QuerySteps ==
  ASSUME NEW q \in Query(Entries)
  PROVE  /\ Fetch(q) \in Query(Entries) /\ Fetch(q).data = q.data
         /\ Refetch(q) \in Query(Entries) /\ Refetch(q).data = q.data
         /\ Dropped(q) \in Query(Entries) /\ Dropped(q).data = q.data
         /\ Applied(q) \in Query(Entries)
         /\ \A v \in Entries : Answered(q, v) \in Query(Entries) /\ Answered(q, v).data = q.data
  BY DEF Fetch, Refetch, Dropped, Applied, Answered, Query

\* The query of a page that was just opened.
LEMMA StartsEmpty ==
  NewQuery \in Query(Entries) /\ Fetch(NewQuery) \in Query(Entries)
    /\ Fetch(NewQuery).data = NoData
  BY DEF NewQuery, Query, Fetch

\* handleDelete's recording.
LEMMA MaxOne == ASSUME NEW f \in Nat PROVE Max({f}) = f
  BY DEF Max

\* The least number of a set of recordings.
LEMMA MinIs ==
  ASSUME NEW S, S \subseteq Nat, S # {}
  PROVE  Min(S) \in S /\ \A g \in S : Min(S) <= g
  <1>1. PICK f \in S : \A g \in S : ~(<<g, f>> \in OpToRel(<, Nat))
    BY WFMin, NatLessThanWellFounded
  <1>2. \A g \in S : f <= g
    <2> SUFFICES ASSUME NEW g \in S PROVE f <= g
      OBVIOUS
    <2>1. ~(g < f)
      BY <1>1 DEF OpToRel
    <2>2. QED
      BY <2>1
  <1>3. QED
    BY <1>2 DEF Min

\* A set of numbers below a bound has a greatest one.
LEMMA MaxIs ==
  ASSUME NEW S, S \subseteq Nat, S # {}, NEW n \in Nat, \A g \in S : g < n
  PROVE  Max(S) \in S /\ \A g \in S : Max(S) >= g
  <1> DEFINE T == {n - g : g \in S}
  <1>1. T \subseteq Nat /\ T # {}
    <2>1. \A g \in S : n - g \in Nat
      OBVIOUS
    <2>2. QED
      BY <2>1
  <1>2. Min(T) \in T /\ \A d \in T : Min(T) <= d
    BY <1>1, MinIs
  <1>3. PICK f \in S : Min(T) = n - f
    BY <1>2
  <1>4. \A g \in S : f >= g
    <2>1. \A g \in S : n - f <= n - g
      BY <1>2, <1>3
    <2>2. QED
      BY <2>1
  <1>5. \E x \in S : \A y \in S : x >= y
    BY <1>4
  <1>6. QED
    BY <1>5 DEF Max

-----------------------------------------------------------------------------
(* The pager *)

\* Where the pager leads: to the next greater and the next smaller recording of
\* the sequence it walks.
LEMMA StepsAre ==
  ASSUME PageOK, NEW f \in Folders
  PROVE  /\ Walk(f) \subseteq Folders
         /\ LET g == Prev(f)
            IN  IF \E h \in Walk(f) : h > f
                THEN g \in Walk(f) /\ g > f /\ \A h \in Walk(f) : h > f => g <= h
                ELSE g = NoFolder
         /\ LET g == NextOne(f)
            IN  IF \E h \in Walk(f) : h < f
                THEN g \in Walk(f) /\ g < f /\ \A h \in Walk(f) : h < f => g >= h
                ELSE g = NoFolder
  <1>1. Walk(f) \subseteq Folders /\ Folders \subseteq Nat
    BY ListedAre, FoldersAssumption DEF Walk, Shown
  <1> DEFINE before == {g \in Walk(f) : g > f}
             after == {g \in Walk(f) : g < f}
  <1>2. before # {} => Min(before) \in before /\ \A g \in before : Min(before) <= g
    BY <1>1, MinIs
  <1>3. after # {} => Max(after) \in after /\ \A g \in after : Max(after) >= g
    BY <1>1, MaxIs
  <1>4. Prev(f) = IF before = {} THEN NoFolder ELSE Min(before)
    BY DEF Prev
  <1>5. NextOne(f) = IF after = {} THEN NoFolder ELSE Max(after)
    BY DEF NextOne
  <1>6. QED
    BY <1>1, <1>2, <1>3, <1>4, <1>5

\* A page turned is a recording, or the end of the sequence.
LEMMA TurnsTo ==
  ASSUME PageOK, NEW f \in Folders
  PROVE  {Prev(f), NextOne(f)} \subseteq Folders \union {NoFolder}
  BY StepsAre

\* The step back is the inverse of the step forth: between a recording and the
\* next of the sequence there is none.
LEMMA PagerWalks == PageOK => PagerReturns
  <1> SUFFICES ASSUME PageOK PROVE PagerReturns
    OBVIOUS
  <1> DEFINE view == Filtered(Listed, search, task)
             all == DOMAIN Listed
  <1>1. view \subseteq all /\ all \subseteq Folders /\ Folders \subseteq Nat /\ 0 \notin Folders
    BY ListedAre, FoldersAssumption DEF Shown
  <1>2. \A f \in Folders : Walk(f) = IF f \in view THEN view ELSE all
    BY DEF Walk
  <1> HIDE DEF view, all
  <1> SUFFICES ASSUME NEW f \in all
               PROVE  /\ \A g \in {Prev(f), NextOne(f)} \ {NoFolder} : f \in view => g \in view
                      /\ Prev(f) # NoFolder /\ (f \in view <=> Prev(f) \in view)
                           => NextOne(Prev(f)) = f
                      /\ NextOne(f) # NoFolder /\ (f \in view <=> NextOne(f) \in view)
                           => Prev(NextOne(f)) = f
    BY DEF PagerReturns, view, all
  <1>3. f \in Folders /\ f \in Walk(f)
    BY <1>1, <1>2
  <1>4. \A g \in {Prev(f), NextOne(f)} \ {NoFolder} : f \in view => g \in view
    BY <1>2, <1>3, StepsAre DEF NoFolder
  <1>5. ASSUME Prev(f) # NoFolder, f \in view <=> Prev(f) \in view PROVE NextOne(Prev(f)) = f
    <2>1. PICK g : g = Prev(f)
      OBVIOUS
    <2>2. g \in Walk(f) /\ g > f /\ \A h \in Walk(f) : h > f => g <= h
      BY <1>3, <1>5, <2>1, StepsAre
    <2>3. g \in Folders /\ Walk(g) = Walk(f)
      BY <1>2, <1>3, <1>5, <2>1, <2>2, StepsAre
    <2>4. PICK e : e = NextOne(g)
      OBVIOUS
    <2>5. e \in Walk(f) /\ e < g /\ \A h \in Walk(f) : h < g => e >= h
      BY <1>3, <2>2, <2>3, <2>4, StepsAre
    <2>6. e = f
      <3>1. Walk(f) \subseteq Nat
        BY <1>1, <1>3, StepsAre
      <3>2. QED
        BY <1>3, <2>2, <2>5, <3>1
    <2>7. QED
      BY <2>1, <2>4, <2>6
  <1>6. ASSUME NextOne(f) # NoFolder, f \in view <=> NextOne(f) \in view
        PROVE  Prev(NextOne(f)) = f
    <2>1. PICK g : g = NextOne(f)
      OBVIOUS
    <2>2. g \in Walk(f) /\ g < f /\ \A h \in Walk(f) : h < f => g >= h
      BY <1>3, <1>6, <2>1, StepsAre
    <2>3. g \in Folders /\ Walk(g) = Walk(f)
      BY <1>2, <1>3, <1>6, <2>1, <2>2, StepsAre
    <2>4. PICK e : e = Prev(g)
      OBVIOUS
    <2>5. e \in Walk(f) /\ e > g /\ \A h \in Walk(f) : h > g => e <= h
      BY <1>3, <2>2, <2>3, <2>4, StepsAre
    <2>6. e = f
      <3>1. Walk(f) \subseteq Nat
        BY <1>1, <1>3, StepsAre
      <3>2. QED
        BY <1>3, <2>2, <2>5, <3>1
    <2>7. QED
      BY <2>1, <2>4, <2>6
  <1>7. QED
    BY <1>4, <1>5, <1>6

-----------------------------------------------------------------------------
(* Calls *)

\* What a button of the page sends, and what a row sends.
LEMMA NewCall ==
  ASSUME NEW S \in SUBSET Folders, S # {}, NEW was \in BOOLEAN,
         NEW by \in {"delete", "upload", "export"},
         NEW req \in {DeleteRecordings(S), StartBulkUpload(S), StartLeRobotExport(S)},
         NEW c, c = Sent(req, by, was)
  PROVE  CallOK(c) /\ GoneOK(c) /\ c.by = by
  BY DEF Sent, Call, CallOK, Calls, Requests, GoneOK, DeleteRecordings, StartBulkUpload,
         StartLeRobotExport

LEMMA NewRowCall ==
  ASSUME NEW f \in Folders, NEW was \in BOOLEAN,
         NEW c, c = Sent(DeleteRecordings({f}), "row", was)
  PROVE  CallOK(c) /\ GoneOK(c) /\ c.by = "row" /\ c.req.folders = {f}
  BY DEF Sent, Call, CallOK, Calls, Requests, GoneOK, DeleteRecordings

\* A call keeps its request, whatever becomes of it.
LEMMA CallSteps ==
  ASSUME NEW c, CallOK(c)
  PROVE  /\ CallOK(Unheard(c)) /\ Unheard(c).req = c.req /\ Unheard(c).at = c.at
         /\ Unheard(c).by = c.by /\ ~Unheard(c).heard
         /\ CallOK(Threw(c)) /\ Threw(c).req = c.req /\ Threw(c).at = "failed"
         /\ Threw(c).by = c.by /\ Threw(c).heard = c.heard
         /\ LET d == Succeeded(c, NoData)
            IN  CallOK(d) /\ d.req = c.req /\ d.by = c.by /\ d.heard = c.heard
  BY DEF CallOK, Calls, Requests, Unheard, Threw, Succeeded

\* Listen leaves those who are still mounted listening.
LEMMA ListenKeeps ==
  ASSUME CallsOK, NEW cs \in SUBSET calls, Listen(cs), UNCHANGED disk
  PROVE  CallsOK'
  <1> SUFFICES ASSUME NEW d \in calls'
               PROVE  CallOK(d) /\ GoneOK(d)' /\ (d.heard => Mounted(d)')
    BY DEF CallsOK, CallOK
  <1>1. PICK c \in calls : d = IF Mounted(c)' THEN c ELSE Unheard(c)
    BY DEF Listen
  <1>2. CallOK(c) /\ GoneOK(c)
    BY DEF CallsOK
  <1>3. CallOK(d) /\ d.req = c.req /\ d.at = c.at /\ d.by = c.by
    BY <1>1, <1>2, CallSteps
  <1>4. GoneOK(d)'
    BY <1>2, <1>3 DEF GoneOK
  <1>5. d.heard => Mounted(d)'
    BY <1>1, <1>2, CallSteps
  <1>6. QED
    BY <1>3, <1>4, <1>5

\* A page that does not change keeps everybody mounted.
LEMMA StillMounted ==
  ASSUME UNCHANGED <<at, search, task, checked>>, files.data' = files.data, NEW c, Mounted(c)
  PROVE  Mounted(c)'
  BY DEF Mounted, Shown, Filtered, Listed

\* The page and the calls stay, and the disk loses nothing but recordings.
LEMMA CallsStay ==
  ASSUME CallsOK, UNCHANGED <<at, search, task, checked, calls>>, files.data' = files.data,
         DOMAIN disk' \subseteq DOMAIN disk
  PROVE  CallsOK'
  <1>1. \A c \in calls : CallOK(c) /\ GoneOK(c)' /\ (c.heard => Mounted(c)')
    BY StillMounted DEF CallsOK, GoneOK
  <1>2. QED
    BY <1>1 DEF CallsOK, CallOK

\* The operator sends a request from a button on the page.
LEMMA SendKeeps ==
  ASSUME CallsOK, NEW c, CallOK(c), GoneOK(c), Mounted(c), calls' = calls \union {c},
         UNCHANGED <<at, search, task, checked, files, disk>>
  PROVE  CallsOK'
  <1>1. \A d \in calls' : CallOK(d) /\ GoneOK(d) /\ (d.heard => Mounted(d))
    BY DEF CallsOK
  <1>2. \A d \in calls' : CallOK(d) /\ GoneOK(d)' /\ (d.heard => Mounted(d)')
    BY <1>1, StillMounted DEF GoneOK
  <1>3. QED
    BY <1>2 DEF CallsOK, CallOK

\* The server, or the loss of a message, turns a call into its answer.
LEMMA ReplyKeeps ==
  ASSUME CallsOK, NEW c \in calls, NEW answer, Reply(c, answer),
         CallOK(answer), GoneOK(answer)', answer.req = c.req, answer.by = c.by,
         answer.heard = c.heard,
         UNCHANGED <<at, search, task, checked, files>>, DOMAIN disk' \subseteq DOMAIN disk
  PROVE  CallsOK'
  <1>1. Mounted(c) => Mounted(answer)
    BY DEF Mounted
  <1>2. \A d \in calls' : CallOK(d) /\ GoneOK(d)' /\ (d.heard => Mounted(d))
    <2>1. \A d \in calls' : d \in calls \/ d = answer
      BY DEF Reply
    <2>2. QED
      BY <1>1, <2>1 DEF CallsOK, GoneOK
  <1>3. \A d \in calls' : CallOK(d) /\ GoneOK(d)' /\ (d.heard => Mounted(d)')
    BY <1>2, StillMounted
  <1>4. QED
    BY <1>3 DEF CallsOK, CallOK

-----------------------------------------------------------------------------
(* The inductive invariant *)

LEMMA InitInv == Init => IInv
  <1> SUFFICES ASSUME Init PROVE IInv
    OBVIOUS
  <1>1. PageOK
    BY StartsEmpty, DisksAssumption DEF Init, PageOK
  <1>2. DialogOK /\ CallsOK
    BY DEF Init, DialogOK, CallsOK
  <1>3. QED
    BY <1>1, <1>2 DEF IInv

\* What the operator does on the list itself, where no dialog is open over a
\* selection: any new selection and any new filter.
LEMMA OnListKeeps ==
  ASSUME IInv, OnList, Remount, Listen(calls), UNCHANGED <<at, open, files, disk>>,
         search' \in Texts, task' \in Tasks \union {AllTasks},
         checked' \in SUBSET Folders, anchor' \in Folders \union {NoFolder}
  PROVE  IInv'
  <1>1. PageOK'
    BY DEF IInv, PageOK
  <1>2. DialogOK'
    BY DEF IInv, DialogOK, OnList, Remount
  <1>3. CallsOK'
    BY ListenKeeps DEF IInv
  <1>4. QED
    BY <1>1, <1>2, <1>3 DEF IInv

\* Ranges and single checkmarks stay among the recordings.
LEMMA CheckKeeps ==
  ASSUME IInv, NEW f \in Folders, NEW shift \in BOOLEAN, Check(f, shift)
  PROVE  IInv'
  <1>1. Shown \subseteq Folders /\ checked \in SUBSET Folders
    BY ListedAre DEF IInv, PageOK
  <1>2. ToggleCheck(f) => checked' \in SUBSET Folders /\ anchor' \in Folders \union {NoFolder}
    BY <1>1 DEF ToggleCheck, SymDiff
  <1>3. checked' \in SUBSET Folders /\ anchor' \in Folders \union {NoFolder}
    BY <1>1, <1>2 DEF Check, CheckRange, IInv, PageOK
  <1>4. QED
    BY <1>3, OnListKeeps DEF Check, filter, IInv, PageOK

LEMMA SelectKeeps ==
  ASSUME IInv,
         \/ CheckAll
         \/ \E text \in Texts : SearchText(text)
         \/ \E t \in Tasks \union {AllTasks} : SelectTask(t)
  PROVE  IInv'
  <1>1. \A text, t : Filtered(Listed, text, t) \subseteq Folders
    BY ListedAre DEF IInv, Filtered
  <1>2. CASE CheckAll
    BY <1>1, <1>2, OnListKeeps
    DEF CheckAll, ToggleCheckAll, Shown, filter, IInv, PageOK
  <1>3. ASSUME NEW text \in Texts, SearchText(text) PROVE IInv'
    BY <1>1, <1>3, OnListKeeps
    DEF SearchText, SetCheckedFolders, filter, IInv, PageOK
  <1>4. ASSUME NEW t \in Tasks \union {AllTasks}, SelectTask(t) PROVE IInv'
    BY <1>1, <1>4, OnListKeeps
    DEF SelectTask, SetCheckedFolders, filter, IInv, PageOK
  <1>5. QED
    BY <1>2, <1>3, <1>4

LEMMA NavigateKeeps ==
  ASSUME IInv,
         \/ \E text \in Texts, t \in Tasks \union {AllTasks} : GoBack(text, t)
         \/ \E f \in Folders : OpenDetail(f)
         \/ BackToList
         \/ TurnPage
  PROVE  IInv'
  <1>1. CASE \E text \in Texts, t \in Tasks \union {AllTasks} : GoBack(text, t)
    <2>1. PageOK' /\ DialogOK'
      BY <1>1 DEF GoBack, IInv, PageOK, DialogOK, store, dialogs
    <2>2. CallsOK'
      BY <1>1, ListenKeeps DEF GoBack, IInv
    <2>3. QED
      BY <2>1, <2>2 DEF IInv
  <1>2. CASE \E f \in Folders : OpenDetail(f)
    <2>1. PageOK' /\ DialogOK'
      BY <1>2 DEF OpenDetail, IInv, PageOK, DialogOK, store, filter
    <2>2. CallsOK'
      BY <1>2, ListenKeeps DEF OpenDetail, IInv
    <2>3. QED
      BY <2>1, <2>2 DEF IInv
  <1>3. CASE BackToList \/ TurnPage
    <2>1. at # ListPage /\ at' \in Folders \union {ListPage}
      BY <1>3, TurnsTo DEF BackToList, TurnPage, IInv, PageOK
    <2>2. UNCHANGED <<filter, store, dialogs, calls, files, disk>>
      BY <1>3 DEF BackToList, TurnPage
    <2>3. PageOK' /\ DialogOK'
      BY <2>1, <2>2 DEF IInv, PageOK, DialogOK, store, filter, dialogs
    <2>4. \A c \in calls : ~c.heard
      BY <2>1 DEF IInv, CallsOK, Mounted
    <2>5. CallsOK'
      BY <2>2, <2>4 DEF IInv, CallsOK, CallOK, GoneOK
    <2>6. QED
      BY <2>3, <2>5 DEF IInv
  <1>4. QED
    BY <1>1, <1>2, <1>3

LEMMA SendingKeeps ==
  ASSUME IInv, (\E f \in Folders : DeleteRow(f)) \/ BulkDelete \/ BulkUpload \/ Export
  PROVE  IInv'
  <1>1. at = ListPage /\ UNCHANGED <<at, filter, store, dialogs, files, disk>>
    BY DEF DeleteRow, BulkDelete, BulkUpload, Export, OnList, OnScreen
  <1>2. PageOK' /\ DialogOK'
    BY <1>1 DEF IInv, PageOK, DialogOK, filter, store, dialogs
  <1>3. CallsOK'
    <2>1. ASSUME NEW f \in Folders, DeleteRow(f) PROVE CallsOK'
      <3> DEFINE was == f \in checked
      <3>0. was \in BOOLEAN
        OBVIOUS
      <3> HIDE DEF was
      <3>1. PICK c : c = Sent(DeleteRecordings({f}), "row", was)
        OBVIOUS
      <3>2. CallOK(c) /\ GoneOK(c) /\ c.by = "row" /\ c.req.folders = {f}
        BY <3>0, <3>1, NewRowCall
      <3>3. Mounted(c)
        BY <1>1, <2>1, <3>2 DEF Mounted, DeleteRow
      <3>4. calls' = calls \union {c}
        BY <2>1, <3>1 DEF DeleteRow, was
      <3>5. QED
        BY <1>1, <3>2, <3>3, <3>4, SendKeeps DEF IInv, filter, store
    <2>2. CASE BulkDelete \/ BulkUpload \/ Export
      <3>1. PICK by \in {"delete", "upload", "export"},
                 req \in {DeleteRecordings(checked), StartBulkUpload(checked),
                          StartLeRobotExport(checked)}, was \in BOOLEAN :
              calls' = calls \union {Sent(req, by, was)} /\ checked # {}
        BY <2>2 DEF BulkDelete, BulkUpload, Export, OnScreen
      <3>2. PICK c : c = Sent(req, by, was)
        OBVIOUS
      <3>3. CallOK(c) /\ GoneOK(c) /\ c.by = by
        <4>1. PICK S \in SUBSET Folders : S = checked
          BY DEF IInv, PageOK
        <4>2. S # {} /\ req \in {DeleteRecordings(S), StartBulkUpload(S), StartLeRobotExport(S)}
          BY <3>1, <4>1
        <4>3. QED
          BY <3>1, <3>2, <4>1, <4>2, NewCall
      <3>4. Mounted(c)
        BY <1>1, <3>1, <3>3 DEF Mounted
      <3>5. QED
        BY <1>1, <3>1, <3>2, <3>3, <3>4, SendKeeps DEF IInv, filter, store
    <2>3. QED
      BY <2>1, <2>2
  <1>4. QED
    BY <1>2, <1>3 DEF IInv

LEMMA DialogKeeps ==
  ASSUME IInv, OpenExport \/ CloseExport \/ JobEnds
  PROVE  IInv'
  <1>1. CASE OpenExport
    <2>1. PageOK' /\ DialogOK'
      BY <1>1 DEF OpenExport, IInv, PageOK, DialogOK, filter, store
    <2>2. CallsOK'
      BY <1>1, CallsStay DEF OpenExport, IInv, filter, store
    <2>3. QED
      BY <2>1, <2>2 DEF IInv
  <1>2. CASE CloseExport
    <2>1. checked' \in SUBSET Folders /\ anchor' \in Folders \union {NoFolder}
      BY <1>2 DEF CloseExport, ClearChecked, SetCheckedFolders, store, IInv, PageOK
    <2>2. PageOK' /\ DialogOK'
      BY <1>2, <2>1 DEF CloseExport, Remount, IInv, PageOK, DialogOK, filter
    <2>3. CallsOK'
      BY <1>2, ListenKeeps DEF CloseExport, IInv
    <2>4. QED
      BY <2>2, <2>3 DEF IInv
  <1>3. CASE JobEnds
    <2>1. PageOK' /\ DialogOK'
      BY <1>3 DEF JobEnds, IInv, PageOK, DialogOK, filter, store
    <2>2. CallsOK'
      BY <1>3, CallsStay DEF JobEnds, IInv, filter, store
    <2>3. QED
      BY <2>1, <2>2 DEF IInv
  <1>4. QED
    BY <1>1, <1>2, <1>3

LEMMA ReceiveKeeps ==
  ASSUME IInv, NEW c \in calls, Receive(c)
  PROVE  IInv'
  <1>1. CallOK(c) /\ PageOK /\ DialogOK
    BY DEF IInv, CallsOK
  <1>2. checked' \in SUBSET Folders /\ anchor' \in Folders \union {NoFolder}
        /\ open' = open
    <2>1. CASE UNCHANGED <<store, open>>
      BY <1>1, <2>1 DEF store, PageOK
    <2>2. CASE ClearChecked /\ UNCHANGED open
      BY <2>2 DEF ClearChecked, SetCheckedFolders
    <2>3. ASSUME c.by = "row", ToggleCheck(Max(c.req.folders)), UNCHANGED open
          PROVE  /\ checked' \in SUBSET Folders /\ anchor' \in Folders \union {NoFolder}
                 /\ open' = open
      <3>1. PICK f \in Folders : c.req.folders = {f}
        BY <1>1, <2>3 DEF CallOK
      <3>2. Max(c.req.folders) = f
        BY <3>1, MaxOne, FoldersAssumption
      <3>3. QED
        BY <1>1, <2>3, <3>2 DEF ToggleCheck, SymDiff, PageOK
    <2>4. QED
      BY <2>1, <2>2, <2>3
      DEF Receive, Answer, RowAnswered, BulkAnswered, ExportAnswered
  <1>3. files' \in Query(Entries)
    BY <1>1, QuerySteps DEF Receive, PageOK
  <1>4. PageOK'
    BY <1>1, <1>2, <1>3 DEF Receive, PageOK, filter
  <1>5. DialogOK'
    BY <1>1, <1>2 DEF Receive, DialogOK
  <1>6. CallsOK'
    BY ListenKeeps DEF Receive, IInv
  <1>7. QED
    BY <1>4, <1>5, <1>6 DEF IInv

LEMMA ListKeeps ==
  ASSUME IInv, ServeFiles \/ ReceiveFiles \/ LoseFiles \/ RefreshList
  PROVE  IInv'
  <1>1. files \in Query(Entries) /\ disk \in Entries
    BY DEF IInv, PageOK
  <1>2. UNCHANGED <<filter, store, dialogs, disk>>
    BY DEF ServeFiles, ReceiveFiles, LoseFiles, RefreshList
  <1>3. DialogOK'
    BY <1>2 DEF IInv, DialogOK, store, dialogs
  <1>4. CASE ServeFiles \/ LoseFiles \/ RefreshList
    <2>1. UNCHANGED <<at, calls>>
      BY <1>4 DEF ServeFiles, LoseFiles, RefreshList
    <2>2. files' \in Query(Entries) /\ files'.data = files.data
      BY <1>1, <1>4, QuerySteps, StartsEmpty DEF ServeFiles, LoseFiles, RefreshList
    <2>3. PageOK'
      BY <1>2, <2>1, <2>2 DEF IInv, PageOK, filter, store
    <2>4. CallsOK'
      BY <1>2, <2>1, <2>2, CallsStay DEF IInv, filter, store
    <2>5. QED
      BY <1>3, <2>3, <2>4 DEF IInv
  <1>5. CASE ReceiveFiles
    <2>1. files' \in Query(Entries) /\ at' \in Folders \union {ListPage}
      BY <1>1, <1>5, QuerySteps DEF ReceiveFiles, IInv, PageOK
    <2>2. PageOK'
      BY <1>2, <2>1 DEF IInv, PageOK, filter, store
    <2>3. CallsOK'
      BY <1>2, <1>5, ListenKeeps DEF ReceiveFiles, IInv
    <2>4. QED
      BY <1>3, <2>2, <2>3 DEF IInv
  <1>6. QED
    BY <1>4, <1>5

LEMMA ScrollKeeps ==
  ASSUME IInv, NEW f \in Folders, Scroll(f)
  PROVE  IInv'
  <1>1. UNCHANGED <<at, filter, store, dialogs, files, disk>>
    BY DEF Scroll
  <1>2. PageOK' /\ DialogOK'
    BY <1>1 DEF IInv, PageOK, DialogOK, filter, store, dialogs
  <1>3. \A d \in calls' : CallOK(d) /\ GoneOK(d) /\ (d.heard => Mounted(d))
    <2> SUFFICES ASSUME NEW c \in calls
                 PROVE  LET d == IF c.by = "row" /\ c.req.folders = {f} THEN Unheard(c) ELSE c
                        IN  CallOK(d) /\ GoneOK(d) /\ (d.heard => Mounted(d))
      BY DEF Scroll
    <2>1. CallOK(c) /\ GoneOK(c) /\ (c.heard => Mounted(c))
      BY DEF IInv, CallsOK
    <2>2. QED
      BY <2>1, CallSteps DEF GoneOK
  <1>4. \A d \in calls' : CallOK(d) /\ GoneOK(d)' /\ (d.heard => Mounted(d)')
    BY <1>1, <1>3, StillMounted DEF GoneOK, filter, store
  <1>5. QED
    BY <1>2, <1>4 DEF IInv, CallsOK, CallOK

\* The server deletes, and names tasks; it never brings a recording back.
LEMMA ServeKeeps ==
  ASSUME IInv, NEW c \in calls, Serve(c) \/ Lose(c)
  PROVE  IInv'
  <1>1. UNCHANGED <<at, filter, store, dialogs, files>>
    BY DEF Serve, Lose
  <1>2. disk \in [DOMAIN disk -> Tasks] /\ DOMAIN disk \subseteq Folders /\ CallOK(c)
    BY EntriesAre DEF IInv, PageOK, CallsOK
  <1>3. DialogOK'
    BY <1>1 DEF IInv, DialogOK, store, dialogs
  <1>4. ASSUME disk' \in Entries, DOMAIN disk' \subseteq DOMAIN disk,
               NEW answer, Reply(c, answer), CallOK(answer), GoneOK(answer)',
               answer.req = c.req, answer.by = c.by, answer.heard = c.heard
        PROVE  IInv'
    <2>1. PageOK'
      BY <1>1, <1>4 DEF IInv, PageOK, filter, store
    <2>2. CallsOK'
      BY <1>1, <1>4, ReplyKeeps DEF IInv, filter, store
    <2>3. QED
      BY <1>3, <2>1, <2>2 DEF IInv
  <1>5. PICK t, s : t = Threw(c) /\ s = Succeeded(c, NoData)
    OBVIOUS
  <1>6. /\ CallOK(t) /\ t.req = c.req /\ t.by = c.by /\ t.heard = c.heard
        /\ CallOK(s) /\ s.req = c.req /\ s.by = c.by /\ s.heard = c.heard
        /\ t.at = "failed"
    BY <1>2, <1>5, CallSteps
  <1>7. GoneOK(t)'
    BY <1>6 DEF GoneOK
  <1>8. ASSUME NEW gone \in SUBSET Folders, disk' = [f \in DOMAIN disk \ gone |-> disk[f]]
        PROVE  disk' \in Entries /\ DOMAIN disk' = DOMAIN disk \ gone
    <2>1. disk' \in [DOMAIN disk \ gone -> Tasks]
      BY <1>2, <1>8
    <2>2. QED
      BY <1>2, <2>1, EntriesAre
  <1>9. CASE Lose(c)
    BY <1>4, <1>5, <1>6, <1>7, <1>9 DEF Lose, IInv, PageOK
  <1>10. CASE ServeDelete(c)
    <2>1. c.req.folders \in SUBSET Folders
      BY <1>2 DEF CallOK, Calls, Requests
    <2>2. CASE /\ disk' = [f \in DOMAIN disk \ c.req.folders |-> disk[f]]
               /\ Reply(c, s)
      <3>1. disk' \in Entries /\ DOMAIN disk' = DOMAIN disk \ c.req.folders
        BY <1>8, <2>1, <2>2
      <3>2. GoneOK(s)'
        BY <1>6, <3>1 DEF GoneOK
      <3>3. QED
        BY <1>4, <1>6, <2>2, <3>1, <3>2
    <2>3. ASSUME NEW gone \in SUBSET (c.req.folders \intersect DOMAIN disk),
                 disk' = [f \in DOMAIN disk \ gone |-> disk[f]], Reply(c, t)
          PROVE  IInv'
      <3>1. disk' \in Entries /\ DOMAIN disk' = DOMAIN disk \ gone
        BY <1>2, <1>8, <2>3
      <3>2. QED
        BY <1>4, <1>6, <1>7, <2>3, <3>1
    <2>4. QED
      BY <1>5, <1>10, <2>2, <2>3 DEF ServeDelete
  <1>11. CASE ServeUpload(c) \/ ServeExport(c)
    <2>1. disk' = disk /\ (Reply(c, s) \/ Reply(c, t)) /\ c.req.op # "deleteRecordings"
      BY <1>5, <1>11 DEF ServeUpload, ServeExport
    <2>2. GoneOK(s)'
      BY <1>6, <2>1 DEF GoneOK
    <2>3. QED
      BY <1>4, <1>6, <1>7, <2>1, <2>2 DEF IInv, PageOK
  <1>12. QED
    BY <1>9, <1>10, <1>11 DEF Serve

LEMMA NameTaskKeeps ==
  ASSUME IInv, NEW f \in Folders, NEW t \in Tasks \ {NoTask}, NameTask(f, t)
  PROVE  IInv'
  <1>1. UNCHANGED <<at, filter, store, dialogs, calls, files>>
    BY DEF NameTask
  <1>2. disk' \in Entries /\ DOMAIN disk' = DOMAIN disk
    <2>1. disk \in [DOMAIN disk -> Tasks] /\ DOMAIN disk \subseteq Folders
      BY EntriesAre DEF IInv, PageOK
    <2>2. disk' \in [DOMAIN disk -> Tasks]
      BY <2>1 DEF NameTask
    <2>3. QED
      BY <2>1, <2>2, EntriesAre
  <1>3. PageOK' /\ DialogOK'
    BY <1>1, <1>2 DEF IInv, PageOK, DialogOK, filter, store, dialogs
  <1>4. CallsOK'
    BY <1>1, <1>2, CallsStay DEF IInv, filter, store
  <1>5. QED
    BY <1>3, <1>4 DEF IInv

LEMMA StepKeeps == IInv /\ [Next]_vars => IInv'
  <1> SUFFICES ASSUME IInv, [Next]_vars PROVE IInv'
    OBVIOUS
  <1>1. CASE Operator
    BY <1>1, CheckKeeps, SelectKeeps, NavigateKeeps, SendingKeeps, DialogKeeps, ScrollKeeps
    DEF Operator
  <1>2. ASSUME NEW c \in calls, Serve(c) \/ Receive(c) \/ Lose(c) PROVE IInv'
    BY <1>2, ServeKeeps, ReceiveKeeps
  <1>3. CASE ServeFiles \/ ReceiveFiles \/ LoseFiles \/ RefreshList
    BY <1>3, ListKeeps
  <1>4. CASE JobEnds
    BY <1>4, DialogKeeps
  <1>5. ASSUME NEW f \in Folders, NEW t \in Tasks \ {NoTask}, NameTask(f, t) PROVE IInv'
    BY <1>5, NameTaskKeeps
  <1>6. CASE UNCHANGED vars
    <2>1. PageOK' /\ DialogOK'
      BY <1>6 DEF vars, IInv, PageOK, DialogOK, filter, store, dialogs
    <2>2. CallsOK'
      BY <1>6, CallsStay DEF vars, IInv, filter, store
    <2>3. QED
      BY <2>1, <2>2 DEF IInv
  <1>7. QED
    BY <1>1, <1>2, <1>3, <1>4, <1>5, <1>6 DEF Next

\* The inductive invariant holds in every behaviour.
THEOREM InvHolds == Spec => []IInv
  BY InitInv, StepKeeps, PTL DEF Spec

-----------------------------------------------------------------------------
(* The theorems *)

\* The type invariant of the module.
LEMMA IsTyped == IInv => TypeOK
  <1> SUFFICES ASSUME IInv PROVE TypeOK
    OBVIOUS
  <1>1. \A c \in calls : /\ c.by \in {"row", "delete", "upload", "export"}
                        /\ c.req.folders \subseteq Folders /\ c.req.folders # {}
                        /\ c.at \in {"sent", "ok", "failed"}
                        /\ c.heard \in BOOLEAN /\ c.was \in BOOLEAN
    BY DEF IInv, CallsOK, CallOK, Calls, Requests
  <1>2. QED
    BY <1>1 DEF IInv, PageOK, DialogOK, TypeOK

\* The export dialog is not left open without a selection, but by the answer to
\* another request.
THEOREM NoUninvitedDialogHolds == Spec => []NoUninvitedDialog
  <1>1. IInv => NoUninvitedDialog
    BY IsTyped DEF IInv, DialogOK, NoUninvitedDialog
  <1>2. QED
    BY <1>1, InvHolds, PTL

\* A step of the pager and one back lead to where it was, and a step never leads
\* out of the filtered list.
THEOREM PagerReturnsHolds == Spec => []PagerReturns
  <1>1. IInv => PagerReturns
    BY PagerWalks DEF IInv
  <1>2. QED
    BY <1>1, InvHolds, PTL

\* The answer to the deletion of a row toggles the row, and the row is on the
\* screen: else nobody had heard the answer.
LEMMA TogglesWhatIsShown ==
  ASSUME IInv, NEW c \in calls, Receive(c)
  PROVE  \/ checked' = checked
         \/ checked' = {}
         \/ /\ c.at = "ok" /\ c.req.op = "deleteRecordings"
            /\ \E f \in Shown : c.req.folders = {f} /\ checked' = SymDiff(checked, {f})
  <1>1. CallOK(c) /\ (c.heard => Mounted(c))
    BY DEF IInv, CallsOK
  <1>2. ASSUME c.heard, c.by = "row", c.at = "ok", ToggleCheck(Max(c.req.folders))
        PROVE  /\ c.at = "ok" /\ c.req.op = "deleteRecordings"
               /\ \E f \in Shown : c.req.folders = {f} /\ checked' = SymDiff(checked, {f})
    <2>1. PICK f \in Folders : c.req.folders = {f}
      BY <1>1, <1>2 DEF CallOK
    <2>2. Max(c.req.folders) = f
      BY <2>1, MaxOne, FoldersAssumption
    <2>3. f \in Shown
      BY <1>1, <1>2, <2>1 DEF Mounted
    <2>4. QED
      BY <1>1, <1>2, <2>1, <2>2, <2>3 DEF ToggleCheck, CallOK
  <1>3. QED
    BY <1>2 DEF Receive, Answer, RowAnswered, BulkAnswered, ExportAnswered, ClearChecked,
                SetCheckedFolders, store

\* No click and no answer checks a recording that is not on the screen.
THEOREM HiddenOnlyByNewsHolds == Spec => HiddenOnlyByNews
  <1> DEFINE Kept == checked' \ Shown' \subseteq checked \ Shown
             News == checked' = checked /\ (Listed' # Listed \/ filter' # filter)
  <1>1. ASSUME IInv, [Next]_vars, ~UNCHANGED vars PROVE Kept \/ News
    <2>1. ASSUME UNCHANGED <<checked, filter>> PROVE Kept \/ News
      BY <2>1 DEF Shown, filter
    <2>2. ASSUME UNCHANGED <<filter, files>>, checked' \ Shown \subseteq checked PROVE Kept
      BY <2>2 DEF Shown, Listed, filter
    <2>3. ASSUME NEW f \in Folders, NEW shift \in BOOLEAN, Check(f, shift) PROVE Kept
      <3>1. checked' \ Shown \subseteq checked
        BY <2>3 DEF Check, CheckRange, ToggleCheck, SymDiff
      <3>2. QED
        BY <2>2, <2>3, <3>1 DEF Check
    <2>4. CASE CheckAll
      <3>1. checked' \ Shown \subseteq checked
        BY <2>4 DEF CheckAll, ToggleCheckAll
      <3>2. QED
        BY <2>2, <2>4, <3>1 DEF CheckAll
    <2>5. ASSUME NEW text \in Texts, SearchText(text) PROVE Kept
      BY <2>5 DEF SearchText, SetCheckedFolders, Shown, Listed
    <2>6. ASSUME NEW t \in Tasks \union {AllTasks}, SelectTask(t) PROVE Kept
      BY <2>6 DEF SelectTask, SetCheckedFolders, Shown, Listed
    <2>7. CASE \E text \in Texts, t \in Tasks \union {AllTasks} : GoBack(text, t)
      BY <2>7 DEF GoBack, filter, store
    <2>8. CASE CloseExport
      BY <2>1, <2>8 DEF CloseExport, ClearChecked, SetCheckedFolders, store
    <2>9. ASSUME NEW c \in calls, Receive(c) PROVE Kept \/ News
      <3>1. Listed' = Listed /\ UNCHANGED filter
        BY <1>1, <2>9, QuerySteps DEF Receive, Listed, IInv, PageOK
      <3>2. Shown' = Shown
        BY <3>1 DEF Shown, filter
      <3>3. QED
        BY <1>1, <2>1, <2>9, <3>1, <3>2, TogglesWhatIsShown DEF SymDiff
    <2>10. ASSUME UNCHANGED <<store, filter>> PROVE Kept \/ News
      BY <2>1, <2>10 DEF store
    <2>11. QED
      BY <1>1, <2>3, <2>4, <2>5, <2>6, <2>7, <2>8, <2>9, <2>10
      DEF Next, Operator, DeleteRow, Scroll, OpenDetail, BulkDelete, BulkUpload, OpenExport,
          Export, BackToList, TurnPage, Serve, Lose, ServeFiles, ReceiveFiles, LoseFiles,
          RefreshList, JobEnds, NameTask
  <1>2. IInv /\ [Next]_vars => [Kept \/ News]_vars
    BY <1>1
  <1>3. QED
    BY <1>2, InvHolds, PTL DEF Spec, HiddenOnlyByNews

\* What an answer may check is gone from the disk.
THEOREM AnswersNeverSelectHolds == Spec => AnswersNeverSelect
  <1> DEFINE Harmless ==
        \A c \in calls : Receive(c) => (checked' \ checked) \intersect DOMAIN disk = {}
  <1>1. ASSUME IInv PROVE Harmless
    <2> SUFFICES ASSUME NEW c \in calls, Receive(c)
                 PROVE  (checked' \ checked) \intersect DOMAIN disk = {}
      OBVIOUS
    <2>1. GoneOK(c)
      BY <1>1 DEF IInv, CallsOK
    <2>2. QED
      BY <1>1, <2>1, TogglesWhatIsShown DEF GoneOK, SymDiff
  <1>2. IInv => [Harmless]_vars
    BY <1>1
  <1>3. QED
    BY <1>2, InvHolds, PTL DEF Spec, AnswersNeverSelect

=============================================================================
