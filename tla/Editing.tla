------------------------------ MODULE Editing ------------------------------
(***************************************************************************)
(* Editing tags on the recordings page: the dialog for several recordings  *)
(* with its tri-state rows, and the dialog of one row, while the list is   *)
(* fetched again under them and others write.                              *)
(*                                                                         *)
(* The bulk dialog derives its rows from the list and keeps the operator's *)
(* clicks apart from them; it sends what is to be added and removed. The   *)
(* row's dialog copies the tags of its recording and sends them all. Task  *)
(* name and metadata take the same ways and are left out. The handlers of  *)
(* the server run in a pool of threads and read before they write.         *)
(***************************************************************************)
EXTENDS Integers, FiniteSetsExt, Client

CONSTANTS
  Folders,   \* recordings
  NoFolder,
  Tags,
  NoTag,     \* an empty draft
  MaxCalls,  \* bound: requests on their way when the operator saves
  MaxNews    \* bound: changes made by others

ASSUME FoldersAssumption == IsFiniteSet(Folders)
ASSUME NoTagAssumption == NoTag \notin Tags /\ NoFolder \notin Folders
ASSUME BoundsAssumption == MaxCalls \in Nat /\ MaxNews \in Nat

Checks == {"checked", "mixed", "unchecked"}
Unset == "unset"  \* no entry in tagChecks
Lost == "lost"    \* a choice whose row the list took away

VARIABLES
  checked,            \* the selection, `folders` of the bulk dialog
  open,               \* `open` of the bulk dialog
  tagChecks, newTags, tagDraft,   \* its session, with whether `changes` has
  changed,                        \* a value for some metadata field
  choice,             \* history: what the operator last chose for a tag in it
  row,                \* the recording whose dialog is open
  tags, rowDraft,     \* its session
  dropped,            \* history: tags the operator removed in it
  calls,              \* requests on their way
  list,               \* the list on the screen: the tags of its recordings
  meta,               \* the server: recording_meta.json, its tags
  news                \* history: changes made by others

session == <<tagChecks, newTags, tagDraft, changed, choice>>
bulk == <<checked, open, session>>
single == <<row, tags, rowDraft, dropped>>
vars == <<bulk, single, calls, list, meta, news>>

NewSession ==
  /\ tagChecks' = [t \in Tags |-> Unset] /\ newTags' = {} /\ tagDraft' = NoTag
  /\ changed' = FALSE
  /\ choice' = [t \in Tags |-> Unset]

Init ==
  /\ checked = {} /\ open = FALSE
  /\ tagChecks = [t \in Tags |-> Unset] /\ newTags = {} /\ tagDraft = NoTag
  /\ changed = FALSE /\ choice = [t \in Tags |-> Unset]
  /\ row = NoFolder /\ tags = {} /\ rowDraft = NoTag /\ dropped = {}
  /\ calls = {} /\ list = << >>
  /\ meta \in [Folders -> SUBSET Tags] /\ news = 0

InFlight(op) == {c \in calls : c.req.op = op}
BulkPending == \E c \in InFlight("bulkUpdateRecordingMeta") : c.heard
RowPending(f) == \E c \in InFlight("updateRecordingMeta") : c.heard /\ c.req.folders = {f}

Room == Cardinality(calls) < MaxCalls

Deaf(cs) == {c \in calls : c \notin cs} \union {Unheard(c) : c \in cs}

Chosen(t, check) == choice' = [choice EXCEPT ![t] = IF @ = Lost THEN Lost ELSE check]

\* The bulk dialog is mounted and open; nothing else can be reached under it.
BulkShown == open /\ checked # {}
ListReached == ~BulkShown /\ row = NoFolder

-----------------------------------------------------------------------------
(* The rows of the bulk dialog, and what they ask for *)

Count(t) == Cardinality({f \in DOMAIN list \intersect checked : t \in list[f]})

\* Faulty variant: on all the recordings that the list has.
PresenceOfListed(t) ==
  IF Count(t) = 0 THEN "none"
  ELSE IF Count(t) = Cardinality(DOMAIN list \intersect checked) THEN "all" ELSE "some"

\* buildTagRows, and newTagRow for the tags that were typed.
Presence(t) ==
  IF Count(t) = 0 THEN "none" ELSE IF Count(t) = Cardinality(checked) THEN "all" ELSE "some"

StartCheck(presence) == IF presence = "some" THEN "mixed" ELSE "checked"

Made(t, presence) ==
  [tag |-> t, presence |-> presence,
   check |-> IF tagChecks[t] = Unset THEN StartCheck(presence) ELSE tagChecks[t]]

\* tagRows: a tag that was typed and has since come to a recording has two rows.
TagRows ==
  {Made(t, Presence(t)) : t \in {u \in Tags : Count(u) > 0}}
    \union {Made(t, "none") : t \in newTags}
RowTags == {r.tag : r \in TagRows}

\* tagRows.find: the row from the list comes first.
RowOf(t) == Made(t, Presence(t))

WithTagChecked(rows, t) ==
  IF t \in {r.tag : r \in rows}
  THEN {IF r.tag = t THEN [r EXCEPT !.check = "checked"] ELSE r : r \in rows}
  ELSE rows \union {[tag |-> t, presence |-> "none", check |-> "checked"]}

CycleTagCheck(r) ==
  CASE r.check = "checked" -> "unchecked"
    [] r.check = "mixed" -> "checked"
    [] r.check = "unchecked" -> IF r.presence = "some" THEN "mixed" ELSE "checked"

\* tagDelta and tagRequest
Added(rows) == {r.tag : r \in {q \in rows : q.check = "checked" /\ q.presence # "all"}}
Removed(rows) == {r.tag : r \in {q \in rows : q.check = "unchecked" /\ q.presence # "none"}}

\* What Save would send: a tag still being typed counts as added.
RowsToSave == IF tagDraft = NoTag THEN TagRows ELSE WithTagChecked(TagRows, tagDraft)
ToAdd == Added(RowsToSave)
ToRemove == Removed(RowsToSave)

-----------------------------------------------------------------------------
(* The bulk dialog *)

\* Whatever the operator does with the checkboxes of the list. A dialog whose
\* `open` is left shows again with a new session.
Select(folders) ==
  /\ ListReached /\ folders \subseteq DOMAIN list
  /\ checked' = folders
  /\ UNCHANGED <<open, session, single, calls, list, meta, news>>

\* The effect on `open` starts a session.
OpenBulk ==
  /\ ListReached /\ checked # {}
  /\ open' = TRUE /\ NewSession
  /\ UNCHANGED <<checked, single, calls, list, meta, news>>

Toggle(t) ==
  /\ BulkShown /\ t \in RowTags
  /\ tagChecks' = [tagChecks EXCEPT ![t] = CycleTagCheck(RowOf(t))]
  /\ Chosen(t, CycleTagCheck(RowOf(t)))
  /\ UNCHANGED <<checked, open, newTags, tagDraft, changed, single, calls, list, meta, news>>

Type(t) ==
  /\ BulkShown
  /\ tagDraft' = t
  /\ UNCHANGED <<checked, open, tagChecks, newTags, changed, choice, single, calls, list, meta, news>>

\* commitDraft, on Enter, Tab, comma and when the input loses the focus.
CommitDraft ==
  /\ BulkShown /\ tagDraft # NoTag
  /\ IF tagDraft \in RowTags
     THEN tagChecks' = [tagChecks EXCEPT ![tagDraft] = "checked"] /\ UNCHANGED newTags
     ELSE newTags' = newTags \union {tagDraft} /\ UNCHANGED tagChecks
  /\ Chosen(tagDraft, "checked")
  /\ tagDraft' = NoTag
  /\ UNCHANGED <<checked, open, changed, single, calls, list, meta, news>>

\* A select field is given a value, or "Unchanged" again.
SetField ==
  /\ BulkShown
  /\ changed' = ~changed
  /\ UNCHANGED <<checked, open, tagChecks, newTags, tagDraft, choice, single, calls, list,
                 meta, news>>

\* What the rows of a tag show when Save is pressed. One that is on no recording
\* and unchecked again says nothing.
Shown(t) ==
  LET rows == {r \in RowsToSave : r.tag = t}
  IN  IF \E r \in rows : r.check = "checked" THEN "checked"
      ELSE IF \E r \in rows : r.check = "unchecked" /\ r.presence # "none" THEN "unchecked"
      ELSE Unset

\* The tags that were shown, on every selected recording: a mixed row says that
\* nothing changes. It is known if the list is true to what it has.
Goal ==
  IF \E f \in checked \intersect DOMAIN list : list[f] # meta[f] THEN NoData
  ELSE [f \in checked |-> {t \in Tags : CASE Shown(t) = "checked" -> TRUE
                                          [] Shown(t) = "unchecked" -> FALSE
                                          [] OTHER -> t \in meta[f]}]

\* With the request: the recordings the handler has left, the one it has read;
\* and as history the goal, until somebody else writes.
BulkCall(req, goal) ==
  LET call == Call(req)
  IN  [req |-> req, at |-> call.at, result |-> call.result, heard |-> call.heard,
       todo |-> req.folders, reading |-> NoFolder, read |-> {}, goal |-> goal]

SaveBulk ==
  /\ BulkShown /\ Room /\ ~BulkPending
  /\ ToAdd \union ToRemove # {} \/ changed
  /\ calls' = calls \union {BulkCall(BulkUpdateRecordingMeta(checked, ToAdd, ToRemove), Goal)}
  /\ UNCHANGED <<bulk, single, list, meta, news>>

\* Cancel, and Escape and the overlay even while the request is on its way. A
\* closed session is not seen again.
CloseBulk ==
  /\ BulkShown
  /\ open' = FALSE /\ NewSession
  /\ UNCHANGED <<checked, single, calls, list, meta, news>>

\* The answer to a deletion or an upload clears the selection under the dialog:
\* it unmounts with its session, and nobody hears its request.
LateClear ==
  /\ checked # {}
  /\ checked' = {} /\ NewSession
  /\ calls' = Deaf(InFlight("bulkUpdateRecordingMeta"))
  /\ UNCHANGED <<open, single, list, meta, news>>

-----------------------------------------------------------------------------
(* The dialog of one row *)

\* The effect that copies the entry.
CopyEntry(entry) == tags' = entry /\ rowDraft' = NoTag /\ dropped' = {}
CloseEntry == row' = NoFolder /\ CopyEntry({})

OpenRow(f) ==
  /\ ListReached /\ f \in DOMAIN list
  /\ row' = f /\ CopyEntry(list[f])
  /\ UNCHANGED <<bulk, calls, list, meta, news>>

TypeInRow(t) ==
  /\ row # NoFolder /\ ~BulkShown
  /\ rowDraft' = t
  /\ UNCHANGED <<bulk, row, tags, dropped, calls, list, meta, news>>

CommitRowDraft ==
  /\ row # NoFolder /\ ~BulkShown /\ rowDraft # NoTag
  /\ tags' = tags \union {rowDraft} /\ rowDraft' = NoTag
  /\ UNCHANGED <<bulk, row, dropped, calls, list, meta, news>>

\* The cross of a tag, and Backspace.
RemoveTag(t) ==
  /\ row # NoFolder /\ ~BulkShown /\ t \in tags
  /\ tags' = tags \ {t} /\ dropped' = dropped \union {t}
  /\ UNCHANGED <<bulk, row, rowDraft, calls, list, meta, news>>

\* With the request, as history: the tags on the screen when it was sent, but
\* for those the operator had removed.
RowCall(req) ==
  LET call == Call(req)
  IN  [req |-> req, at |-> call.at, result |-> call.result, heard |-> call.heard,
       due |-> list[row] \ dropped]

SaveRow ==
  /\ row # NoFolder /\ ~BulkShown /\ Room /\ ~RowPending(row)
  /\ calls' = calls \union
       {RowCall(UpdateRecordingMeta(row, tags \union ({rowDraft} \ {NoTag})))}
  /\ UNCHANGED <<bulk, single, list, meta, news>>

CloseRow ==
  /\ row # NoFolder /\ ~BulkShown
  /\ CloseEntry
  /\ UNCHANGED <<bulk, calls, list, meta, news>>

-----------------------------------------------------------------------------
(* The answers *)

\* An answer that is heard closes the dialog it finds, be it another session
\* than the one that asked, and onSaved clears the selection it finds.
ReceiveBulk(c) ==
  /\ c.req.op = "bulkUpdateRecordingMeta" /\ c.at # "sent"
  /\ calls' = calls \ {c}
  /\ IF c.heard /\ c.at = "ok"
     THEN open' = FALSE /\ checked' = {} /\ NewSession
     ELSE UNCHANGED bulk
  /\ UNCHANGED <<single, list, meta, news>>

ReceiveRow(c) ==
  /\ c.req.op = "updateRecordingMeta" /\ c.at # "sent"
  /\ calls' = calls \ {c}
  /\ IF c.heard /\ c.at = "ok" /\ row \in c.req.folders THEN CloseEntry ELSE UNCHANGED single
  /\ UNCHANGED <<bulk, list, meta, news>>

-----------------------------------------------------------------------------
(* The list *)

\* A row that is gone unmounts with its dialog.
Rowless(new) == {c \in InFlight("updateRecordingMeta") : ~(c.req.folders \subseteq DOMAIN new)}

\* Faulty variant: the dialog copies its entry only when it is opened.
RowKeeps(new) ==
  IF row # NoFolder /\ row \notin DOMAIN new THEN CloseEntry ELSE UNCHANGED single

\* The effect of the row's dialog, when the entry has changed.
RowFollows(new) ==
  IF row = NoFolder THEN UNCHANGED single
  ELSE IF row \notin DOMAIN new THEN CloseEntry
  ELSE IF new[row] = list[row] THEN UNCHANGED single
  ELSE CopyEntry(new[row]) /\ UNCHANGED row

\* Faulty variant: new rows begin without the clicks.
RowsFollow == tagChecks' = [t \in Tags |-> Unset] /\ UNCHANGED <<newTags, tagDraft>>

\* The edits of the bulk dialog are kept apart from the rows.
RowsKeep == UNCHANGED <<tagChecks, newTags, tagDraft>>

\* A GET and its answer, at any time: every success and every job that ends
\* invalidates the list, and what a slow answer shows a fast one shows earlier.
\* A recording without an .mcap file, or one that cannot be read, is left out.
ReceiveList(readable) ==
  LET new == [f \in readable |-> meta[f]]
  IN  /\ list' = new
      /\ UNCHANGED <<checked, open, changed, meta, news>>
      /\ RowFollows(new) /\ RowsKeep
      /\ choice' = [t \in Tags |-> IF choice[t] # Unset /\ t \in RowTags \ RowTags' THEN Lost
                                    ELSE choice[t]]
      /\ calls' = Deaf(Rowless(new))

-----------------------------------------------------------------------------
(* The server *)

\* What others write to a recording is not the goal of the bulk requests.
Disturbed(cs, f) ==
  {IF c.req.op = "bulkUpdateRecordingMeta" /\ f \in c.req.folders
   THEN [c EXCEPT !.goal = NoData] ELSE c : c \in cs}

\* merge_recording_meta, up to its write.
BulkRead(c, f) ==
  /\ c.req.op = "bulkUpdateRecordingMeta" /\ c.at = "sent"
  /\ c.reading = NoFolder /\ f \in c.todo
  /\ calls' = (calls \ {c}) \union {[c EXCEPT !.reading = f, !.read = meta[f]]}
  /\ UNCHANGED <<bulk, single, list, meta, news>>

BulkWrite(c) ==
  /\ c.req.op = "bulkUpdateRecordingMeta" /\ c.at = "sent" /\ c.reading # NoFolder
  /\ meta' = [meta EXCEPT ![c.reading] = (c.read \ c.req.remove) \union c.req.add]
  /\ calls' = Disturbed(calls \ {c}, c.reading) \union
       {[c EXCEPT !.todo = @ \ {c.reading}, !.reading = NoFolder, !.read = {},
                  !.at = IF c.todo = {c.reading} THEN "ok" ELSE "sent"]}
  /\ UNCHANGED <<bulk, single, list, news>>

\* update_recording_meta sets the list it was sent.
ServeRow(c) ==
  /\ c.req.op = "updateRecordingMeta" /\ c.at = "sent"
  /\ \E f \in c.req.folders :
       /\ meta' = [meta EXCEPT ![f] = c.req.tags]
       /\ calls' = Disturbed(calls \ {c}, f) \union {Succeeded(c, NoData)}
  /\ UNCHANGED <<bulk, single, list, news>>

\* A recording is gone, a write fails, or the network does.
Lose(c) ==
  /\ c.at # "failed"
  /\ calls' = (calls \ {c}) \union (IF c.heard THEN {Threw(c)} ELSE {})
  /\ UNCHANGED <<bulk, single, list, meta, news>>

WriteElsewhere(f, t) ==
  /\ news < MaxNews
  /\ news' = news + 1
  /\ meta' = [meta EXCEPT ![f] = SymDiff(@, {t})]
  /\ calls' = Disturbed(calls, f)
  /\ UNCHANGED <<bulk, single, list>>

-----------------------------------------------------------------------------

Next ==
  \/ \E S \in SUBSET Folders : Select(S) \/ ReceiveList(S)
  \/ OpenBulk \/ CommitDraft \/ SetField \/ SaveBulk \/ CloseBulk \/ LateClear
  \/ \E t \in Tags : Toggle(t) \/ RemoveTag(t)
  \/ \E t \in Tags \union {NoTag} : Type(t) \/ TypeInRow(t)
  \/ \E f \in Folders : OpenRow(f)
  \/ CommitRowDraft \/ SaveRow \/ CloseRow
  \/ \E c \in calls : \/ ReceiveBulk(c) \/ ReceiveRow(c)
                      \/ BulkWrite(c) \/ ServeRow(c) \/ Lose(c)
                      \/ \E f \in Folders : BulkRead(c, f)
  \/ \E f \in Folders, t \in Tags : WriteElsewhere(f, t)

Spec == Init /\ [][Next]_vars

-----------------------------------------------------------------------------
(* Properties *)

Metas == UNION {[S -> SUBSET Tags] : S \in SUBSET Folders}

TypeOK ==
  /\ checked \in SUBSET Folders /\ open \in BOOLEAN
  /\ tagChecks \in [Tags -> Checks \union {Unset}] /\ newTags \in SUBSET Tags
  /\ choice \in [Tags -> Checks \union {Unset, Lost}]
  /\ changed \in BOOLEAN
  /\ tagDraft \in Tags \union {NoTag} /\ rowDraft \in Tags \union {NoTag}
  /\ row \in Folders \union {NoFolder} /\ tags \in SUBSET Tags /\ dropped \in SUBSET Tags
  /\ \A c \in calls : c.req.folders \subseteq Folders /\ c.at \in {"sent", "ok", "failed"}
  /\ list \in Metas /\ meta \in [Folders -> SUBSET Tags]
  /\ news \in 0..MaxNews

\* "Only what the operator changed is sent" (bulk-meta-edit-dialog.tsx), however
\* often the list is fetched again under the dialog: no tag the operator has
\* not chosen is added or removed, none is both, and what was chosen is asked
\* as long as the tag has a row. (A tag that others take from the last recording
\* loses its row. Its check is not asked for any more, but is still there when
\* the tag is typed anew, and then wins over it.)
RequestIsChoice ==
  BulkShown =>
    /\ ToAdd \intersect ToRemove = {}
    /\ \A t \in ToAdd \union ToRemove : choice[t] # Unset \/ t = tagDraft
    /\ \A t \in RowTags \ {tagDraft} :
         /\ choice[t] = "checked" => t \in ToAdd \/ Presence(t) = "all"
         /\ choice[t] = "unchecked" => t \in ToRemove \/ Presence(t) = "none"
         /\ choice[t] = "mixed" => t \notin ToAdd \union ToRemove

\* A bulk request that succeeded has left every recording as the dialog showed
\* it: a checked tag is on all of them, an unchecked one on none, any other where
\* it was, also on a selected recording that the list does not have. Provided
\* the list was true to what it had and nobody else has written meanwhile.
SavedAsShown ==
  \A c \in InFlight("bulkUpdateRecordingMeta") :
    c.at = "ok" /\ c.goal # NoData => \A f \in c.req.folders : meta[f] = c.goal[f]

\* The variables have their types. The dialog of a row sends all tags, so that
\* one it lacks is taken from the recording: of the tags on the screen it lacks,
\* and its request lacks, only what the operator removed, although the list comes
\* anew under the dialog (meta-edit-dialog.tsx, the effect on the entry). Nothing
\* is said of a tag that others add after the last list: it was on no screen, and
\* Save takes it away.
MissingWasRemoved ==
  /\ TypeOK
  /\ row # NoFolder => list[row] \ tags \subseteq dropped
  /\ \A c \in InFlight("updateRecordingMeta") : c.due \subseteq c.req.tags

=============================================================================
