--------------------------- MODULE EditingProofs ---------------------------
(***************************************************************************)
(* What the dialogs for tags ask for, and what becomes of it, for all       *)
(* finite sets of recordings and all sets of tags.                          *)
(***************************************************************************)
EXTENDS Editing, FiniteSetTheorems, TLAPS

BulkRequest == [op : {"bulkUpdateRecordingMeta"}, folders : SUBSET Folders,
                add : SUBSET Tags, remove : SUBSET Tags]
RowRequest == [op : {"updateRecordingMeta"}, folders : {{f} : f \in Folders}, tags : SUBSET Tags]

\* The requests on their way, of either dialog.
Stages == {"sent", "ok", "failed"}
BulkCalls == [req : BulkRequest, at : Stages, result : {NoData}, heard : BOOLEAN,
              todo : SUBSET Folders, reading : Folders \union {NoFolder}, read : SUBSET Tags,
              goal : Metas \union {NoData}]
RowCalls == [req : RowRequest, at : Stages, result : {NoData}, heard : BOOLEAN,
             due : SUBSET Tags]

\* A bulk dialog that is not shown has a session without any edit.
Fresh ==
  ~BulkShown => /\ tagChecks = [t \in Tags |-> Unset] /\ newTags = {}
                /\ choice = [t \in Tags |-> Unset]

\* The clicks that are kept are those of the operator, as long as their row stays.
ChoiceExact ==
  /\ \A t \in Tags : tagChecks[t] # Unset \/ t \in newTags => choice[t] # Unset
  /\ \A t \in Tags : choice[t] \in Checks =>
       /\ t \in RowTags
       /\ \/ choice[t] = tagChecks[t]
          \/ choice[t] = "checked" /\ tagChecks[t] = Unset /\ t \in newTags

\* A bulk request with a goal is on its way to it: what it has left will be
\* right with its change, what it has written is right, what it has read holds.
OnItsWay(c) ==
  /\ c.at = "ok" => c.todo = {}
  /\ c.reading # NoFolder => c.reading \in c.todo
  /\ c.todo \subseteq c.req.folders
  /\ c.goal # NoData =>
       /\ \A f \in c.req.folders \ c.todo : c.goal[f] = meta[f]
       /\ \A f \in c.todo : c.goal[f] = (meta[f] \ c.req.remove) \union c.req.add
       /\ c.reading # NoFolder => c.read = meta[c.reading]

CallOK(c) ==
  /\ c \in BulkCalls \union RowCalls
  /\ c.req.op = "bulkUpdateRecordingMeta" => OnItsWay(c)
  /\ c.req.op = "updateRecordingMeta" => c.due \subseteq c.req.tags

\* The dialog of a request.
LEMMA DialogOf ==
  /\ \A c \in BulkCalls : c.req.op = "bulkUpdateRecordingMeta"
  /\ \A c \in RowCalls : c.req.op = "updateRecordingMeta"
BY DEF BulkCalls, BulkRequest, RowCalls, RowRequest

\* The inductive invariant, in the parts that different actions touch.
BulkOK ==
  /\ checked \in SUBSET Folders /\ open \in BOOLEAN
  /\ tagChecks \in [Tags -> Checks \union {Unset}] /\ newTags \in SUBSET Tags
  /\ choice \in [Tags -> Checks \union {Unset, Lost}]
  /\ changed \in BOOLEAN /\ tagDraft \in Tags \union {NoTag}
  /\ Fresh /\ ChoiceExact

RowOK ==
  /\ row \in Folders \union {NoFolder} /\ rowDraft \in Tags \union {NoTag}
  /\ tags \in SUBSET Tags /\ dropped \in SUBSET Tags
  /\ row # NoFolder => row \in DOMAIN list /\ list[row] \ tags \subseteq dropped

CallsOK == \A c \in calls : CallOK(c)

DataOK == list \in Metas /\ meta \in [Folders -> SUBSET Tags] /\ news \in 0..MaxNews

IInv == BulkOK /\ RowOK /\ CallsOK /\ DataOK

-----------------------------------------------------------------------------
(* What is asked for *)

\* How many of the selected recordings have a tag.
LEMMA PresenceIs ==
  ASSUME TypeOK, NEW t \in Tags
  PROVE  /\ Count(t) \in Nat
         /\ Presence(t) \in {"none", "some", "all"}
         /\ Presence(t) = "none" <=> Count(t) = 0
         /\ Presence(t) = "all" => \A f \in checked : f \in DOMAIN list /\ t \in list[f]
<1> DEFINE having == {f \in DOMAIN list \intersect checked : t \in list[f]}
<1>1. IsFiniteSet(checked) /\ having \subseteq checked
  BY FoldersAssumption, FS_Subset DEF TypeOK
<1>2. IsFiniteSet(having) /\ Cardinality(having) \in Nat
  BY <1>1, FS_Subset, FS_CardinalityType
<1>3. Cardinality(having) = Cardinality(checked) => having = checked
  BY <1>1, FS_Subset
<1> QED BY <1>2, <1>3 DEF Presence, Count

\* The rows of a tag all show the same, if the operator touched it.
LEMMA RowsAre ==
  ASSUME TypeOK, NEW t \in Tags
  PROVE  /\ t \in RowTags <=> Count(t) > 0 \/ t \in newTags
         /\ \A r \in TagRows : r.tag = t =>
              \/ r = Made(t, Presence(t)) /\ Count(t) > 0
              \/ r = Made(t, "none") /\ t \in newTags
         /\ Count(t) > 0 => Made(t, Presence(t)) \in TagRows
         /\ t \in newTags => Made(t, "none") \in TagRows
         /\ \A p : Made(t, p).tag = t /\ Made(t, p).presence = p
<1>1. \A u, p : Made(u, p).tag = u /\ Made(u, p).presence = p
  BY DEF Made
<1> QED BY <1>1 DEF TagRows, RowTags, TypeOK

LEMMA RowsToSaveAre ==
  ASSUME TypeOK, NEW t \in Tags
  PROVE  /\ \A r \in RowsToSave : r.tag = t =>
              /\ r.presence \in {Presence(t), "none"}
              /\ t = tagDraft => r.check = "checked"
              /\ t # tagDraft => r = Made(t, r.presence) /\ r \in TagRows
         /\ t # tagDraft => \A r \in TagRows : r.tag = t => r \in RowsToSave
         /\ t = tagDraft => \E r \in RowsToSave : r.tag = t
<1>1. \A r \in TagRows : r = Made(r.tag, r.presence) /\ r.tag \in Tags
  BY DEF TagRows, Made, TypeOK
<1>2. \A r \in TagRows : r.tag = t => r.presence \in {Presence(t), "none"}
  BY RowsAre
<1>3. CASE tagDraft = NoTag
  BY <1>1, <1>2, <1>3, NoTagAssumption DEF RowsToSave
<1>4. CASE tagDraft # NoTag /\ tagDraft \in {r.tag : r \in TagRows}
  <2> DEFINE Ticked(r) == IF r.tag = tagDraft THEN [r EXCEPT !.check = "checked"] ELSE r
  <2>1. RowsToSave = {Ticked(r) : r \in TagRows}
    BY <1>4 DEF RowsToSave, WithTagChecked
  <2>2. ASSUME NEW r \in TagRows
        PROVE  /\ Ticked(r).tag = r.tag /\ Ticked(r).presence = r.presence
               /\ r.tag = tagDraft => Ticked(r).check = "checked"
               /\ r.tag # tagDraft => Ticked(r) = r
    <3>1. r = [tag |-> r.tag, presence |-> r.presence, check |-> r.check]
      BY <1>1 DEF Made
    <3> QED BY <3>1
  <2> HIDE DEF Ticked
  <2>3. ASSUME NEW r \in RowsToSave, r.tag = t
        PROVE  /\ r.presence \in {Presence(t), "none"}
               /\ t = tagDraft => r.check = "checked"
               /\ t # tagDraft => r = Made(t, r.presence) /\ r \in TagRows
    <3>1. PICK q \in TagRows : r = Ticked(q)
      BY <2>1
    <3> QED BY <1>1, <1>2, <2>2, <2>3, <3>1
  <2>4. t # tagDraft => \A r \in TagRows : r.tag = t => r \in RowsToSave
    BY <2>1, <2>2
  <2>5. t = tagDraft => \E r \in RowsToSave : r.tag = t
    BY <1>4, <2>1, <2>2
  <2> QED BY <2>3, <2>4, <2>5
<1>5. CASE tagDraft # NoTag /\ tagDraft \notin {r.tag : r \in TagRows}
  <2> DEFINE new == [tag |-> tagDraft, presence |-> "none", check |-> "checked"]
  <2>1. RowsToSave = TagRows \union {new}
    BY <1>5 DEF RowsToSave, WithTagChecked
  <2>2. new.tag = tagDraft /\ new.presence = "none" /\ new.check = "checked"
    OBVIOUS
  <2>3. \A r \in TagRows : r.tag # tagDraft
    BY <1>5
  <2> HIDE DEF new
  <2> QED BY <1>1, <1>2, <2>1, <2>2, <2>3
<1> QED BY <1>3, <1>4, <1>5

\* Only tags are asked for.
LEMMA AskedForTags ==
  ASSUME TypeOK
  PROVE  ToAdd \subseteq Tags /\ ToRemove \subseteq Tags
<1>1. \A r \in TagRows : r.tag \in Tags
  BY DEF TagRows, Made, TypeOK
<1>2. \A r \in TagRows : [r EXCEPT !.check = "checked"].tag = r.tag
  BY DEF TagRows, Made
<1>3. \A r \in RowsToSave : r.tag \in Tags
  <2>1. tagDraft \in Tags \union {NoTag}
    BY DEF TypeOK
  <2>2. CASE tagDraft = NoTag
    BY <1>1, <2>2 DEF RowsToSave
  <2>3. CASE tagDraft # NoTag /\ tagDraft \in {r.tag : r \in TagRows}
    <3>1. RowsToSave = {IF r.tag = tagDraft THEN [r EXCEPT !.check = "checked"] ELSE r :
                          r \in TagRows}
      BY <2>3 DEF RowsToSave, WithTagChecked
    <3> QED BY <1>1, <1>2, <3>1
  <2>4. CASE tagDraft # NoTag /\ tagDraft \notin {r.tag : r \in TagRows}
    BY <1>1, <2>1, <2>4 DEF RowsToSave, WithTagChecked
  <2> QED BY <2>2, <2>3, <2>4
<1> QED BY <1>3 DEF ToAdd, ToRemove, Added, Removed

\* The request of the dialog says what its rows show.
LEMMA AskedAsShown ==
  ASSUME TypeOK, NEW t \in Tags
  PROVE  /\ t \notin ToAdd \intersect ToRemove
         /\ Shown(t) = "checked" => (t \in ToAdd \/ Presence(t) = "all") /\ t \notin ToRemove
         /\ Shown(t) = "unchecked" => t \in ToRemove /\ t \notin ToAdd
         /\ Shown(t) \notin {"checked", "unchecked"} => t \notin ToAdd \union ToRemove
<1>1. /\ t \in ToAdd <=> \E r \in RowsToSave : r.tag = t /\ r.check = "checked" /\ r.presence # "all"
      /\ t \in ToRemove <=>
           \E r \in RowsToSave : r.tag = t /\ r.check = "unchecked" /\ r.presence # "none"
  BY DEF ToAdd, ToRemove, Added, Removed
<1>2. ASSUME NEW r \in RowsToSave, NEW q \in RowsToSave, r.tag = t, q.tag = t,
             r.check = "checked"
      PROVE  q.check # "unchecked"
  <2>1. CASE t = tagDraft
    BY <1>2, <2>1, RowsToSaveAre
  <2>2. CASE t # tagDraft
    <3>1. r = Made(t, r.presence) /\ q = Made(t, q.presence)
      BY <1>2, <2>2, RowsToSaveAre
    <3> QED BY <1>2, <3>1 DEF Made, StartCheck, Unset
  <2> QED BY <2>1, <2>2
<1>3. \A r \in RowsToSave : r.tag = t => r.presence \in {Presence(t), "none"}
  BY RowsToSaveAre
<1>4. /\ Shown(t) = "checked" <=> \E r \in RowsToSave : r.tag = t /\ r.check = "checked"
      /\ Shown(t) = "unchecked" <=>
           /\ ~\E r \in RowsToSave : r.tag = t /\ r.check = "checked"
           /\ \E r \in RowsToSave : r.tag = t /\ r.check = "unchecked" /\ r.presence # "none"
  BY DEF Shown, Unset
<1> QED BY <1>1, <1>2, <1>3, <1>4

\* Of a tag that is not being typed, the request says what was chosen.
LEMMA AskedAsChosen ==
  ASSUME TypeOK, ChoiceExact, NEW t \in Tags \ {tagDraft}
  PROVE  /\ t \in ToAdd \union ToRemove => choice[t] # Unset
         /\ choice[t] = "checked" => t \in ToAdd \/ Presence(t) = "all"
         /\ choice[t] = "unchecked" => t \in ToRemove \/ Presence(t) = "none"
         /\ choice[t] = "mixed" => t \notin ToAdd \union ToRemove
<1>1. /\ t \in ToAdd <=> \E r \in RowsToSave : r.tag = t /\ r.check = "checked" /\ r.presence # "all"
      /\ t \in ToRemove <=>
           \E r \in RowsToSave : r.tag = t /\ r.check = "unchecked" /\ r.presence # "none"
  BY DEF ToAdd, ToRemove, Added, Removed
<1>2. \A r : r.tag = t => (r \in RowsToSave <=> r \in TagRows)
  BY RowsToSaveAre
<1>3. \A r \in TagRows : r.tag = t =>
        \/ r = Made(t, Presence(t)) /\ Count(t) > 0
        \/ r = Made(t, "none") /\ t \in newTags
  BY RowsAre
<1>4. /\ t \in RowTags <=> Count(t) > 0 \/ t \in newTags
      /\ Count(t) > 0 => Made(t, Presence(t)) \in TagRows
      /\ t \in newTags => Made(t, "none") \in TagRows
      /\ \A p : Made(t, p).tag = t /\ Made(t, p).presence = p
  BY RowsAre
<1>5. /\ Count(t) \in Nat /\ Presence(t) \in {"none", "some", "all"}
      /\ Presence(t) = "none" <=> Count(t) = 0
  BY PresenceIs
<1>6. \A p \in {"none", "some", "all"} :
        Made(t, p).check = IF tagChecks[t] # Unset THEN tagChecks[t]
                           ELSE IF p = "some" THEN "mixed" ELSE "checked"
  BY DEF Made, StartCheck
<1>7. /\ tagChecks[t] # Unset \/ t \in newTags => choice[t] # Unset
      /\ choice[t] \in Checks =>
           /\ t \in RowTags
           /\ \/ choice[t] = tagChecks[t]
              \/ choice[t] = "checked" /\ tagChecks[t] = Unset /\ t \in newTags
  BY DEF ChoiceExact
<1>8. ASSUME t \in ToAdd \union ToRemove PROVE choice[t] # Unset
  <2>1. CASE tagChecks[t] # Unset \/ t \in newTags
    BY <1>7, <2>1
  <2>2. CASE tagChecks[t] = Unset /\ t \notin newTags
    <3>1. \A r \in RowsToSave : r.tag = t => r = Made(t, Presence(t)) /\ Presence(t) # "none"
      BY <1>2, <1>3, <1>5, <2>2
    <3>2. t \notin ToAdd /\ t \notin ToRemove
      BY <1>1, <1>4, <1>5, <1>6, <2>2, <3>1
    <3> QED BY <1>8, <3>2
  <2> QED BY <2>1, <2>2
<1>9. ASSUME choice[t] = "checked" PROVE t \in ToAdd \/ Presence(t) = "all"
  <2>1. /\ t \in RowTags
        /\ tagChecks[t] = "checked" \/ (tagChecks[t] = Unset /\ t \in newTags)
    BY <1>7, <1>9 DEF Checks
  <2>2. CASE t \in newTags
    <3>1. Made(t, "none").check = "checked" /\ Made(t, "none") \in RowsToSave
      BY <1>2, <1>4, <1>6, <2>1, <2>2 DEF Unset
    <3> QED BY <1>1, <1>4, <3>1
  <2>3. CASE t \notin newTags
    <3>1. /\ Made(t, Presence(t)).check = "checked"
          /\ Made(t, Presence(t)) \in RowsToSave
      BY <1>2, <1>4, <1>5, <1>6, <2>1, <2>3 DEF Unset
    <3> QED BY <1>1, <1>4, <3>1
  <2> QED BY <2>2, <2>3
<1>10. ASSUME choice[t] = "unchecked" PROVE t \in ToRemove \/ Presence(t) = "none"
  <2> SUFFICES ASSUME Presence(t) # "none" PROVE t \in ToRemove
    OBVIOUS
  <2>1. tagChecks[t] = "unchecked" /\ Count(t) > 0
    BY <1>5, <1>7, <1>10 DEF Checks
  <2>2. Made(t, Presence(t)).check = "unchecked" /\ Made(t, Presence(t)) \in RowsToSave
    BY <1>2, <1>4, <1>5, <1>6, <2>1 DEF Unset
  <2> QED BY <1>1, <1>4, <2>2
<1>11. ASSUME choice[t] = "mixed" PROVE t \notin ToAdd \union ToRemove
  <2>1. tagChecks[t] = "mixed"
    BY <1>7, <1>11 DEF Checks
  <2>2. \A r \in RowsToSave : r.tag = t => r.check = "mixed"
    BY <1>2, <1>3, <1>5, <1>6, <2>1 DEF Unset
  <2> QED BY <1>1, <2>2
<1> QED BY <1>8, <1>9, <1>10, <1>11

-----------------------------------------------------------------------------
(* What a step leaves alone stays as it is *)

LEMMA Typed ==
  ASSUME IInv
  PROVE  TypeOK
<1>1. \A c \in calls : c.req.folders \subseteq Folders /\ c.at \in {"sent", "ok", "failed"}
  BY DEF IInv, CallsOK, CallOK, BulkCalls, RowCalls, BulkRequest, RowRequest, Stages
<1> QED BY <1>1 DEF IInv, BulkOK, RowOK, DataOK, TypeOK

LEMMA ListIs ==
  ASSUME DataOK
  PROVE  DOMAIN list \subseteq Folders /\ list \in [DOMAIN list -> SUBSET Tags]
BY DEF DataOK, Metas

LEMMA SameBulk ==
  ASSUME BulkOK, UNCHANGED <<bulk, list>>
  PROVE  BulkOK'
<1>1. UNCHANGED <<checked, open, tagChecks, newTags, tagDraft, changed, choice, list>>
  BY DEF bulk, session
<1>2. RowTags' = RowTags
  BY <1>1 DEF RowTags, TagRows, Made, Presence, Count
<1> QED BY <1>1, <1>2 DEF BulkOK, Fresh, BulkShown, ChoiceExact

LEMMA SameRow ==
  ASSUME RowOK, UNCHANGED <<single, list>>
  PROVE  RowOK'
BY DEF RowOK, single

LEMMA SameCalls ==
  ASSUME CallsOK, UNCHANGED <<calls, meta>>
  PROVE  CallsOK'
BY DEF CallsOK, CallOK, OnItsWay

LEMMA SameData ==
  ASSUME DataOK, UNCHANGED <<list, meta, news>>
  PROVE  DataOK'
BY DEF DataOK

-----------------------------------------------------------------------------
(* The bulk dialog *)

LEMMA RowTagsAre ==
  /\ RowTags = {t \in Tags : Count(t) > 0} \union newTags
  /\ UNCHANGED <<checked, list>> => RowTags' = {t \in Tags : Count(t) > 0} \union newTags'
<1>1. \A t, p : Made(t, p).tag = t
  BY DEF Made
<1>2. \A t, p : Made(t, p)'.tag = t
  BY DEF Made
<1>3. RowTags = {t \in Tags : Count(t) > 0} \union newTags
  BY <1>1 DEF RowTags, TagRows
<1>4. ASSUME UNCHANGED <<checked, list>>
      PROVE  RowTags' = {t \in Tags : Count(t) > 0} \union newTags'
  <2>1. \A t : Count(t)' = Count(t)
    BY <1>4 DEF Count
  <2> QED BY <1>2, <2>1 DEF RowTags, TagRows
<1> QED BY <1>3, <1>4

\* A new session asks for nothing.
LEMMA NewSessionKeeps ==
  ASSUME BulkOK, NewSession, checked' \in SUBSET Folders, open' \in BOOLEAN
  PROVE  BulkOK'
<1>1. /\ tagChecks' = [t \in Tags |-> Unset] /\ newTags' = {} /\ tagDraft' = NoTag
      /\ changed' = FALSE /\ choice' = [t \in Tags |-> Unset]
  BY DEF NewSession
<1>2. Fresh' /\ ChoiceExact'
  BY <1>1 DEF Fresh, ChoiceExact, Checks, Unset
<1> QED BY <1>1, <1>2 DEF BulkOK

\* While the dialog is not shown the selection may change.
LEMMA SelectKeeps ==
  ASSUME BulkOK, ~BulkShown, UNCHANGED session, checked' \in SUBSET Folders, open' \in BOOLEAN
  PROVE  BulkOK'
<1>1. /\ tagChecks' = [t \in Tags |-> Unset] /\ newTags' = {}
      /\ choice' = [t \in Tags |-> Unset]
      /\ UNCHANGED <<tagDraft, changed>>
  BY DEF BulkOK, Fresh, session
<1>2. Fresh' /\ ChoiceExact'
  BY <1>1 DEF Fresh, ChoiceExact, Checks, Unset
<1> QED BY <1>1, <1>2 DEF BulkOK

\* A click or a typed tag is recorded where the row looks for it.
LEMMA ToggleKeeps ==
  ASSUME IInv, NEW t \in Tags, Toggle(t)
  PROVE  BulkOK'
<1> DEFINE v == CycleTagCheck(RowOf(t))
<1>1. /\ BulkOK /\ BulkShown /\ t \in RowTags
      /\ tagChecks' = [tagChecks EXCEPT ![t] = v]
      /\ choice' = [choice EXCEPT ![t] = IF choice[t] = Lost THEN Lost ELSE v]
      /\ UNCHANGED <<checked, open, newTags, tagDraft, changed, list>>
  BY DEF IInv, Toggle, Chosen
<1>2. v \in Checks
  <2>1. RowOf(t).check \in Checks
    BY <1>1 DEF BulkOK, RowOf, Made, StartCheck, Checks, Unset
  <2> QED BY <2>1 DEF CycleTagCheck, Checks
<1> HIDE DEF v
<1>3. RowTags' = RowTags
  BY <1>1, RowTagsAre
<1>4. /\ tagChecks' \in [Tags -> Checks \union {Unset}]
      /\ choice' \in [Tags -> Checks \union {Unset, Lost}]
  BY <1>1, <1>2 DEF BulkOK
<1>5. BulkShown' /\ Fresh'
  BY <1>1 DEF BulkShown, Fresh
<1>6. ChoiceExact'
  <2>1. \A u \in Tags \ {t} : tagChecks'[u] = tagChecks[u] /\ choice'[u] = choice[u]
    BY <1>1 DEF BulkOK
  <2>2. tagChecks'[t] = v /\ choice'[t] = IF choice[t] = Lost THEN Lost ELSE v
    BY <1>1 DEF BulkOK
  <2>3. "lost" \notin Checks /\ "unset" \notin Checks
    BY DEF Checks
  <2> QED BY <1>1, <1>2, <1>3, <2>1, <2>2, <2>3 DEF BulkOK, ChoiceExact, Lost, Unset
<1> QED BY <1>1, <1>4, <1>5, <1>6 DEF BulkOK

LEMMA CommitDraftKeeps ==
  ASSUME IInv, CommitDraft
  PROVE  BulkOK'
<1>1. /\ BulkOK /\ BulkShown /\ tagDraft \in Tags
      /\ choice' = [choice EXCEPT ![tagDraft] = IF choice[tagDraft] = Lost THEN Lost ELSE "checked"]
      /\ tagDraft' = NoTag
      /\ UNCHANGED <<checked, open, changed, list>>
  BY DEF IInv, BulkOK, CommitDraft, Chosen
<1>2. PICK t \in Tags : t = tagDraft
  BY <1>1
<1>3. \A u \in Tags \ {t} : choice'[u] = choice[u]
  BY <1>1, <1>2 DEF BulkOK
<1>4. choice'[t] = IF choice[t] = Lost THEN Lost ELSE "checked"
  BY <1>1, <1>2 DEF BulkOK
<1>5. /\ choice' \in [Tags -> Checks \union {Unset, Lost}]
      /\ BulkShown' /\ Fresh'
  BY <1>1 DEF BulkOK, BulkShown, Fresh, Checks
<1>6. "lost" \notin Checks /\ "unset" \notin Checks /\ "checked" \in Checks
  BY DEF Checks
<1>7. CASE t \in RowTags
  <2>1. tagChecks' = [tagChecks EXCEPT ![t] = "checked"] /\ newTags' = newTags
    BY <1>2, <1>7 DEF CommitDraft
  <2>2. /\ \A u \in Tags \ {t} : tagChecks'[u] = tagChecks[u]
        /\ tagChecks'[t] = "checked"
        /\ tagChecks' \in [Tags -> Checks \union {Unset}]
    BY <1>1, <1>6, <2>1 DEF BulkOK
  <2>3. RowTags' = RowTags
    BY <1>1, <2>1, RowTagsAre
  <2>4. ChoiceExact'
    BY <1>1, <1>3, <1>4, <1>6, <1>7, <2>1, <2>2, <2>3 DEF BulkOK, ChoiceExact, Lost, Unset
  <2> QED BY <1>1, <1>5, <2>1, <2>2, <2>4 DEF BulkOK
<1>8. CASE t \notin RowTags
  <2>1. tagChecks' = tagChecks /\ newTags' = newTags \union {t}
    BY <1>2, <1>8 DEF CommitDraft
  <2>2. RowTags \union {t} = RowTags'
    BY <1>1, <2>1, RowTagsAre
  <2>3. choice[t] \in {Unset, Lost} /\ (choice[t] = Unset => tagChecks[t] = Unset)
    BY <1>1, <1>8 DEF BulkOK, ChoiceExact
  <2>4. ChoiceExact'
    BY <1>1, <1>3, <1>4, <1>6, <2>1, <2>2, <2>3 DEF BulkOK, ChoiceExact, Lost, Unset
  <2> QED BY <1>1, <1>5, <2>1, <2>4 DEF BulkOK
<1> QED BY <1>7, <1>8

LEMMA TypeKeeps ==
  ASSUME IInv, SetField \/ \E t \in Tags \union {NoTag} : Type(t)
  PROVE  BulkOK'
<1>1. /\ BulkOK /\ BulkShown
      /\ changed' \in BOOLEAN /\ tagDraft' \in Tags \union {NoTag}
      /\ UNCHANGED <<checked, open, tagChecks, newTags, choice, list>>
  BY DEF IInv, BulkOK, SetField, Type
<1>2. RowTags' = RowTags
  BY <1>1, RowTagsAre
<1> QED BY <1>1, <1>2 DEF BulkOK, BulkShown, Fresh, ChoiceExact

-----------------------------------------------------------------------------
(* The dialog of a row, and the list *)

LEMMA RowDialogKeeps ==
  ASSUME IInv,
         \/ \E f \in Folders : OpenRow(f)
         \/ \E t \in Tags \union {NoTag} : TypeInRow(t)
         \/ \E t \in Tags : RemoveTag(t)
         \/ CommitRowDraft \/ CloseRow
  PROVE  IInv'
<1>1. BulkOK /\ RowOK /\ CallsOK /\ DataOK
  BY DEF IInv
<1>2. UNCHANGED <<bulk, calls, list, meta, news>>
  BY DEF OpenRow, TypeInRow, RemoveTag, CommitRowDraft, CloseRow
<1>3. RowOK'
  <2>1. ASSUME NEW f \in Folders, OpenRow(f) PROVE RowOK'
    BY <1>1, <1>2, <2>1, ListIs DEF OpenRow, CopyEntry, RowOK
  <2>2. ASSUME NEW t \in Tags \union {NoTag}, TypeInRow(t) PROVE RowOK'
    BY <1>1, <1>2, <2>2 DEF TypeInRow, RowOK
  <2>3. ASSUME NEW t \in Tags, RemoveTag(t) PROVE RowOK'
    BY <1>1, <1>2, <2>3 DEF RemoveTag, RowOK
  <2>4. ASSUME CommitRowDraft PROVE RowOK'
    BY <1>1, <1>2, <2>4 DEF CommitRowDraft, RowOK
  <2>5. ASSUME CloseRow PROVE RowOK'
    BY <1>1, <1>2, <2>5 DEF CloseRow, CloseEntry, CopyEntry, RowOK
  <2> QED BY <2>1, <2>2, <2>3, <2>4, <2>5
<1> QED BY <1>1, <1>2, <1>3, SameBulk, SameCalls, SameData DEF IInv

\* Calls that end, that nobody listens to any more or that fail harm no goal.
LEMMA OtherCalls ==
  ASSUME CallsOK, meta' = meta,
         \A c \in calls' : c \in calls \/ \E d \in calls : c = Unheard(d) \/ c = Threw(d)
  PROVE  CallsOK'
<1>1. ASSUME NEW d \in calls PROVE CallOK(d)' /\ CallOK(Unheard(d))' /\ CallOK(Threw(d))'
  <2>1. CallOK(d) /\ CallOK(Unheard(d)) /\ CallOK(Threw(d))
    <3>1. CallOK(d)
      BY DEF CallsOK
    <3>2. CASE d \in BulkCalls
      <4>1. \A e \in {Unheard(d), Threw(d)} :
              /\ e \in BulkCalls /\ e.at \in {d.at, "failed"}
              /\ e.req = d.req /\ e.todo = d.todo /\ e.reading = d.reading /\ e.read = d.read
              /\ e.goal = d.goal
        BY <3>2 DEF BulkCalls, Stages, Unheard, Threw
      <4> QED BY <3>1, <4>1, DialogOf DEF CallOK, OnItsWay
    <3>3. CASE d \in RowCalls
      <4>1. \A e \in {Unheard(d), Threw(d)} :
              e \in RowCalls /\ e.req = d.req /\ e.due = d.due
        BY <3>3 DEF RowCalls, Stages, Unheard, Threw
      <4>2. d.req.op = "updateRecordingMeta"
        BY <3>3 DEF RowCalls, RowRequest
      <4> QED BY <3>1, <4>1, <4>2 DEF CallOK
    <3> QED BY <3>1, <3>2, <3>3 DEF CallOK
  <2> QED BY <2>1 DEF CallOK, OnItsWay
<1> QED BY <1>1 DEF CallsOK

LEMMA ReceiveListKeeps ==
  ASSUME IInv, NEW readable \in SUBSET Folders, ReceiveList(readable)
  PROVE  IInv'
<1>1. BulkOK /\ RowOK /\ CallsOK /\ DataOK
  BY DEF IInv
<1>2. PICK new \in Metas : new = [f \in readable |-> meta[f]]
  <2>1. [f \in readable |-> meta[f]] \in [readable -> SUBSET Tags]
    BY <1>1 DEF DataOK
  <2> QED BY <2>1 DEF Metas
<1>3. /\ list' = new /\ RowFollows(new) /\ calls' = Deaf(Rowless(new))
      /\ choice' = [t \in Tags |-> IF choice[t] # Unset /\ t \in RowTags \ RowTags' THEN Lost
                                    ELSE choice[t]]
      /\ UNCHANGED <<checked, open, changed, meta, news, tagChecks, newTags, tagDraft>>
  BY <1>2 DEF ReceiveList, RowsKeep
<1>4. DataOK'
  BY <1>1, <1>2, <1>3 DEF DataOK
<1>5. RowOK'
  <2>1. DOMAIN new \subseteq Folders /\ \A f \in DOMAIN new : new[f] \in SUBSET Tags
    BY <1>2 DEF Metas
  <2>2. CASE row = NoFolder
    BY <1>1, <1>3, <2>2 DEF RowFollows, RowOK, single
  <2>3. CASE row # NoFolder /\ row \notin DOMAIN new
    BY <1>3, <2>3 DEF RowFollows, RowOK, CloseEntry, CopyEntry
  <2>4. CASE row # NoFolder /\ row \in DOMAIN new /\ new[row] = list[row]
    BY <1>1, <1>3, <2>4 DEF RowFollows, RowOK, single
  <2>5. CASE row # NoFolder /\ row \in DOMAIN new /\ new[row] # list[row]
    BY <1>1, <1>3, <2>1, <2>5 DEF RowFollows, RowOK, CopyEntry
  <2> QED BY <2>2, <2>3, <2>4, <2>5
<1>6. CallsOK'
  <2>1. \A c \in calls' : c \in calls \/ \E d \in calls : c = Unheard(d) \/ c = Threw(d)
    BY <1>3 DEF Deaf, Rowless, InFlight
  <2> QED BY <1>1, <1>3, <2>1, OtherCalls
<1>7. BulkOK'
  <2>1. choice' \in [Tags -> Checks \union {Unset, Lost}]
    BY <1>1, <1>3 DEF BulkOK
  <2>2. "lost" \notin Checks /\ "unset" \notin Checks
    BY DEF Checks
  <2>3. Fresh'
    <3>1. BulkShown' = BulkShown
      BY <1>3 DEF BulkShown
    <3> QED BY <1>1, <1>3, <3>1 DEF BulkOK, Fresh
  <2>4. ChoiceExact'
    <3> SUFFICES ASSUME NEW t \in Tags
                 PROVE  /\ tagChecks[t] # Unset \/ t \in newTags => choice'[t] # Unset
                        /\ choice'[t] \in Checks =>
                             /\ t \in RowTags'
                             /\ \/ choice'[t] = tagChecks[t]
                                \/ choice'[t] = "checked" /\ tagChecks[t] = Unset /\ t \in newTags
      BY <1>3 DEF ChoiceExact
    <3>1. \/ choice'[t] = Lost
          \/ choice'[t] = choice[t] /\ (t \in RowTags /\ choice[t] # Unset => t \in RowTags')
      BY <1>3
    <3>2. /\ tagChecks[t] # Unset \/ t \in newTags => choice[t] # Unset
          /\ choice[t] \in Checks =>
               /\ t \in RowTags
               /\ \/ choice[t] = tagChecks[t]
                  \/ choice[t] = "checked" /\ tagChecks[t] = Unset /\ t \in newTags
      BY <1>1 DEF BulkOK, ChoiceExact
    <3> QED BY <2>2, <3>1, <3>2 DEF Lost, Unset
  <2> QED BY <1>1, <1>3, <2>1, <2>3, <2>4 DEF BulkOK
<1> QED BY <1>4, <1>5, <1>6, <1>7 DEF IInv

-----------------------------------------------------------------------------
(* Requests *)

\* A change of the disk by others takes away the goals it touches.
LEMMA DisturbedKeeps ==
  ASSUME CallsOK, DataOK, NEW f \in Folders, NEW v, meta' = [meta EXCEPT ![f] = v],
         NEW cs \in SUBSET calls, NEW c \in Disturbed(cs, f)
  PROVE  CallOK(c)'
<1>1. PICK d \in cs : c = IF d.req.op = "bulkUpdateRecordingMeta" /\ f \in d.req.folders
                          THEN [d EXCEPT !.goal = NoData] ELSE d
  BY DEF Disturbed
<1>2. CallOK(d) /\ d \in BulkCalls \union RowCalls
  BY DEF CallsOK, CallOK
<1>3. CASE d.req.op = "bulkUpdateRecordingMeta" /\ f \in d.req.folders
  <2>1. d \in BulkCalls
    BY <1>2, <1>3 DEF RowCalls, RowRequest
  <2>2. /\ c \in BulkCalls /\ c.at = d.at /\ c.req = d.req /\ c.todo = d.todo
        /\ c.reading = d.reading /\ c.goal = NoData
    BY <1>1, <1>3, <2>1 DEF BulkCalls
  <2> QED BY <1>2, <1>3, <2>2 DEF CallOK, OnItsWay
<1>4. CASE d.req.op = "bulkUpdateRecordingMeta" /\ f \notin d.req.folders
  <2>1. c = d
    BY <1>1, <1>4
  <2>2. OnItsWay(d) /\ d.req.folders \subseteq Folders
    <3>1. d \in BulkCalls
      BY <1>2, <1>4 DEF RowCalls, RowRequest
    <3> QED BY <1>2, <1>4, <3>1 DEF CallOK, BulkCalls, BulkRequest
  <2>3. \A g \in d.req.folders : meta'[g] = meta[g]
    BY <1>4, <2>2 DEF DataOK
  <2> QED BY <1>2, <2>1, <2>2, <2>3 DEF CallOK, OnItsWay
<1>5. CASE d.req.op # "bulkUpdateRecordingMeta"
  BY <1>1, <1>2, <1>5 DEF CallOK
<1> QED BY <1>3, <1>4, <1>5

\* A new bulk request asks for what its rows show.
LEMMA SaveBulkKeeps ==
  ASSUME IInv, SaveBulk
  PROVE  IInv'
<1>1. BulkOK /\ RowOK /\ CallsOK /\ DataOK /\ TypeOK
  BY Typed DEF IInv
<1> DEFINE req == BulkUpdateRecordingMeta(checked, ToAdd, ToRemove)
           c == BulkCall(req, Goal)
<1>2. calls' = calls \union {c} /\ UNCHANGED <<bulk, single, list, meta, news>>
  BY DEF SaveBulk
<1>3. /\ req \in BulkRequest /\ req.folders = checked
      /\ req.add = ToAdd /\ req.remove = ToRemove
  BY <1>1, AskedForTags DEF BulkUpdateRecordingMeta, BulkRequest, BulkOK
<1> HIDE DEF req
<1>4. /\ c.req = req /\ c.at = "sent" /\ c.todo = checked /\ c.reading = NoFolder
      /\ c.goal = Goal /\ c.read = {}
  BY <1>3 DEF BulkCall, Call
<1>5. ASSUME Goal # NoData, NEW f \in checked
      PROVE  Goal[f] = (meta[f] \ ToRemove) \union ToAdd
  <2>1. /\ \A g \in checked \intersect DOMAIN list : list[g] = meta[g]
        /\ Goal = [g \in checked |-> {t \in Tags : CASE Shown(t) = "checked" -> TRUE
                                                     [] Shown(t) = "unchecked" -> FALSE
                                                     [] OTHER -> t \in meta[g]}]
    BY <1>5 DEF Goal
  <2>2. Goal[f] = {t \in Tags : CASE Shown(t) = "checked" -> TRUE
                                  [] Shown(t) = "unchecked" -> FALSE
                                  [] OTHER -> t \in meta[f]}
    BY <2>1
  <2>3. meta[f] \subseteq Tags /\ ToAdd \subseteq Tags
    BY <1>1, AskedForTags DEF DataOK, BulkOK
  <2>4. ASSUME NEW t \in Tags
        PROVE  t \in Goal[f] <=> t \in (meta[f] \ ToRemove) \union ToAdd
    <3>1. CASE Shown(t) = "checked"
      <4>1. Presence(t) = "all" => t \in meta[f]
        BY <1>1, <2>1, PresenceIs
      <4> QED BY <1>1, <2>2, <3>1, <4>1, AskedAsShown
    <3>2. CASE Shown(t) = "unchecked"
      BY <1>1, <2>2, <3>2, AskedAsShown
    <3>3. CASE Shown(t) \notin {"checked", "unchecked"}
      BY <1>1, <2>2, <3>3, AskedAsShown
    <3> QED BY <3>1, <3>2, <3>3
  <2>5. Goal[f] \subseteq Tags
    BY <2>2
  <2> QED BY <2>3, <2>4, <2>5
<1>6. Goal \in Metas \union {NoData}
  <2>1. CASE \E f \in checked \intersect DOMAIN list : list[f] # meta[f]
    BY <2>1 DEF Goal
  <2>2. CASE ~\E f \in checked \intersect DOMAIN list : list[f] # meta[f]
    <3>1. Goal \in [checked -> SUBSET Tags]
      BY <2>2 DEF Goal
    <3> QED BY <1>1, <3>1 DEF BulkOK, Metas
  <2> QED BY <2>1, <2>2
<1>7. c \in BulkCalls
  BY <1>1, <1>3, <1>6 DEF BulkCall, Call, BulkCalls, Stages, BulkOK
<1>8. OnItsWay(c)
  <2> HIDE DEF c
  <2> QED BY <1>3, <1>4, <1>5 DEF OnItsWay
<1> HIDE DEF c
<1>9. CallsOK'
  <2>0. PICK d \in BulkCalls : d = c
    BY <1>7
  <2>1. CallOK(d)'
    BY <1>2, <1>8, <2>0, DialogOf DEF CallOK, OnItsWay
  <2>2. \A e \in calls : CallOK(e)'
    BY <1>1, <1>2 DEF CallsOK, CallOK, OnItsWay
  <2> QED BY <1>2, <2>0, <2>1, <2>2 DEF CallsOK
<1> QED BY <1>1, <1>2, <1>9, SameBulk, SameRow, SameData DEF IInv

LEMMA SaveRowKeeps ==
  ASSUME IInv, SaveRow
  PROVE  IInv'
<1>1. BulkOK /\ RowOK /\ CallsOK /\ DataOK
  BY DEF IInv
<1> DEFINE req == UpdateRecordingMeta(row, tags \union ({rowDraft} \ {NoTag}))
<1>2. calls' = calls \union {RowCall(req)} /\ UNCHANGED <<bulk, single, list, meta, news>>
  BY DEF SaveRow
<1>3. req \in RowRequest /\ req.op = "updateRecordingMeta"
  <2>1. row \in Folders /\ tags \union ({rowDraft} \ {NoTag}) \in SUBSET Tags
    BY <1>1 DEF RowOK, SaveRow
  <2> QED BY <2>1 DEF UpdateRecordingMeta, RowRequest
<1>3a. list[row] \in SUBSET Tags /\ list[row] \ dropped \subseteq req.tags
  <2>1. req.tags = tags \union ({rowDraft} \ {NoTag})
    BY DEF UpdateRecordingMeta
  <2>2. row \in DOMAIN list /\ list[row] \ tags \subseteq dropped
    BY <1>1 DEF RowOK, SaveRow
  <2> QED BY <1>1, <2>1, <2>2, ListIs DEF DataOK
<1> HIDE DEF req
<1>4. /\ RowCall(req) \in RowCalls /\ RowCall(req).req = req
      /\ RowCall(req).due = list[row] \ dropped
  BY <1>1, <1>3, <1>3a DEF RowCall, Call, RowCalls, Stages, RowOK
<1>5. CallsOK'
  <2>0. PICK c \in RowCalls : c = RowCall(req)
    BY <1>4
  <2>1. CallOK(c)'
    BY <1>3, <1>3a, <1>4, <2>0 DEF CallOK
  <2>2. \A d \in calls : CallOK(d)'
    BY <1>1, <1>2 DEF CallsOK, CallOK, OnItsWay
  <2> QED BY <1>2, <2>0, <2>1, <2>2 DEF CallsOK
<1> QED BY <1>1, <1>2, <1>5, SameBulk, SameRow, SameData DEF IInv

LEMMA AnswerKeeps ==
  ASSUME IInv, NEW c \in calls, ReceiveBulk(c) \/ ReceiveRow(c) \/ Lose(c)
  PROVE  IInv'
<1>1. BulkOK /\ RowOK /\ CallsOK /\ DataOK
  BY DEF IInv
<1>2. UNCHANGED <<list, meta, news>>
  BY DEF ReceiveBulk, ReceiveRow, Lose
<1>3. CallsOK'
  <2>1. \A d \in calls' : d \in calls \/ d = Threw(c)
    BY DEF ReceiveBulk, ReceiveRow, Lose
  <2> QED BY <1>1, <1>2, <2>1, OtherCalls
<1>4. BulkOK'
  <2>1. CASE UNCHANGED bulk
    BY <1>1, <1>2, <2>1, SameBulk
  <2>2. CASE open' = FALSE /\ checked' = {} /\ NewSession
    BY <1>1, <2>2, NewSessionKeeps
  <2> QED BY <2>1, <2>2 DEF ReceiveBulk, ReceiveRow, Lose
<1>5. RowOK'
  <2>1. CASE UNCHANGED single
    BY <1>1, <1>2, <2>1, SameRow
  <2>2. CASE CloseEntry
    BY <1>1, <2>2 DEF CloseEntry, CopyEntry, RowOK
  <2> QED BY <2>1, <2>2 DEF ReceiveBulk, ReceiveRow, Lose
<1> QED BY <1>1, <1>2, <1>3, <1>4, <1>5, SameData DEF IInv

-----------------------------------------------------------------------------
(* The server *)

LEMMA BulkReadKeeps ==
  ASSUME IInv, NEW c \in calls, NEW f \in Folders, BulkRead(c, f)
  PROVE  IInv'
<1>1. BulkOK /\ RowOK /\ CallsOK /\ DataOK
  BY DEF IInv
<1>2. UNCHANGED <<bulk, single, list, meta, news>>
  BY DEF BulkRead
<1>3. PICK d : d = [c EXCEPT !.reading = f, !.read = meta[f]]
  OBVIOUS
<1>4. c \in BulkCalls /\ CallOK(c) /\ f \in c.todo /\ meta[f] \in SUBSET Tags
  BY <1>1 DEF BulkRead, CallsOK, CallOK, RowCalls, RowRequest, DataOK
<1>5. /\ d \in BulkCalls /\ d.req = c.req /\ d.at = c.at /\ d.todo = c.todo
      /\ d.reading = f /\ d.read = meta[f] /\ d.goal = c.goal
  BY <1>3, <1>4 DEF BulkCalls
<1>6. CallOK(d)'
  BY <1>2, <1>4, <1>5, DialogOf DEF CallOK, OnItsWay
<1>7. \A e \in calls : CallOK(e)'
  BY <1>1, <1>2 DEF CallsOK, CallOK, OnItsWay
<1>8. CallsOK'
  BY <1>3, <1>6, <1>7 DEF CallsOK, BulkRead
<1> QED BY <1>1, <1>2, <1>8, SameBulk, SameRow, SameData DEF IInv

LEMMA BulkWriteKeeps ==
  ASSUME IInv, NEW c \in calls, BulkWrite(c)
  PROVE  IInv'
<1>1. BulkOK /\ RowOK /\ CallsOK /\ DataOK
  BY DEF IInv
<1>2. UNCHANGED <<bulk, single, list, news>>
  BY DEF BulkWrite
<1>3. c \in BulkCalls /\ CallOK(c) /\ c.req.op = "bulkUpdateRecordingMeta"
  BY <1>1 DEF BulkWrite, CallsOK, CallOK, RowCalls, RowRequest
<1>4. /\ OnItsWay(c) /\ c.at = "sent" /\ c.reading \in Folders
      /\ c.req.folders \subseteq Folders /\ c.req.add \subseteq Tags
      /\ c.todo \subseteq Folders /\ c.read \subseteq Tags
  BY <1>3 DEF BulkWrite, CallOK, BulkCalls, BulkRequest
<1>5. PICK f \in Folders : f = c.reading
  BY <1>4
<1>6. PICK v \in SUBSET Tags : v = (c.read \ c.req.remove) \union c.req.add
  BY <1>4
<1>7. meta' = [meta EXCEPT ![f] = v]
  BY <1>5, <1>6 DEF BulkWrite
<1>8. PICK d : d = [c EXCEPT !.todo = c.todo \ {f}, !.reading = NoFolder, !.read = {},
                             !.at = IF c.todo = {f} THEN "ok" ELSE "sent"]
  OBVIOUS
<1>9. /\ d \in BulkCalls /\ d.req = c.req /\ d.at = (IF c.todo = {f} THEN "ok" ELSE "sent")
      /\ d.todo = c.todo \ {f} /\ d.reading = NoFolder /\ d.goal = c.goal
  BY <1>3, <1>8 DEF BulkCalls, Stages
<1>10. calls' = Disturbed(calls \ {c}, f) \union {d}
  BY <1>5, <1>8 DEF BulkWrite
<1>11. meta'[f] = v /\ \A g \in Folders \ {f} : meta'[g] = meta[g]
  BY <1>1, <1>7 DEF DataOK
<1>12. f \in c.todo /\ c.todo \subseteq c.req.folders
  BY <1>4, <1>5, NoTagAssumption DEF OnItsWay
<1>13. CallOK(d)'
  <2>1. ASSUME c.goal # NoData
        PROVE  /\ \A g \in c.req.folders \ (c.todo \ {f}) : c.goal[g] = meta'[g]
               /\ \A g \in c.todo \ {f} :
                    c.goal[g] = (meta'[g] \ c.req.remove) \union c.req.add
    <3>1. c.read = meta[f]
      BY <1>4, <1>5, <2>1, NoTagAssumption DEF OnItsWay
    <3>2. c.goal[f] = meta'[f]
      BY <1>4, <1>6, <1>11, <1>12, <2>1, <3>1 DEF OnItsWay
    <3> QED BY <1>4, <1>11, <2>1, <3>2 DEF OnItsWay
  <2>2. OnItsWay(d)'
    BY <1>9, <1>12, <2>1 DEF OnItsWay
  <2> QED BY <1>9, <2>2, DialogOf DEF CallOK
<1>14. \A e \in Disturbed(calls \ {c}, f) : CallOK(e)'
  <2>1. calls \ {c} \in SUBSET calls
    OBVIOUS
  <2> QED BY <1>1, <1>7, <2>1, DisturbedKeeps
<1>15. CallsOK'
  BY <1>10, <1>13, <1>14 DEF CallsOK
<1>16. DataOK'
  BY <1>1, <1>2, <1>7 DEF DataOK
<1> QED BY <1>1, <1>2, <1>15, <1>16, SameBulk, SameRow DEF IInv

LEMMA ServeRowKeeps ==
  ASSUME IInv, NEW c \in calls, ServeRow(c)
  PROVE  IInv'
<1>1. BulkOK /\ RowOK /\ CallsOK /\ DataOK
  BY DEF IInv
<1>2. c \in RowCalls
  BY <1>1 DEF ServeRow, CallsOK, CallOK, BulkCalls, BulkRequest
<1>3. PICK f \in c.req.folders : /\ meta' = [meta EXCEPT ![f] = c.req.tags]
                                 /\ calls' = Disturbed(calls \ {c}, f) \union {Succeeded(c, NoData)}
  BY DEF ServeRow
<1>4. f \in Folders /\ c.req.tags \in SUBSET Tags /\ c.req.op = "updateRecordingMeta"
  BY <1>2 DEF RowCalls, RowRequest
<1>5. \A e \in Disturbed(calls \ {c}, f) : CallOK(e)'
  <2>1. calls \ {c} \in SUBSET calls
    OBVIOUS
  <2> QED BY <1>1, <1>3, <1>4, <2>1, DisturbedKeeps
<1>6. CallOK(Succeeded(c, NoData))'
  <2>1. /\ Succeeded(c, NoData) \in RowCalls /\ Succeeded(c, NoData).req = c.req
        /\ Succeeded(c, NoData).due = c.due
    BY <1>2 DEF Succeeded, RowCalls, Stages
  <2>2. c.due \subseteq c.req.tags
    BY <1>1, <1>2, DialogOf DEF CallsOK, CallOK, ServeRow
  <2> QED BY <1>4, <2>1, <2>2 DEF CallOK
<1>7. CallsOK'
  BY <1>3, <1>5, <1>6 DEF CallsOK
<1>8. DataOK' /\ UNCHANGED <<bulk, single, list>>
  BY <1>1, <1>3, <1>4 DEF ServeRow, DataOK
<1> QED BY <1>1, <1>7, <1>8, SameBulk, SameRow DEF IInv

LEMMA WriteElsewhereKeeps ==
  ASSUME IInv, NEW f \in Folders, NEW t \in Tags, WriteElsewhere(f, t)
  PROVE  IInv'
<1>1. BulkOK /\ RowOK /\ CallsOK /\ DataOK
  BY DEF IInv
<1>2. PICK v \in SUBSET Tags : v = SymDiff(meta[f], {t})
  BY <1>1 DEF SymDiff, DataOK
<1>3. /\ meta' = [meta EXCEPT ![f] = v] /\ calls' = Disturbed(calls, f)
      /\ news' = news + 1 /\ news < MaxNews
      /\ UNCHANGED <<bulk, single, list>>
  BY <1>2 DEF WriteElsewhere
<1>4. CallsOK'
  BY <1>1, <1>3, DisturbedKeeps DEF CallsOK
<1>5. DataOK'
  BY <1>1, <1>3, BoundsAssumption DEF DataOK
<1> QED BY <1>1, <1>3, <1>4, <1>5, SameBulk, SameRow DEF IInv

-----------------------------------------------------------------------------

\* The invariant holds in every state of every behaviour.
THEOREM InvHolds == Spec => []IInv
<1>1. Init => IInv
  <2> SUFFICES ASSUME Init PROVE IInv
    OBVIOUS
  <2>1. Fresh /\ ChoiceExact
    BY DEF Init, Fresh, ChoiceExact, Checks, Unset
  <2>2. BulkOK
    BY <2>1 DEF Init, BulkOK
  <2>3. RowOK /\ CallsOK
    BY DEF Init, RowOK, CallsOK
  <2>4. DataOK
    <3>1. << >> \in [{} -> SUBSET Tags]
      OBVIOUS
    <3>2. << >> \in Metas
      BY <3>1 DEF Metas
    <3> QED BY <3>2, BoundsAssumption DEF Init, DataOK
  <2> QED BY <2>2, <2>3, <2>4 DEF IInv
<1>2. IInv /\ [Next]_vars => IInv'
  <2> SUFFICES ASSUME IInv, [Next]_vars PROVE IInv'
    OBVIOUS
  <2>0. BulkOK /\ RowOK /\ CallsOK /\ DataOK
    BY DEF IInv
  <2>1. CASE UNCHANGED vars
    BY <2>0, <2>1, SameBulk, SameRow, SameCalls, SameData DEF vars, IInv
  <2>2. CASE \E S \in SUBSET Folders : Select(S)
    <3>1. /\ checked' \in SUBSET Folders /\ ~BulkShown
          /\ UNCHANGED <<open, session, single, calls, list, meta, news>>
      BY <2>2 DEF Select, ListReached
    <3>2. BulkOK'
      BY <2>0, <3>1, SelectKeeps DEF BulkOK
    <3> QED BY <2>0, <3>1, <3>2, SameRow, SameCalls, SameData DEF IInv
  <2>3. CASE \E S \in SUBSET Folders : ReceiveList(S)
    BY <2>3, ReceiveListKeeps
  <2>4. CASE OpenBulk \/ CloseBulk
    <3>1. NewSession /\ open' \in BOOLEAN /\ UNCHANGED <<checked, single, calls, list, meta, news>>
      BY <2>4 DEF OpenBulk, CloseBulk
    <3>2. BulkOK'
      BY <2>0, <3>1, NewSessionKeeps DEF BulkOK
    <3> QED BY <2>0, <3>1, <3>2, SameRow, SameCalls, SameData DEF IInv
  <2>5. CASE LateClear
    <3>1. /\ NewSession /\ checked' = {} /\ calls' = Deaf(InFlight("bulkUpdateRecordingMeta"))
          /\ UNCHANGED <<open, single, list, meta, news>>
      BY <2>5 DEF LateClear
    <3>2. BulkOK'
      BY <2>0, <3>1, NewSessionKeeps DEF BulkOK
    <3>3. CallsOK'
      <4>1. \A c \in calls' : c \in calls \/ \E d \in calls : c = Unheard(d) \/ c = Threw(d)
        BY <3>1 DEF Deaf, InFlight
      <4> QED BY <2>0, <3>1, <4>1, OtherCalls
    <3> QED BY <2>0, <3>1, <3>2, <3>3, SameRow, SameData DEF IInv
  <2>6. CASE \/ CommitDraft \/ SetField
             \/ \E t \in Tags : Toggle(t)
             \/ \E t \in Tags \union {NoTag} : Type(t)
    <3>1. BulkOK'
      BY <2>6, CommitDraftKeeps, TypeKeeps, ToggleKeeps
    <3>2. UNCHANGED <<single, calls, list, meta, news>>
      BY <2>6 DEF CommitDraft, SetField, Toggle, Type
    <3> QED BY <2>0, <3>1, <3>2, SameRow, SameCalls, SameData DEF IInv
  <2>7. CASE SaveBulk \/ SaveRow
    BY <2>7, SaveBulkKeeps, SaveRowKeeps
  <2>8. CASE \/ \E f \in Folders : OpenRow(f)
             \/ \E t \in Tags \union {NoTag} : TypeInRow(t)
             \/ \E t \in Tags : RemoveTag(t)
             \/ CommitRowDraft \/ CloseRow
    BY <2>8, RowDialogKeeps
  <2>9. CASE \E c \in calls : ReceiveBulk(c) \/ ReceiveRow(c) \/ Lose(c)
    BY <2>9, AnswerKeeps
  <2>10. CASE \E c \in calls : \/ BulkWrite(c) \/ ServeRow(c)
                               \/ \E f \in Folders : BulkRead(c, f)
    BY <2>10, BulkWriteKeeps, ServeRowKeeps, BulkReadKeeps
  <2>11. CASE \E f \in Folders, t \in Tags : WriteElsewhere(f, t)
    BY <2>11, WriteElsewhereKeeps
  <2> QED BY <2>1, <2>2, <2>3, <2>4, <2>5, <2>6, <2>7, <2>8, <2>9, <2>10, <2>11 DEF Next
<1> QED BY <1>1, <1>2, PTL DEF Spec

\* The bulk dialog asks for what the operator chose, however often the list
\* comes anew under it, for all recordings and tags.
THEOREM RequestIsChoiceHolds == Spec => []RequestIsChoice
<1>1. IInv => RequestIsChoice
  <2> SUFFICES ASSUME IInv PROVE RequestIsChoice
    OBVIOUS
  <2>1. TypeOK /\ ChoiceExact
    BY Typed DEF IInv, BulkOK
  <2>2. ToAdd \subseteq Tags /\ ToRemove \subseteq Tags /\ RowTags \subseteq Tags
    BY <2>1, AskedForTags, RowTagsAre DEF TypeOK
  <2> QED BY <2>1, <2>2, AskedAsShown, AskedAsChosen DEF RequestIsChoice
<1> QED BY <1>1, InvHolds, PTL

\* A bulk request that succeeded left the recordings as the dialog showed them.
THEOREM SavedAsShownHolds == Spec => []SavedAsShown
<1>1. IInv => SavedAsShown
  BY DEF IInv, CallsOK, CallOK, OnItsWay, SavedAsShown, InFlight
<1> QED BY <1>1, InvHolds, PTL

\* What the dialog of a row, or its request, lacks of the tags on the screen, the
\* operator has removed.
THEOREM MissingWasRemovedHolds == Spec => []MissingWasRemoved
<1>1. IInv => MissingWasRemoved
  <2> SUFFICES ASSUME IInv PROVE MissingWasRemoved
    OBVIOUS
  <2>1. \A c \in InFlight("updateRecordingMeta") : c.due \subseteq c.req.tags
    BY DEF IInv, CallsOK, CallOK, InFlight
  <2>2. row # NoFolder => list[row] \ tags \subseteq dropped
    BY DEF IInv, RowOK
  <2> QED BY <2>1, <2>2, Typed DEF MissingWasRemoved
<1> QED BY <1>1, InvHolds, PTL
=============================================================================
