---------------------------- MODULE DetailProofs ----------------------------
(***************************************************************************)
(* The detail page shows no result that is not there, for all panels,      *)
(* sessions and bounds.                                                     *)
(***************************************************************************)
EXTENDS Detail, TLAPS

PageType == [folder : Folders \union {NoFolder}, tab : {"quality", "validation"}, open : BOOLEAN]

\* An answer may be about a panel: a result of an automatic one is on disk, and
\* only videos are there in part.
Backs(p, v) ==
  /\ Automatic(p) /\ v = "ready" => stored[p] = "ready"
  /\ v = "partial" => p[1] = "video"

\* What the queries hold, or are about to, may be about their panels.
Backed(qs) == \A p \in Panels : Backs(p, qs[Key[p]].data) /\ Backs(p, qs[Key[p]].answer)

\* So may the answers to the POSTs.
AnswersBacked(cs) == \A c \in cs : Backs(PanelOf[c.req], c.result)

\* The inductive invariant.
IInv ==
  /\ TypeOK
  /\ \A p \in Panels : stored[p] = "partial" => p[1] = "video"
  /\ Backed(cache)
  /\ AnswersBacked(calls)

-----------------------------------------------------------------------------
(* Keys and requests *)

\* Every panel has its own key.
LEMMA KeyIsOwn ==
  ASSUME NEW p \in Panels, NEW q \in Panels, Key[p] = Key[q]
  PROVE  p = q
<1> DEFINE Op(kind) == CASE kind = "quality" -> "getQuality"
                         [] kind = "timeline" -> "getTimeline"
                         [] kind = "validation" -> "getValidation"
                         [] kind = "video" -> "getVideoStatus"
                         [] kind = "upload" -> "getUpload"
<1>1. ASSUME NEW r \in Panels PROVE Key[r].op = Op(r[1]) /\ Key[r].folders = {r[2]}
  BY PanelsAssumption
     DEF Key, Kinds, GetQuality, GetTimeline, GetValidation, GetVideoStatus, GetUpload
<1> HIDE DEF Op
<1>2. Op(p[1]) = Op(q[1]) /\ {p[2]} = {q[2]}
  BY <1>1
<1>3. p[1] = q[1]
  BY <1>2, PanelsAssumption DEF Kinds, Op
<1>4. p[2] = q[2]
  BY <1>2
<1> QED BY <1>3, <1>4, PanelsAssumption

\* A call belongs to a panel.
LEMMA PanelOfCall ==
  ASSUME NEW c \in CallType
  PROVE  PanelOf[c.req] \in Panels
<1>1. c.req \in Range(Post)
  BY DEF CallType, Range, Post
<1>2. \E p \in Panels : c.req \in Range(Post) => Post[p] = c.req
  BY <1>1 DEF CallType
<1> QED BY <1>1, <1>2 DEF PanelOf, Inverse

LEMMA KeyIsKey ==
  ASSUME NEW p \in Panels
  PROVE  Key[p] \in Keys
BY DEF Keys, Range, Key

-----------------------------------------------------------------------------
(* Queries *)

\* What the operations on a query make of it.
LEMMA QuerySteps ==
  ASSUME NEW q \in Query(Status), NEW v \in Status \union {NoData}
  PROVE  /\ \A r \in {Fetch(q), Refetch(q), Dropped(q)} :
              r \in Query(Status) /\ r.data = q.data /\ r.answer \in {q.answer, NoData}
         /\ Applied(q) \in Query(Status) /\ Applied(q).data = q.answer
         /\ Applied(q).answer = NoData
         /\ Answered(q, v) \in Query(Status) /\ Answered(q, v).data = q.data
         /\ Answered(q, v).answer = v
         /\ Written(q, v) \in Query(Status) /\ Written(q, v).data = v
         /\ Written(q, v).answer = q.answer
BY DEF Query, Fetch, Refetch, Dropped, Applied, Answered, Written

\* A step that replaces the query of one panel by one that says nothing new.
LEMMA OneQuery ==
  ASSUME TypeOK, NEW p \in Panels, NEW q \in Query(Status),
         Backs(p, q.data), Backs(p, q.answer), Backed(cache)
  PROVE  /\ [cache EXCEPT ![Key[p]] = q] \in [Keys -> Query(Status)]
         /\ Backed([cache EXCEPT ![Key[p]] = q])
<1> DEFINE qs == [cache EXCEPT ![Key[p]] = q]
<1>1. cache \in [Keys -> Query(Status)]
  BY DEF TypeOK
<1>2. qs \in [Keys -> Query(Status)]
  BY <1>1, KeyIsKey
<1>3. qs[Key[p]] = q
  BY <1>1, KeyIsKey
<1>4. \A r \in Panels \ {p} : qs[Key[r]] = cache[Key[r]]
  BY <1>1, KeyIsKey, KeyIsOwn
<1> HIDE DEF qs
<1>5. Backed(qs)
  BY <1>3, <1>4 DEF Backed
<1> QED BY <1>2, <1>5 DEF qs

\* Everything a step keeps that lets the disk alone.
LEMMA ClientKeeps ==
  ASSUME IInv, page' \in PageType, cache' \in [Keys -> Query(Status)], Backed(cache'),
         calls' \subseteq CallType, AnswersBacked(calls'),
         live' \subseteq Panels, missed' \subseteq Panels, active' \subseteq Panels,
         news' \in [Panels -> Seq({"active", "ended"})], stored' = stored
  PROVE  IInv'
<1>1. TypeOK'
  BY DEF IInv, TypeOK, PageType
<1>2. Backed(cache)'
  BY DEF Backed, Backs
<1>3. AnswersBacked(calls)'
  BY DEF AnswersBacked, Backs
<1> QED BY <1>1, <1>2, <1>3 DEF IInv

-----------------------------------------------------------------------------
(* The screen *)

\* Render drops and fetches, and leaves the data of every query alone.
LEMMA RenderShows ==
  ASSUME TypeOK, NEW pg \in PageType, NEW qs \in [Keys -> Query(Status)],
         NEW cs \in SUBSET CallType, Render(pg, qs, cs)
  PROVE  /\ page' \in PageType
         /\ cache' \in [Keys -> Query(Status)]
         /\ \A k \in Keys : /\ cache'[k].data = qs[k].data
                            /\ cache'[k].answer \in {qs[k].answer, NoData}
         /\ calls' \subseteq CallType
         /\ \A c \in calls' : \E d \in cs : c.req = d.req /\ c.result = d.result
<1> DEFINE stays(kind) == Mounted(page, cache, kind) /\ Mounted(pg, qs, kind)
           next == [pg EXCEPT !.open = @ /\ stays("video")]
           seen(k) == Observed(next, qs, PanelAt[k])
           shown(k) == CASE seen(k) = Seen(PanelAt[k]) -> qs[k]
                         [] seen(k) /\ ~Seen(PanelAt[k]) -> Fetch(qs[k])
                         [] ~seen(k) /\ Seen(PanelAt[k]) -> Dropped(qs[k])
<1>1. /\ page' = next /\ cache' = [k \in Keys |-> shown(k)]
      /\ calls' = {IF stays(KindOf(c)) THEN c ELSE Unheard(c) : c \in cs}
  BY DEF Render
<1>2. next \in PageType
  <2>1. pg.open \in BOOLEAN /\ stays("video") \in BOOLEAN
    BY DEF PageType, Mounted
  <2>2. (pg.open /\ stays("video")) \in BOOLEAN
    BY <2>1
  <2> HIDE DEF stays
  <2> QED BY <2>2 DEF PageType
<1>3. ASSUME NEW k \in Keys PROVE shown(k) \in {qs[k], Fetch(qs[k]), Dropped(qs[k])}
  <2>1. seen(k) \in BOOLEAN /\ Seen(PanelAt[k]) \in BOOLEAN
    BY DEF Observed, Seen
  <2> HIDE DEF seen
  <2> QED BY <2>1
<1>4. \A k \in Keys : /\ shown(k) \in Query(Status) /\ shown(k).data = qs[k].data
                      /\ shown(k).answer \in {qs[k].answer, NoData}
  <2> HIDE DEF shown
  <2> QED BY <1>3, QuerySteps
<1>5. ASSUME NEW c \in CallType
      PROVE  Unheard(c) \in CallType /\ Unheard(c).req = c.req /\ Unheard(c).result = c.result
  BY DEF CallType, Unheard
<1>6. /\ calls' \subseteq CallType
      /\ \A c \in calls' : \E d \in cs : c.req = d.req /\ c.result = d.result
  <2> HIDE DEF stays
  <2> QED BY <1>1, <1>5
<1> HIDE DEF next, shown
<1> QED BY <1>1, <1>2, <1>4, <1>6

\* A step of the page keeps the invariant if what it renders says nothing new.
LEMMA RenderKeeps ==
  ASSUME IInv, NEW pg \in PageType, NEW qs \in [Keys -> Query(Status)], Backed(qs),
         NEW cs \in SUBSET CallType, AnswersBacked(cs),
         Render(pg, qs, cs), UNCHANGED <<live, news, server>>, missed' \subseteq Panels
  PROVE  IInv'
<1>1. /\ page' \in PageType
      /\ cache' \in [Keys -> Query(Status)]
      /\ \A k \in Keys : /\ cache'[k].data = qs[k].data
                         /\ cache'[k].answer \in {qs[k].answer, NoData}
      /\ calls' \subseteq CallType
      /\ \A c \in calls' : \E d \in cs : c.req = d.req /\ c.result = d.result
  BY RenderShows DEF IInv
<1>2. Backed(cache')
  BY <1>1, KeyIsKey, DataAssumption DEF Backed, Backs, Status
<1>3. AnswersBacked(calls')
  BY <1>1 DEF AnswersBacked
<1> QED BY <1>1, <1>2, <1>3, ClientKeeps DEF IInv, TypeOK, server

LEMMA PageKeeps ==
  ASSUME IInv,
         \/ \E f \in Folders : Open(f)
         \/ Leave \/ TogglePreview
         \/ \E tab \in {"quality", "validation"} : SelectTab(tab)
  PROVE  IInv'
<1>1. page \in PageType /\ cache \in [Keys -> Query(Status)] /\ calls \subseteq CallType
  BY DEF IInv, TypeOK, PageType
<1>2. PICK pg \in PageType : Render(pg, cache, calls)
  <2>1. ASSUME NEW f \in Folders, Open(f) PROVE \E pg \in PageType : Render(pg, cache, calls)
    <3>1. [page EXCEPT !.folder = f] \in PageType
      BY <1>1 DEF PageType
    <3> QED BY <2>1, <3>1 DEF Open
  <2>2. ASSUME Leave PROVE \E pg \in PageType : Render(pg, cache, calls)
    BY <2>2 DEF Leave, Closed, PageType
  <2>3. ASSUME TogglePreview PROVE \E pg \in PageType : Render(pg, cache, calls)
    <3>1. [page EXCEPT !.open = ~page.open] \in PageType
      BY <1>1 DEF PageType
    <3> QED BY <2>3, <3>1 DEF TogglePreview
  <2>4. ASSUME NEW tab \in {"quality", "validation"}, SelectTab(tab)
        PROVE  \E pg \in PageType : Render(pg, cache, calls)
    <3>1. [page EXCEPT !.tab = tab] \in PageType
      BY <1>1 DEF PageType
    <3> QED BY <2>4, <3>1 DEF SelectTab
  <2> QED BY <2>1, <2>2, <2>3, <2>4
<1>3. UNCHANGED <<live, news, server>> /\ missed' \subseteq Panels
  BY DEF IInv, TypeOK, Open, Leave, TogglePreview, SelectTab, MadeUp
<1> QED BY <1>1, <1>2, <1>3, RenderKeeps DEF IInv

-----------------------------------------------------------------------------
(* Queries and POSTs *)

LEMMA GetKeeps ==
  ASSUME IInv, NEW p \in Panels, Poll(p) \/ ServeGet(p) \/ ReceiveGet(p) \/ GetGivesUp(p)
  PROVE  IInv'
<1> DEFINE q == cache[Key[p]]
<1>1. /\ page \in PageType /\ calls \subseteq CallType /\ missed \subseteq Panels
      /\ TypeOK /\ Backed(cache) /\ AnswersBacked(calls)
      /\ stored \in [Panels -> Status] /\ (stored[p] = "partial" => p[1] = "video")
  BY DEF IInv, TypeOK, PageType
<1>2. q \in Query(Status)
  BY <1>1, KeyIsKey DEF TypeOK
<1>3. Backs(p, q.data) /\ Backs(p, q.answer) /\ Backs(p, NoData)
  BY <1>1, DataAssumption DEF Backed, Backs, Status
<1>4. CASE Poll(p) \/ ServeGet(p) \/ GetGivesUp(p)
  <2>1. /\ UNCHANGED <<page, calls, live, news, server>>
        /\ missed' \subseteq Panels
    BY <1>1, <1>4 DEF Poll, ServeGet, GetGivesUp, MadeUp
  <2>2. Answer(p) \in Status /\ Backs(p, Answer(p))
    BY <1>1 DEF Answer, Backs, Status
  <2>3. PICK r \in {Fetch(q), Answered(q, Answer(p)), Dropped(q)} :
          cache' = [cache EXCEPT ![Key[p]] = r]
    BY <1>4 DEF Poll, ServeGet, GetGivesUp
  <2>4. r \in Query(Status) /\ Backs(p, r.data) /\ Backs(p, r.answer)
    <3> HIDE DEF q
    <3>1. /\ r \in Query(Status) /\ r.data = q.data
          /\ r.answer \in {q.answer, NoData, Answer(p)}
      BY <1>2, <2>2, QuerySteps
    <3> QED BY <1>3, <2>2, <3>1
  <2>5. cache' \in [Keys -> Query(Status)] /\ Backed(cache')
    BY <1>1, <2>3, <2>4, OneQuery
  <2> QED BY <1>1, <2>1, <2>5, ClientKeeps DEF TypeOK, server
<1>5. CASE ReceiveGet(p)
  <2>1. /\ Render(page, [cache EXCEPT ![Key[p]] = Applied(q)], calls)
        /\ UNCHANGED <<live, news, server>> /\ missed' \subseteq Panels
    BY <1>1, <1>5 DEF ReceiveGet, MadeUp
  <2>2. /\ Applied(q) \in Query(Status)
        /\ Backs(p, Applied(q).data) /\ Backs(p, Applied(q).answer)
    <3> HIDE DEF q
    <3> QED BY <1>2, <1>3, QuerySteps
  <2>3. /\ [cache EXCEPT ![Key[p]] = Applied(q)] \in [Keys -> Query(Status)]
        /\ Backed([cache EXCEPT ![Key[p]] = Applied(q)])
    BY <1>1, <2>2, OneQuery
  <2> HIDE DEF q
  <2> QED BY <1>1, <2>1, <2>3, RenderKeeps
<1> QED BY <1>4, <1>5

\* The events of a panel stay events.
LEMMA ToldEvents ==
  ASSUME TypeOK, NEW p \in Panels, NEW what \in {"active", "ended"}, Told(p, what)
  PROVE  news' \in [Panels -> Seq({"active", "ended"})]
BY DEF TypeOK, Told

LEMMA PostKeeps ==
  ASSUME IInv,
         \/ \E p \in Panels : Start(p) \/ PressUpload(p)
         \/ \E c \in calls : ServePost(c) \/ ReceivePost(c) \/ LosePost(c)
  PROVE  IInv'
<1>1. /\ page \in PageType /\ calls \subseteq CallType /\ missed \subseteq Panels
      /\ cache \in [Keys -> Query(Status)] /\ stored \in [Panels -> Status]
      /\ TypeOK /\ Backed(cache) /\ AnswersBacked(calls)
      /\ \A p \in Panels : stored[p] = "partial" => p[1] = "video"
  BY DEF IInv, TypeOK, PageType
<1>2. ASSUME NEW p \in Panels, Start(p) \/ PressUpload(p) PROVE IInv'
  <2>1. /\ calls' = calls \union {Call(Post[p])}
        /\ UNCHANGED <<page, cache, live, news, server, missed>>
    BY <1>2 DEF Start, PressUpload
  <2>2. Call(Post[p]) \in CallType /\ Call(Post[p]).result \notin Status
    BY DataAssumption DEF Call, CallType
  <2>3. calls' \subseteq CallType /\ AnswersBacked(calls')
    BY <1>1, <2>1, <2>2 DEF AnswersBacked, Backs, Status
  <2> QED BY <1>1, <2>1, <2>3, ClientKeeps DEF TypeOK, server
<1>3. ASSUME NEW c \in calls, ServePost(c) PROVE IInv'
  <2>1. PICK p \in Panels : p = PanelOf[c.req]
    BY <1>1, PanelOfCall
  <2>2. /\ calls' = (calls \ {c}) \union {Succeeded(c, StartAnswer(p))}
        /\ \/ active' = active \union {p} /\ Told(p, "active")
           \/ UNCHANGED <<active, news>>
        /\ UNCHANGED <<page, cache, live, missed, stored>>
    BY <1>3, <2>1 DEF ServePost
  <2>3. StartAnswer(p) \in Status /\ Backs(p, StartAnswer(p))
    BY <1>1 DEF StartAnswer, Found, Backs, Status
  <2>4. /\ Succeeded(c, StartAnswer(p)) \in CallType
        /\ Succeeded(c, StartAnswer(p)).req = c.req
        /\ Succeeded(c, StartAnswer(p)).result = StartAnswer(p)
    BY <1>1, <2>3 DEF Succeeded, CallType
  <2>5. calls' \subseteq CallType /\ AnswersBacked(calls')
    BY <1>1, <2>1, <2>2, <2>3, <2>4 DEF AnswersBacked
  <2>6. active' \subseteq Panels /\ news' \in [Panels -> Seq({"active", "ended"})]
    BY <1>1, <2>2, ToldEvents DEF TypeOK
  <2> QED BY <1>1, <2>2, <2>5, <2>6, ClientKeeps DEF TypeOK
<1>4. ASSUME NEW c \in calls, ReceivePost(c) PROVE IInv'
  <2>1. PICK p \in Panels : p = PanelOf[c.req]
    BY <1>1, PanelOfCall
  <2> DEFINE qs == [k \in Keys |-> IF k = WrittenTo(c) THEN Written(cache[k], c.result)
                              ELSE cache[k]]
  <2>2. /\ Render(page, qs, calls \ {c})
        /\ UNCHANGED <<live, news, server>> /\ missed' \subseteq Panels
    BY <1>1, <1>4, PanelOfCall DEF ReceivePost
  <2>3. c.result \in Status \union {NoData}
    BY <1>1 DEF CallType
  <2>4. qs \in [Keys -> Query(Status)]
    <3>1. ASSUME NEW k \in Keys PROVE qs[k] \in Query(Status)
      BY <1>1, <2>3, QuerySteps
    <3> QED BY <3>1
  <2>5. Backed(qs)
    <3> SUFFICES ASSUME NEW r \in Panels
                 PROVE  Backs(r, qs[Key[r]].data) /\ Backs(r, qs[Key[r]].answer)
      BY DEF Backed
    <3>1. Key[r] \in Keys
      BY KeyIsKey
    <3>2. CASE r = p
      <4>1. qs[Key[r]] = Written(cache[Key[p]], c.result)
        BY <2>1, <3>1, <3>2 DEF WrittenTo
      <4>2. qs[Key[r]].data = c.result /\ qs[Key[r]].answer = cache[Key[p]].answer
        <5>1. cache[Key[p]] \in Query(Status)
          BY <1>1, <3>1, <3>2
        <5> HIDE DEF qs
        <5> QED BY <4>1, <5>1 DEF Written, Query
      <4> HIDE DEF qs
      <4> QED BY <1>1, <2>1, <3>2, <4>2 DEF Backed, AnswersBacked
    <3>3. CASE r # p
      <4>1. qs[Key[r]] = cache[Key[r]]
        BY <2>1, <3>1, <3>3, KeyIsOwn DEF WrittenTo
      <4> HIDE DEF qs
      <4> QED BY <1>1, <4>1 DEF Backed
    <3> QED BY <3>2, <3>3
  <2>6. calls \ {c} \in SUBSET CallType /\ AnswersBacked(calls \ {c})
    BY <1>1 DEF AnswersBacked
  <2> HIDE DEF qs
  <2> QED BY <1>1, <2>2, <2>4, <2>5, <2>6, RenderKeeps
<1>5. ASSUME NEW c \in calls, LosePost(c) PROVE IInv'
  <2>1. calls' = calls \ {c} /\ UNCHANGED <<page, cache, live, news, server, missed>>
    BY <1>5 DEF LosePost
  <2>2. calls' \subseteq CallType /\ AnswersBacked(calls')
    BY <1>1, <2>1 DEF AnswersBacked
  <2> QED BY <1>1, <2>1, <2>2, ClientKeeps DEF TypeOK, server
<1> QED BY <1>2, <1>3, <1>4, <1>5

-----------------------------------------------------------------------------
(* Jobs and events *)

\* A result that an automatic panel has is never taken back.
LEMMA JobKeeps ==
  ASSUME IInv, NEW p \in Panels, Schedule(p) \/ JobSaves(p) \/ JobEnds(p)
  PROVE  IInv'
<1>1. /\ active \subseteq Panels /\ stored \in [Panels -> Status] /\ TypeOK
      /\ Backed(cache) /\ AnswersBacked(calls) /\ calls \subseteq CallType
      /\ news \in [Panels -> Seq({"active", "ended"})]
      /\ \A r \in Panels : stored[r] = "partial" => r[1] = "video"
  BY DEF IInv, TypeOK
<1>2. UNCHANGED <<page, cache, calls, live, missed>>
  BY DEF Schedule, JobSaves, JobEnds, client
<1>3. active' \subseteq Panels
  BY <1>1 DEF Schedule, JobSaves, JobEnds
<1>4. news' \in [Panels -> Seq({"active", "ended"})]
  BY <1>1, ToldEvents DEF Schedule, JobSaves, JobEnds
<1>5. /\ stored' \in [Panels -> Status]
      /\ \A r \in Panels : Automatic(r) /\ stored[r] = "ready" => stored'[r] = "ready"
      /\ \A r \in Panels : stored'[r] = "partial" => r[1] = "video"
  <2>1. CASE Schedule(p)
    BY <1>1, <2>1 DEF Schedule
  <2>2. CASE JobSaves(p)
    BY <1>1, <2>2 DEF JobSaves, Automatic, Status
  <2>3. CASE JobEnds(p)
    <3>1. PICK s \in Outcomes(p) : stored' = [stored EXCEPT ![p] = s]
      BY <2>3 DEF JobEnds
    <3>2. /\ s \in Status /\ (Automatic(p) /\ stored[p] = "ready" => s = "ready")
          /\ s = "partial" => stored[p] = "partial"
      BY <1>1 DEF Outcomes, Status
    <3> QED BY <1>1, <3>1, <3>2
  <2> QED BY <2>1, <2>2, <2>3
<1>6. TypeOK'
  BY <1>1, <1>2, <1>3, <1>4, <1>5 DEF TypeOK
<1>7. Backed(cache)'
  BY <1>1, <1>2, <1>5 DEF Backed, Backs
<1>8. AnswersBacked(calls)'
  BY <1>1, <1>2, <1>5, PanelOfCall DEF AnswersBacked, Backs
<1> QED BY <1>5, <1>6, <1>7, <1>8 DEF IInv

LEMMA EventKeeps ==
  ASSUME IInv, (\E p \in Panels : Deliver(p)) \/ Reconnect
  PROVE  IInv'
<1>1. /\ page \in PageType /\ calls \subseteq CallType /\ missed \subseteq Panels
      /\ cache \in [Keys -> Query(Status)] /\ live \subseteq Panels /\ active \subseteq Panels
      /\ news \in [Panels -> Seq({"active", "ended"})]
      /\ TypeOK /\ Backed(cache) /\ AnswersBacked(calls)
  BY DEF IInv, TypeOK, PageType
<1>2. ASSUME NEW p \in Panels, Deliver(p) PROVE IInv'
  <2>1. UNCHANGED <<page, calls, server>>
    BY <1>2 DEF Deliver
  <2>2. news' \in [Panels -> Seq({"active", "ended"})]
    BY <1>1, <1>2 DEF Deliver
  <2>3. live' \subseteq Panels /\ missed' \subseteq Panels
    BY <1>1, <1>2 DEF Deliver
  <2>4. Invalidate(p[1]) \/ cache' = cache
    BY <1>2 DEF Deliver
  <2>5. /\ cache' \in [Keys -> Query(Status)]
        /\ \A k \in Keys : /\ cache'[k].data = cache[k].data
                           /\ cache'[k].answer \in {cache[k].answer, NoData}
    <3>1. CASE cache' = cache
      BY <1>1, <3>1
    <3>2. CASE Invalidate(p[1])
      <4>1. PICK pick \in [Keys -> BOOLEAN] :
              cache' = [k \in Keys |-> IF pick[k] THEN Refetch(cache[k]) ELSE cache[k]]
        <5> DEFINE pick == [k \in Keys |-> k \in Invalidated(p[1]) /\ Seen(PanelAt[k])]
        <5>1. pick \in [Keys -> BOOLEAN]
          BY DEF Seen, Observed
        <5> QED BY <3>2, <5>1 DEF Invalidate
      <4>2. ASSUME NEW k \in Keys
            PROVE  /\ cache'[k] \in Query(Status)
                   /\ cache'[k].data = cache[k].data
                   /\ cache'[k].answer \in {cache[k].answer, NoData}
        <5>1. cache[k] \in Query(Status)
          BY <1>1
        <5>2. cache'[k] \in {cache[k], Refetch(cache[k])}
          BY <4>1
        <5> QED BY <5>1, <5>2, QuerySteps
      <4> QED BY <4>1, <4>2
    <3> QED BY <2>4, <3>1, <3>2
  <2>6. Backed(cache')
    BY <1>1, <2>5, KeyIsKey, DataAssumption DEF Backed, Backs, Status
  <2> QED BY <1>1, <2>1, <2>2, <2>3, <2>5, <2>6, ClientKeeps DEF server
<1>3. ASSUME Reconnect PROVE IInv'
  <2>1. /\ missed' \subseteq Panels /\ live' \subseteq Panels
        /\ news' \in [Panels -> Seq({"active", "ended"})]
        /\ UNCHANGED <<page, cache, calls, server>>
    BY <1>1, <1>3 DEF Reconnect
  <2> QED BY <1>1, <2>1, ClientKeeps DEF server
<1> QED BY <1>2, <1>3

-----------------------------------------------------------------------------

\* The invariant holds in every state of every behaviour.
THEOREM InvHolds == Spec => []IInv
<1>1. Init => IInv
  <2> SUFFICES ASSUME Init PROVE IInv
    OBVIOUS
  <2>1. NewQuery \in Query(Status) /\ NewQuery.data \notin Status /\ NewQuery.answer \notin Status
    BY DataAssumption DEF NewQuery, Query
  <2>2. cache \in [Keys -> Query(Status)] /\ Backed(cache)
    BY <2>1, KeyIsKey DEF Init, Backed, Backs, Status
  <2>3. active \subseteq Panels /\ live \subseteq Panels
    BY SessionsAssumption DEF Init
  <2>4. TypeOK
    BY <2>2, <2>3 DEF Init, TypeOK, Closed, Status
  <2> QED BY <2>2, <2>4 DEF Init, IInv, AnswersBacked
<1>2. IInv /\ [Next]_vars => IInv'
  <2> SUFFICES ASSUME IInv, [Next]_vars PROVE IInv'
    OBVIOUS
  <2>1. CASE UNCHANGED vars
    BY <2>1 DEF vars, client, server, IInv, TypeOK, Backed, AnswersBacked, Backs
  <2>2. CASE Step
    BY <2>2, PageKeeps, GetKeeps, PostKeeps, JobKeeps, EventKeeps DEF Step
  <2> QED BY <2>1, <2>2 DEF Next
<1> QED BY <1>1, <1>2, PTL DEF Spec

\* The page shows no result of a job that has not left one, but for videos that
\* are still being made, for all recordings, panels and orders of answers, events
\* and losses.
THEOREM ReadyIsRealHolds == Spec => []ReadyIsReal
<1>1. IInv => ReadyIsReal
  BY DEF IInv, Backed, Backs, ReadyIsReal, Data
<1> QED BY <1>1, InvHolds, PTL
=============================================================================
