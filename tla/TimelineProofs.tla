--------------------------- MODULE TimelineProofs ---------------------------
(***************************************************************************)
(* Proofs about Timeline, for every duration, every set of loss events and *)
(* every value of the limits, steps and grids:                             *)
(*  - Spec => []ViewInside and Spec => []RugIsCurrent.                     *)
(* Every action goes through Render, so that RenderInv does the work once: *)
(* an action has to show that the store it hands to Render is well-formed. *)
(* The invariant says in addition that a drag started inside the recording,*)
(* that the playhead is within the recording it was set on, and that a rug *)
(* plot that asks for nothing has the messages of its very key.            *)
(***************************************************************************)
EXTENDS Timeline, TLAPS

\* The playhead is within the recording it was last set on, but for the rounding.
HeadOK(st) ==
  /\ st.headOf \in Folders => st.playhead <= Dur[st.headOf] + Slack
  /\ st.headOf = NoFolder => st.playhead = 0

\* ViewInside, of a page, its timelines and a store.
ViewOK(pg, rd, st) ==
  Visible(pg, rd) =>
    /\ st.dur = Dur[pg.folder] /\ st.view.to <= st.dur + Slack
    /\ 0 < st.dur => st.view.from < st.view.to /\ st.view.from < st.dur

\* A drag began in view, inside the recording that still is.
DragOK(pg, rd, st, dr) ==
  dr # NotDragged =>
    /\ Visible(pg, rd)
    /\ dr.mode \in {"left", "right", "move"}
    /\ dr.from < dr.to /\ dr.from < st.dur /\ dr.to <= st.dur + Slack

\* A rug plot that asks for nothing has what it would ask for.
RugExact ==
  /\ rug.get = "sent" => HasRug(page, ready, store)
  /\ Enabled(page, ready, store, drag) /\ rug.get = "none" => rug.shown = MessagesKey(page, store)

\* The inductive invariant.
IInv ==
  /\ TypeOK
  /\ HeadOK(store) /\ ViewOK(page, ready, store) /\ DragOK(page, ready, store, drag)
  /\ RugExact

-----------------------------------------------------------------------------
(* Arithmetic *)

\* Rounding down to a multiple stays below, and within one step.
LEMMA DivLemma ==
  ASSUME NEW n \in Nat, NEW d \in Positive
  PROVE  /\ n \div d \in Nat
         /\ (n \div d) * d \in Nat
         /\ (n \div d) * d <= n
         /\ n < (n \div d) * d + d
  BY DEF Positive

\* The range that is fetched is one, and covers the view it was made for.
LEMMA FetchRangeCovers ==
  ASSUME NEW v \in View
  PROVE  /\ FetchRange(v).from \in Nat /\ FetchRange(v).to \in Nat
         /\ FetchRange(v).from <= v.from
         /\ v.to <= FetchRange(v).to
  <1> DEFINE low == Upper(0, v.from - Buffer)
             high == v.to + Buffer + Grid - 1
  <1>1. /\ v.from \in Nat /\ v.to \in Nat /\ Buffer \in Nat /\ Grid \in Positive
    BY ConstantsAssumption DEF View
  <1>2. low \in Nat /\ low <= v.from /\ high \in Nat
    BY <1>1 DEF Upper, Positive
  <1>3. /\ (low \div Grid) * Grid \in Nat /\ (low \div Grid) * Grid <= low
        /\ (high \div Grid) * Grid \in Nat /\ high < (high \div Grid) * Grid + Grid
    <2> HIDE DEF low, high
    <2> QED BY <1>1, <1>2, DivLemma
  <1>4. FetchRange(v) = [from |-> (low \div Grid) * Grid, to |-> (high \div Grid) * Grid]
    BY DEF FetchRange, Ceil
  <1>5. v.to <= (high \div Grid) * Grid
    <2> DEFINE m == (high \div Grid) * Grid
    <2>1. m \in Nat /\ high < m + Grid
      BY <1>3
    <2> HIDE DEF m
    <2>2. v.to <= m
      BY <1>1, <2>1 DEF Positive
    <2> QED BY <2>2 DEF m
  <1> QED BY <1>1, <1>2, <1>3, <1>4, <1>5

-----------------------------------------------------------------------------
(* The rug plot *)

\* The messages of a rug plot on the screen have a key.
LEMMA KeyType ==
  ASSUME NEW pg \in Page, NEW rd \in SUBSET Folders, NEW st \in Store, HasRug(pg, rd, st)
  PROVE  MessagesKey(pg, st) \in Keys
  <1>1. pg.folder \in Folders /\ st.topic \in Topics /\ st.view \in View
    BY DEF HasRug, Visible, Page, Store
  <1>2. FetchRange(st.view).from \in Nat /\ FetchRange(st.view).to \in Nat
    BY <1>1, FetchRangeCovers
  <1> QED BY <1>1, <1>2 DEF MessagesKey, GetTimelineMessages, Keys

\* What the rug plot has after a render: nothing to ask for only if it has the
\* messages of its key.
LEMMA RugAfterExact ==
  ASSUME TypeOK, RugExact,
         NEW pg \in Page, NEW rd \in SUBSET Folders, NEW st \in Store, NEW dr \in DragState,
         NEW inCache \in BOOLEAN
  PROVE  LET r == RugAfter(pg, rd, st, dr, inCache)
         IN  /\ r \in [shown : Keys \union {NoKey}, get : {"none", "sent", "failed"}]
             /\ r.get = "sent" => HasRug(pg, rd, st)
             /\ Enabled(pg, rd, st, dr) /\ r.get = "none" => r.shown = MessagesKey(pg, st)
  <1> DEFINE r == RugAfter(pg, rd, st, dr, inCache)
             key == MessagesKey(pg, st)
             same == HasRug(page, ready, store) /\ key = MessagesKey(page, store)
             has == IF same THEN rug.shown = key ELSE inCache
             now == Enabled(page, ready, store, drag)
             then == Enabled(pg, rd, st, dr)
  <1>1. /\ rug.shown \in Keys \union {NoKey} /\ rug.get \in {"none", "sent", "failed"}
        /\ now /\ rug.get = "none" => rug.shown = MessagesKey(page, store)
    BY DEF TypeOK, RugExact
  <1>2. CASE ~HasRug(pg, rd, st)
    <2>1. r = NoRug /\ ~then
      BY <1>2 DEF RugAfter, Enabled
    <2> QED BY <1>2, <2>1 DEF NoRug
  <1>3. CASE HasRug(pg, rd, st)
    <2>1. key \in Keys
      BY <1>3, KeyType
    <2>2. /\ r.shown = IF has THEN key ELSE rug.shown
          /\ r.get = IF same /\ rug.get = "sent" THEN "sent"
                     ELSE IF has THEN "none"
                     ELSE IF then /\ ~(same /\ now) THEN "sent"
                     ELSE IF same THEN rug.get ELSE "none"
          /\ r = [shown |-> r.shown, get |-> r.get]
      BY <1>3 DEF RugAfter
    <2> HIDE DEF r, key, now, then
    <2>3. r.shown \in Keys \union {NoKey} /\ r.get \in {"none", "sent", "failed"}
      BY <1>1, <2>1, <2>2
    <2>4. then /\ r.get = "none" => r.shown = key
      BY <1>1, <2>2
    <2> QED BY <1>3, <2>2, <2>3, <2>4 DEF r, key, then
  <1> QED BY <1>2, <1>3

-----------------------------------------------------------------------------
(* Render *)

\* A render keeps the invariant if the store it is given is well-formed: inside
\* the recording where its timeline stays in view, anything where it comes into
\* view, since that resets the view.
LEMMA RenderInv ==
  ASSUME IInv,
         NEW pg \in Page, NEW rd \in SUBSET Folders, NEW st \in Store, NEW dr \in DragState,
         HeadOK(st),
         Showing /\ pg.folder = page.folder => ViewOK(pg, rd, st),
         DragOK(pg, rd, st, dr),
         dr # NotDragged => Showing /\ pg.folder = page.folder,
         Render(pg, rd, st, dr)
  PROVE  IInv'
  <1> DEFINE fresh == Visible(pg, rd) /\ ~(Showing /\ pg.folder = page.folder)
             next == IF fresh THEN SetDuration(st, Dur[pg.folder]) ELSE st
  <1>1. PICK inCache \in BOOLEAN :
          /\ page' = pg /\ ready' = rd /\ store' = next /\ drag' = dr
          /\ rug' = RugAfter(pg, rd, next, dr, inCache)
    BY DEF Render
  <1>2. Visible(pg, rd) => Dur[pg.folder] \in Nat
    BY DurAssumption DEF Visible
  <1>3. next \in Store /\ HeadOK(next) /\ ViewOK(pg, rd, next)
    <2>1. CASE fresh
      <3> DEFINE d == Dur[pg.folder]
      <3>1. d \in Nat
        BY <1>2, <2>1
      <3>2. next = [st EXCEPT !.dur = d, !.view = [from |-> 0, to |-> d]]
        BY <2>1 DEF SetDuration
      <3> HIDE DEF d, next
      <3>3. /\ next \in Store /\ next.dur = d /\ next.view = [from |-> 0, to |-> d]
            /\ next.headOf = st.headOf /\ next.playhead = st.playhead
        BY <3>1, <3>2 DEF Store, View
      <3>4. ViewOK(pg, rd, next)
        BY <3>1, <3>3, LossesAssumption DEF ViewOK, d
      <3> QED BY <3>3, <3>4 DEF HeadOK
    <2>2. CASE ~fresh
      BY <2>2 DEF ViewOK
    <2> QED BY <2>1, <2>2
  <1>4. DragOK(pg, rd, next, dr)
    <2>1. CASE dr = NotDragged
      BY <2>1 DEF DragOK
    <2>2. CASE dr # NotDragged
      <3>1. next = st
        BY <2>2
      <3> QED BY <3>1
    <2> QED BY <2>1, <2>2
  <1> HIDE DEF next
  <1>5. LET r == RugAfter(pg, rd, next, dr, inCache)
        IN  /\ r \in [shown : Keys \union {NoKey}, get : {"none", "sent", "failed"}]
            /\ r.get = "sent" => HasRug(pg, rd, next)
            /\ Enabled(pg, rd, next, dr) /\ r.get = "none" => r.shown = MessagesKey(pg, next)
    BY <1>3, RugAfterExact DEF IInv
  <1>6. TypeOK'
    BY <1>1, <1>3, <1>5 DEF TypeOK
  <1>7. RugExact'
    BY <1>1, <1>5 DEF RugExact
  <1> QED BY <1>1, <1>3, <1>4, <1>6, <1>7 DEF IInv

\* The same for a handler that changes the store alone.
LEMMA SetInv ==
  ASSUME IInv, NEW st \in Store, HeadOK(st), ViewOK(page, ready, st),
         st.dur = store.dur, Set(st)
  PROVE  IInv'
  <1>1. /\ page \in Page /\ ready \in SUBSET Folders /\ drag \in DragState
        /\ DragOK(page, ready, st, drag)
        /\ drag # NotDragged => Showing
        /\ Render(page, ready, st, drag)
    BY DEF IInv, TypeOK, DragOK, Set, Showing
  <1> QED BY <1>1, RenderInv

-----------------------------------------------------------------------------
(* The actions *)

\* What the invariant says of a timeline in view.
LEMMA InView ==
  ASSUME IInv, Showing
  PROVE  /\ page.folder \in Folders
         /\ store.dur = Dur[page.folder] /\ store.dur \in Nat
         /\ store.view.from \in Nat /\ store.view.to \in Nat
         /\ store.view.to <= store.dur + Slack
         /\ 0 < store.dur => store.view.from < store.view.to /\ store.view.from < store.dur
         /\ store.playhead \in Nat
  BY DurAssumption DEF IInv, TypeOK, Showing, Visible, ViewOK, Store, View

\* A view inside the recording and a playhead within it can be set.
LEMMA MovedInside ==
  ASSUME IInv, Showing, NEW from \in Nat, NEW to \in Nat, from < to, from < store.dur,
         to <= store.dur + Slack
  PROVE  /\ SetView(store, from, to) \in Store
         /\ HeadOK(SetView(store, from, to)) /\ ViewOK(page, ready, SetView(store, from, to))
         /\ SetView(store, from, to).dur = store.dur
  <1>1. store \in Store /\ HeadOK(store) /\ ViewOK(page, ready, store)
    BY DEF IInv, TypeOK
  <1>2. /\ SetView(store, from, to) \in Store
        /\ SetView(store, from, to).view = [from |-> from, to |-> to]
        /\ SetView(store, from, to).dur = store.dur
        /\ SetView(store, from, to).headOf = store.headOf
        /\ SetView(store, from, to).playhead = store.playhead
    BY <1>1 DEF SetView, Store, View
  <1>3. [from |-> from, to |-> to].from = from /\ [from |-> from, to |-> to].to = to
    OBVIOUS
  <1>4. store.dur = Dur[page.folder]
    BY InView
  <1> HIDE DEF SetView
  <1> QED BY <1>1, <1>2, <1>3, <1>4 DEF HeadOK, ViewOK

\* A playhead within the recording on the page may be set.
LEMMA PlayheadInside ==
  ASSUME IInv, NEW st \in Store, ViewOK(page, ready, st),
         page.folder \in Folders, NEW sec \in Nat, sec <= Dur[page.folder] + Slack
  PROVE  /\ SetPlayhead(st, sec) \in Store /\ HeadOK(SetPlayhead(st, sec))
         /\ ViewOK(page, ready, SetPlayhead(st, sec))
         /\ SetPlayhead(st, sec).dur = st.dur
  <1>1. /\ SetPlayhead(st, sec) \in Store
        /\ SetPlayhead(st, sec).view = st.view /\ SetPlayhead(st, sec).dur = st.dur
        /\ SetPlayhead(st, sec).headOf = page.folder
        /\ SetPlayhead(st, sec).playhead = sec
    BY DEF SetPlayhead, Store
  <1> QED BY <1>1, NoFolderAssumption DEF HeadOK, ViewOK

\* The pager, the tabs and the arrival of a timeline: what comes into view is reset.
LEMMA PageInv ==
  ASSUME IInv,
         (\E f \in Folders : Open(f) \/ TurnPage(f)) \/ Leave \/ TimelineArrives
           \/ \E tab \in {"quality", "validation"} : SelectTab(tab)
  PROVE  IInv'
  <1>1. /\ page \in Page /\ ready \in SUBSET Folders /\ store \in Store
        /\ drag \in DragState /\ HeadOK(store) /\ ViewOK(page, ready, store)
        /\ DragOK(page, ready, store, drag)
        /\ NotDragged \in DragState /\ \A pg, rd, st : DragOK(pg, rd, st, NotDragged)
    BY DEF IInv, TypeOK, DragOK, NotDragged, DragState
  <1>2. Closed \in Page /\ Initial \in Store /\ HeadOK(Initial)
    BY NoFolderAssumption DEF Closed, Page, Initial, Store, View, HeadOK
  <1>3. ASSUME NEW f \in Folders, Open(f) PROVE IInv'
    <2>1. ~Showing /\ drag = NotDragged
      BY <1>1, <1>3, NoFolderAssumption DEF Open, Showing, Visible, DragOK
    <2>2. [Closed EXCEPT !.folder = f] \in Page
      BY DEF Closed, Page
    <2> QED BY <1>1, <1>3, <2>1, <2>2, RenderInv DEF Open
  <1>4. ASSUME NEW f \in Folders, TurnPage(f) PROVE IInv'
    <2>1. /\ [page EXCEPT !.folder = f] \in Page /\ [page EXCEPT !.folder = f].folder = f
          /\ page.folder # f /\ drag = NotDragged
      BY <1>1, <1>4 DEF TurnPage, Idle, Page
    <2> QED BY <1>1, <1>4, <2>1, RenderInv DEF TurnPage
  <1>5. ASSUME NEW tab \in {"quality", "validation"}, SelectTab(tab) PROVE IInv'
    <2>1. /\ [page EXCEPT !.tab = tab] \in Page /\ drag = NotDragged
          /\ Showing => ~Visible([page EXCEPT !.tab = tab], ready)
      BY <1>1, <1>5 DEF SelectTab, Idle, Page, Showing, Visible
    <2>2. Showing => ViewOK([page EXCEPT !.tab = tab], ready, store)
      BY <2>1 DEF ViewOK
    <2> QED BY <1>1, <1>5, <2>1, <2>2, RenderInv DEF SelectTab
  <1>6. CASE Leave
    <2>1. ~Visible(Closed, ready)
      BY <1>1, NoFolderAssumption DEF Closed, Visible
    <2>2. ViewOK(Closed, ready, Initial)
      BY <2>1 DEF ViewOK
    <2> QED BY <1>1, <1>2, <1>6, <2>2, RenderInv DEF Leave
  <1>7. CASE TimelineArrives
    <2>1. ~Showing /\ drag = NotDragged /\ ready \union {page.folder} \in SUBSET Folders
      BY <1>1, <1>7 DEF TimelineArrives, Showing, Visible, DragOK, Page
    <2> QED BY <1>1, <1>7, <2>1, RenderInv DEF TimelineArrives
  <1> QED BY <1>3, <1>4, <1>5, <1>6, <1>7

\* Selecting a topic touches neither the view nor the playhead.
LEMMA TopicInv ==
  ASSUME IInv, NEW t \in Topics, ClickTopic(t)
  PROVE  IInv'
  <1> DEFINE st == [store EXCEPT !.topic = IF @ = t THEN NoTopic ELSE t]
  <1>1. store \in Store /\ HeadOK(store) /\ ViewOK(page, ready, store)
    BY DEF IInv, TypeOK
  <1>2. /\ st \in Store /\ st.view = store.view /\ st.dur = store.dur
        /\ st.headOf = store.headOf /\ st.playhead = store.playhead
    BY <1>1 DEF Store
  <1>3. Set(st)
    BY DEF ClickTopic
  <1> HIDE DEF st
  <1>4. HeadOK(st) /\ ViewOK(page, ready, st)
    BY <1>1, <1>2 DEF HeadOK, ViewOK
  <1> QED BY <1>2, <1>3, <1>4, SetInv

\* The view of a loss event is inside the recording that has it.
LEMMA LossInside ==
  ASSUME NEW f \in Folders, NEW loss \in Losses[f], NEW dur \in Nat
  PROVE  /\ loss.topic \in Topics /\ loss.at \in Nat /\ loss.at <= Dur[f] + Slack
         /\ LossFrom(loss) \in Nat /\ LossTo(loss, dur) \in Nat
         /\ LossFrom(loss) < LossTo(loss, dur)
         /\ dur = Dur[f] => LossTo(loss, dur) <= dur + Slack
         /\ dur = Dur[f] /\ 0 < dur => LossFrom(loss) < dur
  <1> DEFINE span == Upper(MinRange, Ceil(12 * loss.len, 10))
  <1>1. /\ loss \in LossEvent /\ loss.len > 0 /\ loss.at + loss.len <= Dur[f] + Slack
        /\ Dur[f] \in Nat /\ Slack \in Nat
    BY LossesAssumption, DurAssumption
  <1>2. loss.topic \in Topics /\ loss.at \in Nat /\ loss.len \in Nat
    BY <1>1 DEF LossEvent
  <1>3. span \in Nat /\ 0 < span /\ MinRange <= span
    BY <1>2, ConstantsAssumption DEF Upper, Ceil, Positive
  <1>4. LossFrom(loss) = Upper(0, loss.at - Ceil(span, 10))
    BY DEF LossFrom
  <1>5. LossTo(loss, dur) = Upper(Lower(dur, LossFrom(loss) + span), loss.at + loss.len)
    BY DEF LossTo
  <1> HIDE DEF span
  <1>6. LossFrom(loss) \in Nat /\ LossFrom(loss) <= loss.at
    BY <1>2, <1>3, <1>4 DEF Upper, Ceil
  <1>7. /\ LossTo(loss, dur) \in Nat /\ loss.at + loss.len <= LossTo(loss, dur)
        /\ LossTo(loss, dur) <= dur \/ LossTo(loss, dur) = loss.at + loss.len
    BY <1>2, <1>3, <1>5, <1>6 DEF Upper, Lower
  <1>8. Slack <= Ceil(span, 10)
    BY <1>1, <1>3, LossesAssumption, ConstantsAssumption DEF Ceil, Positive
  <1>9. Ceil(span, 10) \in Nat
    BY <1>3 DEF Ceil
  <1>10. Dur[f] > 0 => LossFrom(loss) < Dur[f]
    BY <1>1, <1>2, <1>4, <1>8, <1>9 DEF Upper
  <1> QED BY <1>1, <1>2, <1>6, <1>7, <1>10

\* A click on a loss event sets topic, view and playhead at once, perhaps before the
\* timeline is there, whose arrival then resets the view.
LEMMA LossInv ==
  ASSUME IInv, NEW loss \in UNION {Losses[f] : f \in Folders}, ClickLoss(loss)
  PROVE  IInv'
  <1> DEFINE from == LossFrom(loss)
             to == LossTo(loss, store.dur)
             named == [store EXCEPT !.topic = loss.topic]
             st == SetView(named, from, to)
  <1>1. /\ page.folder \in Folders /\ loss \in Losses[page.folder]
        /\ Set(SetPlayhead(st, loss.at)) /\ store \in Store
        /\ ViewOK(page, ready, store) /\ store.dur \in Nat
    BY DEF ClickLoss, IInv, TypeOK, Page, Store
  <1>2. /\ loss.topic \in Topics /\ loss.at \in Nat /\ loss.at <= Dur[page.folder] + Slack
        /\ from \in Nat /\ to \in Nat /\ from < to
        /\ store.dur = Dur[page.folder] => to <= store.dur + Slack
        /\ store.dur = Dur[page.folder] /\ 0 < store.dur => from < store.dur
    BY <1>1, LossInside
  <1> HIDE DEF from, to
  <1>3. st \in Store /\ st.view.from = from /\ st.view.to = to /\ st.dur = store.dur
    BY <1>1, <1>2 DEF SetView, Store, View
  <1>4. ViewOK(page, ready, st)
    BY <1>1, <1>2, <1>3 DEF ViewOK
  <1> HIDE DEF st
  <1> QED BY <1>1, <1>2, <1>3, <1>4, PlayheadInside, SetInv

\* Playback, the buttons and the seek bar keep playhead and view within the recording.
LEMMA PlayInv ==
  ASSUME IInv, Frame \/ TogglePlay \/ (\E sec \in {1, -1, Jump, -Jump} : MoveBy(sec))
                 \/ \E sec \in Seconds : Seek(sec)
  PROVE  IInv'
  <1>1. /\ Showing /\ store \in Store /\ HeadOK(store) /\ ViewOK(page, ready, store)
    BY DEF Frame, Tick, TogglePlay, MoveBy, Seek, HasControls, IInv, TypeOK
  <1>2. /\ page.folder \in Folders
        /\ store.dur = Dur[page.folder] /\ store.dur \in Nat /\ Slack \in Nat
        /\ store.view.from \in Nat /\ store.view.to \in Nat
        /\ 0 < store.dur => store.view.from < store.view.to
        /\ store.playhead \in Nat
    BY <1>1, InView, LossesAssumption
  <1>3. ASSUME NEW b \in BOOLEAN, NEW st \in Store, HeadOK(st), ViewOK(page, ready, st)
        PROVE  /\ [st EXCEPT !.playing = b] \in Store /\ HeadOK([st EXCEPT !.playing = b])
               /\ ViewOK(page, ready, [st EXCEPT !.playing = b])
               /\ [st EXCEPT !.playing = b].dur = st.dur
    <2> DEFINE s == [st EXCEPT !.playing = b]
    <2>1. /\ s \in Store /\ s.view = st.view /\ s.dur = st.dur
          /\ s.headOf = st.headOf /\ s.playhead = st.playhead
      BY <1>3 DEF Store
    <2> HIDE DEF s
    <2>2. HeadOK(s) /\ ViewOK(page, ready, s)
      BY <1>3, <2>1 DEF HeadOK, ViewOK
    <2> QED BY <2>1, <2>2 DEF s
  <1>4. ASSUME NEW sec \in Nat, sec <= store.dur
        PROVE  /\ SetPlayhead(store, sec) \in Store /\ HeadOK(SetPlayhead(store, sec))
               /\ ViewOK(page, ready, SetPlayhead(store, sec))
               /\ SetPlayhead(store, sec).dur = store.dur
    BY <1>1, <1>2, <1>4, PlayheadInside
  <1>5. ASSUME NEW sec \in {1, 2}, Tick(sec) PROVE IInv'
    <2> DEFINE next == store.playhead + sec
               view == store.view
               from == Lower(store.dur - Span(view), next - HalfOf(Span(view)))
               to == from + Span(view)
               moved == SetPlayhead(store, next)
    <2>1. next \in Nat
      BY <1>2
    <2>2. CASE next >= store.dur
      <3>1. Set([SetPlayhead(store, store.dur) EXCEPT !.playing = FALSE])
        BY <1>5, <2>2 DEF Tick
      <3>2. /\ SetPlayhead(store, store.dur) \in Store /\ HeadOK(SetPlayhead(store, store.dur))
            /\ ViewOK(page, ready, SetPlayhead(store, store.dur))
            /\ SetPlayhead(store, store.dur).dur = store.dur
        BY <1>2, <1>4
      <3> QED BY <1>3, <3>1, <3>2, SetInv
    <2>3. CASE ~(next >= store.dur) /\ 2 * next > view.from + view.to /\ view.to < store.dur
      <3>1. Set(SetView(moved, Upper(0, from), Lower(store.dur, to)))
        BY <1>5, <2>3 DEF Tick
      <3>2. /\ Upper(0, from) \in Nat /\ Lower(store.dur, to) \in Nat
            /\ Upper(0, from) < Lower(store.dur, to) /\ Lower(store.dur, to) <= store.dur
        <4> DEFINE s == Span(view)
                   h == HalfOf(s)
        <4>0. view.to < store.dur /\ 0 < store.dur
          BY <1>2, <2>3
        <4>1. s \in Nat /\ s = view.to - view.from /\ 0 < s /\ s <= store.dur
          BY <1>2, <4>0 DEF Span
        <4>2. h \in Nat /\ 2 * h <= s
          <5> HIDE DEF s
          <5> QED BY <4>1 DEF HalfOf
        <4> HIDE DEF s, h
        <4>3. from = Lower(store.dur - s, next - h)
          BY DEF s, h
        <4> HIDE DEF from, next
        <4>4. from \in Nat /\ from + s <= store.dur
          BY <1>2, <2>1, <2>3, <4>1, <4>2, <4>3 DEF Lower
        <4>5. to = from + s
          BY DEF s
        <4> HIDE DEF to
        <4>6. Upper(0, from) = from /\ Lower(store.dur, to) = to
          BY <1>2, <4>1, <4>4, <4>5 DEF Upper, Lower
        <4> QED BY <4>1, <4>4, <4>5, <4>6
      <3> DEFINE a == Upper(0, from)
                 b == Lower(store.dur, to)
                 st == SetView(store, a, b)
      <3>3. st \in Store /\ ViewOK(page, ready, st) /\ st.dur = store.dur
        <4> HIDE DEF a, b
        <4>1. a \in Nat /\ b \in Nat /\ a < b /\ a < store.dur /\ b <= store.dur + Slack
          BY <1>2, <3>2 DEF a, b
        <4> QED BY <1>1, <4>1, MovedInside
      <3>4. SetView(moved, a, b) = SetPlayhead(st, next)
        BY <1>1 DEF SetView, SetPlayhead, Store
      <3>5. next <= Dur[page.folder] + Slack
        BY <1>2, <2>1, <2>3
      <3> HIDE DEF st, a, b, moved, next
      <3>6. /\ SetPlayhead(st, next) \in Store /\ HeadOK(SetPlayhead(st, next))
            /\ ViewOK(page, ready, SetPlayhead(st, next))
            /\ SetPlayhead(st, next).dur = st.dur
        BY <1>2, <2>1, <3>3, <3>5, PlayheadInside
      <3>7. Set(SetPlayhead(st, next))
        BY <3>1, <3>4 DEF a, b
      <3> QED BY <3>3, <3>6, <3>7, SetInv
    <2>4. CASE ~(next >= store.dur) /\ ~(2 * next > view.from + view.to /\ view.to < store.dur)
      <3>1. Set(moved)
        BY <1>5, <2>4 DEF Tick
      <3>2. next <= store.dur
        BY <1>2, <2>1, <2>4
      <3> HIDE DEF next
      <3> QED BY <1>4, <2>1, <3>1, <3>2, SetInv
    <2> QED BY <2>2, <2>3, <2>4
  <1>6. CASE TogglePlay
    <2> DEFINE st == IF store.playhead >= store.dur THEN SetPlayhead(store, 0) ELSE store
    <2>1. Set([st EXCEPT !.playing = ~@]) /\ [st EXCEPT !.playing = ~@] = [st EXCEPT !.playing = ~st.playing]
      BY <1>6 DEF TogglePlay
    <2>2. st \in Store /\ HeadOK(st) /\ ViewOK(page, ready, st) /\ st.dur = store.dur
      BY <1>1, <1>2, <1>4
    <2> HIDE DEF st
    <2>3. (~st.playing) \in BOOLEAN
      BY Zenon
    <2> QED BY <1>3, <2>1, <2>2, <2>3, SetInv
  <1>7. ASSUME NEW sec \in {1, -1, Jump, -Jump}, MoveBy(sec) PROVE IInv'
    <2> DEFINE to == Upper(0, Lower(store.dur, store.playhead + sec))
    <2>1. to \in Nat /\ to <= store.dur
      BY <1>2, ConstantsAssumption DEF Upper, Lower, Positive
    <2>2. Set(SetPlayhead(store, to))
      BY <1>7 DEF MoveBy
    <2> HIDE DEF to
    <2> QED BY <1>4, <2>1, <2>2, SetInv
  <1>8. ASSUME NEW sec \in Seconds, Seek(sec) PROVE IInv'
    <2>1. sec \in Nat /\ sec <= store.dur /\ Set(SetPlayhead(store, sec))
      BY <1>8 DEF Seek, Seconds
    <2> QED BY <1>4, <2>1, SetInv
  <1> QED BY <1>5, <1>6, <1>7, <1>8 DEF Frame

\* Zooming and clicking on the minimap: the new span is clamped before the new place is.
LEMMA ViewInv ==
  ASSUME IInv, (\E span \in Seconds \ {0} : Zoom(span)) \/ (\E sec \in Seconds : ClickMinimap(sec))
                 \/ \E delta \in -Longest .. Longest : Drag(delta)
  PROVE  IInv'
  <1>1. /\ Showing /\ store \in Store
    BY DEF Zoom, ClickMinimap, Drag, Idle, IInv, DragOK, TypeOK, Showing, HasControls
  <1>2. /\ page.folder \in Folders
        /\ store.dur = Dur[page.folder] /\ store.dur \in Nat
        /\ store.view.from \in Nat /\ store.view.to \in Nat
        /\ store.view.to <= store.dur + Slack
        /\ 0 < store.dur => store.view.from < store.view.to /\ store.view.from < store.dur
        /\ Slack \in Nat /\ MinView \in Nat /\ Slack < MinView
        /\ MinRange \in Nat /\ Slack < MinRange
    BY <1>1, InView, LossesAssumption, ConstantsAssumption DEF Positive
  <1>3. ASSUME NEW a \in Nat, NEW b \in Nat, a < b, a < store.dur, b <= store.dur + Slack,
               Set(SetView(store, a, b))
        PROVE  IInv'
    BY <1>1, <1>3, MovedInside, SetInv
  <1>4. ASSUME NEW span \in Seconds \ {0}, Zoom(span) PROVE IInv'
    <2> DEFINE clamped == Upper(MinView, Lower(store.dur, span))
               sum == store.view.from + store.view.to
               a == Upper(0, HalfOf(sum - clamped))
               b == Lower(store.dur, HalfOf(sum + clamped))
    <2>0. 0 < store.dur
      BY <1>2, <1>4 DEF Zoom, HasControls
    <2>1. clamped \in Nat /\ Slack < clamped
      BY <1>2 DEF Upper, Lower, Seconds
    <2>2. sum \in Nat /\ 0 < sum /\ sum < 2 * store.dur + Slack
      BY <1>2, <2>0
    <2>3. Set(SetView(store, a, b))
      BY <1>4 DEF Zoom
    <2> HIDE DEF clamped, sum
    <2>4. a \in Nat /\ b \in Nat /\ a < b /\ a < store.dur /\ b <= store.dur
      BY <1>2, <2>0, <2>1, <2>2 DEF Upper, Lower, HalfOf
    <2> HIDE DEF a, b
    <2> QED BY <1>2, <1>3, <2>3, <2>4
  <1>5. ASSUME NEW sec \in Seconds, ClickMinimap(sec) PROVE IInv'
    <2> DEFINE span == Span(store.view)
               a == Upper(0, Lower(store.dur - span, sec - HalfOf(span)))
    <2>1. Set(SetView(store, a, a + span))
      BY <1>5 DEF ClickMinimap
    <2>2. 0 < store.dur
      BY <1>2, <1>5 DEF ClickMinimap, HasControls
    <2>3. span \in Nat /\ 0 < span /\ span <= store.dur + Slack
      BY <1>2, <2>2 DEF Span
    <2>4. HalfOf(span) \in Nat
      <3> HIDE DEF span
      <3> QED BY <2>3 DEF HalfOf
    <2>5. sec \in Nat
      BY DEF Seconds
    <2> HIDE DEF span
    <2>6. a \in Nat /\ a + span \in Nat /\ a < a + span /\ a < store.dur
          /\ a + span <= store.dur + Slack
      BY <1>2, <2>2, <2>3, <2>4, <2>5 DEF Upper, Lower
    <2> HIDE DEF a
    <2> QED BY <1>3, <2>1, <2>6
  <1>6. ASSUME NEW delta \in -Longest .. Longest, Drag(delta) PROVE IInv'
    <2> DEFINE span == drag.to - drag.from
               from == Upper(0, Lower(store.dur - span, drag.from + delta))
               left == Upper(0, Lower(drag.to - MinRange, drag.from + delta))
               right == Lower(store.dur, Upper(drag.from + MinRange, drag.to + delta))
    <2>1. /\ drag.mode \in {"left", "right", "move"} /\ delta \in Int
          /\ drag.from \in Nat /\ drag.to \in Nat /\ drag.from < drag.to
          /\ drag.from < store.dur /\ drag.to <= store.dur + Slack
      BY <1>6 DEF Drag, Idle, IInv, TypeOK, DragOK, DragState
    <2>2. /\ left \in Nat /\ left < drag.to /\ left < store.dur
          /\ right \in Nat /\ drag.from < right /\ right <= store.dur + Slack
          /\ from \in Nat /\ from + span \in Nat /\ from < from + span /\ from < store.dur
          /\ from + span <= store.dur + Slack
      BY <1>2, <2>1 DEF Upper, Lower
    <2>3. \/ Set(SetView(store, left, drag.to))
          \/ Set(SetView(store, drag.from, right))
          \/ Set(SetView(store, from, from + span))
      BY <1>6, <2>1 DEF Drag
    <2> HIDE DEF left, right, from, span
    <2> QED BY <1>3, <2>1, <2>2, <2>3
  <1> QED BY <1>4, <1>5, <1>6

\* A drag starts from a view inside the recording and keeps its range inside.
LEMMA DragInv ==
  ASSUME IInv, EndDrag \/ \E mode \in {"left", "right", "move"} : StartDrag(mode)
  PROVE  IInv'
  <1>1. /\ page \in Page /\ ready \in SUBSET Folders /\ store \in Store
        /\ HeadOK(store) /\ ViewOK(page, ready, store)
        /\ NotDragged \in DragState /\ DragOK(page, ready, store, NotDragged)
    BY DEF IInv, TypeOK, DragOK, NotDragged, DragState
  <1>2. CASE EndDrag
    BY <1>1, <1>2, RenderInv DEF EndDrag
  <1>3. ASSUME NEW mode \in {"left", "right", "move"}, StartDrag(mode) PROVE IInv'
    <2> DEFINE dr == [mode |-> mode, from |-> store.view.from, to |-> store.view.to]
    <2>1. Showing /\ 0 < store.dur /\ Render(page, ready, store, dr)
      BY <1>3 DEF StartDrag, HasControls
    <2>2. dr \in DragState /\ DragOK(page, ready, store, dr)
      BY <2>1, InView DEF DragState, DragOK, Showing
    <2> HIDE DEF dr
    <2> QED BY <1>1, <2>1, <2>2, RenderInv
  <1> QED BY <1>2, <1>3

\* The end of a GET of messages.
LEMMA MessagesInv ==
  ASSUME IInv, MessagesArrive \/ MessagesFail
  PROVE  IInv'
  <1>1. /\ page \in Page /\ ready \in SUBSET Folders /\ store \in Store
        /\ HasRug(page, ready, store)
    BY DEF IInv, TypeOK, RugExact, MessagesArrive, MessagesFail
  <1>2. MessagesKey(page, store) \in Keys
    BY <1>1, KeyType
  <1>3. UNCHANGED <<page, ready, store, drag>>
    BY DEF MessagesArrive, MessagesFail
  <1>4. /\ rug' \in [shown : Keys \union {NoKey}, get : {"none", "sent", "failed"}]
        /\ rug'.get # "sent"
        /\ rug'.get = "none" => rug'.shown = MessagesKey(page, store)
    BY <1>2 DEF IInv, TypeOK, MessagesArrive, MessagesFail
  <1>5. TypeOK' /\ RugExact'
    BY <1>3, <1>4 DEF IInv, TypeOK, RugExact
  <1> QED BY <1>3, <1>5 DEF IInv, HeadOK, ViewOK, DragOK

-----------------------------------------------------------------------------
(* Theorems *)

\* The inductive invariant.
THEOREM TimelineInvariant == Spec => []IInv
  <1>1. Init => IInv
    BY NoFolderAssumption DEF Init, IInv, TypeOK, Closed, Page, Initial, Store, View, NotDragged,
       DragState, NoRug, HeadOK, ViewOK, DragOK, RugExact, Visible, HasRug, Enabled
  <1>2. IInv /\ [Next]_vars => IInv'
    <2> SUFFICES ASSUME IInv, [Next]_vars PROVE IInv'
      OBVIOUS
    <2>1. CASE Operator
      BY <2>1, PageInv, TopicInv, LossInv, PlayInv, ViewInv, DragInv DEF Operator
    <2>2. CASE Frame \/ TimelineArrives
      BY <2>2, PlayInv, PageInv
    <2>3. CASE MessagesArrive \/ MessagesFail
      BY <2>3, MessagesInv
    <2>4. CASE UNCHANGED vars
      BY <2>4 DEF vars, IInv, TypeOK, HeadOK, ViewOK, DragOK, RugExact
    <2> QED BY <2>1, <2>2, <2>3, <2>4 DEF Next
  <1> QED BY <1>1, <1>2, PTL DEF Spec

\* A timeline in view shows a part of its own recording, to within the rounding
\* of the loss events.
THEOREM ViewStaysInside == Spec => []ViewInside
  <1>1. IInv => ViewInside
    <2> SUFFICES ASSUME IInv, Showing
                 PROVE  /\ store.dur = Dur[page.folder]
                        /\ store.view.to <= store.dur + Slack
                        /\ store.dur > 0 => store.view.from < store.view.to
                                             /\ store.view.from < store.dur
                        /\ store.headOf \in {page.folder, NoFolder} =>
                             store.playhead <= store.dur + Slack
      BY DEF IInv, ViewInside
    <2> QED BY InView, NoFolderAssumption, LossesAssumption DEF IInv, HeadOK
  <1> QED BY <1>1, TimelineInvariant, PTL

\* Messages that are shown and not about to be replaced are those in view.
THEOREM RugStaysCurrent == Spec => []RugIsCurrent
  <1>1. IInv => RugIsCurrent
    <2> SUFFICES ASSUME IInv, Enabled(page, ready, store, drag), rug.get = "none"
                 PROVE  rug.shown # NoKey /\ Covers(rug.shown)
      BY DEF RugIsCurrent
    <2>1. /\ HasRug(page, ready, store) /\ page \in Page /\ ready \in SUBSET Folders
          /\ store \in Store /\ rug.shown = MessagesKey(page, store)
      BY DEF IInv, TypeOK, RugExact, Enabled
    <2>2. rug.shown \in Keys
      BY <2>1, KeyType
    <2>3. store.view \in View
      BY <2>1 DEF Store
    <2>4. /\ rug.shown.folders = {page.folder} /\ rug.shown.topic = store.topic
          /\ rug.shown.from = FetchRange(store.view).from
          /\ rug.shown.to = FetchRange(store.view).to
      BY <2>1 DEF MessagesKey, GetTimelineMessages
    <2>5. Covers(rug.shown)
      BY <2>3, <2>4, FetchRangeCovers DEF Covers
    <2> QED BY <2>2, <2>5, NoKeyAssumption
  <1> QED BY <1>1, TimelineInvariant, PTL
=============================================================================
