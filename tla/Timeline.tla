------------------------------ MODULE Timeline ------------------------------
(***************************************************************************)
(* The timeline of the detail page: one store that holds the selected      *)
(* topic, the range of time in view, the playhead and whether it plays,    *)
(* changed by the playback loop, the minimap, the control buttons and the  *)
(* loss events of the quality summary; and the rug plot, which fetches the *)
(* messages in view and shows the old ones until the new ones are there.   *)
(*                                                                         *)
(* Time is on a grid; where the code halves or scales, the result is       *)
(* rounded to it. The pager moves the page to another recording and keeps  *)
(* the store.                                                              *)
(***************************************************************************)
EXTENDS Integers, Client

CONSTANTS
  Folders,    \* the recordings
  Dur,        \* duration_sec of the timeline of each, rounded by the backend
  Topics,     \* topics with messages
  Losses,     \* loss events in the quality report of each recording
  Slack,      \* how far rounding may put a loss event past Dur
  NoFolder,   \* the page is not open
  NoTopic,    \* no topic is selected: all are shown
  NoKey,      \* nothing is shown
  Limit,      \* 10 s: narrower views have their messages fetched
  MinView,    \* 1 s: MIN_VIEW_RANGE of the zoom
  MinRange,   \* 0.5 s: MIN_RANGE_SEC of the minimap
  Jump,       \* 5 s: JUMP_STEP
  Buffer,     \* 15 s: PREFETCH_BUFFER_SEC
  Grid        \* 10 s: SNAP_GRID_SEC

Positive == Nat \ {0}
LossEvent == [topic : Topics, at : Nat, len : Nat]

Keys == [op : {"getTimelineMessages"}, folders : {{f} : f \in Folders}, topic : Topics,
         from : Nat, to : Nat]

\* 0 is the duration of a recording with one message.
ASSUME DurAssumption == Dur \in [Folders -> Nat]
ASSUME NoFolderAssumption == NoFolder \notin Folders
ASSUME NoTopicAssumption == NoTopic \notin Topics
ASSUME NoKeyAssumption == NoKey \notin Keys
ASSUME ConstantsAssumption ==
  /\ Limit \in Positive /\ MinView \in Positive /\ MinRange \in Positive
  /\ Jump \in Positive /\ Buffer \in Nat /\ Grid \in Positive
\* The backend rounds the duration to two decimals, the start of a loss event to
\* three and its length to four: one at the end of the recording may start and
\* end up to 0.0056 s past the duration. The limits are far above that.
ASSUME LossesAssumption ==
  /\ Slack \in Nat /\ Slack < MinRange /\ Slack < MinView /\ 10 * Slack <= MinRange + 9
  /\ Losses \in [Folders -> SUBSET LossEvent]
  /\ \A f \in Folders : \A l \in Losses[f] : l.len > 0 /\ l.at + l.len <= Dur[f] + Slack

VARIABLES
  page,    \* the recording and the tab
  ready,   \* recordings whose timeline is in the query cache
  store,   \* useQualityTimelineStore, and whose time the playhead was last set on
  drag,    \* the minimap: how it is dragged, and the range at the start
  rug      \* the rug plot: the key of the messages it has, and its GET

vars == <<page, ready, store, drag, rug>>

Lower(a, b) == IF a <= b THEN a ELSE b
Upper(a, b) == IF a <= b THEN b ELSE a
HalfOf(n) == n \div 2
Ceil(n, d) == (n + d - 1) \div d

-----------------------------------------------------------------------------
(* The store *)

View == [from : Nat, to : Nat]
Store == [topic : Topics \union {NoTopic}, view : View, playhead : Nat, playing : BOOLEAN,
          dur : Nat, headOf : Folders \union {NoFolder}]

Initial ==
  [topic |-> NoTopic, view |-> [from |-> 0, to |-> 0], playhead |-> 0, playing |-> FALSE,
   dur |-> 0, headOf |-> NoFolder]

\* Faulty variant: the view stays when the duration changes.
SetDurationOnly(st, sec) == [st EXCEPT !.dur = sec]

SetDuration(st, sec) == [st EXCEPT !.dur = sec, !.view = [from |-> 0, to |-> sec]]
SetView(st, from, to) == [st EXCEPT !.view = [from |-> from, to |-> to]]
SetPlayhead(st, sec) == [st EXCEPT !.playhead = sec, !.headOf = page.folder]

Page == [folder : Folders \union {NoFolder}, tab : {"quality", "validation"}]
DragState == [mode : {"none", "left", "right", "move"}, from : Nat, to : Nat]

NotDragged == [mode |-> "none", from |-> 0, to |-> 0]
Closed == [folder |-> NoFolder, tab |-> "quality"]

-----------------------------------------------------------------------------
(* What is on the screen *)

\* The timeline with its controller: not below a spinner, not on the other tab.
Visible(pg, rd) == pg.tab = "quality" /\ pg.folder \in rd
Showing == Visible(page, ready)

\* A recording of no length has neither controller nor minimap.
HasControls == Showing /\ store.dur > 0

Span(view) == view.to - view.from

\* Faulty variant: the end of the range is rounded down and has no buffer.
FetchRangeShort(view) ==
  [from |-> (Upper(0, view.from - Buffer) \div Grid) * Grid, to |-> (view.to \div Grid) * Grid]

\* snapFetchRange
FetchRange(view) ==
  [from |-> (Upper(0, view.from - Buffer) \div Grid) * Grid,
   to |-> Ceil(view.to + Buffer, Grid) * Grid]

MessagesKey(pg, st) ==
  LET range == FetchRange(st.view)
  IN  GetTimelineMessages(pg.folder, st.topic, range.from, range.to)

HasRug(pg, rd, st) == Visible(pg, rd) /\ st.topic # NoTopic

\* Messages are fetched for a narrow view, and not during a drag.
Enabled(pg, rd, st, dr) ==
  HasRug(pg, rd, st) /\ Span(st.view) > 0 /\ Span(st.view) < Limit /\ dr = NotDragged

NoRug == [shown |-> NoKey, get |-> "none"]

\* The rug plot after a render. It keeps the messages it had until those of the
\* new key are there; inCache says whether they are, from a fetch of the last
\* five minutes. A key that changes aborts its GET, one that is disabled does not.
RugAfter(pg, rd, st, dr, inCache) ==
  LET key == MessagesKey(pg, st)
      same == HasRug(page, ready, store) /\ key = MessagesKey(page, store)
      has == IF same THEN rug.shown = key ELSE inCache
      asks == Enabled(pg, rd, st, dr) /\ ~(same /\ Enabled(page, ready, store, drag))
  IN  IF ~HasRug(pg, rd, st) THEN NoRug
      ELSE [shown |-> IF has THEN key ELSE rug.shown,
            get |-> IF same /\ rug.get = "sent" THEN "sent"
                    ELSE IF has THEN "none"
                    ELSE IF asks THEN "sent"
                    ELSE IF same THEN rug.get ELSE "none"]

\* Everything that changes the page, the store or the drag renders. A timeline
\* that comes into view sets the duration of its recording, and with it the view.
Render(pg, rd, st, dr) ==
  LET fresh == Visible(pg, rd) /\ ~(Showing /\ pg.folder = page.folder)
      next == IF fresh THEN SetDuration(st, Dur[pg.folder]) ELSE st
  IN  /\ page' = pg /\ ready' = rd /\ store' = next /\ drag' = dr
      /\ \E inCache \in BOOLEAN : rug' = RugAfter(pg, rd, next, dr, inCache)

\* A handler of the store alone.
Set(st) == Render(page, ready, st, drag)

-----------------------------------------------------------------------------
(* The page. A mouse that drags does not click. *)

Idle == drag = NotDragged

Open(f) ==
  /\ page.folder = NoFolder
  /\ Render([Closed EXCEPT !.folder = f], ready, store, drag)

\* Previous and next: the same page with another recording.
TurnPage(f) ==
  /\ Idle /\ page.folder \notin {NoFolder, f}
  /\ Render([page EXCEPT !.folder = f], ready, store, drag)

SelectTab(tab) ==
  /\ Idle /\ page.folder # NoFolder /\ page.tab # tab
  /\ Render([page EXCEPT !.tab = tab], ready, store, drag)

\* The effect's cleanup resets the store.
Leave ==
  /\ Idle /\ page.folder # NoFolder
  /\ Render(Closed, ready, Initial, NotDragged)

TimelineArrives ==
  /\ page.folder # NoFolder /\ page.tab = "quality" /\ page.folder \notin ready
  /\ Render(page, ready \union {page.folder}, store, drag)

\* On the heatmap or in the quality summary.
ClickTopic(t) ==
  /\ Idle /\ page.folder # NoFolder
  /\ Set([store EXCEPT !.topic = IF @ = t THEN NoTopic ELSE t])

\* lossViewRange, rounded to the grid; the whole loss is in it.
LossFrom(loss) ==
  LET span == Upper(MinRange, Ceil(12 * loss.len, 10))
  IN  Upper(0, loss.at - Ceil(span, 10))
LossTo(loss, dur) ==
  LET span == Upper(MinRange, Ceil(12 * loss.len, 10))
  IN  Upper(Lower(dur, LossFrom(loss) + span), loss.at + loss.len)

\* The quality summary is there on both tabs, and before the timeline is.
ClickLoss(loss) ==
  /\ Idle /\ page.folder # NoFolder /\ loss \in Losses[page.folder]
  /\ Set(SetPlayhead(SetView([store EXCEPT !.topic = loss.topic],
                             LossFrom(loss), LossTo(loss, store.dur)), loss.at))

-----------------------------------------------------------------------------
(* The controller *)

\* Faulty variant: playback goes on at the end.
TickForEver(sec) ==
  /\ Showing /\ store.playing
  /\ Set(SetPlayhead(store, Lower(store.dur, store.playhead + sec)))

\* The playback loop: a frame that comes sec later. The view follows once the
\* playhead crosses its middle. It is an effect, and runs without the buttons:
\* for a recording of no length, playback that the pager brought along ends.
Tick(sec) ==
  LET next == store.playhead + sec
      view == store.view
      from == Lower(store.dur - Span(view), next - HalfOf(Span(view)))
      moved == SetPlayhead(store, next)
      follows == 2 * next > view.from + view.to /\ view.to < store.dur
  IN  /\ Showing /\ store.playing
      /\ Set(IF next >= store.dur THEN [SetPlayhead(store, store.dur) EXCEPT !.playing = FALSE]
             ELSE IF follows
             THEN SetView(moved, Upper(0, from), Lower(store.dur, from + Span(view)))
             ELSE moved)

TogglePlay ==
  /\ Idle /\ HasControls
  /\ LET st == IF store.playhead >= store.dur THEN SetPlayhead(store, 0) ELSE store
     IN  Set([st EXCEPT !.playing = ~@])

\* stepFrame and jump
MoveBy(sec) ==
  /\ Idle /\ HasControls
  /\ Set(SetPlayhead(store, Upper(0, Lower(store.dur, store.playhead + sec))))

\* The seek bar. Playback goes on if it was on.
Seek(sec) ==
  /\ Idle /\ HasControls /\ sec <= store.dur
  /\ Set(SetPlayhead(store, sec))

\* To a narrower or a wider span around the middle.
Zoom(span) ==
  LET clamped == Upper(MinView, Lower(store.dur, span))
      sum == store.view.from + store.view.to
  IN  /\ Idle /\ HasControls /\ span # Span(store.view)
      /\ Set(SetView(store, Upper(0, HalfOf(sum - clamped)),
                            Lower(store.dur, HalfOf(sum + clamped))))

-----------------------------------------------------------------------------
(* The minimap *)

StartDrag(mode) ==
  /\ Idle /\ HasControls
  /\ Render(page, ready, store,
            [mode |-> mode, from |-> store.view.from, to |-> store.view.to])

\* calcRange: from the range at the start of the drag, not from the view.
Drag(delta) ==
  LET span == drag.to - drag.from
      from == Upper(0, Lower(store.dur - span, drag.from + delta))
  IN  /\ ~Idle
      /\ Set(CASE drag.mode = "left" ->
                    SetView(store, Upper(0, Lower(drag.to - MinRange, drag.from + delta)), drag.to)
               [] drag.mode = "right" ->
                    SetView(store, drag.from,
                            Lower(store.dur, Upper(drag.from + MinRange, drag.to + delta)))
               [] OTHER -> SetView(store, from, from + span))

\* The click that ends a drag is not one on the background.
EndDrag == ~Idle /\ Render(page, ready, store, NotDragged)

\* A click on the background puts the middle of the view there.
ClickMinimap(sec) ==
  LET span == Span(store.view)
      from == Upper(0, Lower(store.dur - span, sec - HalfOf(span)))
  IN  /\ Idle /\ HasControls /\ sec <= store.dur
      /\ Set(SetView(store, from, from + span))

-----------------------------------------------------------------------------
(* The rug plot *)

MessagesArrive ==
  /\ rug.get = "sent"
  /\ rug' = [shown |-> MessagesKey(page, store), get |-> "none"]
  /\ UNCHANGED <<page, ready, store, drag>>

\* After its retries.
MessagesFail ==
  /\ rug.get = "sent"
  /\ rug' = [rug EXCEPT !.get = "failed"]
  /\ UNCHANGED <<page, ready, store, drag>>

-----------------------------------------------------------------------------

Init ==
  /\ page = Closed /\ ready = {} /\ store = Initial
  /\ drag = NotDragged /\ rug = NoRug

Longest == CHOOSE d \in {Dur[f] : f \in Folders} : \A f \in Folders : Dur[f] <= d
Seconds == 0 .. Longest

Operator ==
  \/ \E f \in Folders : Open(f) \/ TurnPage(f)
  \/ \E tab \in {"quality", "validation"} : SelectTab(tab)
  \/ Leave
  \/ \E t \in Topics : ClickTopic(t)
  \/ \E loss \in UNION {Losses[f] : f \in Folders} : ClickLoss(loss)
  \/ TogglePlay
  \/ \E sec \in {1, -1, Jump, -Jump} : MoveBy(sec)
  \/ \E sec \in Seconds : Seek(sec) \/ ClickMinimap(sec)
  \/ \E span \in Seconds \ {0} : Zoom(span)
  \/ \E mode \in {"left", "right", "move"} : StartDrag(mode)
  \/ \E delta \in -Longest .. Longest : Drag(delta)
  \/ EndDrag

Frame == \E sec \in {1, 2} : Tick(sec)

Next == Operator \/ Frame \/ TimelineArrives \/ MessagesArrive \/ MessagesFail

\* The browser draws frames: weak fairness of Frame, with its ENABLED written out.
\* A frame that comes while the timeline plays always changes the playhead or
\* ends the playback.
Playing == Showing /\ store.playing
Spec == Init /\ [][Next]_vars /\ ([]<>~Playing \/ []<><<Frame>>_vars)

-----------------------------------------------------------------------------

TypeOK ==
  /\ page \in Page
  /\ ready \in SUBSET Folders
  /\ store \in Store
  /\ drag \in DragState
  /\ rug \in [shown : Keys \union {NoKey}, get : {"none", "sent", "failed"}]

\* A timeline that shows has its own duration, and in view a part of it that is
\* not empty and begins within it, whatever moved the view: a drag, a zoom,
\* playback, a loss event. Neither view nor playhead passes the end by more than
\* the rounding of the loss events, also after drags that start from such a view.
\* The playhead is held to that unless it is still where the pager found it on
\* another recording (quality-timeline/store.ts).
ViewInside ==
  /\ TypeOK
  /\ Showing =>
       /\ store.dur = Dur[page.folder]
       /\ store.view.to <= store.dur + Slack
       /\ store.dur > 0 => store.view.from < store.view.to /\ store.view.from < store.dur
       /\ store.headOf \in {page.folder, NoFolder} => store.playhead <= store.dur + Slack

\* Playback comes to an end, unless the playhead is set back again and again or
\* the timeline is out of sight, where it waits. Nothing else the operator does
\* keeps it going: no zoom, drag, topic or page turn (timeline-controller.tsx).
SetBack == store'.playhead < store.playhead
PlaybackEnds == []<>~Playing \/ []<><<SetBack>>_store

\* Messages of another topic, recording or range are shown only during a drag,
\* while the right ones are on their way or could not be had, or where the view
\* is too wide for them. Else they are those of the selected topic and cover
\* the view (use-timeline.ts snapFetchRange, rug-plot.tsx lastDataRef).
Covers(key) ==
  /\ key.folders = {page.folder} /\ key.topic = store.topic
  /\ key.from <= store.view.from /\ store.view.to <= key.to
RugIsCurrent ==
  Enabled(page, ready, store, drag) /\ rug.get = "none" => rug.shown # NoKey /\ Covers(rug.shown)
=============================================================================
