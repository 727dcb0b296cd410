---------------------------- MODULE LiveHistory ----------------------------
(***************************************************************************)
(* What the live viewer keeps of the joined observations, and where it     *)
(* shows it (src/viewer/science_model.py, src/viewer/viewer_fx.py): the    *)
(* bounded history of rows and of the trace of the selected bin, the deep  *)
(* groups, the coordinates and the range of the waterfalls, the pause and  *)
(* the two points of a drift measurement.                                  *)
(*                                                                         *)
(* A frame is its session, its number and its stamp, PERIOD being 2 units: *)
(* FrameJoin delivers them in order.  A power is the numbers of the frames *)
(* that are in it.                                                         *)
(***************************************************************************)
EXTENDS Integers, Sequences, FiniteSets, SequencesExt

CONSTANTS Capacity,   \* WF_HISTORY_ROWS, also of the trace
          History,    \* HISTORY
          Deep,       \* deep_frames
          Spans,      \* rows of wf_window
          Bins,
          Lates,      \* how late a frame may be
          Plots,      \* the waterfalls that are measured
          Drags,      \* whether the waterfalls are dragged
          MaxSession, MaxId   \* bounds on the frames that arrive

HistoryAssumption ==
  /\ {Capacity, History, Deep} \subseteq Nat \ {0} /\ Spans \subseteq 2 .. Capacity
  /\ {MaxSession, MaxId} \subseteq Nat \ {0} /\ Bins # {}
  /\ Lates \subseteq {0, 3} /\ Plots \subseteq {"fast", "deep"} /\ Drags \in BOOLEAN

VARIABLES
  sent,    \* the last frame that was sent
  model,   \* ObservationHistory
  deep,    \* DeepIntegrator, deep_history and the start of the group
  view,    \* what is displayed: _display_*, _wf_*
  paused,  \* pause_button
  drift    \* drift_plot_key, drift_points

vars == <<sent, model, deep, view, paused, drift>>

Gap == [s |-> 0, id |-> 0, t |-> 0]
Lesser(a, b) == IF a < b THEN a ELSE b
Greater(a, b) == IF a > b THEN a ELSE b
Keep(seq, n) == SubSeq(seq, Greater(1, Len(seq) - n + 1), Len(seq))

\* The stamp does not follow the one before.
Break(t, f) == t # 0 /\ (f.t <= t \/ f.t - t > 3)

-----------------------------------------------------------------------------
(* ObservationHistory.                                                     *)

\* push(): a new session starts anew; missing frames are holes.
Push(m, f) ==
  LET n == IF f.s = m.session THEN m
           ELSE [m EXCEPT !.session = f.s, !.last = 0, !.rows = <<>>, !.trace = <<>>]
      missing == IF n.last = 0 THEN 0 ELSE Lesser(Capacity, f.id - n.last - 1)
      holes == [k \in 1 .. missing |-> Gap]
      sample(g) == [frame |-> g, bin |-> n.bin]
  IN  IF f.id <= n.last THEN n
      ELSE [n EXCEPT !.last = f.id,
                     !.rows = Keep(@ \o Append(holes, f), Capacity),
                     !.trace = Keep(@ \o Append([k \in 1 .. missing |-> sample(Gap)], sample(f)),
                                    Capacity)]

\* select(), of another bin.
SelectBin(m, b) == [m EXCEPT !.bin = b, !.trace = <<>>]

-----------------------------------------------------------------------------
(* _push_deep_observation() and DeepIntegrator.push().                     *)

\* Mutant: a break in time starts no group.
StartIgnoringBreak(d, f) ==
  IF f.s # d.session \/ d.acc = <<>> \/ f.id # d.last + 1 THEN f ELSE d.start

Start(d, f) ==
  IF f.s # d.session \/ d.acc = <<>> \/ Break(d.t, f) \/ f.id # d.last + 1 THEN f ELSE d.start

\* What was accumulated counts only without a hole and a break.
Accumulated(d, f) ==
  IF f.s # d.session \/ f.id > d.last + 1 \/ Break(d.t, f) THEN <<f.id>> ELSE Append(d.acc, f.id)

\* As many groups as were missed take a number.
Missed(d, f) ==
  IF f.s = d.session /\ f.id > d.last + 1
  THEN Lesser(History, (f.id - d.last - 1) \div Deep) ELSE 0

DeepPush(d, f) ==
  LET fresh == f.s # d.session
      acc == Accumulated(d, f)
      full == Len(acc) >= Deep
      number == (IF fresh THEN 0 ELSE d.number + Missed(d, f)) + (IF full THEN 1 ELSE 0)
      group == [s |-> f.s, number |-> number, first |-> Start(d, f), last |-> f, of |-> acc]
      kept == IF fresh THEN <<>> ELSE d.history
  IN  IF ~fresh /\ f.id <= d.last THEN d
      ELSE [session |-> f.s, last |-> f.id, t |-> f.t, start |-> Start(d, f), number |-> number,
            acc |-> IF full THEN <<>> ELSE acc,
            history |-> IF full THEN Keep(Append(kept, group), (Capacity + Deep - 1) \div Deep + 2) ELSE kept]

-----------------------------------------------------------------------------
(* The waterfalls: coordinates, range, and what is at a coordinate.        *)

\* The first and the last frame of the rows.
Oldest(rows) == IF \E i \in DOMAIN rows : rows[i] # Gap
                THEN rows[SelectInSeq(rows, LAMBDA r : r # Gap)] ELSE Gap
Latest(rows) == IF \E i \in DOMAIN rows : rows[i] # Gap
                THEN rows[SelectLastInSeq(rows, LAMBDA r : r # Gap)] ELSE Gap

\* _update_wf_view().
Ranged(v) ==
  LET floor == v.end - Greater(Len(v.rows), v.span)
      width == Lesser(Greater(2, v.high - v.low), v.end - floor)
      low == IF v.follow THEN v.end - v.span ELSE Lesser(Greater(v.low, floor), v.end - width)
  IN  [v EXCEPT !.low = low, !.high = IF v.follow THEN v.end ELSE low + width]

\* Mutant: one step for every time it is drawn.
AdvanceByOne(v) ==
  LET f == Latest(v.rows)
      fresh == v.key = Gap \/ v.key.s # f.s
  IN  IF f = Gap THEN v
      ELSE [v EXCEPT !.key = f, !.follow = @ \/ fresh,
                     !.end = IF fresh THEN Greater(History, Len(v.rows))
                             ELSE @ + Lesser(1, f.id - v.key.id)]

\* _advance_wf_coordinates().
Advance(v) ==
  LET f == Latest(v.rows)
      fresh == v.key = Gap \/ v.key.s # f.s
  IN  IF f = Gap THEN v
      ELSE [v EXCEPT !.key = f, !.follow = @ \/ fresh,
                     !.end = IF fresh THEN Greater(History, Len(v.rows))
                             ELSE @ + Lesser(Capacity, Greater(0, f.id - v.key.id))]

\* render().
Render(v, m, d) ==
  Ranged(Advance([v EXCEPT !.rows = m.rows, !.trace = m.trace, !.groups = d.history]))

\* Row i of the display begins at this coordinate.
Place(v, i) == v.end - Len(v.rows) + i - 1
RowAt(v, y) == LET i == y - (v.end - Len(v.rows)) + 1
               IN  IF i \in DOMAIN v.rows THEN v.rows[i] ELSE Gap

NoGroup == [s |-> 0, number |-> 0, first |-> Gap, last |-> Gap, of |-> <<>>]
Covers(g, f) == g.first.id <= f.id /\ f.id <= g.last.id

\* _deep_group_at(): from the last to the first.
GroupAt(v, y) ==
  LET f == RowAt(v, y)
      n == SelectLastInSeq(v.groups, LAMBDA g : g.s = f.s /\ Covers(g, f))
  IN  IF f = Gap \/ n = 0 THEN NoGroup ELSE v.groups[n]

\* The groups of an image, and the first of them that ends at a frame or after
\* it, which is drawn when it covers the frame.
InImage(v, g) ==
  LET oldest == Oldest(v.rows)
  IN  oldest # Gap /\ g.s = oldest.s /\ g.last.id >= oldest.id /\ g.first.id <= Latest(v.rows).id
Shown(v) == SelectSeq(v.groups, LAMBDA g : InImage(v, g))
GroupDrawn(v, y) ==
  LET f == RowAt(v, y)
      n == SelectInSeq(v.groups, LAMBDA g : InImage(v, g) /\ g.last.id >= f.id)
  IN  IF f = Gap \/ n = 0 \/ ~Covers(v.groups[n], f) THEN NoGroup ELSE v.groups[n]

-----------------------------------------------------------------------------
(* The curves over time: time_series(), power_time_series(),               *)
(* coherence_time_series() and build_fringe_series() cut them alike.       *)

Cut(f, g) == f # Gap /\ (g.s # f.s \/ g.id # f.id + 1 \/ Break(f.t, g))

\* The point of a sample, and a break before it.
Piece(trace, i) ==
  IF i > 1 /\ trace[i].frame # Gap /\ Cut(trace[i - 1].frame, trace[i].frame)
  THEN <<Gap, trace[i].frame>> ELSE <<trace[i].frame>>

Series(trace) ==
  LET points[i \in 0 .. Len(trace)] == IF i = 0 THEN <<>> ELSE points[i - 1] \o Piece(trace, i)
  IN  points[Len(trace)]

-----------------------------------------------------------------------------
Init ==
  /\ sent = Gap
  /\ \E b \in Bins : model = [session |-> 0, last |-> 0, rows |-> <<>>, trace |-> <<>>, bin |-> b]
  /\ deep = [session |-> 0, last |-> 0, t |-> 0, start |-> Gap, number |-> 0, acc |-> <<>>,
             history |-> <<>>]
  /\ \E n \in Spans : view = Ranged([rows |-> <<>>, trace |-> <<>>, groups |-> <<>>, end |-> History,
                                     key |-> Gap, follow |-> TRUE, low |-> 0, high |-> History,
                                     span |-> n])
  /\ paused = FALSE
  /\ drift = [plot |-> "", points |-> <<>>]

Redraw == view' = IF paused THEN view ELSE Render(view, model', deep')

\* update_data(): what the frames of a timer tick made, and one drawing.
Update(last, m, d) ==
  /\ sent' = last /\ model' = m /\ deep' = d
  /\ Redraw /\ UNCHANGED <<paused, drift>>

\* The next frame: the next number or a later one, in time or late, or of a
\* new session.
After(f) ==
  {[s |-> f.s, id |-> f.id + n, t |-> f.t + 2 * n + late] :
     n \in IF f.s = 0 THEN {} ELSE 1 .. Capacity + 1, late \in Lates}
  \cup {[s |-> f.s + 1, id |-> 1, t |-> f.t + 2]}

Possible(f) == f.s <= MaxSession /\ f.id <= MaxId

Receive ==
  \E f \in After(sent) :
    /\ Possible(f)
    /\ \/ Update(f, Push(model, f), DeepPush(deep, f))
       \/ \E g \in After(f) :
            /\ Possible(g)
            /\ Update(g, Push(Push(model, f), g), DeepPush(DeepPush(deep, f), g))

Select(b) ==
  /\ ~paused /\ b # model.bin
  /\ model' = SelectBin(model, b)
  /\ UNCHANGED <<sent, deep, paused, drift>> /\ Redraw

Cleared == [plot |-> "", points |-> <<>>]

Pause == /\ ~paused /\ paused' = TRUE
         /\ UNCHANGED <<sent, model, deep, view, drift>>

Resume ==
  /\ paused /\ paused' = FALSE /\ drift' = Cleared
  /\ view' = Render(view, model, deep)
  /\ UNCHANGED <<sent, model, deep>>

\* A drag: the range first, then follow goes off.
Scroll(low, high) ==
  /\ Drags /\ view.end - Greater(Len(view.rows), view.span) <= low /\ low + 2 <= high /\ high <= view.end
  /\ view' = Ranged([view EXCEPT !.low = low, !.high = high, !.follow = FALSE])
  /\ UNCHANGED <<sent, model, deep, paused, drift>>

Follow ==
  /\ view' = Ranged([view EXCEPT !.follow = ~@])
  /\ UNCHANGED <<sent, model, deep, paused, drift>>

\* Not followed, the window changes below its upper end.
ChangeWindow(n) ==
  /\ n # view.span
  /\ view' = Ranged([view EXCEPT !.span = n,
                                 !.low = IF view.follow THEN @ ELSE view.high - n])
  /\ UNCHANGED <<sent, model, deep, paused, drift>>

ReturnToLive ==
  /\ paused \/ ~view.follow
  /\ paused' = FALSE /\ drift' = Cleared
  /\ view' = Render([view EXCEPT !.follow = TRUE], model, deep)
  /\ UNCHANGED <<sent, model, deep>>

StampAt(v, plot, y) ==
  IF plot = "deep" THEN GroupAt(v, y).last.t ELSE RowAt(v, y).t

\* The first point of a pair, or of another waterfall; or the second.
DriftClick(plot, y, valid) ==
  LET p == [y |-> y, t |-> StampAt(view, plot, y)] IN
  /\ y \in view.end - Len(view.rows) .. view.end - 1
  /\ paused' = TRUE
  /\ drift' = IF p.t = 0 \/ ~valid THEN drift
              ELSE IF drift.plot # plot \/ Len(drift.points) >= 2
              THEN [plot |-> plot, points |-> <<p>>]
              ELSE [drift EXCEPT !.points = Append(@, p)]
  /\ UNCHANGED <<sent, model, deep, view>>

Next ==
  \/ Receive
  \/ \E b \in Bins : Select(b)
  \/ Pause \/ Resume \/ Follow \/ ReturnToLive
  \/ \E low, high \in 0 - Capacity .. view.end : Scroll(low, high)
  \/ \E n \in Spans : ChangeWindow(n)
  \/ \E plot \in Plots, y \in 0 .. view.end, valid \in BOOLEAN : DriftClick(plot, y, valid)

Spec == Init /\ [][Next]_vars

-----------------------------------------------------------------------------
(* Properties.                                                             *)

\* The histories are bounded; the range lies within its limits and is as wide
\* as it must be.
TypeOK ==
  /\ Len(model.rows) <= Capacity /\ Len(model.trace) <= Capacity
  /\ Len(deep.acc) < Deep
  /\ view.low >= view.end - Greater(Len(view.rows), view.span) /\ view.high <= view.end
  /\ view.high - view.low >= 2

\* The trace of the selected bin is the end of the history: an entry is of the
\* frame of the row beside it, whatever was lost, dropped or selected between,
\* and of no other bin.  The fringe plot joins the two.
TraceFollowsRows ==
  LET n == Len(model.trace) IN
  /\ n <= Len(model.rows)
  /\ [i \in 1 .. n |-> model.trace[i].frame] = Keep(model.rows, n)
  /\ \A i \in 1 .. n : model.trace[i].bin = model.bin

\* A deep group is of as many frames as it must be, one after the other and
\* without a break in time between them, and it is labelled with the first
\* and the last of them: the labels are kept outside of the integrator.
GroupsAreRuns ==
  \A n \in DOMAIN deep.history :
    LET g == deep.history[n] IN
    /\ g.of = [k \in 1 .. Deep |-> g.first.id + k - 1] /\ g.last.id = g.first.id + Deep - 1
    /\ g.first.s = g.last.s /\ g.last.t - g.first.t = 2 * (Deep - 1)

\* The rows of the history are numbered without a gap: every frame that is
\* missing between two has its hole.
RowsAreSlots ==
  \A i, j \in DOMAIN model.rows :
    model.rows[i] # Gap /\ model.rows[j] # Gap => model.rows[j].id - model.rows[i].id = j - i

\* A line of the curves over time joins two frames only if nothing was lost
\* between them and the second came in time, and no frame is left out.
LinesJoinNeighbours ==
  LET points == Series(view.trace) IN
  /\ \A i \in 2 .. Len(points) :
       points[i - 1] # Gap /\ points[i] # Gap =>
         points[i].s = points[i - 1].s /\ points[i].id = points[i - 1].id + 1
         /\ points[i].t - points[i - 1].t = 2
  /\ {points[i] : i \in DOMAIN points} \ {Gap} = {x.frame : x \in ToSet(view.trace)} \ {Gap}

\* A frame that stays on the display keeps its coordinate, over lost frames,
\* a pause of any length and the limit of the history.
FrameStays ==
  \A i \in DOMAIN view.rows, j \in DOMAIN view'.rows :
    view.rows[i] # Gap /\ view'.rows[j] = view.rows[i] => Place(view', j) = Place(view, i)

\* What is browsed stays in sight: new frames move nothing out of the range of
\* a waterfall that does not follow, but what leaves the history.
RangeStays ==
  ~view.follow /\ ~view'.follow /\ sent' # sent =>
    \A i \in DOMAIN view.rows, j \in DOMAIN view'.rows :
      /\ view.rows[i] # Gap /\ view'.rows[j] = view.rows[i]
      /\ view.low <= Place(view, i) /\ Place(view, i) < view.high
      => view'.low <= Place(view', j) /\ Place(view', j) < view'.high

\* "Both endpoints must refer to the same displayed waterfall generation"
\* (src/viewer/viewer_fx.py:1828): a point of a measurement is still at the
\* stamp it was taken at.
DriftReadsDisplay ==
  \A n \in DOMAIN drift.points :
    drift.points[n].t = StampAt(view, drift.plot, drift.points[n].y)

\* The image of the deep waterfall and the readout under the mouse, which look
\* for the group of a row in two ways, find the same.
ImageAgreesWithReadout ==
  \A i \in DOMAIN view.rows : GroupDrawn(view, Place(view, i)) = GroupAt(view, Place(view, i))

\* The histories, the groups and the curves are of the same frames, in place.
HistoryIsWhole ==
  /\ TraceFollowsRows /\ RowsAreSlots
  /\ GroupsAreRuns /\ ImageAgreesWithReadout /\ LinesJoinNeighbours

\* Rows, trace, deep groups and curves are of the same frames, every lost one
\* has its hole, nothing is joined over a break, and a point of a measurement
\* is still at the stamp it was taken at (viewer_fx.py ObservationHistory,
\* DeepIntegrator, handle_drift_click()).
HistoryIsTrue == HistoryIsWhole /\ DriftReadsDisplay
=============================================================================
