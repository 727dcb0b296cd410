---------------------------- MODULE RollingView ----------------------------
(***************************************************************************)
(* The rolling median of the live viewer (src/viewer/rolling_controls.py   *)
(* and live_residuals() of src/viewer/rolling_median.py) over the history  *)
(* of LiveHistory: a worker thread makes the residuals of a snapshot of    *)
(* the display, with what the last one made as a cache; its answer comes   *)
(* while frames arrive and the user pauses, cancels or changes settings.   *)
(*                                                                         *)
(* A residual is the set of the frames whose median was taken, and empty   *)
(* where there are too few.  version only tells a token from a later one:  *)
(* the worker keeps whether its token still holds.                         *)
(***************************************************************************)
EXTENDS LiveHistory

CONSTANTS Settings,   \* [window, centered, min]: what the residuals depend on
          Clips,      \* the choices of clipping
          MaxCells    \* MAX_WINDOW_CELLS, in rows

SettingsAssumption ==
  Settings \subseteq [window : Nat \ {0}, centered : BOOLEAN, min : Nat \ {0}] /\ MaxCells \in Nat
  /\ Clips \subseteq BOOLEAN

VARIABLES
  roll,    \* RollingController
  image    \* the images of the waterfalls, as they were drawn

rollVars == <<vars, roll, image>>

-----------------------------------------------------------------------------
(* window_bounds() and live_residuals().                                   *)

Broken(rows, i) ==
  i = 1 \/ rows[i - 1] = Gap \/ rows[i].s # rows[i - 1].s \/ rows[i].id # rows[i - 1].id + 1
  \/ rows[i].t <= rows[i - 1].t \/ rows[i].t - rows[i - 1].t > 3

SameSegment(rows, i, j) ==
  \A k \in Lesser(i, j) .. Greater(i, j) :
    rows[k] # Gap /\ (k = Lesser(i, j) \/ ~Broken(rows, k))

\* The rows of a segment whose stamps are in the window of row i.
Window(rows, c, i) ==
  LET before == IF c.centered THEN c.window \div 2 ELSE c.window
      after == IF c.centered THEN c.window \div 2 ELSE 0
  IN  {j \in DOMAIN rows : /\ SameSegment(rows, i, j)
                           /\ rows[i].t - before <= rows[j].t /\ rows[j].t <= rows[i].t + after}

Residual(rows, c, i) ==
  LET w == Window(rows, c, i) IN IF Cardinality(w) < c.min THEN {} ELSE {rows[j] : j \in w}

\* Mutant: a window is known by where it ends.
SignatureByEnd(rows, c, i) ==
  LET w == Window(rows, c, i)
      high == CHOOSE j \in w : \A k \in w : k <= j
  IN  [c |-> c, first |-> rows[high], last |-> rows[high], count |-> 0]

\* What a cached residual is known by.
Signature(rows, c, i) ==
  LET w == Window(rows, c, i)
      low == CHOOSE j \in w : \A k \in w : j <= k
      high == CHOOSE j \in w : \A k \in w : k <= j
  IN  [c |-> c, first |-> rows[low], last |-> rows[high], count |-> Cardinality(w)]

None == [c \in {} |-> c]
Raw == [window |-> 0, centered |-> FALSE, min |-> 1]
Pending == [window |-> 0, centered |-> FALSE, min |-> 0]

Frames(rows) == {i \in DOMAIN rows : rows[i] # Gap}
At(rows, f) == CHOOSE i \in Frames(rows) : rows[i] = f
Members(rows, g) == {i \in Frames(rows) : rows[i].s = g.first.s /\ Covers(g, rows[i])}

Reused(rows, c, prev, i) ==
  rows[i] \in DOMAIN prev /\ prev[rows[i]].signature = Signature(rows, c, i)

LiveCache(rows, c, prev) ==
  [f \in {rows[i] : i \in Frames(rows)} |->
     LET i == At(rows, f) IN
     [signature |-> Signature(rows, c, i),
      residual |-> IF Reused(rows, c, prev, i) THEN prev[f].residual ELSE Residual(rows, c, i)]]

\* A group has a mean when all its frames are there; it is kept while the
\* residuals of all of them are.
LiveDeep(rows, groups, c, prev, prevDeep) ==
  LET cache == LiveCache(rows, c, prev)
      whole == {g \in ToSet(groups) :
                  Cardinality(Members(rows, g)) = g.last.id - g.first.id + 1}
  IN  [g \in whole |->
         IF g \in DOMAIN prevDeep /\ \A i \in Members(rows, g) : Reused(rows, c, prev, i)
         THEN prevDeep[g]
         ELSE {cache[rows[i]].residual : i \in Members(rows, g)}]

\* A window that is made must fit.
TooLarge(rows, c, prev) ==
  \E i \in Frames(rows) :
    ~Reused(rows, c, prev, i) /\ Cardinality(Window(rows, c, i)) > MaxCells

-----------------------------------------------------------------------------
(* RollingController.                                                      *)

NoSignature == [rows |-> <<>>, groups |-> <<NoGroup>>]
NoBase == [rows |-> <<>>, groups |-> <<>>]
NoWorker == [state |-> "none", token |-> FALSE, source |-> <<>>, base |-> NoBase,
             config |-> Pending, cache |-> None, deep |-> None, offer |-> FALSE, asked |-> FALSE]

NewRoll(c, clip) ==
  [config |-> [enabled |-> FALSE, clip |-> clip, of |-> c], signature |-> NoSignature,
   source |-> <<>>, suspended |-> FALSE, failed |-> FALSE,
   cache |-> None, deep |-> None, base |-> NoBase, worker |-> NoWorker, stale |-> TRUE]
NoImage == [rows |-> <<>>, groups |-> <<>>, fast |-> <<>>, deep |-> <<>>]

RollInit ==
  /\ Init
  /\ \E c \in Settings, clip \in Clips : roll = NewRoll(c, clip)
  /\ image = NoImage

\* identity(), of the live source.
Identity(v, m, stopped) ==
  <<Latest(IF stopped THEN v.rows ELSE m.rows).s, stopped>>

Outdated(w) == [w EXCEPT !.token = FALSE, !.asked = w.state # "none"]

\* invalidate().
Invalidated(r) ==
  [r EXCEPT !.signature = NoSignature, !.cache = None, !.deep = None, !.base = NoBase,
            !.failed = FALSE, !.stale = TRUE, !.worker = Outdated(@)]

\* pulse(): of the timer, of a change and of the end of a worker.
Pulsed(r, v, m, d, stopped) ==
  LET identity == Identity(v, m, stopped)
      s == IF identity = r.source THEN r ELSE Invalidated([r EXCEPT !.source = identity])
      base == IF stopped THEN [rows |-> v.rows, groups |-> v.groups]
              ELSE [rows |-> m.rows, groups |-> d.history]
  IN  IF r.suspended THEN r
      ELSE IF ~s.config.enabled \/ base = s.signature \/ s.worker.state # "none" THEN s
      ELSE [s EXCEPT !.signature = base,
                     !.worker = [state |-> "running", token |-> TRUE, source |-> s.source,
                                 base |-> base, config |-> s.config.of, cache |-> s.cache,
                                 deep |-> s.deep, offer |-> TRUE, asked |-> FALSE]]

\* fast_values() and deep_values(): the raw values, or no value, or a residual.
Off == [c |-> Raw, clip |-> FALSE, of |-> {}]
FastValue(r, f) ==
  IF ~r.config.enabled THEN Off
  ELSE IF f \notin DOMAIN r.cache THEN [c |-> Pending, clip |-> r.config.clip, of |-> {}]
  ELSE [c |-> r.cache[f].signature.c, clip |-> r.config.clip, of |-> r.cache[f].residual]
DeepValue(r, g) ==
  IF ~r.config.enabled THEN Off
  ELSE [c |-> Pending, clip |-> r.config.clip, of |-> IF g \in DOMAIN r.deep THEN r.deep[g] ELSE {}]

\* _render_wf_window(), with all of the history in sight.
Drawn(r, v) ==
  IF ~r.stale /\ image.rows = v.rows /\ image.groups = Shown(v) THEN image
  ELSE [rows |-> v.rows, groups |-> Shown(v),
        fast |-> [i \in DOMAIN v.rows |-> IF v.rows[i] = Gap THEN Off ELSE FastValue(r, v.rows[i])],
        deep |-> [n \in DOMAIN Shown(v) |-> DeepValue(r, Shown(v)[n])]]
Draw(r, v) == image' = Drawn(r, v) /\ roll' = [r EXCEPT !.stale = FALSE]

-----------------------------------------------------------------------------
(* Frames, the pause, the settings.                                        *)

RollReceive ==
  /\ Receive
  /\ IF paused THEN UNCHANGED <<roll, image>> ELSE Draw(roll, view')

\* toggled(): the viewer's own slot first, then invalidate().
RollPause == Pause /\ roll' = Invalidated(roll) /\ UNCHANGED image
RollResume == Resume /\ image' = Drawn(roll, view') /\ roll' = Invalidated(roll)

Pulse == roll' = Pulsed(roll, view, model, deep, paused) /\ UNCHANGED <<vars, image>>

\* resume() and change(), of a setting or of none.
Commit(config) ==
  LET r == IF roll.suspended THEN [roll EXCEPT !.signature = NoSignature, !.suspended = FALSE] ELSE roll
      displayOnly == [config EXCEPT !.clip = FALSE] = [r.config EXCEPT !.clip = FALSE]
      c == IF displayOnly THEN [r EXCEPT !.config = config]
           ELSE Invalidated([r EXCEPT !.config = config])
      unstale == [c EXCEPT !.stale = FALSE]
  IN  /\ IF config = roll.config
         THEN roll' = Pulsed(r, view, model, deep, paused) /\ UNCHANGED <<image, drift>>
         ELSE /\ image' = Drawn(c, view) /\ drift' = Cleared
              /\ roll' = Pulsed(unstale, view, model, deep, paused)
      /\ UNCHANGED <<sent, model, deep, view, paused>>

\* The button is there from the start of a worker.
Cancel ==
  /\ roll.worker.offer
  /\ roll' = [roll EXCEPT !.suspended = TRUE, !.signature = NoSignature,
                          !.worker = [Outdated(@) EXCEPT !.offer = FALSE]]
  /\ UNCHANGED <<vars, image>>

-----------------------------------------------------------------------------
(* RollingWorker.                                                          *)

\* run(): nothing is emitted once it was asked to stop.
Compute ==
  LET w == roll.worker IN
  /\ w.state = "running"
  /\ roll' = [roll EXCEPT !.worker =
       IF w.asked THEN [w EXCEPT !.state = "ended"]
       ELSE IF TooLarge(w.base.rows, w.config, w.cache) THEN [w EXCEPT !.state = "failed"]
       ELSE [w EXCEPT !.state = "ready", !.cache = LiveCache(w.base.rows, w.config, w.cache),
                      !.deep = LiveDeep(w.base.rows, w.base.groups, w.config, w.cache, w.deep)]]
  /\ UNCHANGED <<vars, image>>

Ended(r) == [r EXCEPT !.worker = [@ EXCEPT !.state = "ended"]]
Current(w) == w.token /\ w.source = Identity(view, model, paused)

\* Mutant: any answer is taken.
CurrentAlways(w) == w.state = "ready"

\* accept().
Accept ==
  /\ roll.worker.state = "ready"
  /\ IF Current(roll.worker)
     THEN Draw(Ended([roll EXCEPT !.cache = roll.worker.cache, !.deep = roll.worker.deep,
                                  !.base = roll.worker.base, !.failed = FALSE, !.stale = TRUE]), view)
     ELSE roll' = Ended(roll) /\ UNCHANGED image
  /\ UNCHANGED vars

\* fail().
Fail ==
  /\ roll.worker.state = "failed"
  /\ roll' = Ended([roll EXCEPT !.failed = @ \/ Current(roll.worker)])
  /\ UNCHANGED <<vars, image>>

\* finished().
Finished ==
  /\ roll.worker.state = "ended"
  /\ roll' = Pulsed([roll EXCEPT !.worker = NoWorker], view, model, deep, paused)
  /\ UNCHANGED <<vars, image>>

Configs == [enabled : BOOLEAN, clip : Clips, of : Settings]

RollNext ==
  \/ RollReceive \/ RollPause \/ RollResume
  \/ Pulse \/ Cancel
  \/ \E c \in Configs : Commit(c)
  \/ Compute \/ Accept \/ Fail \/ Finished

RollSpec == RollInit /\ [][RollNext]_rollVars

-----------------------------------------------------------------------------
(* Properties.                                                             *)

\* The residuals that are kept are those that a computation from nothing
\* makes, under the settings of now, of the rows and groups that were given
\* to the worker: no residual outlives the fall of a row of its window out of
\* the history, a new row, or a change of the settings.
ResultsAreExact ==
  roll.base # NoBase =>
    /\ roll.cache = LiveCache(roll.base.rows, roll.config.of, None)
    /\ roll.deep = LiveDeep(roll.base.rows, roll.base.groups, roll.config.of, None, None)

\* A residual on the display is never of other settings than those in the
\* title, and there is none when the median is off.
ShownSettings ==
  \A i \in DOMAIN image.fast :
    image.rows[i] # Gap =>
      IF roll.config.enabled THEN image.fast[i].c \in {Pending, roll.config.of}
      ELSE image.fast[i] = Off

\* The image shows, but for the clipping, what the readout under the mouse
\* says, unless it is due to be drawn anew.
ImageIsReadout ==
  ~roll.stale =>
    /\ \A i \in DOMAIN image.rows : image.rows[i] # Gap =>
         image.fast[i].of = FastValue(roll, image.rows[i]).of
    /\ \A n \in DOMAIN image.groups : image.deep[n].of = DeepValue(roll, image.groups[n]).of

\* A residual on the display, in the image as in the readout, is what a
\* computation from nothing makes under the settings of now, whatever came
\* between its worker's start and its end (rolling_controls.py, live_residuals()).
RollingIsTrue == ResultsAreExact /\ ShownSettings /\ ImageIsReadout

\* Once no frame comes and the user does nothing, what is displayed has the
\* residuals of all its rows, unless it is off, cancelled or failed.
Settled ==
  LET base == IF paused THEN [rows |-> view.rows, groups |-> view.groups]
              ELSE [rows |-> model.rows, groups |-> deep.history]
  IN  \/ ~roll.config.enabled \/ roll.suspended \/ roll.failed
      \/ roll.cache = LiveCache(base.rows, roll.config.of, None)
=============================================================================
