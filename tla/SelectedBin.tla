---------------------------- MODULE SelectedBin ----------------------------
(***************************************************************************)
(* The bin the live viewer follows (src/viewer/viewer_fx.py): the spin     *)
(* box, the marker on the spectrum, the keys and the clicks that choose    *)
(* it, the curves over time that are drawn of it, the pause that holds     *)
(* them and the readout under the pointer.                                 *)
(*                                                                         *)
(* Bin b is at 3 * b on the axis of the frequencies, so that the spin box  *)
(* and the marker can be next to it.  What is kept of the observations is  *)
(* LiveHistory's.  A frame has a quality: "low" is a coherence under the   *)
(* threshold, "floor" a magnitude at the sender's floor.  The archive and  *)
(* its own curves (viewer_h5.py) are not part of this module.              *)
(***************************************************************************)
EXTENDS Integers, Sequences, SequencesExt

CONSTANTS Capacity,     \* rows and samples that are kept
          MaxBin,       \* BINS - 1
          Qualities,
          Lates,        \* how late a frame may be
          Pointed,      \* the plots the pointer is moved over
          MaxSession, MaxId

BinAssumption ==
  /\ {Capacity, MaxBin, MaxSession, MaxId} \subseteq Nat \ {0}
  /\ Qualities \subseteq {"good", "low", "floor"} /\ Lates \subseteq {0, 3}
  /\ Pointed \subseteq {"power", "gamma", "fringe"}

VARIABLES
  sent,    \* the last frame that was sent
  model,   \* ObservationHistory
  spin,    \* frequency
  marker,  \* where it is, whether it is dragged, and history: whether it was
           \* let go in a pause and not put to a bin since
  paused,  \* pause_button
  linear,  \* fringe_mode
  visible, \* whether the fringes are shown
  shown,   \* _display_rows, _display_trace and the curves
  hover    \* the sample of the readout, and of which plot

vars == <<sent, model, spin, marker, paused, linear, visible, shown, hover>>

Kept == INSTANCE LiveHistory
        WITH History <- Capacity, Deep <- 1, Spans <- {2}, Bins <- 0 .. MaxBin, Plots <- {},
             Drags <- FALSE, deep <- 0, view <- 0, drift <- 0

Gap == Kept!Gap
Positions == 0 .. 3 * MaxBin
At(b) == 3 * b
Nearest(v) == (v + 1) \div 3

Clip(b) == IF b < 0 THEN 0 ELSE IF b > MaxBin THEN MaxBin ELSE b

-----------------------------------------------------------------------------
(* The curves.                                                             *)

Disjoint(f, g) == f.s # g.s \/ g.id # f.id + 1 \/ Kept!Break(f.t, g)

\* A break is a point of its own, so that no line is drawn across it.
Curve(trace) ==
  LET points(i) == IF i > 1 /\ trace[i].frame # Gap /\ trace[i - 1].frame # Gap
                      /\ Disjoint(trace[i - 1].frame, trace[i].frame)
                   THEN <<[trace[i] EXCEPT !.frame = Gap], trace[i]>> ELSE <<trace[i]>>
  IN  FlattenSeq([i \in DOMAIN trace |-> points(i)])

\* The row the magnitude of the sample comes from: that of the same observation.
Magnitude(rows, trace, f) == IF \E i \in DOMAIN rows : rows[i] = f THEN f ELSE Gap

\* reconstruct_fringe(): which points have a value.
Reconstructed(row, f, lin) ==
  row # Gap /\ f.q # "low" /\ ~(lin /\ f.q = "floor")

\* build_fringe_series().
Fringe(rows, trace, bin, lin) ==
  LET point(p) == LET row == IF p.frame = Gap THEN Gap ELSE Magnitude(rows, trace, p.frame)
                  IN  [frame |-> p.frame, bin |-> p.bin, row |-> row, rowBin |-> bin,
                       finite |-> p.frame # Gap /\ Reconstructed(row, p.frame, lin)]
      curve == Curve(trace)
  IN  [i \in DOMAIN curve |-> point(curve[i])]

\* _update_fringe_plot(): nothing is computed while the plot is hidden.
WithFringe(d, bin, lin, vis) ==
  IF vis THEN [d EXCEPT !.fringe = Fringe(d.rows, d.trace, bin, lin)] ELSE d

\* render(), when it is not paused.
Rendered(m) ==
  WithFringe([shown EXCEPT !.rows = m.rows, !.trace = m.trace, !.label = m.bin,
                           !.gamma = Curve(m.trace), !.power = Curve(m.trace)],
             m.bin, linear, visible)

-----------------------------------------------------------------------------
Init ==
  /\ sent = [s |-> 1, id |-> 0, t |-> 0, q |-> "good"]
  /\ spin = At(0) /\ marker = [at |-> 0, held |-> FALSE, astray |-> FALSE]
  /\ model = [session |-> 0, last |-> 0, bin |-> 0, rows |-> <<>>, trace |-> <<>>]
  /\ paused = FALSE /\ linear = FALSE /\ visible \in BOOLEAN
  /\ shown = [rows |-> <<>>, trace |-> <<>>, label |-> 0, gamma |-> <<>>, power |-> <<>>,
              fringe |-> <<>>]
  /\ hover = [plot |-> "none", frame |-> Gap]

\* update_data(): a joined observation.
Frame(skipped, late, restart, q) ==
  LET f == IF restart THEN [s |-> sent.s + 1, id |-> 1, t |-> sent.t + 2 + late, q |-> q]
           ELSE [s |-> sent.s, id |-> sent.id + 1 + skipped,
                 t |-> sent.t + (2 * (1 + skipped)) + late, q |-> q]
  IN  /\ f.s <= MaxSession /\ f.id <= MaxId
      /\ sent' = f
      /\ model' = Kept!Push(model, f)
      /\ shown' = IF paused THEN shown ELSE Rendered(model')
      /\ UNCHANGED <<spin, marker, paused, linear, visible, hover>>

\* select_frequency().
SelectFrequency(v) ==
  IF paused THEN UNCHANGED <<model, shown>> /\ marker' = marker
  ELSE /\ model' = IF Nearest(v) # model.bin THEN Kept!SelectBin(model, Nearest(v)) ELSE model
       /\ marker' = [marker EXCEPT !.at = At(model'.bin), !.astray = FALSE]
       /\ shown' = Rendered(model')

\* frequency.setValue(): the value is signalled when it is another one.
SetFrequency(v) ==
  /\ spin' = v
  /\ IF v = spin THEN UNCHANGED <<model, shown, marker>> ELSE SelectFrequency(v)

\* The spin box is disabled in the pause.
EditFrequency(v) ==
  /\ ~paused /\ v # spin
  /\ SetFrequency(v)
  /\ UNCHANGED <<sent, paused, linear, visible, hover>>

\* Mutant: the keys go on in the pause.
StepBinInPause(delta) ==
  /\ SetFrequency(At(Clip(model.bin + delta)))
  /\ UNCHANGED <<sent, paused, linear, visible, hover>>

\* step_bin().
StepBin(delta) ==
  /\ ~paused
  /\ SetFrequency(At(Clip(model.bin + delta)))
  /\ UNCHANGED <<sent, paused, linear, visible, hover>>

\* A click on the spectrum or a double click on a waterfall.
Click(b) ==
  /\ ~paused
  /\ SetFrequency(At(b))
  /\ UNCHANGED <<sent, paused, linear, visible, hover>>

\* snap_to_peak_s12(): any bin may be the peak of a spectrum that came.
Snap(b) ==
  /\ ~paused /\ model.session # 0
  /\ SetFrequency(At(b))
  /\ UNCHANGED <<sent, paused, linear, visible, hover>>

\* The marker follows the pointer while it is movable.
DragMarker(v) ==
  /\ ~paused /\ marker.at # v
  /\ marker' = [at |-> v, held |-> TRUE, astray |-> FALSE]
  /\ UNCHANGED <<sent, model, spin, paused, linear, visible, shown, hover>>

\* The marker at a bin, in nobody's hand.
Put(b) == [at |-> At(b), held |-> FALSE, astray |-> FALSE]

\* _commit_marker_bin(): the same bin keeps its trace.
CommitMarker ==
  IF Nearest(marker.at) = model.bin
  THEN marker' = Put(model.bin) /\ UNCHANGED <<spin, model, shown>>
  ELSE /\ spin' = At(Nearest(marker.at))
       /\ model' = Kept!SelectBin(model, Nearest(marker.at))
       /\ shown' = Rendered(model')
       /\ marker' = Put(model'.bin)

\* The end of a drag is signalled only while the marker is movable: a pause that
\* begins in it leaves the marker where it was.
ReleaseMarker ==
  /\ marker.held
  /\ IF paused THEN /\ marker' = [marker EXCEPT !.held = FALSE, !.astray = TRUE]
                    /\ UNCHANGED <<spin, model, shown>>
     ELSE CommitMarker
  /\ UNCHANGED <<sent, paused, linear, visible, hover>>

\* on_pause_toggled().
TogglePause ==
  /\ paused' = ~paused
  /\ hover' = [plot |-> "none", frame |-> Gap]
  /\ shown' = IF paused THEN Rendered(model) ELSE shown
  /\ UNCHANGED <<sent, model, spin, marker, linear, visible>>

\* update_layout_geometry(): the fringes are shown or hidden.
ShowFringe ==
  /\ visible' = ~visible
  /\ shown' = WithFringe(shown, model.bin, linear, visible')
  /\ UNCHANGED <<sent, model, spin, marker, paused, linear, hover>>

\* _on_fringe_mode_changed().
SetMode ==
  /\ linear' = ~linear
  /\ shown' = WithFringe(shown, model.bin, linear', visible)
  /\ UNCHANGED <<sent, model, spin, marker, paused, visible, hover>>

Samples(trace) == {trace[i].frame : i \in DOMAIN trace} \ {Gap}
Distance(f, t) == IF f.t > t THEN f.t - t ELSE t - f.t

\* The sample that is nearest to the pointer: of the trace that is displayed,
\* but for the powers of the trace that is kept.
Hovered(plot) == IF plot = "power" THEN Samples(model.trace) ELSE Samples(shown.trace)

Hover(plot, t) ==
  /\ plot = "fringe" => visible
  /\ \E f \in Hovered(plot) :
       /\ \A g \in Hovered(plot) : Distance(f, t) <= Distance(g, t)
       /\ hover' = [plot |-> plot, frame |-> f]
  /\ UNCHANGED <<sent, model, spin, marker, paused, linear, visible, shown>>

Next ==
  \/ \E skipped \in 0 .. 1, late \in Lates, restart \in BOOLEAN, q \in Qualities :
       Frame(skipped, late, restart, q)
  \/ \E v \in Positions : EditFrequency(v)
  \/ \E delta \in {-1, 1} : StepBin(delta)
  \/ \E b \in 0 .. MaxBin : Click(b)
  \/ \E b \in 0 .. MaxBin : Snap(b)
  \/ \E v \in Positions : DragMarker(v)
  \/ ReleaseMarker
  \/ TogglePause
  \/ ShowFringe
  \/ SetMode
  \/ \E plot \in Pointed, t \in {sent.t - 2, sent.t} : Hover(plot, t)

Spec == Init /\ [][Next]_vars

-----------------------------------------------------------------------------
Points(curve) == {curve[i] : i \in {j \in DOMAIN curve : curve[j].frame # Gap}}

TypeOK ==
  /\ model.bin \in 0 .. MaxBin /\ Len(model.rows) <= Capacity /\ Len(model.trace) <= Capacity
  /\ spin \in Positions /\ marker.at \in Positions
  /\ {marker.held, marker.astray, paused, linear, visible} \subseteq BOOLEAN
  /\ shown.label \in 0 .. MaxBin
  /\ hover.plot \in {"none", "power", "gamma", "fringe"}

\* The spin box names the bin that is followed, also after keys, clicks and
\* drags in and around a pause.  (select_frequency, step_bin)
SpinNamesBin == Nearest(spin) = model.bin

\* All that is in sight is of the bin that is followed: the label, the
\* coherences, the powers and both factors of the fringes.  (render)
DrawnOfOneBin ==
  /\ shown.label = model.bin
  /\ \A p \in Points(shown.gamma) \cup Points(shown.power) : p.bin = model.bin
  /\ visible => \A p \in Points(shown.fringe) : p.bin = model.bin /\ p.rowBin = model.bin

\* All curves in sight are of the same samples, also when the fringes were
\* hidden in between.  (_update_fringe_plot, update_layout_geometry)
DrawnOfOneTrace ==
  LET framesOf(curve) == {p.frame : p \in Points(curve)}
  IN  /\ framesOf(shown.gamma) = Samples(shown.trace)
      /\ framesOf(shown.power) = Samples(shown.trace)
      /\ visible => framesOf(shown.fringe) = Samples(shown.trace)

\* A point of the fringes has its magnitude and its phase from one
\* observation, although rows and samples are forgotten at different times;
\* a linear one never has a magnitude that was cut off at the floor, whenever
\* the mode was changed.  (build_fringe_series, reconstruct_fringe)
FringeOfOneFrame ==
  visible => \A p \in Points(shown.fringe) :
               p.finite => p.row = p.frame /\ (linear => p.row.q # "floor")

\* A line joins only observations that follow one another in time.
\* (coherence_time_series, power_time_series)
LinesJoinNeighbours ==
  \A i \in 1 .. Len(shown.gamma) - 1 :
    LET f == shown.gamma[i].frame
        g == shown.gamma[i + 1].frame
    IN  f # Gap /\ g # Gap => f.s = g.s /\ g.id = f.id + 1 /\ f.t < g.t /\ g.t <= f.t + 3

\* A marker that is not dragged is at the bin that is followed, "Drag and
\* release ...: snap to nearest bin", but for one: a marker that was let go in a
\* pause that began in the drag stays where it was, until the spin box changes
\* or it is dragged again.  (_commit_marker_bin, on_pause_toggled)
MarkerAtBin == marker.held \/ marker.astray \/ marker.at = At(model.bin)

\* The selection and all curves are of one bin and one trace, and so is the
\* marker, unless a pause cut off its drag.
OneBinIsShown ==
  /\ SpinNamesBin /\ MarkerAtBin /\ DrawnOfOneBin
  /\ DrawnOfOneTrace /\ LinesJoinNeighbours /\ FringeOfOneFrame

\* What is paused does not move on.  (render, _update_power_plot)
PausedIsHeld ==
  paused /\ paused' => /\ shown'.trace = shown.trace /\ shown'.rows = shown.rows
                       /\ shown'.gamma = shown.gamma /\ shown'.power = shown.power

=============================================================================
