----------------------------- MODULE LiveViewer -----------------------------
(***************************************************************************)
(* The parts of the live viewer: its history with the rolling median       *)
(* (RollingView), the selected bin (SelectedBin) and the scales (Scales).  *)
(* Each is given all that its neighbours may hand it, so they share no     *)
(* state here; what they promise together is stated here.                  *)
(***************************************************************************)
EXTENDS RollingView, Scales

CONSTANTS MaxBin, Qualities, Pointed

VARIABLES
  \* SelectedBin; the names it has in common with LiveHistory begin with "b"
  bSent, bModel, spin, marker, bPaused, linear, visible, shown, hover

bin == <<bSent, bModel, spin, marker, bPaused, linear, visible, shown, hover>>

Bin == INSTANCE SelectedBin WITH sent <- bSent, model <- bModel, paused <- bPaused

\* A frame that stays on the display keeps its coordinate, new frames move
\* nothing out of what is browsed and nothing that is paused, and a visit to the
\* H5 mode leaves the scales as they were (viewer_fx.py _advance_wf_coordinates(),
\* render(), viewer_h5.py leave()).
DisplayHoldsStill ==
  [][FrameStays /\ RangeStays]_vars /\ [][Bin!PausedIsHeld]_bin /\ VisitsLeaveNoTrace

\* The spin box and all curves are of the bin that is followed and of one trace,
\* and so is the marker, but for one that is dragged or was let go in a pause
\* (viewer_fx.py select_frequency(), step_bin(), render(), _commit_marker_bin()).
OneBinIsShown == Bin!OneBinIsShown
=============================================================================
