---------------------------- MODULE MCLiveViewer ----------------------------
(***************************************************************************)
(* What the live viewer makes of the frames: its history with the rolling  *)
(* median (RollingView); the history alone, with more sessions, browsed,   *)
(* and with a measurement on it (LiveHistory); the selected bin            *)
(* (SelectedBin); and the scales (Scales).  Each is given all that its     *)
(* neighbours may hand it: a behaviour is one part's, and the others stay  *)
(* as they begin.                                                          *)
(***************************************************************************)
EXTENDS LiveViewer

VARIABLE part

rolling == <<roll, image>>

Rows == INSTANCE LiveHistory WITH
  Bins <- {1, 2}, Lates <- {0, 3}, MaxSession <- 2, MaxId <- 4

Browse == INSTANCE LiveHistory WITH
  Capacity <- 4, History <- 3, Spans <- {2, 4}, Lates <- {0}, Drags <- TRUE, MaxSession <- 2,
  MaxId <- 5

Drift == INSTANCE LiveHistory WITH
  Capacity <- 4, History <- 3, Spans <- {4}, Lates <- {0}, Plots <- {"fast", "deep"},
  MaxSession <- 2, MaxId <- 4

Chosen == INSTANCE SelectedBin WITH
  sent <- bSent, model <- bModel, paused <- bPaused, Capacity <- 2, Lates <- {0, 3}, MaxId <- 3

ASSUME /\ HistoryAssumption /\ Rows!HistoryAssumption /\ Browse!HistoryAssumption
       /\ Drift!HistoryAssumption /\ Chosen!BinAssumption /\ ScalesAssumption
       /\ SettingsAssumption

Trailing == [window |-> 2, centered |-> FALSE, min |-> 1]
Centered == [window |-> 4, centered |-> TRUE, min |-> 2]
Both == {Trailing, Centered}
GoodOrFloor == {"good", "floor"}

Idle == roll = NewRoll(Trailing, TRUE) /\ image = NoImage

LiveInit ==
  /\ \/ part = "rolling" /\ RollInit
     \/ part \in {"rows", "bin", "scales"} /\ Rows!Init /\ Idle
     \/ part = "browse" /\ Browse!Init /\ Idle
     \/ part = "drift" /\ Drift!Init /\ Idle
  /\ Chosen!Init /\ (part = "bin" \/ visible) /\ ScalesInit
  /\ part = "rows" \/ model.bin = 1

LiveNext ==
  \/ part = "rolling" /\ RollNext /\ UNCHANGED <<part, bin, scalesVars>>
  \/ part = "rows" /\ Rows!Next /\ UNCHANGED <<part, rolling, bin, scalesVars>>
  \/ part = "browse" /\ Browse!Next /\ UNCHANGED <<part, rolling, bin, scalesVars>>
  \/ part = "drift" /\ Drift!Next /\ UNCHANGED <<part, rolling, bin, scalesVars>>
  \/ part = "bin" /\ Chosen!Next /\ UNCHANGED <<part, rollVars, scalesVars>>
  \/ part = "scales" /\ ScalesNext /\ UNCHANGED <<part, rollVars, bin>>

LiveSpec == LiveInit /\ [][LiveNext]_<<part, rollVars, bin, scalesVars>>

=============================================================================
