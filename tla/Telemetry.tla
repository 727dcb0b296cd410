------------------------------ MODULE Telemetry ------------------------------
(***************************************************************************)
(* From the datagrams to the joined frames: those of a stream are          *)
(* reassembled (Reassembly), those of several streams are joined           *)
(* (FrameJoin).  The first hands the second its frames only, and FrameJoin *)
(* is given every order that those may come in, so the two share no state; *)
(* what they promise together is stated here.  The viewers of one and of   *)
(* two receivers (SingleView, DualView) draw the frames as they are, and   *)
(* are given every sequence that these may come in.                        *)
(***************************************************************************)
EXTENDS Reassembly, SingleView, DualView

CONSTANTS Kinds, S12, Capacity, JoinRetiredMax, JoinSessions, JoinMaxFrame, MaxArrived, MaxWrong

VARIABLES
  \* FrameJoin; the names it has in common with Reassembly begin with "j"
  queued, arrived, jActive, jLastId, jRetired, jPending, orphan, evicted, jPc, batch, visit,
  final, emitted, entered, dropped, start

Join == INSTANCE FrameJoin WITH
  active <- jActive, lastId <- jLastId, retired <- jRetired, pending <- jPending, pc <- jPc,
  RetiredMax <- JoinRetiredMax, Sessions <- JoinSessions, MaxFrame <- JoinMaxFrame

\* What the viewer's model is given is in order: in a session every frame is
\* after the ones before it, and a session that was left does not come back
\* (telemetry_protocol.py FrameJoiner.poll()).
EmittedInOrder == Join!EmittedInOrder

\* No frame goes uncounted, none that could be emitted is passed over, and a
\* tick that finds the same frames of one session in every receiver evicts
\* none of them and emits each with all its streams, unless the timeout passes
\* within the tick (FrameJoiner.add() and poll(), viewer_fx.py update_data()).
NothingIsForgotten == Join!NothingIsForgotten

\* The viewers of one and of two receivers show the frames by number, a blank
\* line for each that was missed, and never two cycles in one line
\* (viewer.py update_data(), viewer_dual.py ingest() and commit_ready()).
WaterfallsAreHistory == DisplayIsHistory /\ PanelsAgree
=============================================================================
