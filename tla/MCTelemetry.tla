----------------------------- MODULE MCTelemetry -----------------------------
(***************************************************************************)
(* The parts of Telemetry in one run: a behaviour is one part's, and the   *)
(* others stay as they begin.                                              *)
(***************************************************************************)
EXTENDS Telemetry

VARIABLE part

join == <<queued, arrived, jActive, jLastId, jRetired, jPending, orphan, evicted, jPc, batch,
          visit, final, emitted, entered, dropped, start>>

\* One session whose frames come in any order within a wider window: numbers
\* are skipped, and some of them come late, before the first frame or after it.
Reordered == INSTANCE Reassembly WITH
  Peers <- {1}, Sessions <- 1, MaxFrame <- 3, Window <- 2, CompletedMax <- 6

\* The legacy stream, which shows the latest frame only.
Legacy == INSTANCE Reassembly WITH Version <- 2, Peers <- {1}, Sessions <- 1, MaxFrame <- 3

\* One session of three frames in two streams, and one of a wrong stamp (Join);
\* a sender that is started again, whose second session has the lower number.
OneSession == <<1>>
Again == INSTANCE FrameJoin WITH
  active <- jActive, lastId <- jLastId, retired <- jRetired, pending <- jPending, pc <- jPc,
  RetiredMax <- JoinRetiredMax, Sessions <- <<2, 1>>, MaxFrame <- 2, MaxArrived <- 5, MaxWrong <- 0

\* A frame of the second receiver may be of another cycle.
OneOrTwo == <<{1}, {1, 2}>>

ASSUME /\ Reordered!ReassemblyAssumption /\ Legacy!ReassemblyAssumption
       /\ Remembered /\ Reordered!Remembered
       /\ Join!JoinAssumption /\ Again!JoinAssumption /\ Join!Remembered /\ Again!Remembered
       /\ HistoryAssumption /\ DualAssumption

TelemetryInit ==
  /\ part \in {"reassembly", "reordered", "legacy", "join", "join again", "single", "dual"}
  /\ Init /\ Join!Init /\ SingleInit /\ DualInit

TelemetryNext ==
  \/ part = "reassembly" /\ Next /\ UNCHANGED <<part, join, singleVars, dualVars>>
  \/ part = "reordered" /\ Reordered!Next /\ UNCHANGED <<part, join, singleVars, dualVars>>
  \/ part = "legacy" /\ Legacy!Next /\ UNCHANGED <<part, join, singleVars, dualVars>>
  \/ part = "join" /\ Join!Next /\ UNCHANGED <<part, vars, singleVars, dualVars>>
  \/ part = "join again" /\ Again!Next /\ UNCHANGED <<part, vars, singleVars, dualVars>>
  \/ part = "single" /\ SingleNext /\ UNCHANGED <<part, vars, join, dualVars>>
  \/ part = "dual" /\ DualNext /\ UNCHANGED <<part, vars, join, singleVars>>

TelemetrySpec == TelemetryInit /\ [][TelemetryNext]_<<part, vars, join, singleVars, dualVars>>
=============================================================================
