----------------------------- MODULE MCProgram -----------------------------
(***************************************************************************)
(* The parent with its receivers, for two instances that may meet.         *)
(***************************************************************************)
EXTENDS Supervisor, TLC

\* A signal and a receiver that fails; a parent that is killed, and a receiver
\* that fails; a command that fails.
Faults ==
  {[signals |-> 1, faults |-> 1, kills |-> 0, gpio |-> 0],
   [signals |-> 0, faults |-> 1, kills |-> 1, gpio |-> 0],
   [signals |-> 0, faults |-> 0, kills |-> 0, gpio |-> 1]}

Alike == Permutations(Instances)
=============================================================================
