--------------------------- MODULE AutoMaintenance ---------------------------
(***************************************************************************)
(* The maintenance worker that the program starts, ties to its own life    *)
(* and stops (src/scripts/storage_auto.py, AutoMaintenance of src/src/     *)
(* storage/storage_config.cpp), and the helper a pass waits for            *)
(* (solar_storage/transfer.py Rclone.run()).  The worker leads a process   *)
(* group of its own that its helpers are in.                               *)
(*                                                                         *)
(* Programs follow each other; each has one worker.  SIGTERM of the worker *)
(* is a flag until its handler runs, between two steps; a program that     *)
(* dies sends it if prctl() was called before.  Of time there is "due".    *)
(***************************************************************************)
EXTENDS Naturals

CONSTANTS Programs,   \* 1 .. n, in the order in which they run
          MayCrash    \* whether a worker may be killed from outside

MaintenanceAssumption ==
  Programs \subseteq Nat /\ MayCrash \in BOOLEAN

Roles == {"cleanup", "sync"}

VARIABLES
  main,     \* "none", "up", "stopping", then "ended" or "killed"
  worker,   \* where the worker of each program is
  term,     \* SIGTERM pending for it
  tied,     \* prctl(PR_SET_PDEATHSIG) was called
  role,     \* whose turn it is, or whose pass is in progress
  due,      \* roles that are due
  helper    \* "none", "works", "termed"

vars == <<main, worker, term, tied, role, due, helper>>

Init ==
  /\ main = [p \in Programs |-> "none"] /\ worker = [p \in Programs |-> "none"]
  /\ term = [p \in Programs |-> FALSE] /\ tied = [p \in Programs |-> FALSE]
  /\ role = [p \in Programs |-> "cleanup"] /\ due = [p \in Programs |-> {}]
  /\ helper = [p \in Programs |-> "none"]

Moves(p, from, to) == worker[p] = from /\ worker' = [worker EXCEPT ![p] = to]

Locked == {"loop", "pass", "launched", "wait", "kill"}
Gone(p) == worker[p] \in {"none", "dead"}

-----------------------------------------------------------------------------
(* The program.                                                            *)

Start(p) ==
  /\ main[p] = "none" /\ \A q \in Programs : q < p => main[q] \in {"ended", "killed"}
  /\ main' = [main EXCEPT ![p] = "up"] /\ worker' = [worker EXCEPT ![p] = "new"]
  /\ UNCHANGED <<term, tied, role, due, helper>>

\* check(): a worker that ended takes its helpers with it, and the program.
Check(p) ==
  /\ main[p] = "up" /\ worker[p] = "dead"
  /\ main' = [main EXCEPT ![p] = "ended"] /\ helper' = [helper EXCEPT ![p] = "none"]
  /\ UNCHANGED <<worker, term, tied, role, due>>

\* SIGTERM to the group: a worker without a handler dies of it.
Termed(p) ==
  /\ worker' = IF worker[p] = "new" THEN [worker EXCEPT ![p] = "dead"] ELSE worker
  /\ term' = [term EXCEPT ![p] = worker[p] \notin {"new", "dead"}]
  /\ helper' = IF helper[p] = "works" THEN [helper EXCEPT ![p] = "termed"] ELSE helper

Stop(p) ==
  /\ main[p] = "up" /\ main' = [main EXCEPT ![p] = "stopping"]
  /\ Termed(p)
  /\ UNCHANGED <<tied, role, due>>

\* Mutant: a worker that ended in time is only waited for.
StoppedOnly(p) ==
  /\ main[p] = "stopping" /\ main' = [main EXCEPT ![p] = "ended"]
  /\ IF worker[p] = "dead"
     THEN UNCHANGED <<worker, helper>>
     ELSE /\ worker' = [worker EXCEPT ![p] = "dead"]
          /\ helper' = [helper EXCEPT ![p] = "none"]
  /\ UNCHANGED <<term, tied, role, due>>

\* Within five seconds or after them, what is left of the group is killed.
Stopped(p) ==
  /\ main[p] = "stopping" /\ main' = [main EXCEPT ![p] = "ended"]
  /\ worker' = [worker EXCEPT ![p] = "dead"] /\ helper' = [helper EXCEPT ![p] = "none"]
  /\ UNCHANGED <<term, tied, role, due>>

Die(p) ==
  /\ main[p] \in {"up", "stopping"} /\ main' = [main EXCEPT ![p] = "killed"]
  /\ term' = [term EXCEPT ![p] = @ \/ (tied[p] /\ ~Gone(p))]
  /\ UNCHANGED <<worker, tied, role, due, helper>>

-----------------------------------------------------------------------------
(* The worker.                                                             *)

Arm(p) == Moves(p, "new", "armed") /\ UNCHANGED <<main, term, tied, role, due, helper>>

Tie(p) ==
  /\ Moves(p, "armed", "tied") /\ tied' = [tied EXCEPT ![p] = TRUE]
  /\ UNCHANGED <<main, term, role, due, helper>>

\* A parent that died before prctl() sends nothing.
AskParent(p) ==
  /\ Moves(p, "tied", IF main[p] = "killed" THEN "exit" ELSE "lock")
  /\ UNCHANGED <<main, term, tied, role, due, helper>>

Lock(p) ==
  /\ Moves(p, "lock", IF \E q \in Programs : worker[q] \in Locked THEN "exit" ELSE "loop")
  /\ UNCHANGED <<main, term, tied, role, due, helper>>

Other(r) == CHOOSE q \in Roles : q # r

\* for role in ("cleanup", "sync"): a pass of what is due.
Turn(p) ==
  /\ worker[p] = "loop"
  /\ IF role[p] \in due[p]
     THEN Moves(p, "loop", "pass") /\ UNCHANGED role
     ELSE UNCHANGED worker /\ role' = [role EXCEPT ![p] = Other(@)]
  /\ UNCHANGED <<main, term, tied, due, helper>>

Launch(p) ==
  /\ Moves(p, "pass", "launched") /\ helper' = [helper EXCEPT ![p] = "works"]
  /\ UNCHANGED <<main, term, tied, role, due>>

Await(p) == Moves(p, "launched", "wait") /\ UNCHANGED <<main, term, tied, role, due, helper>>

\* The helper ended, or its time did and it is killed.
Awaited(p) ==
  /\ Moves(p, "wait", "pass") /\ helper' = [helper EXCEPT ![p] = "none"]
  /\ UNCHANGED <<main, term, tied, role, due>>

\* A pass ends, in whatever way, and the turn is the next role's.
EndPass(p) ==
  /\ Moves(p, "pass", "loop")
  /\ due' = [due EXCEPT ![p] = @ \ {role[p]}] /\ role' = [role EXCEPT ![p] = Other(@)]
  /\ UNCHANGED <<main, term, tied, helper>>

\* The handler: SIGTERM to the group, and StopWorker is raised where the
\* worker is, which kills the helper only from the place that waits for it.
Handle(p) ==
  /\ term[p] /\ term' = [term EXCEPT ![p] = FALSE]
  /\ worker[p] \notin {"exit", "kill"} /\ ~Gone(p)
  /\ worker' = [worker EXCEPT ![p] = IF @ = "wait" THEN "kill" ELSE "exit"]
  /\ helper' = IF helper[p] = "works" THEN [helper EXCEPT ![p] = "termed"] ELSE helper
  /\ UNCHANGED <<main, tied, role, due>>

KillHelper(p) ==
  /\ Moves(p, "kill", "exit") /\ helper' = [helper EXCEPT ![p] = "none"]
  /\ UNCHANGED <<main, term, tied, role, due>>

Exit(p) == Moves(p, "exit", "dead") /\ UNCHANGED <<main, term, tied, role, due, helper>>

Work(p) ==
  \/ Arm(p) \/ Tie(p) \/ AskParent(p) \/ Lock(p) \/ Turn(p) \/ Launch(p) \/ Await(p)
  \/ Awaited(p) \/ EndPass(p) \/ KillHelper(p) \/ Exit(p)

-----------------------------------------------------------------------------
Crash(p) ==
  /\ MayCrash /\ ~Gone(p) /\ worker' = [worker EXCEPT ![p] = "dead"]
  /\ UNCHANGED <<main, term, tied, role, due, helper>>

Obey(p) ==
  /\ helper[p] = "termed" /\ helper' = [helper EXCEPT ![p] = "none"]
  /\ UNCHANGED <<main, worker, term, tied, role, due>>

Due(p, r) ==
  /\ r \notin due[p] /\ worker[p] \in Locked
  /\ due' = [due EXCEPT ![p] = @ \cup {r}]
  /\ UNCHANGED <<main, worker, term, tied, role, helper>>

Step(p) ==
  \/ Start(p) \/ Check(p) \/ Stop(p) \/ Stopped(p) \/ Die(p)
  \/ Work(p) \/ Handle(p) \/ Crash(p) \/ Obey(p) \/ \E r \in Roles : Due(p, r)

Next == \E p \in Programs : Step(p)

Spec == Init /\ [][Next]_vars

-----------------------------------------------------------------------------
(* Properties.                                                             *)

\* A program that was stopped, or whose worker failed, leaves nobody behind:
\* not the worker, nor a helper that ignored SIGTERM or that was started just
\* before (storage_config.cpp stop() and check()).
EndsAlone == \A p \in Programs : main[p] = "ended" => Gone(p) /\ helper[p] = "none"

\* Two workers are never in their loops, whatever the worker of a program that
\* was killed is still doing (storage_auto.py, automatic worker already running).
OneWorker == \A p, q \in Programs : {worker[p], worker[q]} \subseteq Locked => p = q

=============================================================================
