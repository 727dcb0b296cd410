----------------------------- MODULE Supervisor -----------------------------
(***************************************************************************)
(* The parent process (src/src/main.cpp): the lock of the one instance,    *)
(* the two receiver processes, the names of the shared memory, the two     *)
(* outputs that switch the antenna and the noise source, the stop.         *)
(*                                                                         *)
(* What is started is an instance.  It may be interrupted, by Ctrl-C with  *)
(* its receivers, and killed; a receiver may fail or hang at any step.     *)
(* What is done with the samples is PairedStreams', the storage is         *)
(* StoragePipeline's, the ledger's check at the start is StartupProbe's.   *)
(***************************************************************************)
EXTENDS Naturals, FiniteSets

CONSTANTS Instances,
          Budgets   \* bounds on what goes wrong: signals, receivers that fail,
                    \* kills of a parent, commands to the outputs that fail

ASSUME BoundsOfSupervisor ==
  /\ 0 \notin Instances
  /\ Budgets \subseteq [signals : Nat, faults : Nat, kills : Nat, gpio : Nat]

VARIABLES
  main,    \* of every instance: pc, g_running, a signal that is pending, the
           \* object it is opening, the rings it opened, its exit code
  child,   \* of every instance and channel: state, g_child_running, signal
  lock,    \* who holds SingleInstanceLock, 0: nobody
  names,   \* whose object has the name
  made,    \* whose objects are made: they have their mark
  robbed,  \* history: objects that lost their name to a constructor that failed
  devices, \* who holds the receiver hardware
  gpio,    \* the outputs that are high
  budget   \* what may still go wrong

vars == <<main, child, lock, names, made, robbed, devices, gpio, budget>>

Channels == {1, 2}
Outputs == {"noise", "switch"}
NoName == 0

Goto(i, pc) == main' = [main EXCEPT ![i].pc = pc]

\* The rings go with the block that opened them, or with the process.
NoRings == [p \in Channels |-> 0]
LeavesRun(i, pc, code) ==
  main' = [main EXCEPT ![i].pc = pc, ![i].code = code, ![i].fd = 0, ![i].ring = NoRings]
Fail(i) == LeavesRun(i, "stop", 1)

\* A process that has ended: no signal reaches it.
Dead == [state |-> "zombie", running |-> FALSE, sig |-> FALSE]
Init ==
  /\ main = [i \in Instances |-> [pc |-> "off", running |-> TRUE, sig |-> FALSE, fd |-> 0,
                                  ring |-> NoRings, code |-> 0]]
  /\ child = [i \in Instances |->
                [p \in Channels |-> [state |-> "none", running |-> TRUE, sig |-> FALSE]]]
  /\ lock = 0 /\ names = [p \in Channels |-> NoName] /\ devices = [p \in Channels |-> 0]
  /\ gpio = {} /\ made = [p \in Channels |-> {}] /\ robbed = {}
  /\ budget \in Budgets

Zombies(i) == {p \in Channels : child[i][p].state = "zombie"}
Left(i) == {p \in Channels : child[i][p].state \notin {"none", "reaped"}}

\* The outputs go high, but for those whose command fails.
Raised(failed) ==
  /\ Cardinality(failed) <= budget.gpio
  /\ gpio' = gpio \cup (Outputs \ failed)
  /\ budget' = [budget EXCEPT !.gpio = @ - Cardinality(failed)]

\* The outputs go low, but for those whose command fails.
Lowered(failed) ==
  /\ Cardinality(failed) <= budget.gpio
  /\ gpio' = gpio \cap failed
  /\ budget' = [budget EXCEPT !.gpio = @ - Cardinality(failed)]

-----------------------------------------------------------------------------
(* The parent.                                                             *)

Acquire(i) ==
  /\ main[i].pc = "off"
  /\ IF lock = 0 THEN lock' = i /\ Goto(i, "prepare") ELSE UNCHANGED lock /\ Goto(i, "refused")
  /\ UNCHANGED <<child, names, made, robbed, devices, gpio, budget>>

\* The outputs are made safe and what is left of the names is unlinked; a
\* command that fails, or receivers that are not found, end the start.
Prepare(i) ==
  /\ main[i].pc = "prepare"
  /\ \E failed \in SUBSET Outputs :
       /\ Lowered(failed)
       /\ \/ failed # {} /\ main' = [main EXCEPT ![i].pc = "leave", ![i].code = 1]
             /\ UNCHANGED names
          \/ failed = {} /\ names' = [p \in Channels |-> NoName]
             /\ \/ Goto(i, "fork1")
                \/ main' = [main EXCEPT ![i].pc = "leave", ![i].code = 1]
  /\ UNCHANGED <<child, lock, made, robbed, devices>>

Fork(i, p) ==
  /\ main[i].pc = (IF p = 1 THEN "fork1" ELSE "fork2")
  /\ child' = [child EXCEPT ![i][p].state = "forked"]
  /\ Goto(i, IF p = 1 THEN "fork2" ELSE "calibrate")
  /\ UNCHANGED <<lock, names, made, robbed, devices, gpio, budget>>

\* The second fork() fails: the first receiver is ended.
ForkFails(i) ==
  /\ main[i].pc = "fork2" /\ budget.faults > 0
  /\ main' = [main EXCEPT ![i].pc = "terminate", ![i].code = 1]
  /\ budget' = [budget EXCEPT !.faults = @ - 1]
  /\ UNCHANGED <<child, lock, names, made, robbed, devices, gpio>>

\* The switch and the noise source are turned on, unless nothing is aligned.
Calibrate(i) ==
  /\ main[i].pc = "calibrate"
  /\ \/ UNCHANGED <<gpio, budget>> /\ Goto(i, "attach")
     \/ \E failed \in SUBSET Outputs :
          Raised(failed) /\ IF failed = {} THEN Goto(i, "attach") ELSE Fail(i)
  /\ UNCHANGED <<child, lock, names, made, robbed, devices>>

\* check_children_alive(): a receiver that ended is reaped, and ends the run.
ChildEnded(i) ==
  /\ main[i].pc \in {"attach", "wait", "select", "run"} /\ main[i].running
  /\ \E p \in Zombies(i) : child' = [child EXCEPT ![i][p].state = "reaped"]
  /\ Fail(i)
  /\ UNCHANGED <<lock, names, made, robbed, devices, gpio, budget>>

\* A look at g_running and the receivers, then the rings, one after the other.
Look(i) ==
  /\ main[i].pc = "attach" /\ main[i].running /\ Zombies(i) = {}
  /\ Goto(i, "open")
  /\ UNCHANGED <<child, lock, names, made, robbed, devices, gpio, budget>>

Wanted(i) == IF main[i].ring[1] = 0 THEN 1 ELSE 2

\* What has the name is opened, whoever's it is by now, and kept.
Open(i) ==
  /\ main[i].pc = "open" /\ main[i].fd = 0 /\ names[Wanted(i)] # NoName
  /\ main' = [main EXCEPT ![i].fd = names[Wanted(i)]]
  /\ UNCHANGED <<child, lock, names, made, robbed, devices, gpio, budget>>

Mapped(i) ==
  /\ main' = [main EXCEPT ![i].ring[Wanted(i)] = main[i].fd, ![i].fd = 0,
                          ![i].pc = IF Wanted(i) = 2 THEN "wait" ELSE @]
  /\ UNCHANGED <<child, lock, names, made, robbed, devices, gpio, budget>>

\* Mutant: an object is taken as soon as it has its name.
AttachUnmade(i) == main[i].pc = "open" /\ main[i].fd # 0 /\ Mapped(i)

Attach(i) == main[i].pc = "open" /\ main[i].fd \in made[Wanted(i)] /\ Mapped(i)

\* Five seconds without the mark, or an error: what was opened is closed.
GiveUp(i) ==
  /\ main[i].pc = "open"
  /\ main' = [main EXCEPT ![i].fd = 0, ![i].pc = "attach"]
  /\ UNCHANGED <<child, lock, names, made, robbed, devices, gpio, budget>>

\* is_ready() of an object outlives its receiver.
Ready(i, p) == main[i].ring[p] # 0 /\ child[main[i].ring[p]][p].state \in {"ready", "zombie", "reaped"}

\* Both are ready: the streams are opened.  The loop ends unchecked.
Start(i) ==
  /\ main[i].pc = "wait" /\ main[i].running /\ \A p \in Channels : Ready(i, p)
  /\ Goto(i, "select")
  /\ UNCHANGED <<child, lock, names, made, robbed, devices, gpio, budget>>

\* Ten seconds for the names, fifteen for the hardware, or any failure of the
\* alignment, of a command or of the samples; a fault of the samples may be
\* met at any time.
Timeout(i) ==
  /\ main[i].pc \in {"attach", "wait", "select", "run"} /\ main[i].running
  /\ main[i].pc = "wait" => \E p \in Channels : ~Ready(i, p)
  /\ Fail(i)
  /\ UNCHANGED <<child, lock, names, made, robbed, devices, gpio, budget>>

\* The source that is observed: the antenna, that is on when nothing was
\* aligned, or the noise.
Select(i) ==
  /\ main[i].pc = "select" /\ main[i].running /\ Zombies(i) = {}
  /\ \/ gpio = {} /\ UNCHANGED <<gpio, budget>> /\ Goto(i, "run")
     \/ \E failed \in SUBSET Outputs :
          /\ Lowered(failed) \/ Raised(failed)
          /\ IF failed = {} THEN Goto(i, "run") ELSE Fail(i)
  /\ UNCHANGED <<child, lock, names, made, robbed, devices>>

\* g_running is false: a failure while the names are waited for, and perhaps
\* while samples are discarded.
Interrupted(i) ==
  /\ main[i].pc \in {"attach", "wait", "select", "run"} /\ ~main[i].running
  /\ \E failure \in IF main[i].pc = "attach" THEN {TRUE}
                    ELSE IF main[i].pc = "select" THEN BOOLEAN ELSE {FALSE} :
       LeavesRun(i, "stop", IF failure THEN 1 ELSE main[i].code)
  /\ UNCHANGED <<child, lock, names, made, robbed, devices, gpio, budget>>

\* The storage has been drained; the outputs are made safe, and a command that
\* fails is reported.
Stop(i) ==
  /\ main[i].pc = "stop"
  /\ \E failed \in SUBSET Outputs :
       /\ Lowered(failed)
       /\ main' = [main EXCEPT ![i].pc = "terminate", ![i].running = FALSE,
                               ![i].code = IF failed = {} THEN @ ELSE 1]
  /\ UNCHANGED <<child, lock, names, made, robbed, devices>>

Terminate(i) ==
  /\ main[i].pc = "terminate"
  /\ child' = [child EXCEPT ![i] = [p \in Channels |->
                 IF p \in Left(i) THEN [child[i][p] EXCEPT !.sig = TRUE] ELSE child[i][p]]]
  /\ Goto(i, "grace")
  /\ UNCHANGED <<lock, names, made, robbed, devices, gpio, budget>>

Reap(i) ==
  /\ main[i].pc \in {"grace", "killed_left"}
  /\ \E p \in Zombies(i) : child' = [child EXCEPT ![i][p].state = "reaped"]
  /\ UNCHANGED <<main, lock, names, made, robbed, devices, gpio, budget>>

\* Mutant: who does not end within the time is left alone.
DeadlineLeaves(i) ==
  /\ main[i].pc = "grace" /\ Left(i) # {}
  /\ Goto(i, "unlink")
  /\ UNCHANGED <<child, lock, names, made, robbed, devices, gpio, budget>>

\* Mutant: who does not end within the time is asked again.
DeadlineAsksAgain(i) ==
  /\ main[i].pc = "grace" /\ Left(i) # {}
  /\ child' = [child EXCEPT ![i] = [p \in Channels |->
                 IF p \in Left(i) THEN [child[i][p] EXCEPT !.sig = TRUE] ELSE child[i][p]]]
  /\ UNCHANGED <<main, lock, names, made, robbed, devices, gpio, budget>>

\* Three seconds have passed: SIGKILL.
Deadline(i) ==
  /\ main[i].pc = "grace" /\ Left(i) # {}
  /\ child' = [child EXCEPT ![i] = [p \in Channels |->
                 IF p \in Left(i) THEN Dead ELSE child[i][p]]]
  /\ devices' = [p \in Channels |-> IF devices[p] = i THEN 0 ELSE devices[p]]
  /\ Goto(i, "killed_left")
  /\ UNCHANGED <<lock, names, made, robbed, gpio, budget>>

Reaped(i) ==
  /\ main[i].pc \in {"grace", "killed_left"} /\ Left(i) = {}
  /\ Goto(i, "unlink")
  /\ UNCHANGED <<child, lock, names, made, robbed, devices, gpio, budget>>

\* Only the first name, when the second receiver was not forked.
Unlink(i) ==
  /\ main[i].pc = "unlink"
  /\ names' = [p \in Channels |-> IF child[i][p].state = "none" THEN names[p] ELSE NoName]
  /\ Goto(i, "leave")
  /\ UNCHANGED <<child, lock, made, robbed, devices, gpio, budget>>

\* SafeGpioOnExit, before the lock is given back.
Leave(i) ==
  /\ main[i].pc = "leave"
  /\ \E failed \in SUBSET Outputs : Lowered(failed)
  /\ Goto(i, "release")
  /\ UNCHANGED <<child, lock, names, made, robbed, devices>>

Release(i) ==
  /\ main[i].pc = "release"
  /\ lock' = 0
  /\ Goto(i, "done")
  /\ UNCHANGED <<child, names, made, robbed, devices, gpio, budget>>

MainStep(i) ==
  \/ Acquire(i) \/ Prepare(i) \/ ForkFails(i) \/ Calibrate(i) \/ ChildEnded(i) \/ Start(i)
  \/ Timeout(i) \/ Select(i) \/ Interrupted(i) \/ Stop(i) \/ Terminate(i) \/ Reap(i)
  \/ Deadline(i) \/ Reaped(i) \/ Unlink(i) \/ Leave(i) \/ Release(i)
  \/ Look(i) \/ Open(i) \/ Attach(i) \/ GiveUp(i)
  \/ \E p \in Channels : Fork(i, p)

-----------------------------------------------------------------------------
(* The receivers.                                                          *)

\* A receiver inherits the lock until it closes it, and the parent's handler
\* until it installs its own.
Begin(i, p) ==
  /\ child[i][p].state = "forked"
  /\ child' = [child EXCEPT ![i][p].state = "create"]
  /\ lock' = IF lock = i /\ main[i].pc = "killed" /\ child[i][3 - p].state # "forked" THEN 0 ELSE lock
  /\ UNCHANGED <<main, names, made, robbed, devices, gpio, budget>>

\* An object that exists is not replaced.
Create(i, p) ==
  /\ child[i][p].state = "create"
  /\ IF names[p] = NoName
     THEN /\ names' = [names EXCEPT ![p] = i]
          /\ child' = [child EXCEPT ![i][p].state = "fill"]
     ELSE child' = [child EXCEPT ![i][p] = Dead] /\ UNCHANGED names
  /\ UNCHANGED <<main, lock, made, robbed, devices, gpio, budget>>

\* The object gets its size, its header and last its mark, under the file lock;
\* it may have lost its name.
Fill(i, p) ==
  /\ child[i][p].state = "fill"
  /\ child' = [child EXCEPT ![i][p].state = "init"]
  /\ made' = [made EXCEPT ![p] = @ \cup {i}]
  /\ UNCHANGED <<main, lock, names, robbed, devices, gpio, budget>>

\* The hardware is one process's at a time; then the object is marked ready.
InitDevice(i, p) ==
  /\ child[i][p].state = "init"
  /\ IF devices[p] = 0
     THEN devices' = [devices EXCEPT ![p] = i] /\ child' = [child EXCEPT ![i][p].state = "ready"]
     ELSE UNCHANGED devices /\ child' = [child EXCEPT ![i][p] = Dead]
  /\ UNCHANGED <<main, lock, names, made, robbed, gpio, budget>>

\* The hardware is given back when g_child_running is false.
End(i, p) ==
  /\ child[i][p].state = "ready" /\ ~child[i][p].running
  /\ child' = [child EXCEPT ![i][p] = Dead]
  /\ devices' = [devices EXCEPT ![p] = 0]
  /\ UNCHANGED <<main, lock, names, made, robbed, gpio, budget>>

\* A signal that comes before the receiver's own handler is lost.
Deliver(i, p) ==
  /\ child[i][p].sig /\ child[i][p].state \notin {"none", "zombie", "reaped"}
  /\ child' = [child EXCEPT ![i][p].sig = FALSE,
                            ![i][p].running = @ /\ child[i][p].state = "forked"]
  /\ UNCHANGED <<main, lock, names, made, robbed, devices, gpio, budget>>

ChildStep(i, p) ==
  Begin(i, p) \/ Create(i, p) \/ Fill(i, p) \/ InitDevice(i, p) \/ End(i, p) \/ Deliver(i, p)

-----------------------------------------------------------------------------
(* What happens to them.                                                   *)

\* A receiver fails or is killed: the driver's service frees the hardware, and
\* an object that is not made has its name still.
Die(i, p) ==
  /\ budget.faults > 0 /\ child[i][p].state \in {"create", "fill", "init", "ready"}
  /\ budget' = [budget EXCEPT !.faults = @ - 1]
  /\ child' = [child EXCEPT ![i][p] = Dead]
  /\ devices' = [devices EXCEPT ![p] = IF @ = i THEN 0 ELSE @]
  /\ UNCHANGED <<main, lock, names, made, robbed, gpio>>

\* The constructor fails, before the mark or after it, for want of memory or of
\* the file lock: it removes the name, whoever's object has it by then.
FillFails(i, p) ==
  /\ budget.faults > 0 /\ child[i][p].state = "fill"
  /\ budget' = [budget EXCEPT !.faults = @ - 1]
  /\ child' = [child EXCEPT ![i][p] = Dead]
  /\ made' \in {made, [made EXCEPT ![p] = @ \cup {i}]}
  /\ names' = [names EXCEPT ![p] = NoName]
  /\ robbed' = robbed \cup {<<k, p>> : k \in {names[p]} \ {NoName}}
  /\ UNCHANGED <<main, lock, devices, gpio>>

Alive(i) == main[i].pc \notin {"off", "refused", "done", "killed"}

\* Ctrl-C reaches the receivers as well, SIGTERM the parent only.
Signal(i, all) ==
  /\ Alive(i) /\ budget.signals > 0
  /\ budget' = [budget EXCEPT !.signals = @ - 1]
  /\ main' = [main EXCEPT ![i].sig = TRUE]
  /\ child' = [child EXCEPT ![i] = [p \in Channels |->
                 IF all /\ p \in Left(i) THEN [child[i][p] EXCEPT !.sig = TRUE] ELSE child[i][p]]]
  /\ UNCHANGED <<lock, names, made, robbed, devices, gpio>>

Handle(i) ==
  /\ Alive(i) /\ main[i].sig
  /\ main' = [main EXCEPT ![i].sig = FALSE, ![i].running = FALSE]
  /\ UNCHANGED <<child, lock, names, made, robbed, devices, gpio, budget>>

\* The parent is killed: the receivers go on, and with them the lock of those
\* that have not closed it yet.
Kill(i) ==
  /\ Alive(i) /\ budget.kills > 0
  /\ budget' = [budget EXCEPT !.kills = @ - 1]
  /\ main' = [main EXCEPT ![i].pc = "killed", ![i].sig = FALSE, ![i].fd = 0, ![i].ring = NoRings]
  /\ lock' = IF \E p \in Channels : child[i][p].state = "forked" THEN lock ELSE 0
  /\ UNCHANGED <<child, names, made, robbed, devices, gpio>>

Next ==
  \E i \in Instances :
    \/ MainStep(i) \/ Handle(i) \/ Kill(i)
    \/ \E all \in BOOLEAN : Signal(i, all)
    \/ \E p \in Channels : ChildStep(i, p) \/ Die(i, p) \/ FillFails(i, p)

Spec == Init /\ [][Next]_vars

\* The parent's steps and the kernel's signals go on; a receiver may hang.
FairSpec == Spec /\ \A i \in Instances : WF_vars(MainStep(i)) /\ WF_vars(Handle(i))

-----------------------------------------------------------------------------
\* An instance that has come through leaves no receiver, no name and no
\* hardware of its own behind when it gives back the lock, and an exit code of
\* 0 says that antenna and noise source are safe.
\* (main() from the catch to the end, force_antenna_off, SafeGpioOnExit)
EndsClean ==
  \A i \in Instances : main[i].pc = "release" =>
    /\ lock = i /\ Left(i) = {}
    /\ \A p \in Channels : names[p] # i /\ devices[p] # i
    /\ main[i].code = 0 => gpio = {}

\* What another start does takes no name away from an instance that runs, but
\* for one: a receiver of a killed parent that fails while it makes its object
\* removes the name, which is the running instance's by then.
\* (SingleInstanceLock: "to protect the shared memory"; ring_buffer.hpp:131-134)
NamesAreKept ==
  \A i \in Instances, p \in Channels :
    /\ main[i].pc \in {"attach", "open", "wait", "select", "run"}
    /\ child[i][p].state \in {"fill", "init", "ready"}
    => \/ names[p] = i
       \/ /\ <<i, p>> \in robbed
          /\ \E k \in Instances \ {i} : main[k].pc = "killed" /\ child[k][p].state = "zombie"

\* A ring that a parent has opened is whole; it is of its own receiver, or
\* that one will end and with it the run, or one of the two objects lost its
\* name to a constructor that failed.  (SharedMemoryRingBuffer, the rings' loop)
RingsAreOwn ==
  \A i \in Instances, p \in Channels :
    main[i].pc \in {"attach", "open", "wait", "select", "run"} /\ main[i].ring[p] # 0
    => LET by == main[i].ring[p]
       IN  /\ child[by][p].state \notin {"none", "forked", "create", "fill"}
           /\ by # i => \/ child[i][p].state \in {"forked", "create", "zombie", "reaped"}
                        \/ {<<i, p>>, <<by, p>>} \cap robbed # {}

\* What a parent that runs reads is its receivers' own, whoever else starts, as
\* long as no receiver of a killed parent fails while it makes its object.
MemoryIsOwn == NamesAreKept /\ RingsAreOwn

\* Whatever the receivers do, hang or lose their signals, an instance that is
\* interrupted or has lost one ends.  (terminate_and_reap_all)
EndsAtLast ==
  \A i \in Instances :
    Alive(i) /\ (~main[i].running \/ Zombies(i) # {}) ~> ~Alive(i)
=============================================================================
