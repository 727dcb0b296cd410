--------------------------- MODULE SupervisorProofs ---------------------------
(***************************************************************************)
(* Supervisor for any number of instances and any bounds on what goes      *)
(* wrong: who ends leaves nothing behind, and what a parent reads is its   *)
(* own.  Alone says that who runs has the lock; from it follows that       *)
(* nobody else touches the outputs of an instance that runs, nor its names *)
(* but a constructor that fails; the other parts say what it has of them   *)
(* at every place.                                                         *)
(***************************************************************************)
EXTENDS Supervisor, TLAPS

Starting == {"off", "prepare", "fork1"}
Running == {"attach", "open", "wait", "select", "run"}
Ending == {"unlink", "leave", "release"}
Pcs == Starting \cup Running \cup Ending
         \cup {"fork2", "calibrate", "stop", "terminate", "grace", "killed_left",
               "refused", "done", "killed"}
Made == {"init", "ready", "zombie", "reaped"}
Stages == Made \cup {"none", "forked", "create", "fill"}

Parent == [pc : Pcs, running : BOOLEAN, sig : BOOLEAN,
           fd : Instances \cup {0}, ring : [Channels -> Instances \cup {0}], code : {0, 1}]
Receiver == [state : Stages, running : BOOLEAN, sig : BOOLEAN]

TypeInv ==
  /\ main \in [Instances -> Parent]
  /\ child \in [Instances -> [Channels -> Receiver]]
  /\ lock \in Instances \cup {0}
  /\ names \in [Channels -> Instances \cup {0}]
  /\ made \in [Channels -> SUBSET Instances]
  /\ robbed \subseteq Instances \X Channels
  /\ devices \in [Channels -> Instances \cup {0}]
  /\ gpio \subseteq Outputs

\* What the invariants see of an instance.
Pc(i) == main[i].pc
Ring(i, p) == main[i].ring[p]
Code(i) == main[i].code
State(i, p) == child[i][p].state

\* The objects of channel p that a parent has open.
Held(i, p) ==
  {k \in Instances : k = Ring(i, p) \/ (k = main[i].fd /\ Wanted(i) = p)}

\* Who runs has the lock.
Alone == \A i \in Instances : Alive(i) => lock = i

\* The receivers that there are at every place of the start.
Forked ==
  \A i \in Instances :
    /\ Pc(i) \in Starting => \A p \in Channels : State(i, p) = "none"
    /\ Pc(i) = "fork2" => State(i, 1) # "none" /\ State(i, 2) = "none"
    /\ Pc(i) \in {"calibrate"} \cup Running => \A p \in Channels : State(i, p) # "none"

\* Nothing is left when the names are unlinked, nor after it.
Finished ==
  \A i \in Instances : Pc(i) \in Ending \cup {"refused", "done"} =>
    \A p \in Channels : State(i, p) \in {"none", "reaped"}

\* The hardware is held by the receiver that is ready.
Hardware == \A i \in Instances, p \in Channels : devices[p] = i <=> State(i, p) = "ready"

\* A name is of a receiver that came to it, and so is an object that is made.
Named ==
  \A i \in Instances, p \in Channels :
    /\ names[p] = i => /\ State(i, p) \notin {"none", "forked", "create"}
                       /\ Pc(i) \notin {"leave", "release"}
    /\ i \in made[p] => State(i, p) \in Made

\* A receiver of a killed parent has failed over the name of i.
Robbed(i, p) ==
  /\ <<i, p>> \in robbed
  /\ \E k \in Instances \ {i} : Pc(k) = "killed" /\ State(k, p) = "zombie"

\* The name of a receiver stays as long as its parent runs.
Kept ==
  \A i \in Instances, p \in Channels :
    Pc(i) \in {"fork2", "calibrate"} \cup Running /\ State(i, p) \in {"fill", "init", "ready"}
    => names[p] = i \/ Robbed(i, p)

\* Only a parent that runs has objects open; it takes them once they are made,
\* and each has its name still or lost it to a constructor that failed.
Opened ==
  \A i \in Instances, p \in Channels :
    /\ Pc(i) \notin Running => Held(i, p) = {}
    /\ \A k \in Held(i, p) : names[p] = k \/ <<k, p>> \in robbed
    /\ Ring(i, p) # 0 => Ring(i, p) \in made[p]

\* Who has not failed ends with the outputs low.
Safe ==
  \A i \in Instances :
    Pc(i) \in {"terminate", "grace", "killed_left"} \cup Ending /\ Code(i) = 0 => gpio = {}

IInv == /\ TypeInv /\ Alone /\ Forked /\ Finished /\ Hardware
        /\ Named /\ Kept /\ Opened /\ Safe

-----------------------------------------------------------------------------
(* What a step does to its instance, and to the others.                    *)

\* The other instances stay.
Apart(i) == \A k \in Instances : k # i => main'[k] = main[k] /\ child'[k] = child[k]

\* Where the parent goes, and what it returns with.
Goes(i, pc, code) == Pc(i)' = pc /\ Code(i)' = code
Parked(i) == main'[i] = main[i]
StateStays(i) == \A p \in Channels : State(i, p)' = State(i, p)

\* What it has open it keeps, or all of it goes as it leaves the run.
Keeps(i) == main'[i].ring = main[i].ring /\ main'[i].fd = main[i].fd
Drops(i) == main'[i].ring = NoRings /\ main'[i].fd = 0
Lets(i) == Drops(i) \/ (Keeps(i) /\ (Pc(i) \in Running => Pc(i)' \in Running))

\* The names stay, and what is known of the objects.
Still == UNCHANGED <<names, made, robbed>>

\* The record of a parent as a whole.
LEMMA Replaced ==
  ASSUME TypeInv, NEW i \in Instances, NEW r \in Parent, main' = [main EXCEPT ![i] = r]
  PROVE  /\ main' \in [Instances -> Parent]
         /\ \A k \in Instances : k # i => main'[k] = main[k]
         /\ main'[i] = r
  BY DEF TypeInv

\* The record of a parent with another place.
LEMMA Placed ==
  ASSUME TypeInv, NEW i \in Instances, NEW pc \in Pcs,
         Goto(i, pc)
  PROVE  /\ main' \in [Instances -> Parent]
         /\ \A k \in Instances : k # i => main'[k] = main[k]
         /\ Goes(i, pc, Code(i)) /\ Keeps(i)
  BY ZenonT(60) DEF TypeInv, Parent, Goto, Goes, Pc, Code, Keeps

LEMMA Failed ==
  ASSUME TypeInv, NEW i \in Instances, NEW pc \in Pcs,
         main' = [main EXCEPT ![i].pc = pc, ![i].code = 1]
  PROVE  /\ main' \in [Instances -> Parent]
         /\ \A k \in Instances : k # i => main'[k] = main[k]
         /\ Goes(i, pc, 1) /\ Keeps(i)
<1> DEFINE r == [main[i] EXCEPT !.pc = pc, !.code = 1]
<1>1. main[i] \in Parent
  BY DEF TypeInv
<1>2. r \in Parent /\ r.pc = pc /\ r.code = 1 /\ r.ring = main[i].ring /\ r.fd = main[i].fd
  BY <1>1 DEF Parent
<1>3. main' = [main EXCEPT ![i] = r]
  BY DEF TypeInv
<1> HIDE DEF r
<1> QED
  BY <1>2, <1>3, Replaced DEF Goes, Keeps, Pc, Code

LEMMA LeftRun ==
  ASSUME TypeInv, NEW i \in Instances, NEW pc \in Pcs, NEW code \in {0, 1},
         LeavesRun(i, pc, code)
  PROVE  /\ main' \in [Instances -> Parent]
         /\ \A k \in Instances : k # i => main'[k] = main[k]
         /\ Goes(i, pc, code) /\ Drops(i)
<1> DEFINE r == [main[i] EXCEPT !.pc = pc, !.code = code, !.fd = 0, !.ring = NoRings]
<1>1. main[i] \in Parent
  BY DEF TypeInv
<1>2. r \in Parent /\ r.pc = pc /\ r.code = code /\ r.ring = NoRings /\ r.fd = 0
  BY <1>1 DEF Parent, NoRings
<1>3. main' = [main EXCEPT ![i] = r]
  BY DEF TypeInv, LeavesRun
<1> HIDE DEF r
<1> QED
  BY <1>2, <1>3, Replaced DEF Goes, Drops, Pc, Code

\* What a parent has open grows in no such step.
LEMMA LetsGo ==
  ASSUME TypeInv, NEW i \in Instances, Lets(i), NEW p \in Channels
  PROVE  /\ Held(i, p)' \subseteq Held(i, p) /\ Ring(i, p)' \in {Ring(i, p), 0}
         /\ Pc(i) \in Running /\ Pc(i)' \notin Running => Held(i, p)' = {}
<1>1. CASE Drops(i)
  <2>1. Ring(i, p)' = 0 /\ main'[i].fd = 0
    BY <1>1 DEF Drops, NoRings, Ring
  <2> QED
    BY <2>1, BoundsOfSupervisor DEF Held
<1>2. CASE Keeps(i) /\ (Pc(i) \in Running => Pc(i)' \in Running)
  BY <1>2 DEF Keeps, Held, Ring, Wanted
<1> QED
  BY <1>1, <1>2 DEF Lets

\* The receivers of one instance change.
LEMMA Changed ==
  ASSUME TypeInv, NEW i \in Instances, NEW f \in [Channels -> Receiver],
         child' = [child EXCEPT ![i] = f]
  PROVE  /\ child' \in [Instances -> [Channels -> Receiver]]
         /\ \A k \in Instances : k # i => child'[k] = child[k]
         /\ child'[i] = f
  BY DEF TypeInv

\* One receiver goes to another stage.
LEMMA Staged ==
  ASSUME TypeInv, NEW i \in Instances, NEW p \in Channels, NEW s \in Stages,
         child' = [child EXCEPT ![i][p].state = s]
  PROVE  /\ child' \in [Instances -> [Channels -> Receiver]]
         /\ \A k \in Instances : k # i => child'[k] = child[k]
         /\ State(i, p)' = s
         /\ \A q \in Channels : q # p => State(i, q)' = State(i, q)
<1> DEFINE r == [child[i][p] EXCEPT !.state = s]
           f == [child[i] EXCEPT ![p] = r]
<1>1. child[i] \in [Channels -> Receiver] /\ child[i][p] \in Receiver
  BY DEF TypeInv
<1>2. r \in Receiver /\ r.state = s
  BY <1>1 DEF Receiver
<1>3. child' = [child EXCEPT ![i] = f]
  OBVIOUS
<1> HIDE DEF r
<1>4. f \in [Channels -> Receiver] /\ f[p] = r /\ \A q \in Channels : q # p => f[q] = child[i][q]
  BY <1>1, <1>2
<1> HIDE DEF f
<1> QED
  BY <1>2, <1>3, <1>4, Changed DEF State

\* One receiver ends.
LEMMA Ended ==
  ASSUME TypeInv, NEW i \in Instances, NEW p \in Channels,
         child' = [child EXCEPT ![i][p] = Dead]
  PROVE  /\ child' \in [Instances -> [Channels -> Receiver]]
         /\ \A k \in Instances : k # i => child'[k] = child[k]
         /\ State(i, p)' = "zombie"
         /\ \A q \in Channels : q # p => State(i, q)' = State(i, q)
<1> DEFINE f == [child[i] EXCEPT ![p] = Dead]
<1>1. child[i] \in [Channels -> Receiver] /\ Dead \in Receiver /\ Dead.state = "zombie"
  BY DEF TypeInv, Receiver, Dead, Stages, Made
<1>2. child' = [child EXCEPT ![i] = f]
  OBVIOUS
<1>3. f \in [Channels -> Receiver] /\ f[p] = Dead /\ \A q \in Channels : q # p => f[q] = child[i][q]
  BY <1>1
<1> HIDE DEF f
<1> QED
  BY <1>1, <1>2, <1>3, Changed DEF State

\* Receivers are signalled, or end by force.
LEMMA Signalled ==
  ASSUME TypeInv, NEW i \in Instances, NEW S,
         child' = [child EXCEPT ![i] = [p \in Channels |->
                     IF p \in S THEN [child[i][p] EXCEPT !.sig = TRUE] ELSE child[i][p]]]
  PROVE  /\ child' \in [Instances -> [Channels -> Receiver]]
         /\ \A k \in Instances : k # i => child'[k] = child[k]
         /\ StateStays(i)
<1> DEFINE r(p) == [child[i][p] EXCEPT !.sig = TRUE]
           f == [p \in Channels |-> IF p \in S THEN r(p) ELSE child[i][p]]
<1>1. \A p \in Channels : child[i][p] \in Receiver
  BY DEF TypeInv
<1>2. \A p \in Channels : r(p) \in Receiver /\ r(p).state = child[i][p].state
  BY <1>1 DEF Receiver
<1>3. child' = [child EXCEPT ![i] = f]
  OBVIOUS
<1> HIDE DEF r
<1>4. f \in [Channels -> Receiver] /\ \A p \in Channels : f[p].state = child[i][p].state
  BY <1>1, <1>2
<1> HIDE DEF f
<1> QED
  BY <1>3, <1>4, Changed DEF State, StateStays

LEMMA Forced ==
  ASSUME TypeInv, NEW i \in Instances, NEW S,
         child' = [child EXCEPT ![i] = [p \in Channels |->
                     IF p \in S THEN Dead ELSE child[i][p]]]
  PROVE  /\ child' \in [Instances -> [Channels -> Receiver]]
         /\ \A k \in Instances : k # i => child'[k] = child[k]
         /\ \A p \in Channels : State(i, p)' = IF p \in S THEN "zombie" ELSE State(i, p)
<1> DEFINE f == [p \in Channels |-> IF p \in S THEN Dead ELSE child[i][p]]
<1>1. \A p \in Channels : child[i][p] \in Receiver
  BY DEF TypeInv
<1>2. Dead \in Receiver /\ Dead.state = "zombie"
  BY DEF Receiver, Dead, Stages, Made
<1>3. child' = [child EXCEPT ![i] = f]
  OBVIOUS
<1>4. /\ f \in [Channels -> Receiver]
      /\ \A p \in Channels : f[p].state = IF p \in S THEN "zombie" ELSE child[i][p].state
  BY <1>1, <1>2
<1> HIDE DEF f
<1> QED
  BY <1>3, <1>4, Changed DEF State

\* The parent goes on; receivers, lock, names and hardware stay.
Walks(i) ==
  /\ Lets(i) /\ StateStays(i) /\ Still /\ UNCHANGED <<lock, devices>>
  /\ \/ Pc(i)' = Pc(i) /\ Code(i)' = Code(i) /\ UNCHANGED gpio
     \/ Goes(i, "refused", Code(i)) /\ Pc(i) = "off" /\ UNCHANGED gpio
     \/ Goes(i, "terminate", 1) /\ Pc(i) = "fork2" /\ UNCHANGED gpio
     \/ Pc(i) \in {"calibrate"} \cup Running /\ Pc(i)' \in Running \cup {"stop"}
     \/ Pc(i) = "stop" /\ Pc(i)' = "terminate" /\ (Code(i)' = 0 => gpio' = {})
     \/ Goes(i, "grace", Code(i)) /\ Pc(i) = "terminate" /\ UNCHANGED gpio
     \/ Goes(i, "unlink", Code(i)) /\ Pc(i) \in {"grace", "killed_left"} /\ UNCHANGED gpio
        /\ \A p \in Channels : State(i, p) \in {"none", "reaped"}
     \/ Goes(i, "release", Code(i)) /\ Pc(i) = "leave" /\ gpio' \subseteq gpio

Locks(i) ==
  /\ Lets(i) /\ StateStays(i) /\ Still /\ UNCHANGED <<devices, gpio>>
  /\ \/ Goes(i, "prepare", Code(i)) /\ Pc(i) = "off" /\ lock = 0 /\ lock' = i
     \/ Goes(i, "done", Code(i)) /\ Pc(i) = "release" /\ lock' = 0
     \/ Goes(i, "killed", Code(i)) /\ Alive(i) /\ lock' \in {lock, 0}

Unlinks(i) ==
  /\ Lets(i) /\ StateStays(i) /\ UNCHANGED <<lock, devices, made, robbed>>
  /\ \/ /\ Pc(i) = "prepare" /\ (Pc(i)' = "fork1" \/ Goes(i, "leave", 1))
        /\ names' \in {names, [p \in Channels |-> NoName]}
     \/ /\ Pc(i) = "unlink" /\ Goes(i, "leave", Code(i)) /\ UNCHANGED gpio
        /\ names' = [p \in Channels |-> IF State(i, p) = "none" THEN names[p] ELSE NoName]

Forks(i) ==
  /\ Lets(i) /\ Still /\ UNCHANGED <<lock, devices, gpio>>
  /\ \E p \in Channels :
       /\ State(i, p)' = "forked" /\ \A q \in Channels : q # p => State(i, q)' = State(i, q)
       /\ \/ p = 1 /\ Pc(i) = "fork1" /\ Goes(i, "fork2", Code(i))
          \/ p = 2 /\ Pc(i) = "fork2" /\ Goes(i, "calibrate", Code(i))

\* What has the name is opened; what is open is taken when it is made.
Attaches(i) ==
  /\ StateStays(i) /\ Still /\ UNCHANGED <<lock, devices, gpio>>
  /\ Pc(i) = "open" /\ Pc(i)' \in {"attach", "open", "wait"} /\ Code(i)' = Code(i)
  /\ \A p \in Channels : /\ Held(i, p)' \subseteq Held(i, p) \cup {names[p]}
                          /\ Ring(i, p)' \in {Ring(i, p)} \cup made[p]

\* A receiver is reaped, or all that are left are killed.
Buries(i) ==
  /\ Lets(i) /\ Still /\ UNCHANGED <<lock, gpio>>
  /\ \/ /\ Pc(i)' = Pc(i) /\ Code(i)' = Code(i) /\ Pc(i) \in {"grace", "killed_left"}
     \/ Pc(i) = "grace" /\ Goes(i, "killed_left", Code(i))
     \/ Pc(i) \in Running /\ Pc(i)' = "stop"
  /\ \/ /\ UNCHANGED devices
        /\ \E p \in Channels :
             /\ State(i, p) = "zombie" /\ State(i, p)' = "reaped"
             /\ \A q \in Channels : q # p => State(i, q)' = State(i, q)
     \/ /\ devices' = [p \in Channels |-> IF devices[p] = i THEN 0 ELSE devices[p]]
        /\ \A p \in Channels :
             State(i, p)' = IF State(i, p) \in {"none", "reaped"} THEN State(i, p) ELSE "zombie"

\* A receiver goes on, or dies; or its constructor fails.
Lives(i) ==
  /\ Parked(i) /\ UNCHANGED gpio
  /\ lock' = lock \/ (lock' = 0 /\ lock = i /\ Pc(i) = "killed")
  /\ \E p \in Channels :
       /\ \A q \in Channels : q # p => State(i, q)' = State(i, q)
       /\ \/ /\ Still /\ UNCHANGED devices
             /\ \/ State(i, p) = "forked" /\ State(i, p)' = "create"
                \/ State(i, p) \in {"create", "init"} /\ State(i, p)' = "zombie"
          \/ /\ State(i, p) = "create" /\ State(i, p)' = "fill" /\ names[p] = NoName
             /\ names' = [names EXCEPT ![p] = i] /\ UNCHANGED <<made, robbed, devices>>
          \/ /\ State(i, p) = "fill" /\ State(i, p)' = "init"
             /\ made' = [made EXCEPT ![p] = @ \cup {i}] /\ UNCHANGED <<names, robbed, devices>>
          \/ /\ State(i, p) = "init" /\ State(i, p)' = "ready" /\ devices[p] = 0
             /\ devices' = [devices EXCEPT ![p] = i] /\ Still
          \/ /\ State(i, p) \in {"create", "fill", "init", "ready"} /\ State(i, p)' = "zombie"
             /\ devices' = [devices EXCEPT ![p] = IF @ = i THEN 0 ELSE @] /\ Still
          \/ /\ State(i, p) = "fill" /\ State(i, p)' = "zombie" /\ UNCHANGED devices
             /\ made' \in {made, [made EXCEPT ![p] = @ \cup {i}]}
             /\ names' = [names EXCEPT ![p] = NoName]
             /\ robbed' = robbed \cup {<<k, p>> : k \in {names[p]} \ {NoName}}

Moves(i) == Walks(i) \/ Locks(i) \/ Unlinks(i) \/ Forks(i) \/ Attaches(i) \/ Buries(i) \/ Lives(i)

Moved(i) == TypeInv' /\ Apart(i) /\ Moves(i)

\* The outputs that there are.
LEMMA Switched ==
  ASSUME TypeInv, NEW failed \in SUBSET Outputs, Raised(failed) \/ Lowered(failed)
  PROVE  gpio' \subseteq Outputs
  BY DEF TypeInv, Raised, Lowered

\* A step of the parent alone: its receivers stay, and what is not its own.
LEMMA WalksOn ==
  ASSUME TypeInv, NEW i \in Instances, main' \in [Instances -> Parent],
         \A k \in Instances : k # i => main'[k] = main[k],
         UNCHANGED child, Still, UNCHANGED <<lock, devices>>, gpio' \subseteq Outputs, Walks(i)
  PROVE  Moved(i)
  BY DEF Moved, Moves, TypeInv, Apart, Still

LEMMA ParentMoves ==
  ASSUME TypeInv, NEW i \in Instances, MainStep(i)
  PROVE  Moved(i)
<1> USE DEF Apart, Pcs, Starting, Running, Ending
<1>1. CASE Acquire(i)
  <2>1. UNCHANGED child /\ Still /\ UNCHANGED <<devices, gpio>> /\ Pc(i) = "off"
    BY <1>1 DEF Acquire, Pc, Still
  <2>2. CASE lock = 0 /\ lock' = i /\ Goto(i, "prepare")
    <3>1. Locks(i)
      BY <2>1, <2>2, Placed DEF Locks, Lets, StateStays, State
    <3> QED
      BY <2>1, <2>2, <3>1, Placed DEF Moved, Moves, TypeInv, Still
  <2>3. CASE UNCHANGED lock /\ Goto(i, "refused")
    <3>1. Walks(i)
      BY <2>1, <2>3, Placed DEF Walks, Lets, StateStays, State
    <3> QED
      BY <2>1, <2>3, <3>1, Placed, WalksOn DEF TypeInv
  <2> QED
    BY <1>1, <2>2, <2>3 DEF Acquire
<1>2. CASE Prepare(i)
  <2>1. UNCHANGED <<child, lock, devices, made, robbed>> /\ Pc(i) = "prepare"
    BY <1>2 DEF Prepare, Pc
  <2>2. gpio' \subseteq Outputs
    BY <1>2, Switched DEF Prepare
  <2>3. /\ Goto(i, "fork1") \/ main' = [main EXCEPT ![i].pc = "leave", ![i].code = 1]
        /\ names' \in {names, [p \in Channels |-> NoName]}
    BY <1>2 DEF Prepare
  <2>4. names' \in [Channels -> Instances \cup {0}]
    BY <2>3 DEF TypeInv, NoName
  <2>5. /\ main' \in [Instances -> Parent] /\ Keeps(i)
        /\ \A k \in Instances : k # i => main'[k] = main[k]
        /\ Pc(i)' = "fork1" \/ Goes(i, "leave", 1)
    BY <2>3, Placed, Failed DEF Goes
  <2>6. Unlinks(i)
    BY <2>1, <2>3, <2>5 DEF Unlinks, Lets, StateStays, State
  <2> QED
    BY <2>1, <2>2, <2>4, <2>5, <2>6 DEF Moved, Moves, TypeInv
<1>3. ASSUME NEW p \in Channels, Fork(i, p) PROVE Moved(i)
  <2>1. Still /\ UNCHANGED <<lock, devices, gpio>>
        /\ child' = [child EXCEPT ![i][p].state = "forked"]
    BY <1>3 DEF Fork, Still
  <2>2. \/ p = 1 /\ Pc(i) = "fork1" /\ Goto(i, "fork2")
        \/ p = 2 /\ Pc(i) = "fork2" /\ Goto(i, "calibrate")
    BY <1>3 DEF Fork, Pc, Channels
  <2>3. "forked" \in Stages
    BY DEF Stages
  <2> QED
    <3>1. /\ child' \in [Instances -> [Channels -> Receiver]]
          /\ \A k \in Instances : k # i => child'[k] = child[k]
          /\ State(i, p)' = "forked" /\ \A q \in Channels : q # p => State(i, q)' = State(i, q)
      BY <2>1, <2>3, Staged
    <3>2. /\ main' \in [Instances -> Parent] /\ Keeps(i)
          /\ \A k \in Instances : k # i => main'[k] = main[k]
          /\ \/ p = 1 /\ Pc(i) = "fork1" /\ Goes(i, "fork2", Code(i))
             \/ p = 2 /\ Pc(i) = "fork2" /\ Goes(i, "calibrate", Code(i))
      BY <2>2, Placed
    <3>3. Forks(i)
      BY <2>1, <3>1, <3>2 DEF Forks, Lets
    <3> QED
      BY <2>1, <3>1, <3>2, <3>3 DEF Moved, Moves, TypeInv, Still
<1>4. CASE ForkFails(i)
  <2>1. UNCHANGED child /\ Still /\ UNCHANGED <<lock, devices, gpio>> /\ Pc(i) = "fork2"
    BY <1>4 DEF ForkFails, Pc, Still
  <2>2. /\ main' \in [Instances -> Parent] /\ Goes(i, "terminate", 1) /\ Keeps(i)
        /\ \A k \in Instances : k # i => main'[k] = main[k]
    BY <1>4, Failed, ZenonT(30) DEF ForkFails
  <2>3. Walks(i)
    BY <2>1, <2>2 DEF Walks, Lets, StateStays, State
  <2> QED
    BY <2>1, <2>2, <2>3, WalksOn DEF TypeInv
<1>5. CASE Calibrate(i) \/ Select(i)
  <2>1. UNCHANGED child /\ Still /\ UNCHANGED <<lock, devices>> /\ Pc(i) \in {"calibrate", "select"}
    BY <1>5 DEF Calibrate, Select, Pc, Still
  <2>2. gpio' \subseteq Outputs
    BY <1>5, Switched DEF Calibrate, Select, TypeInv
  <2>3. Goto(i, "attach") \/ Goto(i, "run") \/ LeavesRun(i, "stop", 1)
    BY <1>5 DEF Calibrate, Select, Fail
  <2>4. /\ main' \in [Instances -> Parent]
        /\ \A k \in Instances : k # i => main'[k] = main[k]
        /\ (Keeps(i) /\ Pc(i)' \in Running) \/ (Drops(i) /\ Pc(i)' = "stop")
    BY <2>3, Placed, LeftRun DEF Goes
  <2>5. Walks(i)
    BY <2>1, <2>4 DEF Walks, Lets, StateStays, State
  <2> QED
    BY <2>1, <2>2, <2>4, <2>5, WalksOn
<1>6. CASE ChildEnded(i) \/ Reap(i)
  <2>1. Still /\ UNCHANGED <<lock, devices, gpio>>
    BY <1>6 DEF ChildEnded, Reap, Still
  <2>2. PICK p \in Channels : State(i, p) = "zombie" /\ child' = [child EXCEPT ![i][p].state = "reaped"]
    BY <1>6 DEF ChildEnded, Reap, Zombies, State
  <2>3. /\ child' \in [Instances -> [Channels -> Receiver]]
        /\ \A k \in Instances : k # i => child'[k] = child[k]
        /\ State(i, p)' = "reaped" /\ \A q \in Channels : q # p => State(i, q)' = State(i, q)
    <3>1. "reaped" \in Stages
      BY DEF Stages, Made
    <3> QED
      BY <2>2, <3>1, Staged
  <2>4. \/ LeavesRun(i, "stop", 1) /\ Pc(i) \in Running
        \/ UNCHANGED main /\ Pc(i) \in {"grace", "killed_left"}
    BY <1>6 DEF ChildEnded, Reap, Pc, Fail
  <2>5. CASE LeavesRun(i, "stop", 1) /\ Pc(i) \in Running
    <3>1. /\ main' \in [Instances -> Parent] /\ Drops(i) /\ Goes(i, "stop", 1)
          /\ \A k \in Instances : k # i => main'[k] = main[k]
      BY <2>5, LeftRun
    <3>2. Buries(i)
      BY <2>1, <2>2, <2>3, <2>5, <3>1 DEF Buries, Goes, Lets
    <3> QED
      BY <2>1, <2>3, <3>1, <3>2 DEF Moved, Moves, TypeInv, Still
  <2>6. CASE UNCHANGED main /\ Pc(i) \in {"grace", "killed_left"}
    <3>1. Keeps(i) /\ Pc(i)' = Pc(i) /\ Code(i)' = Code(i)
      BY <2>6 DEF Keeps, Pc, Code
    <3>2. Buries(i)
      BY <2>1, <2>2, <2>3, <2>6, <3>1 DEF Buries, Lets
    <3> QED
      BY <2>1, <2>3, <2>6, <3>2 DEF Moved, Moves, TypeInv, Still
  <2> QED
    BY <2>4, <2>5, <2>6
<1>7. CASE Look(i) \/ Start(i) \/ Timeout(i) \/ Interrupted(i)
  <2>1. UNCHANGED child /\ Still /\ UNCHANGED <<lock, devices, gpio>> /\ Pc(i) \in Running
    BY <1>7 DEF Look, Start, Timeout, Interrupted, Pc, Still
  <2>2. Code(i) \in {0, 1}
    BY DEF TypeInv, Parent, Code
  <2>3. Goto(i, "open") \/ Goto(i, "select") \/ \E code \in {0, 1} : LeavesRun(i, "stop", code)
    BY <1>7, <2>2 DEF Look, Start, Timeout, Interrupted, Fail, Code
  <2>4. /\ main' \in [Instances -> Parent]
        /\ \A k \in Instances : k # i => main'[k] = main[k]
        /\ (Keeps(i) /\ Pc(i)' \in Running) \/ (Drops(i) /\ Pc(i)' = "stop")
    BY <2>3, Placed, LeftRun DEF Goes
  <2>5. Walks(i)
    BY <2>1, <2>4 DEF Walks, Lets, StateStays, State
  <2> QED
    BY <2>1, <2>4, <2>5, WalksOn DEF TypeInv
<1>8. CASE GiveUp(i)
  <2> DEFINE r == [main[i] EXCEPT !.fd = 0, !.pc = "attach"]
  <2>1. UNCHANGED child /\ Still /\ UNCHANGED <<lock, devices, gpio>> /\ Pc(i) = "open"
    BY <1>8 DEF GiveUp, Pc, Still
  <2>2. main[i] \in Parent
    BY DEF TypeInv
  <2>3. r \in Parent /\ r.pc = "attach" /\ r.fd = 0 /\ r.ring = main[i].ring
        /\ r.code = main[i].code
    BY <2>2 DEF Parent
  <2>4. main' = [main EXCEPT ![i] = r]
    BY <1>8 DEF GiveUp, TypeInv
  <2> HIDE DEF r
  <2>5. /\ main' \in [Instances -> Parent] /\ \A k \in Instances : k # i => main'[k] = main[k]
        /\ main'[i] = r
    BY <2>3, <2>4, Replaced
  <2>6. \A p \in Channels : Held(i, p)' \subseteq Held(i, p) /\ Ring(i, p)' = Ring(i, p)
    BY <2>3, <2>5, BoundsOfSupervisor DEF Held, Ring
  <2>7. Attaches(i)
    BY <2>1, <2>3, <2>5, <2>6 DEF Attaches, StateStays, State, Pc, Code
  <2> QED
    BY <2>1, <2>5, <2>7 DEF Moved, Moves, TypeInv, Still
<1>9. CASE Stop(i)
  <2>1. UNCHANGED child /\ Still /\ UNCHANGED <<lock, devices>> /\ Pc(i) = "stop" /\ gpio' \subseteq Outputs
    BY <1>9, Switched DEF Stop, Pc, Still
  <2>2. PICK failed \in SUBSET Outputs :
          /\ gpio' = gpio \cap failed
          /\ main' = [main EXCEPT ![i].pc = "terminate", ![i].running = FALSE,
                                  ![i].code = IF failed = {} THEN @ ELSE 1]
    BY <1>9 DEF Stop, Lowered
  <2> DEFINE code == IF failed = {} THEN main[i].code ELSE 1
             r == [main[i] EXCEPT !.pc = "terminate", !.running = FALSE, !.code = code]
  <2>3. main[i] \in Parent
    BY DEF TypeInv
  <2>4. code \in {0, 1} /\ (code = 0 => failed = {})
    BY <2>3 DEF Parent
  <2>5. main' = [main EXCEPT ![i] = r]
    BY <2>2 DEF TypeInv
  <2> HIDE DEF code
  <2>6. /\ r \in Parent /\ r.pc = "terminate" /\ r.code = code
        /\ r.ring = main[i].ring /\ r.fd = main[i].fd
    BY <2>3, <2>4 DEF Parent
  <2> HIDE DEF r
  <2>7. /\ main' \in [Instances -> Parent] /\ \A k \in Instances : k # i => main'[k] = main[k]
        /\ main'[i] = r
    BY <2>5, <2>6, Replaced
  <2>8. Keeps(i) /\ Pc(i)' = "terminate" /\ (Code(i)' = 0 => gpio' = {})
    BY <2>2, <2>4, <2>6, <2>7 DEF Keeps, Pc, Code
  <2>9. Walks(i)
    BY <2>1, <2>8 DEF Walks, Lets, StateStays, State
  <2> QED
    BY <2>1, <2>7, <2>9, WalksOn
<1>10. CASE Terminate(i)
  <2>1. Still /\ UNCHANGED <<lock, devices, gpio>> /\ Pc(i) = "terminate"
    BY <1>10 DEF Terminate, Pc, Still
  <2>2. /\ main' \in [Instances -> Parent] /\ Goes(i, "grace", Code(i)) /\ Keeps(i)
        /\ \A k \in Instances : k # i => main'[k] = main[k]
    BY <1>10, Placed DEF Terminate
  <2>3. /\ child' \in [Instances -> [Channels -> Receiver]] /\ StateStays(i)
        /\ \A k \in Instances : k # i => child'[k] = child[k]
    BY <1>10, Signalled DEF Terminate
  <2>4. Walks(i)
    BY <2>1, <2>2, <2>3 DEF Walks, Lets
  <2> QED
    BY <2>1, <2>2, <2>3, <2>4 DEF Moved, Moves, TypeInv, Still
<1>11. CASE Deadline(i)
  <2>1. \A p \in Channels : p \in Left(i) <=> State(i, p) \notin {"none", "reaped"}
    BY DEF Left, State
  <2>2. devices' \in [Channels -> Instances \cup {0}]
    BY <1>11 DEF Deadline, TypeInv
  <2>3. /\ main' \in [Instances -> Parent] /\ Keeps(i) /\ Goes(i, "killed_left", Code(i))
        /\ \A k \in Instances : k # i => main'[k] = main[k]
        /\ Pc(i) = "grace" /\ Still /\ UNCHANGED <<lock, gpio>>
    BY <1>11, Placed DEF Deadline, Pc, Still
  <2>4. /\ child' \in [Instances -> [Channels -> Receiver]]
        /\ \A k \in Instances : k # i => child'[k] = child[k]
        /\ \A p \in Channels : State(i, p)' = IF p \in Left(i) THEN "zombie" ELSE State(i, p)
    BY <1>11, Forced DEF Deadline
  <2>5. devices' = [p \in Channels |-> IF devices[p] = i THEN 0 ELSE devices[p]]
    BY <1>11 DEF Deadline
  <2>6. \A p \in Channels :
          State(i, p)' = IF State(i, p) \in {"none", "reaped"} THEN State(i, p) ELSE "zombie"
    BY <2>1, <2>4
  <2>7. Buries(i)
    BY <2>3, <2>5, <2>6 DEF Buries, Lets
  <2> QED
    BY <2>2, <2>3, <2>4, <2>7 DEF Moved, Moves, TypeInv, Still
<1>12. CASE Reaped(i) \/ Leave(i)
  <2>1. UNCHANGED child /\ Still /\ UNCHANGED <<lock, devices>> /\ gpio' \subseteq gpio
    BY <1>12 DEF Reaped, Leave, Lowered, Still
  <2>2. \/ /\ Pc(i) \in {"grace", "killed_left"} /\ Goto(i, "unlink") /\ UNCHANGED gpio
           /\ \A p \in Channels : State(i, p) \in {"none", "reaped"}
        \/ Pc(i) = "leave" /\ Goto(i, "release")
    BY <1>12 DEF Reaped, Leave, Left, State, Pc
  <2>3. Walks(i)
    BY <2>1, <2>2, Placed DEF Walks, Lets, StateStays, State
  <2> QED
    BY <2>1, <2>2, <2>3, Placed, WalksOn DEF TypeInv
<1>13. CASE Unlink(i)
  <2>1. names' \in [Channels -> Instances \cup {0}]
    BY <1>13 DEF Unlink, TypeInv, NoName
  <2>2. Unlinks(i)
    BY <1>13, Placed DEF Unlink, Unlinks, Lets, StateStays, State, Pc
  <2> QED
    BY <1>13, <2>1, <2>2, Placed DEF Unlink, Moved, Moves, TypeInv
<1>14. CASE Release(i)
  <2>1. Locks(i)
    BY <1>14, Placed DEF Release, Locks, Lets, StateStays, State, Pc, Still
  <2> QED
    BY <1>14, <2>1, Placed DEF Release, Moved, Moves, TypeInv
<1>15. CASE Open(i)
  <2> DEFINE r == [main[i] EXCEPT !.fd = names[Wanted(i)]]
  <2>1. UNCHANGED child /\ Still /\ UNCHANGED <<lock, devices, gpio>> /\ Pc(i) = "open"
    BY <1>15 DEF Open, Pc, Still
  <2>2. main[i] \in Parent /\ names[Wanted(i)] \in Instances \cup {0} /\ Wanted(i) \in Channels
    BY DEF TypeInv, Wanted, Channels
  <2>3. /\ r \in Parent /\ r.pc = main[i].pc /\ r.code = main[i].code
        /\ r.fd = names[Wanted(i)] /\ r.ring = main[i].ring
    BY <2>2 DEF Parent
  <2>4. main' = [main EXCEPT ![i] = r]
    BY <1>15 DEF Open
  <2> HIDE DEF r
  <2>5. /\ main' \in [Instances -> Parent] /\ \A k \in Instances : k # i => main'[k] = main[k]
        /\ main'[i] = r
    BY <2>3, <2>4, Replaced
  <2>6. Wanted(i)' = Wanted(i)
    BY <2>3, <2>5 DEF Wanted
  <2>7. \A p \in Channels : /\ Held(i, p)' \subseteq Held(i, p) \cup {names[p]}
                            /\ Ring(i, p)' = Ring(i, p)
    BY <2>3, <2>5, <2>6 DEF Held, Ring
  <2>8. Attaches(i)
    BY <2>1, <2>3, <2>5, <2>7 DEF Attaches, StateStays, State, Pc, Code
  <2> QED
    BY <2>1, <2>5, <2>8 DEF Moved, Moves, TypeInv, Still
<1>16. CASE Attach(i)
  <2> DEFINE w == Wanted(i)
             pc == IF w = 2 THEN "wait" ELSE main[i].pc
             r == [main[i] EXCEPT !.ring[w] = main[i].fd, !.fd = 0, !.pc = pc]
  <2>1. UNCHANGED child /\ Still /\ UNCHANGED <<lock, devices, gpio>> /\ Pc(i) = "open"
        /\ main[i].fd \in made[w]
    BY <1>16 DEF Attach, Mapped, Pc, Still
  <2>2. main[i] \in Parent /\ w \in Channels /\ pc \in {"open", "wait"}
    BY <2>1 DEF TypeInv, Wanted, Channels, Pc
  <2>3. main' = [main EXCEPT ![i] = r]
    BY <1>16 DEF Attach, Mapped, TypeInv
  <2> HIDE DEF w, pc
  <2>4. /\ r \in Parent /\ r.pc = pc /\ r.code = main[i].code /\ r.fd = 0
        /\ r.ring = [main[i].ring EXCEPT ![w] = main[i].fd]
    BY <2>2 DEF Parent
  <2> HIDE DEF r
  <2>5. /\ main' \in [Instances -> Parent] /\ \A k \in Instances : k # i => main'[k] = main[k]
        /\ main'[i] = r
    BY <2>3, <2>4, Replaced
  <2>6. main[i].ring \in [Channels -> Instances \cup {0}]
    BY <2>2 DEF Parent
  <2>7. ASSUME NEW p \in Channels
        PROVE  /\ Held(i, p)' \subseteq Held(i, p) \cup {names[p]}
               /\ Ring(i, p)' \in {Ring(i, p)} \cup made[p]
    <3>1. CASE p = w
      <4>1. Ring(i, p)' = main[i].fd /\ main'[i].fd = 0
        BY <2>2, <2>4, <2>5, <2>6, <3>1 DEF Ring
      <4> QED
        BY <2>1, <3>1, <4>1, BoundsOfSupervisor DEF Held, w
    <3>2. CASE p # w
      <4>1. Ring(i, p)' = Ring(i, p) /\ main'[i].fd = 0
        BY <2>2, <2>4, <2>5, <2>6, <3>2 DEF Ring
      <4> QED
        BY <4>1, BoundsOfSupervisor DEF Held
    <3> QED
      BY <3>1, <3>2
  <2>8. Attaches(i)
    BY <2>1, <2>2, <2>4, <2>5, <2>7 DEF Attaches, StateStays, State, Pc, Code
  <2> QED
    BY <2>1, <2>5, <2>8 DEF Moved, Moves, TypeInv, Still
<1> QED
  BY <1>1, <1>2, <1>3, <1>4, <1>5, <1>6, <1>7, <1>8, <1>9, <1>10, <1>11, <1>12, <1>13,
     <1>14, <1>15, <1>16 DEF MainStep

\* What is known of a receiver p that alone goes to stage s.
OneGoes(i, p, s) ==
  /\ child' \in [Instances -> [Channels -> Receiver]] /\ Apart(i) /\ UNCHANGED <<main, gpio>>
  /\ State(i, p)' = s /\ \A q \in Channels : q # p => State(i, q)' = State(i, q)

LEMMA OneGoesOn ==
  ASSUME TypeInv, NEW i \in Instances, NEW p \in Channels, NEW s \in Stages,
         child' = [child EXCEPT ![i][p].state = s], UNCHANGED <<main, gpio>>
  PROVE  OneGoes(i, p, s)
  BY Staged DEF OneGoes, Apart

LEMMA OneEnds ==
  ASSUME TypeInv, NEW i \in Instances, NEW p \in Channels,
         child' = [child EXCEPT ![i][p] = Dead], UNCHANGED <<main, gpio>>
  PROVE  OneGoes(i, p, "zombie")
  BY Ended DEF OneGoes, Apart

LEMMA ReceiverMoves ==
  ASSUME TypeInv, Hardware, NEW i \in Instances, NEW p \in Channels,
         ChildStep(i, p) \/ Die(i, p) \/ FillFails(i, p)
  PROVE  Moved(i)
<1>stages. {"create", "fill", "init", "ready"} \subseteq Stages
  BY DEF Stages, Made
<1>1. CASE Begin(i, p)
  <2>1. OneGoes(i, p, "create")
    BY <1>1, <1>stages, OneGoesOn DEF Begin
  <2>2. Still /\ UNCHANGED devices /\ State(i, p) = "forked"
        /\ (lock' = lock \/ (lock' = 0 /\ lock = i /\ Pc(i) = "killed"))
    BY <1>1 DEF Begin, State, Pc, Still
  <2>3. Lives(i)
    BY <2>1, <2>2 DEF OneGoes, Lives, Parked
  <2> QED
    BY <2>1, <2>2, <2>3 DEF OneGoes, Moved, Moves, TypeInv, Still
<1>2. CASE Create(i, p) /\ names[p] = NoName
  <2>1. OneGoes(i, p, "fill")
    BY <1>2, <1>stages, OneGoesOn DEF Create
  <2>2. UNCHANGED <<lock, devices, made, robbed>> /\ State(i, p) = "create"
        /\ names' = [names EXCEPT ![p] = i]
    BY <1>2 DEF Create, State
  <2>3. Lives(i)
    BY <1>2, <2>1, <2>2 DEF OneGoes, Lives, Parked
  <2>4. names' \in [Channels -> Instances \cup {0}]
    BY <2>2 DEF TypeInv
  <2> QED
    BY <2>1, <2>2, <2>3, <2>4 DEF OneGoes, Moved, Moves, TypeInv
<1>3. CASE \/ Create(i, p) /\ names[p] # NoName
           \/ InitDevice(i, p) /\ devices[p] # 0
  <2>1. OneGoes(i, p, "zombie")
    BY <1>3, OneEnds DEF Create, InitDevice
  <2>2. Still /\ UNCHANGED <<lock, devices>> /\ State(i, p) \in {"create", "init"}
    BY <1>3 DEF Create, InitDevice, State, Still
  <2>3. Lives(i)
    BY <2>1, <2>2 DEF OneGoes, Lives, Parked
  <2> QED
    BY <2>1, <2>2, <2>3 DEF OneGoes, Moved, Moves, TypeInv, Still
<1>4. CASE Fill(i, p)
  <2>1. OneGoes(i, p, "init")
    BY <1>4, <1>stages, OneGoesOn DEF Fill
  <2>2. UNCHANGED <<lock, devices, names, robbed>> /\ State(i, p) = "fill"
        /\ made' = [made EXCEPT ![p] = @ \cup {i}]
    BY <1>4 DEF Fill, State
  <2>3. Lives(i)
    BY <2>1, <2>2 DEF OneGoes, Lives, Parked
  <2>4. made' \in [Channels -> SUBSET Instances]
    BY <2>2 DEF TypeInv
  <2> QED
    BY <2>1, <2>2, <2>3, <2>4 DEF OneGoes, Moved, Moves, TypeInv
<1>5. CASE InitDevice(i, p) /\ devices[p] = 0
  <2>1. OneGoes(i, p, "ready")
    BY <1>5, <1>stages, OneGoesOn DEF InitDevice
  <2>2. Still /\ UNCHANGED lock /\ State(i, p) = "init" /\ devices' = [devices EXCEPT ![p] = i]
    BY <1>5 DEF InitDevice, State, Still
  <2>3. Lives(i)
    BY <1>5, <2>1, <2>2 DEF OneGoes, Lives, Parked
  <2>4. devices' \in [Channels -> Instances \cup {0}]
    BY <2>2 DEF TypeInv
  <2> QED
    BY <2>1, <2>2, <2>3, <2>4 DEF OneGoes, Moved, Moves, TypeInv, Still
<1>6. CASE End(i, p) \/ Die(i, p)
  <2>1. OneGoes(i, p, "zombie")
    BY <1>6, OneEnds DEF End, Die
  <2>2. Still /\ UNCHANGED lock /\ State(i, p) \in {"create", "fill", "init", "ready"}
    BY <1>6 DEF End, Die, State, Still
  <2>3. devices' = [devices EXCEPT ![p] = IF devices[p] = i THEN 0 ELSE devices[p]]
    <3>1. State(i, p) = "ready" => devices[p] = i
      BY DEF Hardware
    <3> QED
      BY <1>6, <3>1 DEF End, Die, State
  <2>4. Lives(i)
    BY <2>1, <2>2, <2>3 DEF OneGoes, Lives, Parked
  <2>5. devices' \in [Channels -> Instances \cup {0}]
    BY <2>3 DEF TypeInv
  <2> QED
    BY <2>1, <2>2, <2>4, <2>5 DEF OneGoes, Moved, Moves, TypeInv, Still
<1>7. CASE FillFails(i, p)
  <2>1. OneGoes(i, p, "zombie")
    BY <1>7, OneEnds DEF FillFails
  <2>2. /\ UNCHANGED <<lock, devices>> /\ State(i, p) = "fill"
        /\ made' \in {made, [made EXCEPT ![p] = @ \cup {i}]}
        /\ names' = [names EXCEPT ![p] = NoName]
        /\ robbed' = robbed \cup {<<k, p>> : k \in {names[p]} \ {NoName}}
    BY <1>7 DEF FillFails, State
  <2>3. Lives(i)
    BY <2>1, <2>2 DEF OneGoes, Lives, Parked
  <2>4. /\ made' \in [Channels -> SUBSET Instances] /\ names' \in [Channels -> Instances \cup {0}]
        /\ robbed' \subseteq Instances \X Channels
    BY <2>2 DEF TypeInv, NoName
  <2> QED
    BY <2>1, <2>2, <2>3, <2>4 DEF OneGoes, Moved, Moves, TypeInv
<1>8. CASE Deliver(i, p)
  <2> DEFINE r == [child[i][p] EXCEPT !.sig = FALSE,
                                      !.running = @ /\ child[i][p].state = "forked"]
             f == [child[i] EXCEPT ![p] = r]
  <2>1. child[i] \in [Channels -> Receiver] /\ child[i][p] \in Receiver
    BY DEF TypeInv
  <2>2. r \in Receiver /\ r.state = child[i][p].state
    BY <2>1 DEF Receiver
  <2>3. child' = [child EXCEPT ![i] = f]
    BY <1>8 DEF Deliver
  <2> HIDE DEF r
  <2>4. f \in [Channels -> Receiver] /\ \A q \in Channels : f[q].state = child[i][q].state
    BY <2>1, <2>2
  <2> HIDE DEF f
  <2>5. /\ child' \in [Instances -> [Channels -> Receiver]] /\ Apart(i) /\ StateStays(i)
        /\ Still /\ UNCHANGED <<main, lock, devices, gpio>>
    BY <1>8, <2>3, <2>4, Changed DEF Deliver, Apart, StateStays, State, Still
  <2>6. Walks(i)
    BY <2>5 DEF Walks, Lets, Keeps, Pc, Code
  <2> QED
    BY <2>5, <2>6 DEF Moved, Moves, TypeInv, Still
<1> QED
  BY <1>1, <1>2, <1>3, <1>4, <1>5, <1>6, <1>7, <1>8 DEF ChildStep

LEMMA WorldMoves ==
  ASSUME TypeInv, NEW i \in Instances, NEW all \in BOOLEAN, Handle(i) \/ Kill(i) \/ Signal(i, all)
  PROVE  Moved(i)
<1>1. ASSUME NEW running \in BOOLEAN, NEW sig \in BOOLEAN,
             main' = [main EXCEPT ![i].sig = sig, ![i].running = running]
      PROVE  /\ main' \in [Instances -> Parent]
             /\ \A k \in Instances : k # i => main'[k] = main[k]
             /\ Pc(i)' = Pc(i) /\ Code(i)' = Code(i) /\ Keeps(i)
  <2> DEFINE r == [main[i] EXCEPT !.sig = sig, !.running = running]
  <2>1. main[i] \in Parent
    BY DEF TypeInv
  <2>2. /\ r \in Parent /\ r.pc = main[i].pc /\ r.code = main[i].code
        /\ r.ring = main[i].ring /\ r.fd = main[i].fd
    BY <2>1 DEF Parent
  <2>3. main' = [main EXCEPT ![i] = r]
    BY <1>1 DEF TypeInv
  <2> HIDE DEF r
  <2> QED
    BY <2>2, <2>3, Replaced DEF Keeps, Pc, Code
<1>2. CASE Handle(i)
  <2>1. UNCHANGED child /\ Still /\ UNCHANGED <<lock, devices, gpio>>
    BY <1>2 DEF Handle, Still
  <2>2. /\ main' \in [Instances -> Parent] /\ \A k \in Instances : k # i => main'[k] = main[k]
        /\ Pc(i)' = Pc(i) /\ Code(i)' = Code(i) /\ Keeps(i)
    BY <1>1, <1>2 DEF Handle
  <2>3. Walks(i)
    BY <2>1, <2>2 DEF Walks, Lets, StateStays, State
  <2> QED
    BY <2>1, <2>2, <2>3, WalksOn DEF TypeInv
<1>3. CASE Signal(i, all)
  <2>1. main[i].running \in BOOLEAN
    BY DEF TypeInv, Parent
  <2>2. main' = [main EXCEPT ![i].sig = TRUE, ![i].running = main[i].running]
    BY <1>3, <2>1 DEF Signal, TypeInv, Parent
  <2>3. child' = [child EXCEPT ![i] = [p \in Channels |->
                    IF p \in {q \in Left(i) : all} THEN [child[i][p] EXCEPT !.sig = TRUE] ELSE child[i][p]]]
    BY <1>3 DEF Signal
  <2>4. /\ main' \in [Instances -> Parent] /\ \A k \in Instances : k # i => main'[k] = main[k]
        /\ Pc(i)' = Pc(i) /\ Code(i)' = Code(i) /\ Keeps(i)
    BY <1>1, <2>1, <2>2
  <2>5. /\ child' \in [Instances -> [Channels -> Receiver]]
        /\ \A k \in Instances : k # i => child'[k] = child[k]
        /\ StateStays(i)
    BY <2>3, Signalled
  <2>6. Still /\ UNCHANGED <<lock, devices, gpio>>
    BY <1>3 DEF Signal, Still
  <2>7. Walks(i)
    BY <2>4, <2>5, <2>6 DEF Walks, Lets
  <2> QED
    BY <2>4, <2>5, <2>6, <2>7 DEF Moved, Moves, TypeInv, Apart, Still
<1>4. CASE Kill(i)
  <2> DEFINE r == [main[i] EXCEPT !.pc = "killed", !.sig = FALSE, !.fd = 0, !.ring = NoRings]
  <2>1. main[i] \in Parent /\ "killed" \in Pcs
    BY DEF TypeInv, Pcs
  <2>2. r \in Parent /\ r.pc = "killed" /\ r.code = main[i].code /\ r.ring = NoRings /\ r.fd = 0
    BY <2>1 DEF Parent, NoRings
  <2>3. main' = [main EXCEPT ![i] = r]
    BY <1>4 DEF Kill, TypeInv
  <2> HIDE DEF r
  <2>4. /\ main' \in [Instances -> Parent] /\ \A k \in Instances : k # i => main'[k] = main[k]
        /\ main'[i] = r
    BY <2>2, <2>3, Replaced
  <2>5. UNCHANGED child /\ Still /\ UNCHANGED <<devices, gpio>> /\ lock' \in {lock, 0} /\ Alive(i)
    BY <1>4 DEF Kill, Still
  <2>6. Locks(i)
    BY <2>2, <2>4, <2>5 DEF Locks, Lets, Drops, StateStays, State, Goes, Pc, Code
  <2> QED
    BY <2>4, <2>5, <2>6 DEF Moved, Moves, TypeInv, Apart, Still
<1> QED
  BY <1>2, <1>3, <1>4

\* Every step is one of an instance, or leaves everything that counts.
LEMMA StepMoves ==
  ASSUME TypeInv, Hardware, Next
  PROVE  \E i \in Instances : Moved(i)
  BY ParentMoves, ReceiverMoves, WorldMoves DEF Next

-----------------------------------------------------------------------------
(* The parts of the invariant, step by step.                               *)

LEMMA Others ==
  ASSUME NEW i \in Instances, Apart(i), NEW k \in Instances, k # i
  PROVE  /\ Pc(k)' = Pc(k) /\ Code(k)' = Code(k) /\ (Alive(k)' <=> Alive(k))
         /\ \A p \in Channels : /\ State(k, p)' = State(k, p)
                               /\ Ring(k, p)' = Ring(k, p) /\ Held(k, p)' = Held(k, p)
  BY DEF Apart, Pc, Code, Ring, Held, Wanted, State, Alive

\* While one instance runs, of the others there are receivers only.
LEMMA Bystander ==
  ASSUME TypeInv, Alone, NEW i \in Instances, NEW k \in Instances, k # i, Alive(k), Moved(i)
  PROVE  UNCHANGED <<lock, gpio>> /\ (Still \/ Lives(i))
<1>1. lock = k /\ k # 0 /\ ~Alive(i)
  BY BoundsOfSupervisor DEF Alone
<1>2. Pc(i) \in {"off", "refused", "done", "killed"}
  BY <1>1 DEF Alive, Pc
<1>3. Walks(i) \/ Locks(i) \/ Lives(i)
  BY <1>2 DEF Moved, Moves, Unlinks, Forks, Attaches, Buries, Running
<1>4. Walks(i) => UNCHANGED <<lock, gpio>> /\ Still
  BY <1>2 DEF Walks, Running
<1>5. ~Locks(i)
  BY <1>1, <1>2 DEF Locks
<1>6. Lives(i) => UNCHANGED <<lock, gpio>>
  BY <1>1 DEF Lives
<1> QED
  BY <1>3, <1>4, <1>5, <1>6

LEMMA AloneStep ==
  ASSUME TypeInv, Alone, NEW i \in Instances, Moved(i)
  PROVE  Alone'
<1> SUFFICES ASSUME NEW k \in Instances, Alive(k)' PROVE lock' = k
  BY DEF Alone
<1>apart. Apart(i)
  BY DEF Moved
<1>1. CASE k # i
  <2>1. Alive(k)
    BY <1>1, <1>apart, Others
  <2> QED
    BY <1>1, <2>1, Bystander DEF Alone
<1>2. CASE k = i
  <2>1. Pc(i)' \notin {"off", "refused", "done", "killed"}
    BY <1>2 DEF Alive, Pc
  <2>2. ASSUME ~Locks(i), ~Lives(i) PROVE lock' = lock /\ Pc(i) \notin {"off", "refused", "done", "killed"}
    BY <2>1, <2>2 DEF Moved, Moves, Walks, Unlinks, Forks, Attaches, Buries, Goes, Running
  <2>3. CASE Locks(i)
    BY <1>2, <2>1, <2>3 DEF Locks, Goes
  <2>4. CASE Lives(i)
    <3>1. Pc(i)' = Pc(i) /\ (Alive(i)' <=> Alive(i))
      BY <2>4 DEF Lives, Parked, Pc, Alive
    <3> QED
      BY <1>2, <2>1, <2>4, <3>1 DEF Lives, Alone
  <2>5. Pc(i) \notin {"off", "refused", "done", "killed"} => Alive(i)
    BY DEF Alive, Pc
  <2> QED
    BY <1>2, <2>2, <2>3, <2>4, <2>5 DEF Alone
<1> QED
  BY <1>1, <1>2

LEMMA ForkedStep ==
  ASSUME TypeInv, Forked, NEW i \in Instances, Moved(i)
  PROVE  Forked'
<1> DEFINE Good(k) ==
       /\ Pc(k) \in Starting => \A p \in Channels : State(k, p) = "none"
       /\ Pc(k) = "fork2" => State(k, 1) # "none" /\ State(k, 2) = "none"
       /\ Pc(k) \in {"calibrate"} \cup Running => \A p \in Channels : State(k, p) # "none"
<1>old. Good(i) /\ Apart(i)
  BY DEF Forked, Moved
<1>1. ASSUME NEW k \in Instances, k # i PROVE Good(k)'
  BY <1>1, <1>old, Others DEF Forked, Channels
<1> SUFFICES Good(i)'
  BY <1>1 DEF Forked
<1>2. CASE Walks(i)
  BY <1>2, <1>old DEF Walks, StateStays, Goes, Starting, Running, Channels
<1>3. CASE Locks(i) \/ Unlinks(i)
  BY <1>3, <1>old DEF Locks, Unlinks, StateStays, Goes, Starting, Running, Channels
<1>4. CASE Forks(i)
  BY <1>4, <1>old DEF Forks, Goes, Starting, Running, Channels
<1>5. CASE Attaches(i)
  BY <1>5, <1>old DEF Attaches, StateStays, Starting, Running, Channels
<1>6. CASE Buries(i)
  BY <1>6, <1>old DEF Buries, Goes, Starting, Running, Channels
<1>7. CASE Lives(i)
  <2>1. Pc(i)' = Pc(i)
    BY <1>7 DEF Lives, Parked, Pc
  <2>2. \A p \in Channels : (State(i, p)' = "none") <=> (State(i, p) = "none")
    BY <1>7 DEF Lives
  <2> QED
    BY <1>old, <2>1, <2>2 DEF Channels
<1> QED
  BY <1>2, <1>3, <1>4, <1>5, <1>6, <1>7 DEF Moved, Moves

LEMMA FinishedStep ==
  ASSUME TypeInv, Forked, Finished, NEW i \in Instances, Moved(i)
  PROVE  Finished'
<1> DEFINE Good(k) == Pc(k) \in Ending \cup {"refused", "done"} =>
                        \A p \in Channels : State(k, p) \in {"none", "reaped"}
<1>old. Good(i) /\ Apart(i)
  BY DEF Finished, Moved
<1>1. ASSUME NEW k \in Instances, k # i PROVE Good(k)'
  BY <1>1, <1>old, Others DEF Finished
<1> SUFFICES Good(i)'
  BY <1>1 DEF Finished
<1>2. CASE Walks(i)
  <2>1. Pc(i) = "off" => \A p \in Channels : State(i, p) = "none"
    BY DEF Forked, Starting
  <2> QED
    BY <1>2, <1>old, <2>1 DEF Walks, StateStays, Goes, Ending, Running
<1>3. CASE Locks(i)
  BY <1>3, <1>old DEF Locks, StateStays, Goes, Ending
<1>4. CASE Unlinks(i)
  <2>1. Pc(i) = "prepare" => \A p \in Channels : State(i, p) = "none"
    BY DEF Forked, Starting
  <2> QED
    BY <1>4, <1>old, <2>1 DEF Unlinks, StateStays, Goes, Ending
<1>5. CASE Forks(i) \/ Attaches(i) \/ Buries(i)
  BY <1>5, <1>old DEF Forks, Attaches, Buries, Goes, Ending, Running
<1>6. CASE Lives(i)
  <2>1. Pc(i)' = Pc(i)
    BY <1>6 DEF Lives, Parked, Pc
  <2>2. \A p \in Channels : State(i, p) \in {"none", "reaped"} => State(i, p)' = State(i, p)
    BY <1>6 DEF Lives
  <2> QED
    BY <1>old, <2>1, <2>2
<1> QED
  BY <1>2, <1>3, <1>4, <1>5, <1>6 DEF Moved, Moves

LEMMA HardwareStep ==
  ASSUME TypeInv, Forked, Hardware, NEW i \in Instances, Moved(i)
  PROVE  Hardware'
<1> SUFFICES ASSUME NEW k \in Instances, NEW p \in Channels
             PROVE  devices'[p] = k <=> State(k, p)' = "ready"
  BY DEF Hardware
<1>old. /\ Apart(i) /\ k # 0 /\ i # 0 /\ devices \in [Channels -> Instances \cup {0}]
        /\ devices[p] = k <=> State(k, p) = "ready"
  BY BoundsOfSupervisor DEF Hardware, Moved, TypeInv
<1>others. k # i => State(k, p)' = State(k, p)
  BY <1>old, Others
<1>1. CASE Walks(i) \/ Locks(i) \/ Unlinks(i) \/ Attaches(i)
  <2>1. UNCHANGED devices /\ StateStays(i)
    BY <1>1 DEF Walks, Locks, Unlinks, Attaches
  <2> QED
    BY <1>old, <1>others, <2>1 DEF StateStays
<1>2. CASE Forks(i)
  <2>1. State(i, p) = "none" \/ State(i, p)' = State(i, p)
    BY <1>2 DEF Forks, Forked, Starting, Channels
  <2>2. State(i, p)' = "forked" \/ State(i, p)' = State(i, p)
    BY <1>2 DEF Forks
  <2> QED
    BY <1>2, <1>old, <1>others, <2>1, <2>2 DEF Forks
<1>3. CASE Buries(i)
  <2>1. CASE UNCHANGED devices /\ (State(i, p)' = State(i, p) \/ (State(i, p) = "zombie" /\ State(i, p)' = "reaped"))
    BY <1>old, <1>others, <2>1
  <2>2. CASE /\ devices' = [q \in Channels |-> IF devices[q] = i THEN 0 ELSE devices[q]]
             /\ State(i, p)' = IF State(i, p) \in {"none", "reaped"} THEN State(i, p) ELSE "zombie"
    BY <1>old, <1>others, <2>2
  <2> QED
    BY <1>3, <2>1, <2>2 DEF Buries
<1>4. CASE Lives(i)
  <2>1. PICK q \in Channels :
          /\ \A r \in Channels : r # q => State(i, r)' = State(i, r)
          /\ \/ UNCHANGED devices /\ State(i, q) # "ready" /\ State(i, q)' # "ready"
             \/ /\ State(i, q) = "init" /\ State(i, q)' = "ready" /\ devices[q] = 0
                /\ devices' = [devices EXCEPT ![q] = i]
             \/ /\ State(i, q)' = "zombie"
                /\ devices' = [devices EXCEPT ![q] = IF @ = i THEN 0 ELSE @]
    BY <1>4 DEF Lives
  <2>2. CASE q # p
    <3>1. devices'[p] = devices[p]
      BY <1>old, <2>1, <2>2
    <3> QED
      BY <1>old, <1>others, <2>1, <2>2, <3>1
  <2>3. CASE q = p
    BY <1>old, <1>others, <2>1, <2>3
  <2> QED
    BY <2>2, <2>3
<1> QED
  BY <1>1, <1>2, <1>3, <1>4 DEF Moved, Moves

\* What becomes of a name when a receiver goes on: it is taken when it is free,
\* and removed, with a record of whose it was, by a constructor that fails.
LEMMA NameChanges ==
  ASSUME TypeInv, NEW i \in Instances, Lives(i), NEW p \in Channels
  PROVE  /\ \/ names'[p] = names[p] /\ ~(State(i, p) = "create" /\ State(i, p)' = "fill")
            \/ names[p] = 0 /\ names'[p] = i /\ State(i, p) = "create" /\ State(i, p)' = "fill"
            \/ /\ names'[p] = 0 /\ (names[p] # 0 => <<names[p], p>> \in robbed')
               /\ State(i, p) = "fill" /\ State(i, p)' = "zombie"
         /\ robbed \subseteq robbed' /\ made[p] \subseteq made'[p]
         /\ made'[p] = made[p] \/ (made'[p] = made[p] \cup {i} /\ State(i, p)' \in Made)
<1>type. names \in [Channels -> Instances \cup {0}] /\ made \in [Channels -> SUBSET Instances]
  BY DEF TypeInv
<1>1. PICK q \in Channels :
        /\ \A r \in Channels : r # q => State(i, r)' = State(i, r)
        /\ \/ Still /\ ~(State(i, q) = "create" /\ State(i, q)' = "fill")
           \/ /\ State(i, q) = "create" /\ State(i, q)' = "fill" /\ names[q] = NoName
              /\ names' = [names EXCEPT ![q] = i] /\ UNCHANGED <<made, robbed>>
           \/ /\ State(i, q) = "fill" /\ State(i, q)' = "init"
              /\ made' = [made EXCEPT ![q] = @ \cup {i}] /\ UNCHANGED <<names, robbed>>
           \/ /\ State(i, q) = "fill" /\ State(i, q)' = "zombie"
              /\ made' \in {made, [made EXCEPT ![q] = @ \cup {i}]}
              /\ names' = [names EXCEPT ![q] = NoName]
              /\ robbed' = robbed \cup {<<k, q>> : k \in {names[q]} \ {NoName}}
  BY DEF Lives
<1>2. CASE Still /\ ~(State(i, q) = "create" /\ State(i, q)' = "fill")
  BY <1>1, <1>2 DEF Still
<1>3. CASE /\ State(i, q) = "create" /\ State(i, q)' = "fill" /\ names[q] = NoName
           /\ names' = [names EXCEPT ![q] = i] /\ UNCHANGED <<made, robbed>>
  BY <1>type, <1>1, <1>3 DEF NoName
<1>4. CASE /\ State(i, q) = "fill" /\ State(i, q)' = "init"
           /\ made' = [made EXCEPT ![q] = @ \cup {i}] /\ UNCHANGED <<names, robbed>>
  BY <1>type, <1>1, <1>4 DEF Made
<1>5. CASE /\ State(i, q) = "fill" /\ State(i, q)' = "zombie"
           /\ made' \in {made, [made EXCEPT ![q] = @ \cup {i}]}
           /\ names' = [names EXCEPT ![q] = NoName]
           /\ robbed' = robbed \cup {<<k, q>> : k \in {names[q]} \ {NoName}}
  <2>1. names'[q] = 0 /\ \A r \in Channels : r # q => names'[r] = names[r]
    BY <1>type, <1>5 DEF NoName
  <2>2. names[q] # 0 => <<names[q], q>> \in robbed'
    BY <1>5 DEF NoName
  <2>3. /\ made'[q] \in {made[q], made[q] \cup {i}} /\ made[q] \subseteq made'[q]
        /\ \A r \in Channels : r # q => made'[r] = made[r]
    BY <1>type, <1>5
  <2>4. robbed \subseteq robbed'
    BY <1>5
  <2>5. CASE q = p
    BY <1>5, <2>1, <2>2, <2>3, <2>4, <2>5 DEF Made
  <2>6. CASE q # p
    BY <1>1, <2>1, <2>3, <2>4, <2>6
  <2> QED
    BY <2>5, <2>6
<1> QED
  BY <1>1, <1>2, <1>3, <1>4, <1>5

LEMMA NamedStep ==
  ASSUME TypeInv, Forked, Finished, Named, NEW i \in Instances, Moved(i)
  PROVE  Named'
<1>apart. Apart(i) /\ 0 \notin Instances
  BY BoundsOfSupervisor DEF Moved
<1> DEFINE Own(k, p) ==
             names[p] = k => /\ State(k, p) \notin {"none", "forked", "create"}
                             /\ Pc(k) \notin {"leave", "release"}
           Whole(k, p) == k \in made[p] => State(k, p) \in Made
<1>old. \A k \in Instances, p \in Channels : Own(k, p) /\ Whole(k, p)
  BY DEF Named
<1>1. ASSUME NEW p \in Channels, ~Lives(i)
      PROVE  (names'[p] = names[p] \/ names'[p] = 0) /\ made'[p] = made[p]
  BY <1>1 DEF Moved, Moves, Walks, Locks, Unlinks, Forks, Attaches, Buries, NoName, Still
<1>2. ASSUME NEW k \in Instances, NEW p \in Channels, k # i PROVE Own(k, p)' /\ Whole(k, p)'
  <2>1. Pc(k)' = Pc(k) /\ State(k, p)' = State(k, p)
    BY <1>2, <1>apart, Others
  <2>2. (names'[p] = k => names[p] = k) /\ (k \in made'[p] => k \in made[p])
    <3>1. CASE Lives(i)
      <4>1. names'[p] \in {names[p], i, 0} /\ made'[p] \in {made[p], made[p] \cup {i}}
        BY <3>1, NameChanges
      <4> QED
        BY <1>2, <1>apart, <4>1
    <3> QED
      BY <1>apart, <1>1, <3>1
  <2> QED
    BY <1>old, <2>1, <2>2
<1>3. ASSUME NEW p \in Channels PROVE Own(i, p)' /\ Whole(i, p)'
  <2>1. CASE Walks(i) \/ Locks(i) \/ Attaches(i)
    <3>1. names' = names /\ made' = made /\ State(i, p)' = State(i, p)
      BY <2>1 DEF Walks, Locks, Attaches, StateStays, Still
    <3>2. Pc(i)' \in {"leave", "release"} => Pc(i) \in {"leave", "release"}
      BY <2>1 DEF Walks, Locks, Attaches, Goes, Running
    <3> QED
      BY <1>old, <3>1, <3>2
  <2>2. CASE Unlinks(i)
    <3>1. names'[p] # i
      <4>1. CASE Pc(i) = "prepare" /\ names' \in {names, [q \in Channels |-> NoName]}
        <5>1. State(i, p) = "none"
          BY <4>1 DEF Forked, Starting
        <5> QED
          BY <1>old, <1>apart, <4>1, <5>1 DEF NoName
      <4>2. CASE names' = [q \in Channels |-> IF State(i, q) = "none" THEN names[q] ELSE NoName]
        <5>1. names'[p] = IF State(i, p) = "none" THEN names[p] ELSE NoName
          BY <4>2
        <5> QED
          BY <1>old, <1>apart, <5>1 DEF NoName
      <4> QED
        BY <2>2, <4>1, <4>2 DEF Unlinks
    <3>2. made' = made /\ State(i, p)' = State(i, p)
      BY <2>2 DEF Unlinks, StateStays
    <3> QED
      BY <1>old, <3>1, <3>2
  <2>3. CASE Forks(i)
    <3>1. names' = names /\ made' = made /\ Pc(i)' \in {"fork2", "calibrate"}
      BY <2>3 DEF Forks, Goes, Still
    <3>2. State(i, p)' = State(i, p) \/ State(i, p) = "none"
      BY <2>3 DEF Forks, Forked, Starting, Channels
    <3> QED
      BY <1>old, <3>1, <3>2 DEF Made
  <2>4. CASE Buries(i)
    <3>1. names' = names /\ made' = made /\ Pc(i)' \notin {"leave", "release"}
      BY <2>4 DEF Buries, Goes, Still
    <3>2. \/ State(i, p)' = State(i, p)
          \/ State(i, p)' \in {"zombie", "reaped"}
      BY <2>4 DEF Buries
    <3> QED
      BY <1>old, <3>1, <3>2 DEF Made
  <2>5. CASE Lives(i)
    <3>1. Pc(i)' = Pc(i)
      BY <2>5 DEF Lives, Parked, Pc
    <3>2. \/ State(i, p)' = State(i, p)
          \/ State(i, p) = "forked" /\ State(i, p)' = "create"
          \/ State(i, p) = "create" /\ State(i, p)' = "fill"
          \/ State(i, p) = "fill" /\ State(i, p)' = "init"
          \/ State(i, p) = "init" /\ State(i, p)' = "ready"
          \/ State(i, p) \notin {"none", "forked"} /\ State(i, p)' = "zombie"
      BY <2>5 DEF Lives
    <3>3. State(i, p) = "create" => Pc(i) \notin {"leave", "release"}
      BY DEF Finished, Ending
    <3>4. Own(i, p)'
      <4>1. CASE names'[p] = names[p] /\ ~(State(i, p) = "create" /\ State(i, p)' = "fill")
        BY <1>old, <3>1, <3>2, <4>1
      <4>2. CASE State(i, p) = "create" /\ State(i, p)' = "fill"
        BY <3>1, <3>3, <4>2
      <4>3. CASE names'[p] = 0
        BY <1>apart, <4>3
      <4> QED
        BY <2>5, <4>1, <4>2, <4>3, NameChanges
    <3>5. Whole(i, p)'
      <4>1. State(i, p) \in Made => State(i, p)' \in Made
        BY <3>2 DEF Made
      <4>2. made'[p] = made[p] \/ State(i, p)' \in Made
        BY <2>5, NameChanges
      <4> QED
        BY <1>old, <4>1, <4>2
    <3> QED
      BY <3>4, <3>5
  <2> QED
    BY <2>1, <2>2, <2>3, <2>4, <2>5 DEF Moved, Moves
<1> QED
  BY <1>2, <1>3 DEF Named

\* Whose name was taken stays so: the receiver that failed is nobody's to reap.
LEMMA RobbedStays ==
  ASSUME TypeInv, NEW i \in Instances, Moved(i), NEW k \in Instances, NEW p \in Channels, Robbed(k, p)
  PROVE  Robbed(k, p)'
<1>apart. Apart(i)
  BY DEF Moved
<1>1. robbed \subseteq robbed'
  <2>1. CASE Lives(i)
    BY <2>1, NameChanges
  <2>2. CASE ~Lives(i)
    BY <2>2 DEF Moved, Moves, Walks, Locks, Unlinks, Forks, Attaches, Buries, Still
  <2> QED
    BY <2>1, <2>2
<1>2. PICK m \in Instances \ {k} : Pc(m) = "killed" /\ State(m, p) = "zombie"
  BY DEF Robbed
<1>3. Pc(m)' = "killed" /\ State(m, p)' = "zombie"
  <2>1. CASE m # i
    BY <1>2, <1>apart, <2>1, Others
  <2>2. CASE m = i
    <3>1. Walks(i) \/ Lives(i)
      BY <1>2, <2>2 DEF Moved, Moves, Locks, Unlinks, Forks, Attaches, Buries, Running, Alive, Pc
    <3>2. CASE Walks(i)
      BY <1>2, <2>2, <3>2 DEF Walks, StateStays, Running
    <3>3. CASE Lives(i)
      <4>1. Pc(i)' = Pc(i)
        BY <3>3 DEF Lives, Parked, Pc
      <4>2. State(i, p) = "zombie" => State(i, p)' = "zombie"
        BY <3>3 DEF Lives
      <4> QED
        BY <1>2, <2>2, <4>1, <4>2
    <3> QED
      BY <3>1, <3>2, <3>3
  <2> QED
    BY <2>1, <2>2
<1> QED
  BY <1>1, <1>2, <1>3 DEF Robbed

\* Only a receiver of a killed parent fails over the name of one that runs.
LEMMA Robs ==
  ASSUME TypeInv, Alone, Forked, Finished, NEW i \in Instances, Moved(i), Lives(i),
         NEW k \in Instances, k # i, Alive(k), NEW p \in Channels, names[p] = k
  PROVE  names'[p] = k \/ Robbed(k, p)'
<1>1. lock = k /\ k # 0 /\ ~Alive(i)
  BY BoundsOfSupervisor DEF Alone
<1>2. Pc(i) \in {"off", "refused", "done", "killed"}
  BY <1>1 DEF Alive, Pc
<1>3. SUFFICES ASSUME names'[p] # k PROVE Robbed(k, p)'
  OBVIOUS
<1>4. <<k, p>> \in robbed' /\ State(i, p) = "fill" /\ State(i, p)' = "zombie"
  BY <1>1, <1>3, NameChanges
<1>5. Pc(i) \notin {"off", "refused", "done"}
  BY <1>4 DEF Forked, Finished, Starting
<1>6. Pc(i)' = "killed"
  BY <1>2, <1>5 DEF Lives, Parked, Pc
<1> QED
  BY <1>4, <1>6 DEF Robbed

LEMMA KeptStep ==
  ASSUME TypeInv, Alone, Forked, Finished, Named, Kept, NEW i \in Instances, Moved(i)
  PROVE  Kept'
<1> DEFINE Place(k) == Pc(k) \in {"fork2", "calibrate"} \cup Running
           Own(k, p) == Place(k) /\ State(k, p) \in {"fill", "init", "ready"}
                        => names[p] = k \/ Robbed(k, p)
<1>apart. Apart(i) /\ 0 \notin Instances
  BY BoundsOfSupervisor DEF Moved
<1>old. \A k \in Instances, p \in Channels : Own(k, p)
  BY DEF Kept
<1>1. ASSUME NEW k \in Instances, NEW p \in Channels, k # i PROVE Own(k, p)'
  <2> SUFFICES ASSUME Place(k), names[p] = k PROVE names'[p] = k \/ Robbed(k, p)'
    BY <1>1, <1>apart, <1>old, Others, RobbedStays
  <2>1. Alive(k)
    BY DEF Alive, Pc, Running
  <2>2. Still \/ Lives(i)
    BY <1>1, <2>1, Bystander
  <2>3. CASE Still
    BY <2>3 DEF Still
  <2>4. CASE Lives(i)
    BY <1>1, <2>1, <2>4, Robs
  <2> QED
    BY <2>2, <2>3, <2>4
<1>2. ASSUME NEW p \in Channels PROVE Own(i, p)'
  <2>0. Robbed(i, p) => Robbed(i, p)'
    BY RobbedStays
  <2>1. CASE Walks(i) \/ Attaches(i)
    <3>1. names' = names /\ State(i, p)' = State(i, p)
      BY <2>1 DEF Walks, Attaches, StateStays, Still
    <3>2. Place(i)' => Place(i)
      BY <2>1 DEF Walks, Attaches, Goes, Running
    <3> QED
      BY <1>old, <2>0, <3>1, <3>2
  <2>2. CASE Locks(i) \/ Unlinks(i)
    BY <2>2 DEF Locks, Unlinks, Goes, Running
  <2>3. CASE Forks(i)
    <3>1. names' = names /\ (State(i, p)' = State(i, p) \/ State(i, p)' = "forked")
      BY <2>3 DEF Forks, Still
    <3>2. Pc(i) = "fork2" \/ State(i, p) = "none"
      BY <2>3 DEF Forks, Forked, Starting
    <3> QED
      BY <1>old, <2>0, <3>1, <3>2
  <2>4. CASE Buries(i)
    BY <2>4 DEF Buries, Goes, Running
  <2>5. CASE Lives(i)
    <3>1. Place(i)' <=> Place(i)
      BY <2>5 DEF Lives, Parked, Pc
    <3>2. State(i, p)' \in {"fill", "init", "ready"} =>
            State(i, p) \in {"fill", "init", "ready"} \/ (State(i, p) = "create" /\ State(i, p)' = "fill")
      BY <2>5 DEF Lives
    <3>3. \/ names'[p] = names[p] /\ ~(State(i, p) = "create" /\ State(i, p)' = "fill")
          \/ names'[p] = i
          \/ State(i, p)' = "zombie"
      BY <2>5, NameChanges
    <3> QED
      BY <1>old, <2>0, <3>1, <3>2, <3>3
  <2> QED
    BY <2>1, <2>2, <2>3, <2>4, <2>5 DEF Moved, Moves
<1> QED
  BY <1>1, <1>2 DEF Kept

LEMMA OpenedStep ==
  ASSUME TypeInv, Alone, Opened, NEW i \in Instances, Moved(i)
  PROVE  Opened'
<1> DEFINE Own(k, p) == /\ Pc(k) \notin Running => Held(k, p) = {}
                        /\ \A m \in Held(k, p) : names[p] = m \/ <<m, p>> \in robbed
                        /\ Ring(k, p) # 0 => Ring(k, p) \in made[p]
<1>apart. Apart(i) /\ 0 \notin Instances
  BY BoundsOfSupervisor DEF Moved
<1>old. \A k \in Instances, p \in Channels : Own(k, p)
  BY DEF Opened
<1>0. ASSUME NEW p \in Channels, Still \/ Lives(i)
      PROVE  /\ made[p] \subseteq made'[p]
             /\ \A m \in Instances : names[p] = m \/ <<m, p>> \in robbed
                                  => names'[p] = m \/ <<m, p>> \in robbed'
  <2>1. CASE Still
    BY <2>1 DEF Still
  <2>2. CASE Lives(i)
    BY <1>apart, <2>2, NameChanges, ZenonT(60)
  <2> QED
    BY <1>0, <2>1, <2>2
<1>in. \A k \in Instances, p \in Channels : Held(k, p) \subseteq Instances
  BY DEF Held
<1>made. \A p \in Channels : made[p] \subseteq made'[p]
  <2>1. CASE ~Lives(i)
    BY <2>1 DEF Moved, Moves, Walks, Locks, Unlinks, Forks, Attaches, Buries, Still
  <2> QED
    BY <1>0, <2>1
<1>1. ASSUME NEW k \in Instances, NEW p \in Channels, k # i PROVE Own(k, p)'
  <2>1. Pc(k)' = Pc(k) /\ Ring(k, p)' = Ring(k, p) /\ Held(k, p)' = Held(k, p)
    BY <1>1, <1>apart, Others
  <2>2. CASE Pc(k) \in Running
    <3>1. Alive(k)
      BY <2>2 DEF Alive, Pc, Running
    <3>2. Still \/ Lives(i)
      BY <1>1, <3>1, Bystander
    <3> QED
      BY <1>old, <1>0, <1>in, <2>1, <2>2, <3>2
  <2>3. CASE Pc(k) \notin Running
    BY <1>old, <1>made, <2>1, <2>3
  <2> QED
    BY <2>2, <2>3
<1>2. ASSUME NEW p \in Channels PROVE Own(i, p)'
  <2>1. CASE Walks(i) \/ Locks(i) \/ Forks(i) \/ Buries(i)
    <3>1. Lets(i) /\ Still
      BY <2>1 DEF Walks, Locks, Forks, Buries
    <3>2. Pc(i)' \in Running => Pc(i) \in Running \/ Held(i, p) = {}
      BY <1>old
    <3> QED
      BY <1>old, <1>made, <3>1, <3>2, LetsGo DEF Still
  <2>2. CASE Unlinks(i)
    <3>1. Lets(i) /\ Pc(i) \notin Running
      BY <2>2 DEF Unlinks, Running
    <3> QED
      BY <1>old, <1>made, <3>1, LetsGo
  <2>3. CASE Attaches(i)
    <3>1. Still /\ Pc(i)' \in Running
      BY <2>3 DEF Attaches, Running
    <3>2. /\ Held(i, p)' \subseteq Held(i, p) \cup {names[p]}
          /\ Ring(i, p)' \in {Ring(i, p)} \cup made[p]
      BY <2>3 DEF Attaches
    <3> QED
      BY <1>old, <3>1, <3>2 DEF Still
  <2>4. CASE Lives(i)
    <3>1. Pc(i)' = Pc(i) /\ Ring(i, p)' = Ring(i, p) /\ Held(i, p)' = Held(i, p)
      BY <2>4 DEF Lives, Parked, Pc, Ring, Held, Wanted
    <3> QED
      BY <1>old, <1>0, <1>in, <2>4, <3>1
  <2> QED
    BY <2>1, <2>2, <2>3, <2>4 DEF Moved, Moves
<1> QED
  BY <1>1, <1>2 DEF Opened

LEMMA SafeStep ==
  ASSUME TypeInv, Alone, Safe, NEW i \in Instances, Moved(i)
  PROVE  Safe'
<1> DEFINE Place(k) == Pc(k) \in {"terminate", "grace", "killed_left"} \cup Ending
<1>1. ASSUME NEW k \in Instances, k # i, Place(k)', Code(k)' = 0 PROVE gpio' = {}
  <2>1. Place(k) /\ Code(k) = 0
    BY <1>1, Others DEF Moved
  <2>2. Alive(k)
    BY <2>1 DEF Alive, Pc, Ending
  <2> QED
    BY <1>1, <2>1, <2>2, Bystander DEF Safe
<1>2. ASSUME Place(i)', Code(i)' = 0 PROVE gpio' = {}
  <2>1. CASE Walks(i)
    BY <1>2, <2>1 DEF Walks, Goes, Safe, Ending, Running
  <2>2. CASE Locks(i) \/ Unlinks(i) \/ Forks(i) \/ Attaches(i)
    BY <1>2, <2>2 DEF Locks, Unlinks, Forks, Attaches, Goes, Safe, Ending
  <2>3. CASE Buries(i)
    BY <1>2, <2>3 DEF Buries, Goes, Safe, Ending
  <2>4. CASE Lives(i)
    BY <1>2, <2>4 DEF Lives, Parked, Pc, Code, Safe, Ending
  <2> QED
    BY <2>1, <2>2, <2>3, <2>4 DEF Moved, Moves
<1> QED
  BY <1>1, <1>2 DEF Safe

-----------------------------------------------------------------------------
(* The theorems.                                                           *)

LEMMA InitIInv == Init => IInv
<1> SUFFICES ASSUME Init PROVE IInv
  OBVIOUS
<1>1. \A i \in Instances : /\ Pc(i) = "off" /\ ~Alive(i)
                           /\ \A p \in Channels : State(i, p) = "none" /\ Ring(i, p) = 0
                           /\ main[i].fd = 0
  BY DEF Init, Pc, Alive, State, Ring, NoRings
<1>2. TypeInv
  BY DEF Init, TypeInv, Parent, Receiver, NoName, NoRings, Pcs, Starting, Stages
<1>3. \A p \in Channels : names[p] = 0 /\ made[p] = {} /\ devices[p] = 0
  BY DEF Init, NoName
<1>4. 0 \notin Instances
  BY BoundsOfSupervisor
<1>0. \A i \in Instances, p \in Channels : Held(i, p) = {}
  BY <1>1, <1>4 DEF Held
<1>5. Alone /\ Forked /\ Finished
  BY <1>1 DEF Alone, Forked, Finished, Ending, Starting, Running, Channels
<1>6. Hardware /\ Named /\ Kept /\ Opened /\ Safe
  BY <1>0, <1>1, <1>3, <1>4 DEF Hardware, Named, Kept, Opened, Safe, Ending, Running
<1> QED
  BY <1>2, <1>5, <1>6 DEF IInv

LEMMA Inductive == Spec => []IInv
<1>1. IInv /\ [Next]_vars => IInv'
  <2> SUFFICES ASSUME IInv, [Next]_vars PROVE IInv'
    OBVIOUS
  <2>1. ASSUME NEW i \in Instances, Moved(i) PROVE IInv'
    <3>1. TypeInv'
      BY <2>1 DEF Moved
    <3>2. Alone' /\ Forked' /\ Finished' /\ Hardware'
      BY <2>1, AloneStep, ForkedStep, FinishedStep, HardwareStep DEF IInv
    <3>3. Named' /\ Kept' /\ Opened' /\ Safe'
      BY <2>1, NamedStep, KeptStep, OpenedStep, SafeStep DEF IInv
    <3> QED
      BY <3>1, <3>2, <3>3 DEF IInv
  <2>2. CASE Next
    BY <2>1, <2>2, StepMoves DEF IInv
  <2>3. CASE UNCHANGED vars
    BY <2>3 DEF vars, IInv, TypeInv, Alone, Forked, Finished, Hardware, Named, Kept, Opened,
                Safe, Robbed, Pc, Code, Ring, Held, Wanted, State, Alive
  <2> QED
    BY <2>2, <2>3
<1> QED
  BY InitIInv, <1>1, PTL DEF Spec

\* However many instances are started, killed or interrupted: one that has come
\* through gives back the lock with no receiver, no name and no hardware left,
\* and has safe outputs if it reports success.
THEOREM EndsCleanly == Spec => []EndsClean
<1>1. ASSUME IInv PROVE EndsClean
  <2> SUFFICES ASSUME NEW i \in Instances, Pc(i) = "release"
               PROVE  /\ lock = i /\ Left(i) = {}
                      /\ \A p \in Channels : names[p] # i /\ devices[p] # i
                      /\ Code(i) = 0 => gpio = {}
    BY DEF EndsClean, Pc, Code
  <2>1. \A p \in Channels : State(i, p) \in {"none", "reaped"}
    BY <1>1 DEF IInv, Finished, Ending
  <2>2. Left(i) = {}
    BY <2>1 DEF Left, State
  <2>3. lock = i
    BY <1>1 DEF IInv, Alone, Alive, Pc
  <2>4. \A p \in Channels : names[p] # i /\ devices[p] # i
    BY <1>1, <2>1 DEF IInv, Named, Hardware
  <2>5. Code(i) = 0 => gpio = {}
    BY <1>1 DEF IInv, Safe, Ending
  <2> QED
    BY <2>2, <2>3, <2>4, <2>5
<1> QED
  BY <1>1, Inductive, PTL

\* Whatever else is started and killed, the name of a receiver stays with its
\* parent as long as that runs, but for a constructor that fails in a receiver of
\* a killed parent; and what a parent has taken is whole and its own receiver's,
\* or its own receiver has not got past the name, or one of the two lost its
\* name to such a constructor.
THEOREM MemoryOwned == Spec => []MemoryIsOwn
<1>1. ASSUME IInv PROVE NamesAreKept
  BY <1>1 DEF IInv, Kept, Robbed, NamesAreKept, Pc, State, Running
<1>2. ASSUME IInv PROVE RingsAreOwn
  <2> SUFFICES ASSUME NEW i \in Instances, NEW p \in Channels, Pc(i) \in Running, Ring(i, p) # 0
               PROVE  /\ State(Ring(i, p), p) \notin {"none", "forked", "create", "fill"}
                      /\ Ring(i, p) # i =>
                           \/ State(i, p) \in {"forked", "create", "zombie", "reaped"}
                           \/ {<<i, p>>, <<Ring(i, p), p>>} \cap robbed # {}
    BY DEF RingsAreOwn, Pc, Ring, State, Running
  <2>1. Ring(i, p) \in Instances /\ Ring(i, p) \in made[p]
    <3>1. main[i] \in Parent
      BY <1>2 DEF IInv, TypeInv
    <3>2. Ring(i, p) \in Instances \cup {0}
      BY <3>1 DEF Parent, Ring
    <3> QED
      BY <1>2, <3>2 DEF IInv, Opened
  <2>2. State(Ring(i, p), p) \in Made
    BY <1>2, <2>1 DEF IInv, Named
  <2>3. names[p] = Ring(i, p) \/ <<Ring(i, p), p>> \in robbed
    <3>1. Ring(i, p) \in Held(i, p)
      BY <2>1 DEF Held
    <3> QED
      BY <1>2, <3>1 DEF IInv, Opened
  <2>4. State(i, p) \in {"fill", "init", "ready"} => names[p] = i \/ <<i, p>> \in robbed
    BY <1>2 DEF IInv, Kept, Robbed
  <2>5. State(i, p) # "none" /\ State(i, p) \in Stages
    <3>1. child[i][p] \in Receiver
      BY <1>2 DEF IInv, TypeInv
    <3> QED
      BY <1>2, <3>1 DEF IInv, Forked, Receiver, State
  <2> QED
    BY <2>2, <2>3, <2>4, <2>5 DEF Made, Stages
<1>3. IInv => MemoryIsOwn
  BY <1>1, <1>2 DEF MemoryIsOwn
<1> QED
  BY <1>3, Inductive, PTL

=============================================================================
