------------------------- MODULE MaintenanceProofs -------------------------
(***************************************************************************)
(* The parts of Maintenance, for every bound and configuration.            *)
(*                                                                         *)
(* The quota: IInv says at each step of a start how ledger and marker      *)
(* match each other and what was written.  The probes: ProbeInv is about   *)
(* who may still touch a row, of which the start that made it, the copy of *)
(* a killed one and the sync worker never have the same.  The clock:       *)
(* ClockInv is about what it is off by when a pass is accepted, nothing.   *)
(* The workers: WorkerInv is about who is left once a program has ended,   *)
(* and who may pass the lock.                                              *)
(*                                                                         *)
(* And of the directory of results that the viewers share (DisplayCache):  *)
(* CacheIInv says that a viewer has in hand what its step left there,      *)
(* whole and of its key, and that what a pass has not listed was put in    *)
(* place since it listed, so a pass that gets to its end leaves no more    *)
(* than BUDGET and these.                                                  *)
(*                                                                         *)
(* And of the catalog of the files that a viewer reads (CatalogScan):      *)
(* ScanIInv says that what was found is each record of the files that were *)
(* read, once, and that a catalog is the axis of these.                    *)
(***************************************************************************)
EXTENDS Maintenance, DisplayCache, CatalogScan, FiniteSetTheorems, SequenceTheorems,
        WellFoundedInduction, TLAPS

-----------------------------------------------------------------------------
(* The quota.                                                              *)

TypeOK ==
  /\ ledger \in [schema : {"none", "empty", "v1"}, uuid : Nat, charged : Nat]
  /\ marker \in [state : {"none", "empty", "written"}, uuid : Nat]
  /\ pc \in {"off", "open", "schema", "identify", "match", "mark", "running", "refused"}
  /\ files \in Nat /\ written \in Nat /\ kills \in Nat /\ losses \in Nat /\ next \in Nat \ {0}

\* A uuid that is drawn next is in no ledger and in no marker.
Fresh == ledger.uuid < next /\ marker.uuid < next

\* Nothing is written, and nothing charged, before the marker is.
Unmarked == marker.state # "written" => written = 0 /\ ledger.charged = 0

\* A ledger that the marker names is the one that was charged.
Charged ==
  marker.state = "written" => /\ marker.uuid # 0
                              /\ ledger.uuid = marker.uuid => ledger.charged = written

\* What a start knows at each of its steps.
Started ==
  /\ pc \in {"open", "schema", "identify", "match"} => marker.state # "empty"
  /\ pc \in {"match", "mark"} => ledger.uuid # 0
  /\ pc = "mark" => marker.state = "empty"
  /\ pc = "running" => marker.state = "written" /\ ledger.uuid = marker.uuid

IInv == TypeOK /\ Fresh /\ Unmarked /\ Charged /\ Started

\* The invariant holds before the first start.
LEMMA InitInv == Init => IInv
  BY DEF Init, NoLedger, NoMarker, IInv, TypeOK, Fresh, Unmarked, Charged, Started

\* A start passes only a marker that is not torn.
LEMMA StartInv == IInv /\ Start => IInv'
  BY DEF Start, Admits, IInv, TypeOK, Fresh, Unmarked, Charged, Started

\* The steps that make or find the ledger charge nothing.
LEMMA LedgerInv == IInv /\ (Open \/ Schema) => IInv'
  BY DEF Open, Schema, IInv, TypeOK, Fresh, Unmarked, Charged, Started

\* A new uuid is named by no marker.
LEMMA IdentifyInv == IInv /\ Identify => IInv'
<1> SUFFICES ASSUME IInv, Identify PROVE IInv'
  OBVIOUS
<1> USE DEF IInv, TypeOK, Fresh, Unmarked, Charged, Started, Identify
<1>1. CASE ledger.uuid = 0
  BY <1>1
<1>2. CASE ledger.uuid # 0
  BY <1>2
<1> QED
  BY <1>1, <1>2

\* A start goes on with the ledger that is named, or with none charged.
LEMMA MarkInv == IInv /\ (Match \/ Mark) => IInv'
<1> SUFFICES ASSUME IInv, Match \/ Mark PROVE IInv'
  OBVIOUS
<1> USE DEF IInv, TypeOK, Fresh, Unmarked, Charged, Started
<1>1. CASE Match
  BY <1>1 DEF Match
<1>2. CASE Mark
  BY <1>2 DEF Mark
<1> QED
  BY <1>1, <1>2

\* What is written is charged; what is deleted is not refunded.
LEMMA RunInv == IInv /\ (WriteFile \/ DeleteFile \/ Stop) => IInv'
<1> SUFFICES ASSUME IInv, WriteFile \/ DeleteFile \/ Stop PROVE IInv'
  OBVIOUS
<1> USE DEF IInv, TypeOK, Fresh, Unmarked, Charged, Started
<1>1. CASE WriteFile
  BY <1>1 DEF WriteFile
<1>2. CASE DeleteFile
  BY <1>2 DEF DeleteFile
<1>3. CASE Stop
  BY <1>3 DEF Stop
<1> QED
  BY <1>1, <1>2, <1>3

\* A start that is killed leaves nothing charged, and a ledger that is lost
\* leaves none the marker names.
LEMMA FailureInv == IInv /\ (Kill \/ Lose) => IInv'
<1> SUFFICES ASSUME IInv, Kill \/ Lose PROVE IInv'
  OBVIOUS
<1> USE DEF IInv, TypeOK, Fresh, Unmarked, Charged, Started
<1>1. CASE Kill
  BY <1>1 DEF Kill
<1>2. CASE Lose
  BY <1>2 DEF Lose, NoLedger
<1> QED
  BY <1>1, <1>2

\* The invariant holds in every state of every behaviour.
THEOREM Invariance == Spec => []IInv
<1>1. IInv /\ [Next]_vars => IInv'
  <2> SUFFICES ASSUME IInv, [Next]_vars PROVE IInv'
    OBVIOUS
  <2>1. CASE Next
    BY <2>1, StartInv, LedgerInv, IdentifyInv, MarkInv, RunInv, FailureInv DEF Next
  <2>2. CASE UNCHANGED vars
    BY <2>2 DEF vars, IInv, TypeOK, Fresh, Unmarked, Charged, Started
  <2> QED
    BY <2>1, <2>2
<1> QED
  BY InitInv, <1>1, PTL DEF Spec

\* The quota never resets: whatever got lost and wherever starts were killed,
\* a run goes on only with the ledger that was charged for all that was
\* written.  (Ledger.match_marker, storage_maintenance.py run("startup"))
THEOREM QuotaIsKept == Spec => []QuotaKept
<1>1. IInv => QuotaKept
  BY DEF IInv, Charged, Started, QuotaKept
<1> QED
  BY Invariance, <1>1, PTL

-----------------------------------------------------------------------------
(* The probes.                                                             *)

\* A start between its first step and its last.
Active == startPc \notin {"off", "running"}

\* What the sync worker may be about to remove or to forget.
Stale == old \cup todo \cup (IF step = Probe!Idle THEN {} ELSE {step.of})

ProbeTypes ==
  /\ rows \cup astray \subseteq used /\ orphans \subseteq rows \cup astray /\ used \subseteq Ids
  /\ remote \in [Ids -> Probe!Contents \cup {Probe!None}]
  /\ Stale \subseteq used
  /\ step \in [at : {"idle", "local", "forget"}, of : Ids \cup {Probe!None}]
  /\ step # Probe!Idle => step.of \in Ids
  /\ Active => id \in used

\* A start has its row from before the first copy until it has seen the probe
\* removed; if a failing status file leads back from there it is astray.
RowHeld ==
  /\ startPc \in {"write", "copy", "verify", "remove", "forget"} => id \in rows \cup astray
  /\ startPc = "status" /\ id \notin rows \cup astray => remote[id] = Probe!None
  /\ startPc = "forget" => remote[id] = Probe!None

\* Start, orphans and sync worker have nothing in common, and what the worker
\* has removed stays away.
Apart ==
  /\ Active => id \notin orphans \cup Stale
  /\ Stale \cap orphans = {}
  /\ step.at \in {"local", "forget"} => step # Probe!Idle /\ remote[step.of] = Probe!None

ProbeInv == ProbeTypes /\ RowHeld /\ Apart /\ RemoteIsRecorded

LEMMA ProbeInit == Probe!Init => ProbeInv
  BY DEF Probe!Init, ProbeInv, ProbeTypes, RowHeld, Apart,
         RemoteIsRecorded, Probe!RemoteIsRecorded, Active, Stale, Probe!Idle

LEMMA ProbeStart ==
  ASSUME ProbeInv,
         Probe!Start \/ Probe!Record \/ Probe!Write \/ Probe!Stop \/ Probe!Kill
  PROVE  ProbeInv'
<1> USE DEF ProbeInv, ProbeTypes, RowHeld, Apart, RemoteIsRecorded,
            Probe!RemoteIsRecorded, Active, Stale, Probe!Idle
<1>1. CASE Probe!Start
  <2>1. PICK i \in Ids \ used : id' = i /\ used' = used \cup {i}
    BY <1>1 DEF Probe!Start
  <2>2. /\ startPc' = "record"
        /\ <<local', todo', step'>> = <<local', todo, step>>
        /\ UNCHANGED <<rows, old, remote, orphans, astray>>
    BY <1>1 DEF Probe!Start, Probe!sync
  <2>3. ProbeTypes'
    BY <2>1, <2>2
  <2>4. RowHeld'
    BY <2>1, <2>2
  <2>5. (Probe!RemoteIsRecorded)'
    BY <2>1, <2>2
  <2>6. Apart'
    <3>1. Stale' = Stale /\ Stale \subseteq used /\ orphans \subseteq used
      BY <2>1, <2>2
    <3>2. i \notin orphans \cup Stale
      BY <2>1, <3>1
    <3> QED
      BY <2>1, <2>2, <3>1, <3>2
  <2> QED
    BY <2>3, <2>4, <2>5, <2>6
<1>2. CASE Probe!Record
  BY <1>2 DEF Probe!Record, Probe!sync
<1>3. CASE Probe!Write
  BY <1>3 DEF Probe!Write, Probe!sync
<1>4. CASE Probe!Stop
  BY <1>4 DEF Probe!Stop, Probe!sync
<1>5. CASE Probe!Kill
  BY <1>5 DEF Probe!Kill, Probe!sync
<1> QED
  BY <1>1, <1>2, <1>3, <1>4, <1>5

LEMMA ProbeAttempt ==
  ASSUME ProbeInv,
         Probe!Copy \/ Probe!Verify \/ Probe!Remove \/ Probe!Forget \/ Probe!Status
  PROVE  ProbeInv'
<1> USE DEF ProbeInv, ProbeTypes, RowHeld, Apart, RemoteIsRecorded,
            Probe!RemoteIsRecorded, Active, Stale, Probe!Idle,
            Probe!Failed, Probe!Succeeded, Probe!Contents
<1>1. CASE Probe!Copy
  BY <1>1 DEF Probe!Copy, Probe!sync
<1>2. CASE Probe!Verify
  BY <1>2 DEF Probe!Verify, Probe!sync
<1>3. CASE Probe!Remove
  BY <1>3 DEF Probe!Remove, Probe!sync
<1>4. CASE Probe!Forget
  BY <1>4 DEF Probe!Forget, Probe!sync
<1>5. CASE Probe!Status
  BY <1>5 DEF Probe!Status, Probe!sync
<1> QED
  BY <1>1, <1>2, <1>3, <1>4, <1>5

LEMMA ProbeSync ==
  ASSUME ProbeInv,
         \/ Probe!Late \/ Probe!Age \/ Probe!SyncList \/ \E i \in Ids : Probe!SyncRemove(i)
         \/ Probe!SyncLocal \/ Probe!SyncForget \/ Probe!KillSync
  PROVE  ProbeInv'
<1> USE DEF ProbeInv, ProbeTypes, RowHeld, Apart, RemoteIsRecorded,
            Probe!RemoteIsRecorded, Active, Stale, Probe!Idle, Probe!Contents
<1>1. CASE Probe!Late
  BY <1>1 DEF Probe!Late, Probe!start, Probe!sync
<1>2. CASE Probe!Age
  BY <1>2 DEF Probe!Age, Probe!start, Probe!sync
<1>3. CASE Probe!SyncList
  BY <1>3 DEF Probe!SyncList, Probe!start
<1>4. ASSUME NEW i \in Ids, Probe!SyncRemove(i) PROVE ProbeInv'
  BY <1>4 DEF Probe!SyncRemove, Probe!start
<1>5. CASE Probe!SyncLocal
  BY <1>5 DEF Probe!SyncLocal, Probe!start
<1>6. CASE Probe!SyncForget
  BY <1>6 DEF Probe!SyncForget, Probe!start
<1>7. CASE Probe!KillSync
  BY <1>7 DEF Probe!KillSync, Probe!start
<1> QED
  BY <1>1, <1>2, <1>3, <1>4, <1>5, <1>6, <1>7

\* Wherever a start or a pass of the sync worker fails or is killed, what is on
\* the remote, or may still get there, is in the ledger, for any number of
\* starts, attempts and kills; all but a probe that was copied again after a
\* status file that could not be written, when its row was gone.
\* (storage_maintenance.py probe() and stale_probes())
THEOREM ProbesRecorded == Probe!Spec => []RemoteIsRecorded
<1>1. ProbeInv /\ [Probe!Next]_Probe!vars => ProbeInv'
  <2> SUFFICES ASSUME ProbeInv, [Probe!Next]_Probe!vars PROVE ProbeInv'
    OBVIOUS
  <2>1. CASE Probe!Next
    BY <2>1, ProbeStart, ProbeAttempt, ProbeSync DEF Probe!Next, Probe!StartNext
  <2>2. CASE UNCHANGED Probe!vars
    BY <2>2 DEF Probe!vars, Probe!start, Probe!sync, ProbeInv, ProbeTypes, RowHeld,
                Apart, RemoteIsRecorded, Probe!RemoteIsRecorded, Active, Stale
  <2> QED
    BY <2>1, <2>2
<1>2. ProbeInv => RemoteIsRecorded
  BY DEF ProbeInv
<1> QED
  BY ProbeInit, <1>1, <1>2, PTL DEF Probe!Spec

-----------------------------------------------------------------------------
(* The clock.                                                              *)

ClockTypes ==
  /\ time \in Int /\ mono \in Int /\ boot \in Int /\ skew \in Int
  /\ unseen \in 0 .. Retention /\ (ntp => skew = 0)

\* A pass under way took the time of the present boot.
PassTrue ==
  pass # Clock!NoPass =>
    /\ {pass.utc, pass.mono, pass.off} \subseteq Int /\ pass.mono <= mono /\ pass.boot = boot
    /\ pass.utc = pass.mono + (time - mono) + pass.off

Marks == [utc : Int, mono : Int, boot : Int, pending : BOOLEAN, off : Int]

MarkTrue ==
  mark # Clock!NoMark =>
    /\ mark \in Marks /\ mark.boot <= boot
    /\ mark.boot = boot => mark.utc - mark.mono = (time - mono) + mark.off

\* There are no recordings before the first pass.
PassedFirst == run # "off" \/ records # {} => mark # Clock!NoMark

StampsTyped ==
  /\ anchor \in Int
  /\ \A a \in records : {a.at, a.stamp} \subseteq Int /\ a.at <= time

\* The clock n, by which something was stamped, is no further from the truth
\* and from the clock of the mark than the checks overlooked.
Near(n) ==
  unseen < Retention =>
    Clock!Distance(n, 0) <= unseen /\ Clock!Distance(mark.off, n) <= unseen

AllNear ==
  mark # Clock!NoMark =>
    /\ Near(mark.off)
    /\ run = "on" => Near(anchor)
    /\ \A a \in records : Near(a.stamp - a.at)

ClockInv ==
  /\ ClockTypes /\ PassTrue /\ MarkTrue /\ PassedFirst /\ StampsTyped /\ AllNear
  /\ Clock!YoungAreKept

LEMMA DistanceIs ==
  \A a, b, c \in Int :
    /\ Clock!Distance(a, b) \in Nat /\ Clock!Distance(a, b) = Clock!Distance(b, a)
    /\ Clock!Distance(a, c) <= Clock!Distance(a, b) + Clock!Distance(b, c)
    /\ a - b <= Clock!Distance(a, b) /\ Clock!Distance(a, a) = 0
  BY DEF Clock!Distance

LEMMA ClockInit ==
  ASSUME Clock!ClockAssumption
  PROVE  Clock!Init => ClockInv
  BY DEF Clock!Init, Clock!ClockAssumption, ClockInv, ClockTypes, PassTrue, MarkTrue, PassedFirst,
         StampsTyped, AllNear, Clock!YoungAreKept, Clock!NoMark, Clock!NoPass

LEMMA ClockWorld ==
  ASSUME Clock!ClockAssumption, ClockInv,
         \/ Clock!Tick \/ Clock!SetClock \/ Clock!GainNtp \/ Clock!LoseNtp
         \/ Clock!Boot \/ Clock!Record \/ Clock!Exit
  PROVE  ClockInv'
<1> USE DEF Clock!ClockAssumption, ClockInv, ClockTypes, PassTrue, MarkTrue, PassedFirst,
            StampsTyped, AllNear, Near, Clock!YoungAreKept
<1>1. CASE Clock!Tick
  BY <1>1 DEF Clock!Tick
<1>2. CASE Clock!SetClock
  BY <1>2 DEF Clock!SetClock
<1>3. CASE Clock!GainNtp
  BY <1>3 DEF Clock!GainNtp
<1>4. CASE Clock!LoseNtp
  BY <1>4 DEF Clock!LoseNtp
<1>5. CASE Clock!Boot
  <2>1. MarkTrue'
    BY <1>5 DEF Clock!Boot, Marks
  <2>2. ClockTypes' /\ PassTrue' /\ PassedFirst'
    BY <1>5 DEF Clock!Boot
  <2> QED
    BY <1>5, <2>1, <2>2 DEF Clock!Boot
<1>6. CASE Clock!Record
  <2>1. (time + anchor) - time = anchor /\ mark # Clock!NoMark
    BY <1>6 DEF Clock!Record
  <2>2. \A a \in records' : a \in records \/ (a.at = time /\ a.stamp = time + anchor)
    BY <1>6 DEF Clock!Record
  <2>3. AllNear' /\ StampsTyped'
    BY <1>6, <2>1, <2>2 DEF Clock!Record, Clock!world
  <2> QED
    BY <1>6, <2>1, <2>3 DEF Clock!Record, Clock!world
<1>7. CASE Clock!Exit
  BY <1>7 DEF Clock!Exit, Clock!world
<1> QED
  BY <1>1, <1>2, <1>3, <1>4, <1>5, <1>6, <1>7

LEMMA ClockBegin ==
  ASSUME Clock!ClockAssumption, ClockInv, NEW r, Clock!Begin(r)
  PROVE  ClockInv'
<1>1. /\ pass'.utc = time + skew /\ pass'.mono = mono /\ pass'.boot = boot /\ pass'.off = skew
      /\ UNCHANGED <<time, skew, mono, boot, ntp, mark, run, anchor, records, unseen, lost>>
  BY DEF Clock!Begin, Clock!world
<1>2. PassTrue'
  <2>1. {time, skew, mono} \subseteq Int
    BY DEF ClockInv, ClockTypes
  <2> QED
    BY <1>1, <2>1 DEF PassTrue, ClockInv
<1> QED
  BY <1>1, <1>2 DEF ClockInv, ClockTypes, MarkTrue, PassedFirst, StampsTyped, AllNear, Near,
                    Clock!YoungAreKept

\* A clock that a pass accepts is as near to the truth, and to every clock that
\* something was stamped by, as the history says.
LEMMA AcceptedNear ==
  ASSUME Clock!ClockAssumption, ClockInv, pass # Clock!NoPass, Clock!Safe,
         Clock!Seen(Clock!Overlooked) < Retention
  PROVE  /\ Clock!Distance(pass.off, 0) <= Clock!Seen(Clock!Overlooked)
         /\ \A n \in Int : mark # Clock!NoMark /\ Near(n) =>
              /\ Clock!Distance(pass.off, n) <= Clock!Seen(Clock!Overlooked)
              /\ Clock!Distance(n, 0) <= Clock!Seen(Clock!Overlooked)
<1> DEFINE more == Clock!Overlooked
<1>1. /\ pass.off \in Int /\ skew \in Int /\ unseen \in Nat /\ 0 \in Int
      /\ Retention \in Nat /\ Threshold \in Nat
  BY DEF ClockInv, ClockTypes, PassTrue, Clock!ClockAssumption
<1>2. mark # Clock!NoMark => mark.off \in Int
  BY DEF ClockInv, MarkTrue, Marks
<1>3. more \in Nat
  BY <1>1, <1>2 DEF Clock!Overlooked, Clock!Distance
<1>4. Clock!Seen(more) = unseen + more /\ unseen < Retention
  BY <1>1, <1>3 DEF Clock!Seen
<1>5. CASE mark # Clock!NoMark /\ ~Clock!Jump
  <2>1. /\ mark.boot = pass.boot
        /\ ~(Clock!Distance(pass.utc - mark.utc, pass.mono - mark.mono) > Threshold)
    BY <1>5 DEF Clock!Jump
  <2>2. /\ {pass.utc, pass.mono, mark.utc, mark.mono} \subseteq Int
        /\ pass.utc - mark.utc = (pass.mono - mark.mono) + (pass.off - mark.off)
    <3>1. {time, mono} \subseteq Int
      BY DEF ClockInv, ClockTypes
    <3>2. {mark.utc, mark.mono} \subseteq Int /\ mark.utc - mark.mono = (time - mono) + mark.off
      BY <1>5, <2>1 DEF ClockInv, PassTrue, MarkTrue, Marks
    <3>3. /\ {pass.utc, pass.mono} \subseteq Int
          /\ pass.utc = pass.mono + (time - mono) + pass.off
      BY DEF ClockInv, PassTrue
    <3> QED
      BY <1>1, <1>2, <1>5, <3>1, <3>2, <3>3
  <2>3. Clock!Distance(pass.utc - mark.utc, pass.mono - mark.mono)
          = Clock!Distance(pass.off, mark.off)
    BY <1>1, <1>2, <1>5, <2>2 DEF Clock!Distance
  <2>4. more = Clock!Distance(pass.off, mark.off)
    <3>1. Clock!Distance(pass.off, mark.off) <= Threshold
      BY <1>1, <1>2, <1>5, <2>1, <2>3 DEF Clock!Distance
    <3> QED
      BY <1>5, <3>1 DEF Clock!Overlooked
  <2>5. Near(mark.off)
    BY <1>5 DEF ClockInv, AllNear
  <2>6. Clock!Distance(mark.off, 0) <= unseen
    BY <1>4, <2>5 DEF Near
  <2>7. Clock!Distance(pass.off, 0) <= Clock!Distance(pass.off, mark.off) + Clock!Distance(mark.off, 0)
    BY <1>1, <1>2, <1>5, DistanceIs, ZenonT(60)
  <2>8. ASSUME NEW n \in Int, Near(n)
        PROVE  Clock!Distance(pass.off, n) <= unseen + more /\ Clock!Distance(n, 0) <= unseen + more
    <3>1. Clock!Distance(n, 0) <= unseen /\ Clock!Distance(mark.off, n) <= unseen
      BY <1>4, <2>8 DEF Near
    <3>2. Clock!Distance(pass.off, n) <= Clock!Distance(pass.off, mark.off) + Clock!Distance(mark.off, n)
      BY <1>1, <1>2, <1>5, <2>8, DistanceIs, ZenonT(60)
    <3>3. {Clock!Distance(pass.off, n), Clock!Distance(n, 0), Clock!Distance(mark.off, n)} \subseteq Nat
      BY <1>1, <1>2, <1>5, <2>8, DistanceIs
    <3> QED
      BY <1>1, <1>3, <2>4, <3>1, <3>2, <3>3
  <2>9. {Clock!Distance(pass.off, 0), Clock!Distance(mark.off, 0)} \subseteq Nat
    BY <1>1, <1>2, <1>5, DistanceIs
  <2> QED
    BY <1>1, <1>3, <1>4, <2>4, <2>6, <2>7, <2>8, <2>9
<1>6. CASE ~(mark # Clock!NoMark /\ ~Clock!Jump)
  <2>1. more = Clock!Distance(pass.off, 0)
    <3>1. CASE mark = Clock!NoMark /\ ~RequireNtp
      BY <3>1 DEF Clock!Overlooked
    <3>2. CASE ~(mark = Clock!NoMark /\ ~RequireNtp)
      <4>1. ntp
        BY <1>6, <3>2 DEF Clock!Safe, Clock!Jump
      <4>2. skew = 0
        BY <4>1 DEF ClockInv, ClockTypes
      <4> QED
        BY <1>6, <3>2, <4>2 DEF Clock!Overlooked
    <3> QED
      BY <3>1, <3>2
  <2>2. ASSUME NEW n \in Int, Near(n)
        PROVE  Clock!Distance(pass.off, n) <= unseen + more /\ Clock!Distance(n, 0) <= unseen + more
    <3>1. Clock!Distance(n, 0) <= unseen
      BY <1>4, <2>2 DEF Near
    <3>2. /\ Clock!Distance(pass.off, n) <= Clock!Distance(pass.off, 0) + Clock!Distance(0, n)
          /\ Clock!Distance(0, n) = Clock!Distance(n, 0)
      BY <1>1, <2>2, DistanceIs
    <3>3. {Clock!Distance(pass.off, n), Clock!Distance(n, 0), Clock!Distance(pass.off, 0)} \subseteq Nat
      BY <1>1, <2>2, DistanceIs
    <3> QED
      BY <1>1, <1>3, <2>1, <3>1, <3>2, <3>3
  <2> QED
    BY <1>1, <1>3, <1>4, <2>1, <2>2
<1> QED
  BY <1>5, <1>6

LEMMA SeenIs ==
  ASSUME Clock!ClockAssumption, ClockInv, NEW more \in Nat
  PROVE  Clock!Seen(more) \in 0 .. Retention /\ unseen <= Clock!Seen(more)
  BY DEF Clock!Seen, ClockInv, ClockTypes, Clock!ClockAssumption

LEMMA ClockAccept ==
  ASSUME Clock!ClockAssumption, ClockInv, Clock!Decide, Clock!Safe, Clock!Accept
  PROVE  ClockInv'
<1>1. /\ {pass.off, pass.utc, pass.mono, time, mono, skew, boot} \subseteq Int /\ unseen \in Nat
      /\ Retention \in Nat /\ pass # Clock!NoPass /\ pass.mono <= mono /\ pass.boot = boot
      /\ pass.utc = pass.mono + (time - mono) + pass.off
  BY DEF ClockInv, ClockTypes, PassTrue, Clock!Decide, Clock!ClockAssumption
<1>2. Clock!Overlooked \in Nat
  <2>1. mark # Clock!NoMark => mark.off \in Int
    BY DEF ClockInv, MarkTrue, Marks
  <2> QED
    BY <1>1, <2>1 DEF Clock!Overlooked, Clock!Distance, Clock!ClockAssumption
<1>3. unseen' = Clock!Seen(Clock!Overlooked) /\ unseen' \in 0 .. Retention /\ unseen <= unseen'
  BY <1>2, SeenIs DEF Clock!Accept
<1>4. /\ mark' = [utc |-> pass.utc, mono |-> pass.mono, boot |-> pass.boot, pending |-> FALSE,
                  off |-> pass.off]
      /\ records' \subseteq records
      /\ UNCHANGED <<time, skew, mono, boot, ntp, anchor>> /\ pass' = Clock!NoPass
      /\ run' = run \/ run' = "starting"
  BY DEF Clock!Accept, Clock!Decide, Clock!world
<1>5. mark' \in Marks /\ mark'.off = pass.off /\ mark' # Clock!NoMark
  BY <1>1, <1>4 DEF Marks, Clock!NoMark
<1>6. \A n \in Int : mark # Clock!NoMark /\ Near(n) => Near(n)'
  BY <1>3, <1>4, <1>5, AcceptedNear DEF Near, Clock!Decide
<1>7. Near(mark.off)'
  <2>1. Clock!Distance(pass.off, pass.off) = 0
    BY <1>1 DEF Clock!Distance
  <2>2. unseen' < Retention => Clock!Distance(pass.off, 0) <= unseen'
    BY <1>1, <1>3, AcceptedNear
  <2> QED
    BY <1>1, <1>3, <1>5, <2>1, <2>2 DEF Near
<1>8. AllNear'
  <2>1. (run = "on" => anchor \in Int /\ mark # Clock!NoMark /\ Near(anchor)) /\ anchor' = anchor
    BY <1>4 DEF ClockInv, AllNear, PassedFirst, StampsTyped
  <2>2. run' = "on" => Near(anchor)'
    BY <1>4, <1>6, <2>1 DEF Near
  <2>3. ASSUME NEW a \in records' PROVE Near(a.stamp - a.at)'
    <3>1. a.stamp - a.at \in Int /\ mark # Clock!NoMark /\ Near(a.stamp - a.at)
      BY <1>4 DEF ClockInv, AllNear, PassedFirst, StampsTyped
    <3> QED
      BY <1>6, <3>1
  <2> QED
    BY <1>7, <2>2, <2>3 DEF AllNear
<1>9. ASSUME NEW a \in records, Clock!Expired(a)
      PROVE  time - a.at >= Retention - unseen'
  <2>1. {a.at, a.stamp} \subseteq Int /\ a.at <= time /\ pass.utc - a.stamp >= Retention
    BY <1>9 DEF ClockInv, StampsTyped, Clock!Expired
  <2>2. CASE unseen' < Retention
    <3>1. mark # Clock!NoMark /\ Near(a.stamp - a.at) /\ a.stamp - a.at \in Int
      BY <2>1 DEF ClockInv, AllNear, PassedFirst
    <3>2. Clock!Distance(pass.off, a.stamp - a.at) <= unseen'
      BY <1>1, <1>3, <2>2, <3>1, AcceptedNear
    <3>3. pass.off - (a.stamp - a.at) <= Clock!Distance(pass.off, a.stamp - a.at)
      BY <1>1, <3>1, DistanceIs
    <3>4. Clock!Distance(pass.off, a.stamp - a.at) \in Nat
      BY <1>1, <3>1, DistanceIs
    <3>5. pass.off - (a.stamp - a.at) <= unseen'
      BY <1>1, <1>3, <2>1, <3>2, <3>3, <3>4
    <3> QED
      BY <1>1, <1>3, <2>1, <3>5
  <2>3. CASE ~(unseen' < Retention)
    BY <1>1, <1>3, <2>1, <2>3
  <2> QED
    BY <2>2, <2>3
<1>10. Clock!YoungAreKept'
  <2>1. lost' = lost \cup {[at |-> a.at, deleted |-> time, unseen |-> unseen'] :
                            a \in {b \in records : Clock!Expired(b)}}
    BY DEF Clock!Accept
  <2>2. \A a \in lost : a.deleted - a.at >= Retention - a.unseen
    BY DEF ClockInv, Clock!YoungAreKept
  <2> QED
    BY <1>9, <2>1, <2>2 DEF Clock!YoungAreKept
<1>11. ClockTypes' /\ PassTrue' /\ MarkTrue' /\ PassedFirst' /\ StampsTyped'
  <2>1. MarkTrue'
    BY <1>1, <1>4, <1>5 DEF MarkTrue
  <2>2. ClockTypes' /\ StampsTyped'
    BY <1>3, <1>4 DEF ClockInv, ClockTypes, StampsTyped
  <2> QED
    BY <1>4, <1>5, <2>1, <2>2 DEF PassTrue, PassedFirst
<1> QED
  BY <1>8, <1>10, <1>11 DEF ClockInv

LEMMA ClockRefuse ==
  ASSUME Clock!ClockAssumption, ClockInv, Clock!Decide, ~Clock!Safe, Clock!Refuse
  PROVE  ClockInv'
<1> USE DEF Clock!ClockAssumption, ClockInv, ClockTypes, PassTrue, MarkTrue, PassedFirst,
            StampsTyped, AllNear, Near, Clock!YoungAreKept
<1>1. CASE mark # Clock!NoMark /\ mark' = [mark EXCEPT !.pending = TRUE]
  <2>1. /\ mark' \in Marks /\ mark'.boot = mark.boot /\ mark'.off = mark.off
        /\ mark'.utc = mark.utc /\ mark'.mono = mark.mono
    BY <1>1 DEF Marks
  <2>2. mark' # Clock!NoMark
    BY <2>1 DEF Marks, Clock!NoMark
  <2> QED
    BY <1>1, <2>1, <2>2 DEF Clock!Refuse, Clock!Decide, Clock!world
<1>2. CASE mark' = mark
  BY <1>2 DEF Clock!Refuse, Clock!Decide, Clock!world
<1> QED
  BY <1>1, <1>2 DEF Clock!Refuse, Clock!Safe, Clock!Jump

LEMMA ClockRun ==
  ASSUME Clock!ClockAssumption, ClockInv, Clock!Run
  PROVE  ClockInv'
<1>1. /\ mark # Clock!NoMark /\ mark.off \in Int /\ skew \in Int /\ unseen \in Nat
      /\ Retention \in Nat
  BY DEF ClockInv, PassedFirst, MarkTrue, Marks, ClockTypes, Clock!Run, Clock!ClockAssumption
<1> DEFINE more == Clock!Distance(skew, mark.off)
<1>2. more \in Nat
  BY <1>1, DistanceIs
<1>3. /\ unseen' = Clock!Seen(more) /\ unseen' \in 0 .. Retention /\ unseen <= unseen'
      /\ anchor' = skew /\ run' = "on"
      /\ UNCHANGED <<time, skew, mono, boot, ntp, mark, records, pass, lost>>
  BY <1>2, SeenIs DEF Clock!Run, Clock!world
<1>4. unseen' < Retention => unseen' = unseen + more /\ unseen < Retention
  BY <1>1, <1>2, <1>3 DEF Clock!Seen
<1>5. Near(anchor)'
  <2>1. Clock!Distance(mark.off, skew) = more /\ Clock!Distance(mark.off, 0) \in Nat
        /\ Clock!Distance(skew, 0) \in Nat
        /\ Clock!Distance(skew, 0) <= more + Clock!Distance(mark.off, 0)
    BY <1>1 DEF Clock!Distance
  <2>2. unseen < Retention => Clock!Distance(mark.off, 0) <= unseen
    BY <1>1 DEF ClockInv, AllNear, Near
  <2> QED
    BY <1>1, <1>2, <1>3, <1>4, <2>1, <2>2 DEF Near
<1>6. \A n \in Int : Near(n) => Near(n)'
  <2> SUFFICES ASSUME NEW n \in Int, Near(n), unseen' < Retention
               PROVE  Clock!Distance(n, 0) <= unseen' /\ Clock!Distance(mark.off, n) <= unseen'
    BY <1>3 DEF Near
  <2>1. Clock!Distance(n, 0) <= unseen /\ Clock!Distance(mark.off, n) <= unseen
    BY <1>4 DEF Near
  <2>2. Clock!Distance(n, 0) \in Nat /\ Clock!Distance(mark.off, n) \in Nat
    BY <1>1 DEF Clock!Distance
  <2> QED
    BY <1>1, <1>2, <1>4, <2>1, <2>2
<1>7. AllNear'
  <2>1. Near(mark.off)'
    BY <1>1, <1>3, <1>6 DEF ClockInv, AllNear, Near
  <2>2. ASSUME NEW a \in records' PROVE Near(a.stamp - a.at)'
    <3>1. a.stamp - a.at \in Int /\ Near(a.stamp - a.at)
      BY <1>1, <1>3 DEF ClockInv, AllNear, StampsTyped
    <3> QED
      BY <1>6, <3>1
  <2> QED
    BY <1>5, <2>1, <2>2 DEF AllNear
<1> QED
  BY <1>1, <1>3, <1>7 DEF ClockInv, ClockTypes, PassTrue, MarkTrue, PassedFirst, StampsTyped,
                          Clock!YoungAreKept

\* By true time no recording is deleted earlier than its retention less what the
\* clock moved where no check looks, with or without NTP, over any number of
\* boots, runs and steps of the clock of any size, at any time.
\* (storage_maintenance.py clock_safe(), cleanup())
THEOREM YoungKept ==
  ASSUME Clock!ClockAssumption
  PROVE  Clock!Spec => []YoungAreKept
<1>1. ClockInv /\ [Clock!Next]_Clock!vars => ClockInv'
  <2> SUFFICES ASSUME ClockInv, [Clock!Next]_Clock!vars PROVE ClockInv'
    OBVIOUS
  <2>1. CASE Clock!Decide
    BY <2>1, ClockAccept, ClockRefuse DEF Clock!Decide
  <2>2. CASE Clock!Next /\ ~Clock!Decide
    BY <2>2, ClockWorld, ClockBegin, ClockRun DEF Clock!Next
  <2>3. CASE UNCHANGED Clock!vars
    BY <2>3 DEF Clock!vars, Clock!world, ClockInv, ClockTypes, PassTrue, MarkTrue, PassedFirst,
                StampsTyped, AllNear, Near, Clock!YoungAreKept
  <2> QED
    BY <2>1, <2>2, <2>3
<1>2. ClockInv => YoungAreKept
  BY DEF ClockInv, YoungAreKept
<1> QED
  BY ClockInit, <1>1, <1>2, PTL DEF Clock!Spec

-----------------------------------------------------------------------------
(* The workers.                                                            *)

WorkerTypes ==
  /\ DOMAIN main = Programs /\ DOMAIN worker = Programs /\ DOMAIN helper = Programs

WorkerInv == WorkerTypes /\ WorkersAreAlone

LEMMA WorkerInit == Workers!Init => WorkerInv
  BY DEF Workers!Init, WorkerInv, WorkerTypes, WorkersAreAlone, Workers!OneWorker,
         Workers!EndsAlone, Workers!Locked, Workers!Gone

LEMMA WorkerProgram ==
  ASSUME NEW p \in Programs, WorkerInv,
         \/ Workers!Start(p) \/ Workers!Check(p) \/ Workers!Stop(p) \/ Workers!Stopped(p)
         \/ Workers!Die(p)
  PROVE  WorkerInv'
<1> USE DEF WorkerInv, WorkerTypes, WorkersAreAlone, Workers!OneWorker,
            Workers!EndsAlone, Workers!Locked, Workers!Gone
<1>1. CASE Workers!Start(p)
  BY <1>1 DEF Workers!Start
<1>2. CASE Workers!Check(p)
  BY <1>2 DEF Workers!Check
<1>3. CASE Workers!Stop(p)
  BY <1>3 DEF Workers!Stop, Workers!Termed
<1>4. CASE Workers!Stopped(p)
  BY <1>4 DEF Workers!Stopped
<1>5. CASE Workers!Die(p)
  BY <1>5 DEF Workers!Die
<1> QED
  BY <1>1, <1>2, <1>3, <1>4, <1>5

LEMMA WorkerWork ==
  ASSUME NEW p \in Programs, WorkerInv, Workers!Work(p)
  PROVE  WorkerInv'
<1> USE DEF WorkerInv, WorkerTypes, WorkersAreAlone, Workers!OneWorker,
            Workers!EndsAlone, Workers!Locked, Workers!Gone, Workers!Moves
<1>1. CASE Workers!Arm(p) \/ Workers!Tie(p) \/ Workers!AskParent(p)
  BY <1>1 DEF Workers!Arm, Workers!Tie, Workers!AskParent
<1>2. CASE Workers!Lock(p)
  BY <1>2 DEF Workers!Lock
<1>3. CASE Workers!Turn(p)
  BY <1>3 DEF Workers!Turn
<1>4. CASE Workers!Launch(p) \/ Workers!Await(p) \/ Workers!Awaited(p)
  BY <1>4 DEF Workers!Launch, Workers!Await, Workers!Awaited
<1>5. CASE Workers!EndPass(p)
  BY <1>5 DEF Workers!EndPass
<1>6. CASE Workers!KillHelper(p) \/ Workers!Exit(p)
  BY <1>6 DEF Workers!KillHelper, Workers!Exit
<1> QED
  BY <1>1, <1>2, <1>3, <1>4, <1>5, <1>6 DEF Workers!Work

LEMMA WorkerFaults ==
  ASSUME NEW p \in Programs, WorkerInv,
         \/ Workers!Handle(p) \/ Workers!Crash(p) \/ Workers!Obey(p)
         \/ \E r \in Workers!Roles : Workers!Due(p, r)
  PROVE  WorkerInv'
<1> USE DEF WorkerInv, WorkerTypes, WorkersAreAlone, Workers!OneWorker,
            Workers!EndsAlone, Workers!Locked, Workers!Gone
<1>1. CASE Workers!Handle(p)
  BY <1>1 DEF Workers!Handle
<1>2. CASE Workers!Crash(p)
  BY <1>2 DEF Workers!Crash
<1>3. CASE Workers!Obey(p)
  BY <1>3 DEF Workers!Obey
<1>4. CASE \E r \in Workers!Roles : Workers!Due(p, r)
  BY <1>4 DEF Workers!Due
<1> QED
  BY <1>1, <1>2, <1>3, <1>4

\* For any number of programs, helpers that ignore SIGTERM and workers that are
\* killed: a program that ended has no worker and no helper, and no two workers
\* are past the lock.  (storage_config.cpp stop() and check(), storage_auto.py)
THEOREM WorkersAlone == Workers!Spec => []WorkersAreAlone
<1>1. WorkerInv /\ [Workers!Next]_Workers!vars => WorkerInv'
  <2> SUFFICES ASSUME WorkerInv, [Workers!Next]_Workers!vars PROVE WorkerInv'
    OBVIOUS
  <2>1. ASSUME NEW p \in Programs, Workers!Step(p) PROVE WorkerInv'
    BY <2>1, WorkerProgram, WorkerWork, WorkerFaults DEF Workers!Step
  <2>2. CASE UNCHANGED Workers!vars
    BY <2>2 DEF Workers!vars, WorkerInv, WorkerTypes, WorkersAreAlone,
                Workers!OneWorker, Workers!EndsAlone, Workers!Gone
  <2> QED
    BY <2>1, <2>2 DEF Workers!Next
<1>2. WorkerInv => WorkersAreAlone
  BY DEF WorkerInv
<1> QED
  BY WorkerInit, <1>1, <1>2, PTL DEF Workers!Spec

-----------------------------------------------------------------------------
(* The directory of results.                                               *)

Slot == [key : Keys \cup {"none"}, whole : BOOLEAN, used : Nat]
Steps == {"idle", "saving", "saved", "placed", "listed", "evicting", "cleaning",
          "opened", "checked", "loaded", "hit"}
Job == [at : Steps, key : Keys \cup {"none"}, tmp : Slot, file : Slot, list : Seq(Keys), total : Int]

\* A file is one that was saved for the key that has its name.
CacheTyped ==
  \A k \in Keys : cache[k] # NoFile => cache[k].key = k /\ cache[k].used > 0

Types ==
  /\ cache \in [Keys -> Slot] /\ job \in [Viewers -> Job]
  /\ orphaned \in [today : Nat, older : Nat]
  /\ {clock, crashes, excess} \subseteq Nat /\ since \in [Viewers -> Nat]
  /\ IsFiniteSet(Cached) /\ CacheTyped

\* What a viewer has in hand is of its key; what it puts in place is whole.
Fits(j) ==
  /\ j.at # "idle" => j.key \in Keys
  /\ j.at \in {"opened", "checked", "loaded", "hit"} => j.file.key = j.key
  /\ j.at \in {"loaded", "hit"} => j.file.whole
  /\ j.at \in {"saving", "saved"} => j.tmp.key = j.key
  /\ j.at = "saved" => j.tmp.whole /\ j.tmp.used > 0

InHand == \A p \in Viewers : Fits(job[p])

\* What a pass has not listed was put in place since it listed.
Passing(p) == job[p].at \in {"listed", "evicting"}
Unlisted(p) == Cached \ ToSet(job[p].list)
Counted(p) == job[p].at = "evicting" => job[p].total = Len(job[p].list)

Listed ==
  \A p \in Viewers : Passing(p) => Cardinality(Unlisted(p)) <= since[p] /\ Counted(p)

CacheIInv == Types /\ InHand /\ CacheIsWhole /\ Listed /\ WithinBudget /\ OrphansAreOfTheKilled

-----------------------------------------------------------------------------
LEMMA MinIs == ASSUME NEW a \in Nat, NEW b \in Nat
  PROVE Min({a, b}) \in {a, b} /\ Min({a, b}) <= a /\ Min({a, b}) <= b
<1>1. \E m \in {a, b} : \A y \in {a, b} : m <= y
  OBVIOUS
<1> QED
  BY <1>1 DEF Min

LEMMA ElementsOf == ASSUME NEW S, NEW q \in Seq(S)
  PROVE /\ IsFiniteSet(ToSet(q)) /\ Cardinality(ToSet(q)) <= Len(q)
<1>1. q \in Surjection(1 .. Len(q), ToSet(q))
  BY DEF Surjection, ToSet
<1>2. IsFiniteSet(1 .. Len(q)) /\ Cardinality(1 .. Len(q)) = Len(q)
  <2>1. Len(q) \in Nat
    OBVIOUS
  <2>2. Cardinality(1 .. Len(q)) = IF 1 > Len(q) THEN 0 ELSE Len(q) - 1 + 1
    BY <2>1, FS_Interval
  <2> QED
    BY <2>1, <2>2, FS_Interval
<1> QED
  BY <1>1, <1>2, FS_Surjection

LEMMA ListIs == ASSUME NEW S, IsFiniteSet(S), NEW l \in SetToSeqs(S)
  PROVE l \in Seq(S) /\ ToSet(l) = S
<1> DEFINE D == 1 .. Cardinality(S)
<1>1. Cardinality(S) \in Nat
  BY FS_CardinalityType
<1>2. l \in [D -> S] /\ \A i, j \in D : i # j => l[i] # l[j]
  BY DEF SetToSeqs
<1>3. IsFiniteSet(D) /\ Cardinality(D) = Cardinality(S)
  BY <1>1, FS_Interval
<1>4. l \in Injection(D, S)
  BY <1>2 DEF Injection, IsInjective
<1>5. l \in Surjection(D, S)
  BY <1>3, <1>4, FS_Injection
<1> QED
  BY <1>1, <1>2, <1>5 DEF Surjection, ToSet

-----------------------------------------------------------------------------
\* The steps.

PrivateSteps(p) == BeginWrite(p) \/ Save(p) \/ CancelWrite(p) \/ Sum(p) \/ Fails(p)
                   \/ OpenFile(p) \/ CheckSize(p) \/ Fields(p) \/ Show(p)

LEMMA FilesTyped ==
  /\ NoFile \in Slot /\ NoJob \in Job /\ ~NoFile.whole /\ NoFile.used = 0
  /\ NoJob.at = "idle" /\ NoJob.tmp = NoFile /\ NoJob.list = <<>>
BY DEF NoFile, NoJob, Slot, Job, Steps

LEMMA TypesInit == CacheAssumption /\ CacheInit => CacheIInv
<1> SUFFICES ASSUME CacheAssumption, CacheInit PROVE CacheIInv
  OBVIOUS
<1> USE FilesTyped DEF CacheInit
<1>1. Cached = {}
  BY DEF Cached
<1>2. Types
  BY <1>1, FS_EmptySet DEF Types, CacheTyped
<1>3. InHand /\ CacheIsWhole /\ Listed /\ OrphansAreOfTheKilled
  <2>1. IsFiniteSet(Viewers) /\ Cardinality(Viewers) \in Nat
    BY FS_CardinalityType DEF CacheAssumption
  <2> QED
    BY <1>1, <2>1 DEF InHand, Fits, CacheIsWhole, Listed, OrphansAreOfTheKilled, Passing, Unlisted, Counted
<1>4. WithinBudget
  BY <1>1, FS_EmptySet DEF WithinBudget, CacheAssumption
<1> QED
  BY <1>2, <1>3, <1>4 DEF CacheIInv

LEMMA OneJob ==
  ASSUME job \in [Viewers -> Job], InHand, NEW p \in Viewers, NEW k \in Job, Fits(k),
         job' = [job EXCEPT ![p] = k]
  PROVE  job' \in [Viewers -> Job] /\ InHand'
BY DEF InHand, Fits

LEMMA WrittenIs ==
  ASSUME NEW f \in Slot, NEW n \in Nat, n > 0
  PROVE  LET t == [f EXCEPT !.whole = TRUE, !.used = n]
         IN  t \in Slot /\ t.whole /\ t.used > 0 /\ t.key = f.key
BY DEF Slot

LEMMA JobsTyped ==
  ASSUME CacheAssumption, CacheIInv, [CacheNext]_cacheVars
  PROVE  job' \in [Viewers -> Job] /\ InHand'
<1>0. /\ job \in [Viewers -> Job] /\ InHand /\ clock \in Nat /\ \A p \in Viewers : Fits(job[p])
      /\ Fits(NoJob) /\ NoJob \in Job
  BY FilesTyped DEF CacheIInv, Types, InHand, Fits
<1> USE <1>0
<1>1. ASSUME NEW p \in Viewers, BeginWrite(p) PROVE job' \in [Viewers -> Job] /\ InHand'
  <2>1. PICK key \in Keys : job' = [job EXCEPT ![p] = [NoJob EXCEPT !.at = "saving", !.key = key, !.tmp.key = key]]
    BY <1>1 DEF BeginWrite
  <2> DEFINE k == [NoJob EXCEPT !.at = "saving", !.key = key, !.tmp.key = key]
  <2>2. k \in Job /\ Fits(k)
    BY DEF NoJob, NoFile, Fits, Job, Slot, Steps
  <2> QED
    BY <2>1, <2>2, OneJob
<1>2. ASSUME NEW p \in Viewers, Save(p) PROVE job' \in [Viewers -> Job] /\ InHand'
  <2> DEFINE k == [job[p] EXCEPT !.at = "saved", !.tmp.whole = TRUE, !.tmp.used = clock + 1]
  <2>1. job' = [job EXCEPT ![p] = k] /\ job[p] \in Job /\ Fits(job[p])
    BY <1>2 DEF Save
  <2>2. job[p].at = "saving" /\ job[p].tmp \in Slot /\ job[p].tmp.key = job[p].key /\ job[p].key \in Keys
    BY <2>1, <1>2 DEF Save, Fits, Job
  <2> DEFINE t == [job[p].tmp EXCEPT !.whole = TRUE, !.used = clock + 1]
  <2>3. t \in Slot /\ t.whole /\ t.used > 0 /\ t.key = job[p].key
    <3>1. clock + 1 \in Nat /\ clock + 1 > 0 /\ TRUE \in BOOLEAN
      OBVIOUS
    <3> QED
      BY <2>2, <3>1, WrittenIs, Zenon
  <2>5. k = [job[p] EXCEPT !.at = "saved", !.tmp = t]
    BY <2>1, <2>2 DEF Job
  <2> HIDE DEF t, k
  <2>4. k \in Job /\ Fits(k)
    BY <2>1, <2>2, <2>3, <2>5 DEF Fits, Job, Steps
  <2>6. job' = [job EXCEPT ![p] = k]
    BY <2>1
  <2> QED
    BY <2>4, <2>6, OneJob
<1>3. ASSUME NEW p \in Viewers, CancelWrite(p) \/ Fails(p) \/ Show(p) \/ KillViewer(p) \/ Clean(p)
      PROVE job' \in [Viewers -> Job] /\ InHand'
  <2>1. job' = [job EXCEPT ![p] = NoJob]
    BY <1>3 DEF CancelWrite, Fails, Show, KillViewer, Clean, End
  <2> QED
    BY <2>1, OneJob
<1>4. ASSUME NEW p \in Viewers, Replace(p) PROVE job' \in [Viewers -> Job] /\ InHand'
  <2> DEFINE k == [job[p] EXCEPT !.at = "placed", !.tmp = NoFile]
  <2>1. job' = [job EXCEPT ![p] = k] /\ job[p] \in Job /\ Fits(job[p])
    BY <1>4 DEF Replace
  <2>2. k \in Job /\ Fits(k)
    BY <2>1, <1>4 DEF Replace, NoFile, Fits, Job, Slot, Steps
  <2> QED
    BY <2>1, <2>2, OneJob
<1>5. ASSUME NEW p \in Viewers, ListFiles(p) PROVE job' \in [Viewers -> Job] /\ InHand'
  <2>1. PICK l \in SetToSeqs(Cached) : job' = [job EXCEPT ![p].at = "listed", ![p].list = l]
    BY <1>5 DEF ListFiles
  <2>2. l \in Seq(Cached) /\ Cached \subseteq Keys
    BY <2>1, ListIs DEF Cached, CacheIInv, Types
  <2>3. l \in Seq(Keys)
    BY <2>2
  <2> DEFINE k == [job[p] EXCEPT !.at = "listed", !.list = l]
  <2>4. job' = [job EXCEPT ![p] = k] /\ job[p] \in Job /\ Fits(job[p]) /\ job[p].at = "placed"
    BY <1>5, <2>1 DEF ListFiles
  <2>5. k \in Job /\ Fits(k)
    BY <2>3, <2>4 DEF Fits, Job, Steps
  <2> QED
    BY <2>4, <2>5, OneJob
<1>6. ASSUME NEW p \in Viewers, Sum(p) PROVE job' \in [Viewers -> Job] /\ InHand'
  <2> DEFINE k == IF Gone(p) THEN NoJob ELSE [job[p] EXCEPT !.at = "evicting", !.total = Len(job[p].list)]
  <2>1. job' = [job EXCEPT ![p] = k] /\ job[p] \in Job /\ Fits(job[p])
    BY <1>6 DEF Sum, End
  <2>2. job[p].at = "listed"
    BY <1>6 DEF Sum
  <2> DEFINE m == [job[p] EXCEPT !.at = "evicting", !.total = Len(job[p].list)]
  <2>5. job[p].list \in Seq(Keys) /\ Len(job[p].list) \in Int
    BY <2>1 DEF Job
  <2>3. m \in Job /\ Fits(m)
    BY <2>1, <2>2, <2>5 DEF Fits, Job, Steps
  <2>4. k \in Job /\ Fits(k)
    BY <2>3
  <2> QED
    BY <2>1, <2>4, OneJob
<1>7. ASSUME NEW p \in Viewers, Evict(p) PROVE job' \in [Viewers -> Job] /\ InHand'
  <2> DEFINE k == IF cache[Head(job[p].list)] = NoFile THEN NoJob ELSE [job[p] EXCEPT !.list = Tail(@), !.total = @ - 1]
  <2>1. job' = [job EXCEPT ![p] = k] /\ job[p] \in Job /\ Fits(job[p])
    BY <1>7 DEF Evict, End
  <2>2. job[p].at = "evicting"
    BY <1>7 DEF Evict
  <2> DEFINE m == [job[p] EXCEPT !.list = Tail(@), !.total = @ - 1]
  <2>5. job[p].list \in Seq(Keys) /\ job[p].list # <<>> /\ job[p].total \in Int
    BY <2>1, <1>7 DEF Evict, Job
  <2>6. Tail(job[p].list) \in Seq(Keys) /\ job[p].total - 1 \in Int
    BY <2>5
  <2>3. m \in Job /\ Fits(m)
    BY <2>1, <2>2, <2>6 DEF Fits, Job, Steps
  <2>4. k \in Job /\ Fits(k)
    BY <2>3
  <2> QED
    BY <2>1, <2>4, OneJob
<1>8. ASSUME NEW p \in Viewers, EndPass(p) PROVE job' \in [Viewers -> Job] /\ InHand'
  <2> DEFINE k == IF job[p].key \in Medians THEN NoJob ELSE [job[p] EXCEPT !.at = "cleaning"]
  <2>1. job' = [job EXCEPT ![p] = k] /\ job[p] \in Job /\ Fits(job[p])
    BY <1>8 DEF EndPass
  <2>2. job[p].at = "evicting"
    BY <1>8 DEF EndPass
  <2> DEFINE m == [job[p] EXCEPT !.at = "cleaning"]
  <2>3. m \in Job /\ Fits(m)
    BY <2>1, <2>2 DEF Fits, Job, Steps
  <2>4. k \in Job /\ Fits(k)
    BY <2>3
  <2> QED
    BY <2>1, <2>4, OneJob
<1>9. ASSUME NEW p \in Viewers, OpenFile(p) PROVE job' \in [Viewers -> Job] /\ InHand'
  <2>1. PICK key \in Cached : job' = [job EXCEPT ![p] = [NoJob EXCEPT !.at = "opened", !.key = key, !.file = cache[key]]]
    BY <1>9 DEF OpenFile
  <2>2. key \in Keys /\ cache[key] \in Slot /\ cache[key].key = key
    BY DEF Cached, CacheIInv, Types, CacheTyped
  <2> DEFINE k == [NoJob EXCEPT !.at = "opened", !.key = key, !.file = cache[key]]
  <2>3. k \in Job /\ Fits(k)
    BY <2>2 DEF NoJob, NoFile, Fits, Job, Steps, Slot
  <2> QED
    BY <2>1, <2>3, OneJob
<1>10. ASSUME NEW p \in Viewers, CheckSize(p) PROVE job' \in [Viewers -> Job] /\ InHand'
  <2> DEFINE k == IF cache[job[p].key].whole THEN [job[p] EXCEPT !.at = "checked"] ELSE NoJob
  <2>1. job' = [job EXCEPT ![p] = k] /\ job[p] \in Job /\ Fits(job[p])
    BY <1>10 DEF CheckSize, End
  <2>2. job[p].at = "opened"
    BY <1>10 DEF CheckSize
  <2> DEFINE m == [job[p] EXCEPT !.at = "checked"]
  <2>3. m \in Job /\ Fits(m)
    BY <2>1, <2>2 DEF Fits, Job, Steps
  <2>4. k \in Job /\ Fits(k)
    BY <2>3
  <2> QED
    BY <2>1, <2>4, OneJob
<1>11. ASSUME NEW p \in Viewers, Fields(p) PROVE job' \in [Viewers -> Job] /\ InHand'
  <2> DEFINE file == IF job[p].key \in Medians THEN cache[job[p].key] ELSE job[p].file
  <2> DEFINE k == IF file.whole THEN [job[p] EXCEPT !.at = "loaded", !.file = file] ELSE NoJob
  <2>1. job' = [job EXCEPT ![p] = k] /\ job[p] \in Job /\ Fits(job[p]) /\ job[p].at = "checked"
    BY <1>11 DEF Fields, End
  <2>2. job[p].key \in Keys /\ job[p].file \in Slot /\ job[p].file.key = job[p].key
    BY <2>1 DEF Fits, Job
  <2>3. file \in Slot /\ (file.whole => file.key = job[p].key)
    BY <2>2, FilesTyped DEF CacheIInv, Types, CacheTyped
  <2> HIDE DEF file
  <2>4. k \in Job /\ Fits(k)
    BY <2>1, <2>2, <2>3 DEF Fits, Job, Steps
  <2> QED
    BY <2>1, <2>4, OneJob
<1>12. ASSUME NEW p \in Viewers, Use(p) PROVE job' \in [Viewers -> Job] /\ InHand'
  <2> DEFINE k == IF cache[job[p].key] = NoFile THEN NoJob ELSE [job[p] EXCEPT !.at = "hit"]
  <2>1. job' = [job EXCEPT ![p] = k] /\ job[p] \in Job /\ Fits(job[p])
    BY <1>12 DEF Use, End
  <2>2. job[p].at = "loaded"
    BY <1>12 DEF Use
  <2> DEFINE m == [job[p] EXCEPT !.at = "hit"]
  <2>3. m \in Job /\ Fits(m)
    BY <2>1, <2>2 DEF Fits, Job, Steps
  <2>4. k \in Job /\ Fits(k)
    BY <2>3
  <2> QED
    BY <2>1, <2>4, OneJob
<1>13. CASE HostStops
  BY <1>13 DEF HostStops, InHand
<1>14. CASE DayPasses \/ UNCHANGED cacheVars
  BY <1>14 DEF DayPasses, cacheVars, InHand
<1> QED
  BY <1>1, <1>2, <1>3, <1>4, <1>5, <1>6, <1>7, <1>8, <1>9, <1>10, <1>11, <1>12, <1>13, <1>14
     DEF CacheNext, Write, Read

\* What a step does to the files that are cached.
LEMMA CacheMoves ==
  ASSUME CacheAssumption, CacheIInv, [CacheNext]_cacheVars
  PROVE  /\ cache' \in [Keys -> Slot] /\ CacheTyped' /\ CacheIsWhole'
         /\ \/ Cached' \subseteq Cached
            \/ \E p \in Viewers : Replace(p) /\ Cached' = Cached \cup {job[p].key}
<1> USE FilesTyped DEF CacheIInv, Types, InHand, Directory, Cached
<1>0. \A p \in Viewers : job[p] \in Job
  OBVIOUS
<1>1. ASSUME NEW p \in Viewers, Replace(p)
      PROVE /\ cache' \in [Keys -> Slot] /\ CacheTyped' /\ CacheIsWhole'
            /\ Cached' = Cached \cup {job[p].key}
  <2> DEFINE k == job[p].key
             n == job[p].tmp
  <2>1. k \in Keys /\ n \in Slot /\ n.key = k /\ n.whole /\ n.used > 0
    BY <1>0, <1>1 DEF Replace, Fits, Job
  <2>2. cache' = [cache EXCEPT ![k] = n] /\ crashes' = crashes /\ n # NoFile
    BY <1>1, <2>1 DEF Replace
  <2> HIDE DEF k, n
  <2>3. cache' \in [Keys -> Slot] /\ Cached' = Cached \cup {k} /\ CacheTyped' /\ CacheIsWhole'
    BY <2>1, <2>2 DEF CacheTyped, CacheIsWhole
  <2> QED
    BY <2>3 DEF k
<1>2. ASSUME NEW p \in Viewers, Evict(p)
      PROVE cache' \in [Keys -> Slot] /\ CacheTyped' /\ CacheIsWhole' /\ Cached' \subseteq Cached
  <2>1. job[p].list \in Seq(Keys)
    BY <1>0 DEF Job
  <2> QED
    BY <2>1, <1>2 DEF Evict, CacheTyped, CacheIsWhole
<1>3. ASSUME NEW p \in Viewers, Use(p)
      PROVE cache' \in [Keys -> Slot] /\ CacheTyped' /\ CacheIsWhole' /\ Cached' \subseteq Cached
  <2>1. clock \in Nat /\ job[p].at = "loaded"
    BY <1>3 DEF Use
  <2> DEFINE k == job[p].key
  <2>2. CASE cache' = cache
    BY <1>3, <2>2 DEF Use, CacheTyped, CacheIsWhole
  <2>3. CASE cache[k] # NoFile /\ cache' = [cache EXCEPT ![k].used = clock + 1]
    <3> DEFINE n == [cache[k] EXCEPT !.used = clock + 1]
    <3>0. k \in Keys
      BY <1>0, <2>1, FilesTyped DEF Fits
    <3>1. cache[k] \in Slot /\ cache[k].key = k
      BY <2>3, <3>0 DEF CacheTyped
    <3>2. n \in Slot /\ n.key = k /\ n.used > 0 /\ n.whole = cache[k].whole
      BY <2>1, <3>1 DEF Slot
    <3>3. cache' = [cache EXCEPT ![k] = n]
      BY <2>3, <3>0
    <3> HIDE DEF n
    <3> QED
      BY <2>3, <3>0, <3>1, <3>2, <3>3, <1>3 DEF Use, CacheTyped, CacheIsWhole
  <2> QED
    BY <1>3, <2>2, <2>3 DEF Use
<1>4. CASE HostStops
  <2>1. PICK k \in Cached : cache' = [cache EXCEPT ![k].whole = FALSE]
    BY <1>4 DEF HostStops
  <2> DEFINE n == [cache[k] EXCEPT !.whole = FALSE]
  <2>2. k \in Keys /\ cache[k] \in Slot /\ cache[k].key = k /\ cache[k].used > 0
    BY DEF CacheTyped
  <2>3. n \in Slot /\ n.key = k /\ n.used > 0
    BY <2>2 DEF Slot
  <2>4. cache' = [cache EXCEPT ![k] = n]
    BY <2>1, <2>2
  <2>6. crashes \in Nat /\ crashes' = crashes + 1
    BY <1>4 DEF HostStops
  <2> HIDE DEF n
  <2>5. cache' \in [Keys -> Slot] /\ CacheTyped' /\ CacheIsWhole' /\ Cached' \subseteq Cached
    BY <2>2, <2>3, <2>4, <2>6 DEF CacheTyped, CacheIsWhole
  <2> QED
    BY <2>5
<1>5. ASSUME cache' = cache, crashes' \in {crashes, crashes + 1}
      PROVE cache' \in [Keys -> Slot] /\ CacheTyped' /\ CacheIsWhole' /\ Cached' \subseteq Cached
  BY <1>5, SMTT(30) DEF CacheTyped, CacheIsWhole
<1>6. \/ (cache' = cache /\ crashes' \in {crashes, crashes + 1}) \/ HostStops
      \/ \E p \in Viewers : Replace(p) \/ Evict(p) \/ Use(p)
  BY ZenonT(60) DEF CacheNext, Write, Read, BeginWrite, Save, CancelWrite, ListFiles, Sum, EndPass, Clean, Fails, OpenFile,
         CheckSize, Fields, Show, KillViewer, DayPasses, cacheVars
<1> HIDE DEF CacheIInv, Types, InHand, Cached
<1> QED
  <2>1. CASE cache' = cache /\ crashes' \in {crashes, crashes + 1}
    BY <1>5, <2>1
  <2> QED
    BY <1>1, <1>2, <1>3, <1>4, <1>6, <2>1

\* What is cached stays finite.
LEMMA CachedFinite ==
  ASSUME CacheIInv, Cached' \subseteq Cached \/ \E k : Cached' = Cached \cup {k}
  PROVE  IsFiniteSet(Cached)'
<1>1. IsFiniteSet(Cached)
  BY DEF CacheIInv, Types
<1>2. CASE Cached' \subseteq Cached
  BY <1>1, <1>2, FS_Subset
<1>3. ASSUME NEW k, Cached' = Cached \cup {k} PROVE IsFiniteSet(Cached')
  BY <1>1, <1>3, FS_AddElement
<1> QED
  BY <1>2, <1>3

LEMMA TypesKept ==
  ASSUME CacheAssumption, CacheIInv, [CacheNext]_cacheVars
  PROVE  Types' /\ InHand' /\ CacheIsWhole'
<1>1. cache' \in [Keys -> Slot] /\ CacheTyped' /\ CacheIsWhole'
  BY CacheMoves
<1>2. job' \in [Viewers -> Job] /\ InHand'
  BY JobsTyped
<1>3. IsFiniteSet(Cached)'
  BY CacheMoves, CachedFinite
<1>4. /\ orphaned \in [today : Nat, older : Nat] /\ clock \in Nat /\ crashes \in Nat /\ excess \in Nat
      /\ since \in [Viewers -> Nat]
  BY DEF CacheIInv, Types
<1>5. Cardinality({p \in Viewers : job[p].tmp # NoFile}) \in Nat
  BY FS_Subset, FS_CardinalityType DEF CacheAssumption
<1>6. orphaned' \in [today : Nat, older : Nat]
  <2>1. ASSUME NEW p \in Viewers, Clean(p) PROVE orphaned' \in [today : Nat, older : Nat]
    BY <1>4, <2>1 DEF Clean
  <2>2. ASSUME NEW p \in Viewers, KillViewer(p) PROVE orphaned' \in [today : Nat, older : Nat]
    BY <1>4, <2>2 DEF KillViewer
  <2>3. CASE HostStops
    BY <1>4, <1>5, <2>3 DEF HostStops
  <2>4. CASE DayPasses
    BY <1>4, <2>4 DEF DayPasses
  <2>5. orphaned' = orphaned \/ HostStops \/ DayPasses \/ \E p \in Viewers : Clean(p) \/ KillViewer(p)
    BY ZenonT(60) DEF CacheNext, Write, Read, BeginWrite, Save, CancelWrite, Replace, ListFiles, Sum, Evict, EndPass, Fails,
           OpenFile, CheckSize, Fields, Use, Show, cacheVars, Directory
  <2> QED
    BY <1>4, <2>1, <2>2, <2>3, <2>4, <2>5
<1>7. excess' \in Nat /\ since' \in [Viewers -> Nat]
  <2>1. ASSUME NEW p \in Viewers, Replace(p) PROVE excess' \in Nat /\ since' \in [Viewers -> Nat]
    BY <1>4, <2>1 DEF Replace
  <2>2. ASSUME NEW p \in Viewers, ListFiles(p) PROVE excess' \in Nat /\ since' \in [Viewers -> Nat]
    BY <1>4, <2>2 DEF ListFiles
  <2>3. ASSUME NEW p \in Viewers, EndPass(p) PROVE excess' \in Nat /\ since' \in [Viewers -> Nat]
    <3>1. Min({excess, since[p]}) \in {excess, since[p]}
      BY <1>4, MinIs
    <3> QED
      BY <1>4, <2>3, <3>1 DEF EndPass
  <2>4. (excess' = excess /\ since' = since) \/ \E p \in Viewers : Replace(p) \/ ListFiles(p) \/ EndPass(p)
    BY DEF CacheNext, Write, Read, BeginWrite, Save, CancelWrite, Sum, Evict, Clean, Fails, OpenFile, CheckSize, Fields,
           Use, Show, KillViewer, HostStops, DayPasses, cacheVars, Directory
  <2> QED
    BY <1>4, <2>1, <2>2, <2>3, <2>4
<1>8. clock' \in {clock, clock + 1} /\ crashes' \in {crashes, crashes + 1}
  BY ZenonT(60) DEF CacheNext, Write, Read, BeginWrite, Save, CancelWrite, Replace, ListFiles, Sum, Evict, EndPass, Clean, Fails,
         OpenFile, CheckSize, Fields, Use, Show, KillViewer, HostStops, DayPasses, cacheVars, Directory
<1> QED
  BY <1>1, <1>2, <1>3, <1>4, <1>6, <1>7, <1>8 DEF Types

-----------------------------------------------------------------------------
\* The history variables tell how far over the budget the files are.

LEMMA Fewer ==
  ASSUME NEW S, NEW T, IsFiniteSet(S), T \subseteq S
  PROVE  IsFiniteSet(T) /\ Cardinality(T) \in Nat /\ Cardinality(S) \in Nat /\ Cardinality(T) <= Cardinality(S)
BY FS_Subset, FS_CardinalityType

LEMMA OneMore ==
  ASSUME NEW S, NEW T, NEW k, IsFiniteSet(S), T \subseteq S \cup {k}
  PROVE  Cardinality(T) \in Nat /\ Cardinality(S) \in Nat /\ Cardinality(T) <= Cardinality(S) + 1
<1>1. /\ IsFiniteSet(S \cup {k})
      /\ Cardinality(S \cup {k}) = IF k \in S THEN Cardinality(S) ELSE Cardinality(S) + 1
  BY FS_AddElement
<1>2. Cardinality(S) \in Nat
  BY FS_CardinalityType
<1> QED
  BY <1>1, <1>2, Fewer

LEMMA ListedKept ==
  ASSUME CacheAssumption, CacheIInv, [CacheNext]_cacheVars
  PROVE  Listed'
<1>0. /\ IsFiniteSet(Cached) /\ job \in [Viewers -> Job] /\ since \in [Viewers -> Nat]
      /\ cache \in [Keys -> Slot] /\ Listed
  BY DEF CacheIInv, Types
<1>a. \A q \in Viewers : since[q] \in Nat /\ job[q].list \in Seq(Keys)
  BY <1>0 DEF Job
<1>b. \A q \in Viewers : IsFiniteSet(Unlisted(q)) /\ Cardinality(Unlisted(q)) \in Nat
  BY <1>0, Fewer DEF Passing, Unlisted, Counted
<1>c. \A q \in Viewers : Passing(q) => Cardinality(Unlisted(q)) <= since[q] /\ Counted(q)
  BY <1>0 DEF Listed
<1>1. ASSUME NEW q \in Viewers, Cached' \subseteq Cached, job'[q] = job[q], since'[q] = since[q], Passing(q)
      PROVE  Cardinality(Unlisted(q)') <= since'[q] /\ Counted(q)'
  <2>1. Unlisted(q)' \subseteq Unlisted(q)
    BY <1>1 DEF Passing, Unlisted, Counted
  <2>2. Cardinality(Unlisted(q)') <= Cardinality(Unlisted(q)) /\ Cardinality(Unlisted(q)') \in Nat
    BY <1>b, <2>1, Fewer
  <2> QED
    <3>1. Cardinality(Unlisted(q)) <= since[q] /\ Counted(q)
      BY <1>1, <1>c, Zenon
    <3>2. since[q] \in Nat /\ Cardinality(Unlisted(q)) \in Nat
      BY <1>a, <1>b, Zenon
    <3>3. Cardinality(Unlisted(q)') <= since[q]
      BY <2>2, <3>1, <3>2
    <3> QED
      BY <1>1, <3>1, <3>3, Zenon DEF Passing, Unlisted, Counted
<1>2. ASSUME NEW p \in Viewers, Replace(p), NEW q \in Viewers, Passing(q)'
      PROVE  Cardinality(Unlisted(q)') <= since'[q] /\ Counted(q)'
  <2>1. q # p /\ job'[q] = job[q]
    BY <1>0, <1>2 DEF Replace, Passing, Unlisted, Counted
  <2>2. Passing(q) /\ since'[q] = since[q] + 1
    BY <1>2, <2>1 DEF Replace, Passing, Unlisted, Counted
  <2>3. Cached' \subseteq Cached \cup {job[p].key}
    BY <1>0, <1>2 DEF Replace, Cached
  <2>4. Unlisted(q)' \subseteq Unlisted(q) \cup {job[p].key}
    BY <2>1, <2>3 DEF Passing, Unlisted, Counted
  <2>5. Cardinality(Unlisted(q)') \in Nat /\ Cardinality(Unlisted(q)') <= Cardinality(Unlisted(q)) + 1
    BY <1>b, <2>4, OneMore
  <2> QED
    <3>1. Cardinality(Unlisted(q)) <= since[q] /\ Counted(q)
      BY <1>c, <2>2, Zenon
    <3>2. since[q] \in Nat /\ Cardinality(Unlisted(q)) \in Nat
      BY <1>a, <1>b, Zenon
    <3>3. Cardinality(Unlisted(q)') <= since[q] + 1
      BY <2>5, <3>1, <3>2
    <3> QED
      BY <2>1, <2>2, <3>1, <3>3, Zenon DEF Passing, Unlisted, Counted
<1>3. ASSUME NEW p \in Viewers, ListFiles(p), NEW q \in Viewers, Passing(q)'
      PROVE  Cardinality(Unlisted(q)') <= since'[q] /\ Counted(q)'
  <2>1. cache' = cache /\ Cached' = Cached
    BY <1>3 DEF ListFiles, Cached
  <2>2. CASE q = p
    <3>1. PICK l \in SetToSeqs(Cached) : job' = [job EXCEPT ![p].at = "listed", ![p].list = l]
      BY <1>3 DEF ListFiles
    <3>2. ToSet(l) = Cached
      BY <1>0, <3>1, ListIs
    <3>3. job'[q].list = l /\ job'[q].at = "listed"
      BY <1>0, <2>2, <3>1 DEF Job
    <3>4. Unlisted(q)' = {} /\ since'[q] = 0
      BY <1>0, <1>3, <2>1, <2>2, <3>2, <3>3 DEF ListFiles, Passing, Unlisted, Counted
    <3> QED
      BY <3>3, <3>4, FS_EmptySet DEF Passing, Unlisted, Counted
  <2>3. CASE q # p
    <3>1. job'[q] = job[q] /\ since'[q] = since[q]
      BY <1>0, <1>3, <2>3 DEF ListFiles
    <3> QED
      BY <1>1, <1>3, <2>1, <3>1 DEF Passing, Unlisted, Counted
  <2> QED
    BY <2>2, <2>3
<1>4. ASSUME NEW p \in Viewers, Evict(p), NEW q \in Viewers, Passing(q)'
      PROVE  Cardinality(Unlisted(q)') <= since'[q] /\ Counted(q)'
  <2>1. since' = since /\ Cached' \subseteq Cached
    BY <1>0, <1>4 DEF Evict, Cached, End
  <2>2. CASE q = p
    <3> DEFINE left == job[p].list
    <3>1. left \in Seq(Keys) /\ left # <<>> /\ job[p].at = "evicting" /\ job[p].total = Len(left)
      BY <1>0, <1>4, <1>a DEF Evict, Listed, Passing, Unlisted, Counted
    <3>2. /\ cache' = [cache EXCEPT ![Head(left)] = NoFile]
          /\ job' = [job EXCEPT ![p].list = Tail(@), ![p].total = @ - 1]
      BY <1>0, <1>4, <2>2, FilesTyped DEF Evict, End, Passing, Unlisted, Counted
    <3>3. job'[p].list = Tail(left) /\ job'[p].total = Len(left) - 1
      BY <1>0, <3>1, <3>2 DEF Job
    <3>4. ToSet(left) \subseteq ToSet(Tail(left)) \cup {Head(left)}
      <4>1. ASSUME NEW i \in 1 .. Len(left) PROVE left[i] \in ToSet(Tail(left)) \cup {Head(left)}
        <5>1. CASE i = 1
          BY <3>1, <5>1
        <5>2. CASE i # 1
          <6>1. i - 1 \in 1 .. Len(Tail(left)) /\ Tail(left)[i - 1] = left[i]
            BY <3>1, <5>2
          <6>2. DOMAIN Tail(left) = 1 .. Len(Tail(left))
            BY <3>1
          <6> HIDE DEF left
          <6> QED
            BY <6>1, <6>2 DEF ToSet
        <5> QED
          BY <5>1, <5>2
      <4> QED
        BY <3>1, <4>1 DEF ToSet
    <3>5. Head(left) \in Keys
      BY <3>1
    <3>6. Cached' \subseteq Cached \ {Head(left)}
      BY <1>0, <3>2, <3>5 DEF Cached
    <3>7. Unlisted(p)' \subseteq Unlisted(p)
      BY <3>3, <3>4, <3>6 DEF Passing, Unlisted, Counted
    <3>8. Cardinality(Unlisted(p)') <= Cardinality(Unlisted(p)) /\ Cardinality(Unlisted(p)') \in Nat
      BY <1>b, <3>7, Fewer
    <3>9. Len(Tail(left)) = Len(left) - 1
      BY <3>1
    <3> HIDE DEF left
    <3> QED
      <4>1. Passing(p)
        BY <3>1 DEF Passing, Unlisted, Counted
      <4>2. Cardinality(Unlisted(p)) <= since[p]
        BY <1>c, <4>1, Zenon
      <4>3. since[p] \in Nat /\ Cardinality(Unlisted(p)) \in Nat
        BY <1>a, <1>b, Zenon
      <4>4. Cardinality(Unlisted(p)') <= since[p]
        BY <3>8, <4>2, <4>3
      <4> QED
        BY <2>1, <2>2, <3>3, <3>9, <4>4 DEF Passing, Unlisted, Counted
  <2>3. CASE q # p
    <3>1. job'[q] = job[q]
      BY <1>0, <1>4, <2>3 DEF Evict, End
    <3> QED
      BY <1>1, <1>4, <2>1, <3>1 DEF Passing, Unlisted, Counted
  <2> QED
    BY <2>2, <2>3
<1>5. ASSUME NEW p \in Viewers, Sum(p), NEW q \in Viewers, Passing(q)'
      PROVE  Cardinality(Unlisted(q)') <= since'[q] /\ Counted(q)'
  <2>1. cache' = cache /\ Cached' = Cached /\ since' = since
    BY <1>5 DEF Sum, Directory, Cached
  <2>2. CASE q = p
    <3>1. job' = [job EXCEPT ![p].at = "evicting", ![p].total = Len(job[p].list)]
      BY <1>0, <1>5, <2>2, FilesTyped DEF Sum, End, Passing, Unlisted, Counted
    <3>2. job'[p].list = job[p].list /\ job'[p].total = Len(job[p].list) /\ job[p].at = "listed"
      BY <1>0, <1>5, <3>1 DEF Job, Sum
    <3> QED
      BY <1>0, <2>1, <2>2, <3>2 DEF Listed, Passing, Unlisted, Counted
  <2>3. CASE q # p
    <3>1. job'[q] = job[q]
      BY <1>0, <1>5, <2>3 DEF Sum, End
    <3> QED
      BY <1>1, <1>5, <2>1, <3>1 DEF Passing, Unlisted, Counted
  <2> QED
    BY <2>2, <2>3
<1>6. ASSUME NEW q \in Viewers, Passing(q)',
             ~ \E p \in Viewers : Replace(p) \/ ListFiles(p) \/ Evict(p) \/ Sum(p)
      PROVE  job'[q] = job[q] /\ since' = since
  <2>1. CASE HostStops
    BY <1>6, <2>1, FilesTyped DEF HostStops, Passing, Unlisted, Counted
  <2>2. CASE DayPasses \/ UNCHANGED cacheVars
    BY <2>2 DEF DayPasses, cacheVars
  <2>3. ASSUME NEW p \in Viewers, BeginWrite(p) \/ OpenFile(p) PROVE job'[q] = job[q] /\ since' = since
    <3>1. job'[p].at \notin {"listed", "evicting"}
      <4>1. ASSUME BeginWrite(p) PROVE job'[p].at = "saving"
        BY <1>0, <4>1 DEF BeginWrite, NoJob
      <4>2. ASSUME OpenFile(p) PROVE job'[p].at = "opened"
        BY <1>0, <4>2 DEF OpenFile, NoJob
      <4> QED
        BY <2>3, <4>1, <4>2
    <3> QED
      BY <1>0, <1>6, <2>3, <3>1 DEF BeginWrite, OpenFile, Directory, Passing, Unlisted, Counted
  <2>4. ASSUME NEW p \in Viewers, CancelWrite(p) \/ Clean(p) \/ Fails(p) \/ Show(p) \/ KillViewer(p)
        PROVE  job'[q] = job[q] /\ since' = since
    BY <1>0, <1>6, <2>4, FilesTyped DEF CancelWrite, Clean, Fails, Show, KillViewer, End, Directory, Passing, Unlisted, Counted
  <2>5. ASSUME NEW p \in Viewers, Save(p) \/ EndPass(p) \/ CheckSize(p) \/ Fields(p) \/ Use(p)
        PROVE  job'[q] = job[q] /\ since' = since
    <3> DEFINE Out == job'[p].at \notin {"listed", "evicting"}
    <3>1. /\ job[p] \in Job /\ NoJob.at = "idle"
          /\ \A k \in Job : job' = [job EXCEPT ![p] = k] /\ k.at \notin {"listed", "evicting"} => Out
      BY <1>0, FilesTyped
    <3>2. ASSUME Save(p) PROVE Out
      <4>1. job'[p] = [job[p] EXCEPT !.at = "saved", !.tmp.whole = TRUE, !.tmp.used = clock + 1]
        BY <1>0, <3>2 DEF Save
      <4> QED
        BY <3>1, <4>1 DEF Job
    <3>3. ASSUME EndPass(p) PROVE Out
      BY <1>0, <3>1, <3>3 DEF EndPass, Job
    <3>4. ASSUME CheckSize(p) PROVE Out
      BY <1>0, <3>1, <3>4 DEF CheckSize, End, Job
    <3>5. ASSUME Fields(p) PROVE Out
      BY <1>0, <3>1, <3>5 DEF Fields, End, Job
    <3>6. ASSUME Use(p) PROVE Out
      BY <1>0, <3>1, <3>6 DEF Use, End, Job
    <3>7. p # q
      BY <1>6, <2>5, <3>2, <3>3, <3>4, <3>5, <3>6 DEF Passing, Unlisted, Counted
    <3> QED
      BY <1>0, <2>5, <3>7 DEF Save, EndPass, CheckSize, Fields, Use, End, Directory
  <2> QED
    BY <1>6, <2>1, <2>2, <2>3, <2>4, <2>5 DEF CacheNext, Write, Read
<1>7. ASSUME NEW q \in Viewers, Passing(q)'
      PROVE  Cardinality(Unlisted(q)') <= since'[q] /\ Counted(q)'
  <2>1. CASE \E p \in Viewers : Replace(p) \/ ListFiles(p) \/ Evict(p) \/ Sum(p)
    BY <1>2, <1>3, <1>4, <1>5, <1>7, <2>1
  <2>2. CASE ~ \E p \in Viewers : Replace(p) \/ ListFiles(p) \/ Evict(p) \/ Sum(p)
    <3>1. Cached' \subseteq Cached
      BY <2>2, CacheMoves
    <3> QED
      BY <1>1, <1>6, <1>7, <2>2, <3>1 DEF Passing, Unlisted, Counted
  <2> QED
    BY <2>1, <2>2
<1> QED
  BY <1>7 DEF Listed

LEMMA BudgetKept ==
  ASSUME CacheAssumption, CacheIInv, [CacheNext]_cacheVars
  PROVE  WithinBudget'
<1>1. /\ IsFiniteSet(Cached) /\ job \in [Viewers -> Job] /\ excess \in Nat /\ BUDGET \in Nat
      /\ \A q \in Viewers : since[q] \in Nat /\ job[q].list \in Seq(Keys)
  BY DEF CacheIInv, Types, CacheAssumption, Job
<1>2. Cardinality(Cached) \in Nat /\ Cardinality(Cached) <= BUDGET + excess
  BY <1>1, FS_CardinalityType DEF CacheIInv, WithinBudget
<1>3. ASSUME NEW p \in Viewers, Replace(p) PROVE WithinBudget'
  <2>1. Cached' \subseteq Cached \cup {job[p].key} /\ excess' = excess + 1
    BY <1>3 DEF Replace, Cached, CacheIInv, Types
  <2>2. Cardinality(Cached') \in Nat /\ Cardinality(Cached') <= Cardinality(Cached) + 1
    BY <1>1, <2>1, OneMore
  <2> QED
    BY <1>1, <1>2, <2>1, <2>2 DEF WithinBudget
<1>4. ASSUME NEW p \in Viewers, EndPass(p) PROVE WithinBudget'
  <2> DEFINE L == ToSet(job[p].list)
  <2>1. Cached' = Cached /\ excess' = Min({excess, since[p]}) /\ job[p].at = "evicting"
    BY <1>4 DEF EndPass, Cached
  <2>2. Cardinality(Cached \ L) <= since[p] /\ job[p].total = Len(job[p].list)
    BY <2>1 DEF CacheIInv, Listed, Passing, Unlisted, Counted
  <2>3. Len(job[p].list) <= BUDGET /\ Len(job[p].list) \in Nat
    BY <1>1, <1>4, <2>2 DEF EndPass
  <2>4. IsFiniteSet(L) /\ Cardinality(L) <= Len(job[p].list) /\ Cardinality(L) \in Nat
    BY <1>1, ElementsOf, FS_CardinalityType
  <2>5. Cardinality(Cached) = Cardinality(Cached \cap L) + Cardinality(Cached \ L)
    <3>1. Cardinality(Cached \ L) = Cardinality(Cached) - Cardinality(Cached \cap L)
      BY <1>1, FS_Difference
    <3>2. Cardinality(Cached \cap L) \in Nat
      BY <1>1, Fewer
    <3> QED
      BY <1>2, <3>1, <3>2
  <2>6. Cardinality(Cached \cap L) \in Nat /\ Cardinality(Cached \cap L) <= Cardinality(L)
        /\ Cardinality(Cached \ L) \in Nat
    BY <1>1, <2>4, Fewer
  <2>7. Cardinality(Cached) <= BUDGET + since[p]
    BY <1>1, <2>2, <2>3, <2>4, <2>5, <2>6
  <2> QED
    BY <1>1, <1>2, <2>1, <2>7, MinIs DEF WithinBudget
<1>5. ASSUME ~ \E p \in Viewers : Replace(p) \/ EndPass(p) PROVE WithinBudget'
  <2>1. Cached' \subseteq Cached
    BY <1>5, CacheMoves, ZenonT(60)
  <2>2. excess' = excess
    BY <1>5, ZenonT(60) DEF CacheNext, Write, Read, BeginWrite, Save, CancelWrite, ListFiles, Sum, Evict, Clean, Fails, OpenFile,
                CheckSize, Fields, Use, Show, KillViewer, HostStops, DayPasses, cacheVars, Directory
  <2>3. Cardinality(Cached') \in Nat /\ Cardinality(Cached') <= Cardinality(Cached)
    BY <1>1, <2>1, Fewer
  <2> QED
    BY <1>1, <1>2, <2>2, <2>3 DEF WithinBudget
<1> QED
  BY <1>3, <1>4, <1>5

LEMMA OrphansKept ==
  ASSUME CacheAssumption, CacheIInv, [CacheNext]_cacheVars
  PROVE  OrphansAreOfTheKilled'
<1> DEFINE V == Cardinality(Viewers)
           Temps == {p \in Viewers : job[p].tmp # NoFile}
<1>1. /\ orphaned \in [today : Nat, older : Nat] /\ crashes \in Nat
      /\ orphaned.today + orphaned.older <= crashes * V /\ V \in Nat
  BY FS_CardinalityType DEF CacheIInv, Types, OrphansAreOfTheKilled, CacheAssumption
<1>2. Cardinality(Temps) \in Nat /\ Cardinality(Temps) <= V
  BY Fewer DEF CacheAssumption
<1>3. (crashes + 1) * V = crashes * V + V /\ crashes * V \in Nat
  BY <1>1
<1> HIDE DEF V
<1>4. ASSUME NEW p \in Viewers, KillViewer(p) PROVE OrphansAreOfTheKilled'
  <2>1. V >= 1
    <3>1. V # 0
      BY FS_EmptySet DEF V, CacheAssumption
    <3> QED
      BY <1>1, <3>1
  <2>2. crashes' = crashes + 1 /\ orphaned'.today + orphaned'.older <= orphaned.today + orphaned.older + 1
    BY <1>1, <1>4 DEF KillViewer
  <2>3. orphaned'.today + orphaned'.older \in Nat
    BY TypesKept DEF Types
  <2>4. orphaned'.today + orphaned'.older <= crashes * V + V
    BY <1>1, <1>3, <2>1, <2>2, <2>3
  <2> QED
    BY <1>3, <2>2, <2>4 DEF OrphansAreOfTheKilled, V
<1>5. CASE HostStops
  <2>1. crashes' = crashes + 1 /\ orphaned' = [orphaned EXCEPT !.today = @ + Cardinality(Temps)]
    BY <1>5 DEF HostStops
  <2>2. orphaned'.today + orphaned'.older <= crashes * V + V
    BY <1>1, <1>2, <1>3, <2>1
  <2> QED
    BY <1>3, <2>1, <2>2 DEF OrphansAreOfTheKilled, V
<1>6. ASSUME crashes' = crashes, orphaned'.today + orphaned'.older <= orphaned.today + orphaned.older,
             orphaned'.today + orphaned'.older \in Nat
      PROVE  OrphansAreOfTheKilled'
  BY <1>1, <1>3, <1>6 DEF OrphansAreOfTheKilled, V
<1>7. orphaned'.today + orphaned'.older \in Nat
  BY TypesKept DEF Types
<1>8. ASSUME NEW p \in Viewers, Clean(p) PROVE OrphansAreOfTheKilled'
  BY <1>1, <1>6, <1>7, <1>8 DEF Clean
<1>9. CASE DayPasses
  BY <1>1, <1>6, <1>7, <1>9 DEF DayPasses
<1>10. CASE crashes' = crashes /\ orphaned' = orphaned
  BY <1>1, <1>6, <1>7, <1>10
<1> QED
  BY <1>4, <1>5, <1>8, <1>9, <1>10
     DEF CacheNext, Write, Read, BeginWrite, Save, CancelWrite, Replace, ListFiles, Sum, Evict, EndPass, Fails,
         OpenFile, CheckSize, Fields, Use, Show, cacheVars, Directory

\* What viewers show is what they asked for and whole, a file in the cache is
\* whole unless the host stopped, the files are over the budget by no more than
\* was put in place since a pass began, and no file of a living viewer stays.
THEOREM Shared == CacheAssumption /\ CacheSpec => []ResultsAreWhole
<1> SUFFICES ASSUME CacheAssumption PROVE CacheSpec => []ResultsAreWhole
  OBVIOUS
<1>1. CacheInit => CacheIInv
  BY TypesInit
<1>2. CacheIInv /\ [CacheNext]_cacheVars => CacheIInv'
  BY TypesKept, ListedKept, BudgetKept, OrphansKept DEF CacheIInv
<1>3. CacheIInv => ResultsAreWhole
  BY DEF CacheIInv, InHand, Fits, HitsAreWhole, ResultsAreWhole
<1> QED
  BY <1>1, <1>2, <1>3, PTL DEF CacheSpec

-----------------------------------------------------------------------------
(* The axis of a catalog.                                                  *)

\* Records of the files, whose stamps differ.
Sortable(recs) ==
  /\ IsFiniteSet(recs) /\ \A a \in recs : a.rec.stamp \in Int
  /\ \A a, b \in recs : a # b => a.rec.stamp # b.rec.stamp

Before(recs, a) == {b \in recs : b.rec.stamp < a.rec.stamp}

\* No two records have as many before them.
LEMMA PlacesAre ==
  ASSUME NEW recs, Sortable(recs)
  PROVE  LET n == Cardinality(recs)
             place == [a \in recs |-> Cardinality(Before(recs, a))] IN
         /\ n \in Nat /\ place \in Surjection(recs, 0 .. n - 1)
         /\ \A a, b \in recs : a.rec.stamp < b.rec.stamp => place[a] < place[b]
<1> DEFINE n == Cardinality(recs)
           place == [a \in recs |-> Cardinality(Before(recs, a))]
<1>1. n \in Nat /\ IsFiniteSet(recs)
  BY FS_CardinalityType DEF Sortable
<1>2. ASSUME NEW a \in recs
      PROVE  /\ IsFiniteSet(Before(recs, a)) /\ place[a] = Cardinality(Before(recs, a))
             /\ place[a] \in 0 .. n - 1
  <2>1. Before(recs, a) \in SUBSET recs /\ a \notin Before(recs, a)
    BY DEF Before, Sortable
  <2>2. /\ IsFiniteSet(Before(recs, a)) /\ Cardinality(Before(recs, a)) <= n
        /\ n = Cardinality(Before(recs, a)) => recs = Before(recs, a)
    BY <1>1, <2>1, FS_Subset
  <2>3. Cardinality(Before(recs, a)) \in Nat
    BY <2>2, FS_CardinalityType
  <2> QED
    BY <1>1, <2>1, <2>2, <2>3
<1>3. ASSUME NEW a \in recs, NEW b \in recs, a.rec.stamp < b.rec.stamp
      PROVE  place[a] < place[b]
  <2>1. /\ Before(recs, a) \in SUBSET Before(recs, b)
        /\ a \in Before(recs, b) /\ a \notin Before(recs, a)
    BY <1>3 DEF Before, Sortable
  <2>2. /\ Cardinality(Before(recs, a)) <= Cardinality(Before(recs, b))
        /\ Cardinality(Before(recs, b)) = Cardinality(Before(recs, a))
             => Before(recs, b) = Before(recs, a)
    BY <1>2, <2>1, FS_Subset
  <2> HIDE DEF place, n
  <2> QED
    BY <1>1, <1>2, <2>1, <2>2
<1>4. place \in Injection(recs, 0 .. n - 1)
  <2>1. place \in [recs -> 0 .. n - 1]
    BY <1>2
  <2>2. ASSUME NEW a \in recs, NEW b \in recs, place[a] = place[b] PROVE a = b
    <3>1. a.rec.stamp \in Int /\ b.rec.stamp \in Int /\ (a # b => a.rec.stamp # b.rec.stamp)
      BY DEF Sortable
    <3>2. place[a] \in Int /\ place[b] \in Int
      BY <1>1, <1>2
    <3> HIDE DEF place
    <3> QED
      BY <3>1, <3>2, <1>3, <2>2
  <2> HIDE DEF place
  <2> QED
    BY <2>1, <2>2 DEF Injection, IsInjective
<1>5. IsFiniteSet(0 .. n - 1) /\ Cardinality(0 .. n - 1) = n
  BY <1>1, FS_Interval
<1>6. place \in Surjection(recs, 0 .. n - 1)
  BY <1>1, <1>4, <1>5, FS_Injection
<1> QED
  BY <1>1, <1>3, <1>6

\* The axis has each record once, in the order of time.
LEMMA AxisIs ==
  ASSUME NEW recs, Sortable(recs)
  PROVE  /\ Axis(recs) \in Seq(recs) /\ Len(Axis(recs)) = Cardinality(recs)
         /\ ToSet(Axis(recs)) = recs
         /\ \A i, j \in 1 .. Len(Axis(recs)) :
              i < j => Axis(recs)[i].rec.stamp < Axis(recs)[j].rec.stamp
<1> DEFINE n == Cardinality(recs)
           place == [a \in recs |-> Cardinality(Before(recs, a))]
           axis == Axis(recs)
<1>1. /\ n \in Nat /\ place \in Surjection(recs, 0 .. n - 1)
      /\ \A a, b \in recs : a.rec.stamp < b.rec.stamp => place[a] < place[b]
  BY PlacesAre
<1>2. axis = [i \in 1 .. n |-> CHOOSE a \in recs : Cardinality(Before(recs, a)) = i - 1]
  BY DEF Axis, Before
<1>3. ASSUME NEW i \in 1 .. n PROVE axis[i] \in recs /\ place[axis[i]] = i - 1
  <2>1. i - 1 \in 0 .. n - 1
    BY <1>1
  <2>2. \E a \in recs : place[a] = i - 1
    <3> HIDE DEF place, n
    <3> QED
      BY <1>1, <2>1 DEF Surjection
  <2>3. \E a \in recs : Cardinality(Before(recs, a)) = i - 1
    BY <2>2
  <2>4. axis[i] = CHOOSE a \in recs : Cardinality(Before(recs, a)) = i - 1
    <3> HIDE DEF axis
    <3> QED
      BY <1>2
  <2>5. axis[i] \in recs /\ Cardinality(Before(recs, axis[i])) = i - 1
    <3> HIDE DEF axis
    <3> QED
      BY <2>3, <2>4
  <2> QED
    BY <2>5
<1>4. \A a \in recs : place[a] \in 0 .. n - 1 /\ a.rec.stamp \in Int
  <2> HIDE DEF place, n
  <2> QED
    BY <1>1 DEF Surjection, Sortable
<1>5. \A a, b \in recs : place[a] = place[b] => a = b
  <2>1. ASSUME NEW a \in recs, NEW b \in recs, a # b PROVE place[a] # place[b]
    <3>1. a.rec.stamp < b.rec.stamp \/ b.rec.stamp < a.rec.stamp
      BY <1>4, <2>1 DEF Sortable
    <3> HIDE DEF place, n
    <3> QED
      BY <1>1, <1>4, <3>1
  <2> QED
    BY <2>1
<1> HIDE DEF axis, place, n
<1>6. axis \in Seq(recs) /\ Len(axis) = n /\ DOMAIN axis = 1 .. n
  BY <1>1, <1>2, <1>3
<1>7. ToSet(axis) = recs
  <2>1. ASSUME NEW a \in recs PROVE \E i \in 1 .. n : axis[i] = a
    <3>1. place[a] + 1 \in 1 .. n /\ (place[a] + 1) - 1 = place[a]
      BY <1>1, <1>4
    <3>2. axis[place[a] + 1] \in recs /\ place[axis[place[a] + 1]] = place[a]
      BY <3>1, <1>3
    <3> QED
      BY <3>1, <3>2, <1>5
  <2> QED
    BY <2>1, <1>3, <1>6 DEF ToSet
<1>8. ASSUME NEW i \in 1 .. n, NEW j \in 1 .. n, i < j
      PROVE  axis[i].rec.stamp < axis[j].rec.stamp
  <2>1. ~(axis[j].rec.stamp < axis[i].rec.stamp) /\ axis[i] # axis[j]
    BY <1>1, <1>3, <1>8
  <2>2. axis[i].rec.stamp # axis[j].rec.stamp
    BY <2>1, <1>3 DEF Sortable
  <2> QED
    BY <2>1, <2>2, <1>3, <1>4
<1> QED
  BY <1>6, <1>7, <1>8 DEF axis, n

-----------------------------------------------------------------------------
(* The samples of a stretch.                                               *)

\* The samples of a record, and of a stretch of them as the catalog adds them up.
Samples(a) == a.rec.end - a.rec.start
Total(stretch) == FoldLeft(LAMBDA sum, k : sum + (k.rec.end - k.rec.start), 0, stretch)

\* The function that FoldLeft() is a value of.
Sums(stretch, n) ==
  CHOOSE f : f = [s \in SUBSET (1 .. n) |->
                    IF s = {} THEN 0 ELSE f[s \ {Max(s)}] + Samples(stretch[Max(s)])]

LEMMA MaxIs ==
  ASSUME NEW n \in Nat, NEW s \in SUBSET (1 .. n), n \in s PROVE Max(s) = n
<1>1. \A y \in s : y \in Int /\ n >= y
  OBVIOUS
<1>2. \A x \in s : (\A y \in s : x >= y) => x = n
  BY <1>1
<1> QED
  BY <1>1, <1>2 DEF Max

LEMMA SumsExist ==
  ASSUME NEW stretch, NEW n \in Nat
  PROVE  Sums(stretch, n) =
           [s \in SUBSET (1 .. n) |->
              IF s = {} THEN 0
              ELSE Sums(stretch, n)[s \ {Max(s)}] + Samples(stretch[Max(s)])]
<1> DEFINE Unfold(f, s) == IF s = {} THEN 0 ELSE f[s \ {Max(s)}] + Samples(stretch[Max(s)])
           Of(f, k) == f = [s \in SUBSET (1 .. k) |-> Unfold(f, s)]
           bad == {k \in 0 .. n : ~\E f : Of(f, k)}
<1>1. bad = {}
  <2> SUFFICES ASSUME bad # {} PROVE FALSE
    OBVIOUS
  <2>1. bad \subseteq Nat
    <3> HIDE DEF Of
    <3> QED
      OBVIOUS
  <2>2. PICK m \in bad : \A k \in bad : <<k, m>> \notin OpToRel(<, Nat)
    <3> HIDE DEF bad
    <3> QED
      BY <2>1, WFMin, NatLessThanWellFounded, Zenon
  <2>3. \A k \in bad : ~(k < m)
    <3> HIDE DEF bad
    <3> QED
      BY <2>1, <2>2, Zenon DEF OpToRel
  <2>4. m \in 0 .. n /\ ~\E f : Of(f, m)
    <3> HIDE DEF Of
    <3> QED
      OBVIOUS
  <2>5. CASE m = 0
    <3> DEFINE f == [s \in SUBSET (1 .. m) |-> 0]
    <3>1. \A s \in SUBSET (1 .. m) : s = {}
      BY <2>5
    <3>2. f = [s \in SUBSET (1 .. m) |-> Unfold(f, s)]
      <4> DEFINE g == [s \in SUBSET (1 .. m) |-> Unfold(f, s)]
      <4>1. \A s \in SUBSET (1 .. m) : f[s] = 0 /\ g[s] = 0
        BY <3>1
      <4> HIDE DEF Unfold
      <4> QED
        BY <4>1, Zenon
    <3> HIDE DEF f, Unfold
    <3>3. Of(f, m)
      BY <3>2
    <3> HIDE DEF Of
    <3> QED
      BY <3>3, <2>4
  <2>6. CASE m # 0
    <3>1. m - 1 \in 0 .. n /\ m - 1 < m /\ m \in Nat
      BY <2>4, <2>6
    <3>2. PICK f : Of(f, m - 1)
      <4> HIDE DEF Of
      <4> QED
        BY <2>3, <3>1
    <3> DEFINE g == [s \in SUBSET (1 .. m) |->
                       IF m \in s THEN f[s \ {m}] + Samples(stretch[m]) ELSE f[s]]
    <3>3. ASSUME NEW s \in SUBSET (1 .. m) PROVE g[s] = Unfold(g, s)
      <4>1. \A u \in SUBSET (1 .. m) : m \notin u => u \in SUBSET (1 .. m - 1) /\ g[u] = f[u]
        BY <3>1
      <4>2. CASE m \in s
        <5>1. Max(s) = m
          BY <3>1, <4>2, MaxIs
        <5>2. g[s] = f[s \ {m}] + Samples(stretch[m])
          BY <4>2
        <5>3. g[s \ {m}] = f[s \ {m}]
          BY <4>1
        <5> HIDE DEF g
        <5> QED
          BY <4>2, <5>1, <5>2, <5>3
      <4>3. CASE m \notin s
        <5>1. s \in SUBSET (1 .. m - 1) /\ g[s] = f[s]
          BY <4>1, <4>3
        <5>2. f[s] = Unfold(f, s)
          <6> HIDE DEF Unfold
          <6> QED
            BY <3>2, <5>1
        <5>3. g[s \ {Max(s)}] = f[s \ {Max(s)}]
          BY <4>1, <4>3
        <5> HIDE DEF g
        <5> QED
          BY <5>1, <5>2, <5>3
      <4> QED
        BY <4>2, <4>3
    <3>4. g = [s \in SUBSET (1 .. m) |-> Unfold(g, s)]
      <4> DEFINE h == [s \in SUBSET (1 .. m) |-> Unfold(g, s)]
      <4>1. g = [s \in SUBSET (1 .. m) |-> g[s]] /\ \A s \in SUBSET (1 .. m) : h[s] = Unfold(g, s)
        BY Zenon
      <4> HIDE DEF g, Unfold
      <4> QED
        BY <3>3, <4>1, Zenon
    <3> HIDE DEF g, Unfold
    <3>5. Of(g, m)
      BY <3>4
    <3> HIDE DEF Of
    <3> QED
      BY <3>5, <2>4
  <2> QED
    BY <2>5, <2>6
<1>2. \E f : Of(f, n)
  <2> HIDE DEF Of
  <2> QED
    BY <1>1
<1> QED
  BY <1>2, Zenon DEF Sums

\* Records that go on from one to the next have as many samples as there are from
\* the first to the end of the last, and the hops that they share.
LEMMA TotalIs ==
  ASSUME NEW T, NEW stretch \in Seq(T), Len(stretch) > 0, Hop \in Int,
         \A a \in T : a.rec.start \in Int /\ a.rec.end \in Int,
         \A k \in 2 .. Len(stretch) : stretch[k].rec.start = stretch[k - 1].rec.end - Hop
  PROVE  stretch[Len(stretch)].rec.end - stretch[1].rec.start
           = Total(stretch) - (Len(stretch) - 1) * Hop
<1> DEFINE n == Len(stretch)
           from(k) == stretch[k].rec.start
           to(k) == stretch[k].rec.end
           sum(k) == Sums(stretch, n)[1 .. k]
           Fine(k) == sum(k) \in Int /\ to(k) - from(1) = sum(k) - (k - 1) * Hop
           bad == {k \in 1 .. n : ~Fine(k)}
<1>1. n \in Nat /\ n > 0 /\ DOMAIN stretch = 1 .. n
  OBVIOUS
<1>2. Total(stretch) = sum(n)
  BY <1>1 DEF Total, FoldLeft, MapThenFoldSet, Sums, Samples
<1>3. ASSUME NEW k \in 1 .. n
      PROVE  from(k) \in Int /\ to(k) \in Int /\ (k > 1 => from(k) = to(k - 1) - Hop)
  <2>1. stretch[k] \in T
    BY <1>1
  <2>2. k > 1 => k \in 2 .. n
    BY <1>1
  <2> QED
    BY <2>1, <2>2
<1>4. sum(0) = 0 /\ \A k \in 1 .. n : sum(k) = sum(k - 1) + (to(k) - from(k))
  <2> DEFINE f == Sums(stretch, n)
  <2>1. f = [s \in SUBSET (1 .. n) |->
               IF s = {} THEN 0 ELSE f[s \ {Max(s)}] + Samples(stretch[Max(s)])]
    BY <1>1, SumsExist
  <2> HIDE DEF f
  <2>2. \A s \in SUBSET (1 .. n) :
          f[s] = IF s = {} THEN 0 ELSE f[s \ {Max(s)}] + Samples(stretch[Max(s)])
    BY <2>1
  <2>3. f[1 .. 0] = 0
    <3>1. 1 .. 0 = {}
      OBVIOUS
    <3> QED
      BY <2>2, <3>1
  <2>4. ASSUME NEW k \in 1 .. n PROVE f[1 .. k] = f[1 .. k - 1] + Samples(stretch[k])
    <3>1. /\ 1 .. k \in SUBSET (1 .. n) /\ k \in 1 .. k /\ k \in Nat
          /\ (1 .. k) \ {k} = 1 .. k - 1
      BY <1>1
    <3>2. Max(1 .. k) = k
      BY <3>1, MaxIs
    <3> QED
      BY <2>2, <3>1, <3>2
  <2> QED
    BY <2>3, <2>4 DEF f, Samples
<1> HIDE DEF n, from, to, sum
<1>5. bad = {}
  <2> SUFFICES ASSUME bad # {} PROVE FALSE
    OBVIOUS
  <2>1. bad \subseteq Nat
    <3> HIDE DEF Fine
    <3> QED
      BY <1>1
  <2>2. PICK m \in bad : \A k \in bad : <<k, m>> \notin OpToRel(<, Nat)
    <3> HIDE DEF bad
    <3> QED
      BY <2>1, WFMin, NatLessThanWellFounded, Zenon
  <2>3. \A k \in bad : ~(k < m)
    <3> HIDE DEF bad
    <3> QED
      BY <2>1, <2>2, Zenon DEF OpToRel
  <2>4. m \in 1 .. n /\ ~Fine(m)
    <3> HIDE DEF Fine
    <3> QED
      OBVIOUS
  <2>5. /\ from(m) \in Int /\ to(m) \in Int /\ (m > 1 => from(m) = to(m - 1) - Hop)
        /\ sum(m) = sum(m - 1) + (to(m) - from(m))
    BY <2>4, <1>3, <1>4
  <2>6. CASE m = 1
    <3>1. sum(m - 1) = 0
      BY <2>6, <1>4
    <3>2. (m - 1) * Hop = 0
      BY <2>6
    <3> QED
      BY <2>4, <2>5, <2>6, <3>1, <3>2
  <2>7. CASE m # 1
    <3>1. m - 1 \in 1 .. n /\ m - 1 < m /\ m > 1 /\ m \in Int
      BY <2>4, <2>7, <1>1
    <3>2. Fine(m - 1)
      <4> HIDE DEF Fine
      <4> QED
        BY <2>3, <3>1
    <3>3. to(m - 1) \in Int /\ from(1) \in Int
      BY <3>1, <1>1, <1>3
    <3> DEFINE less == ((m - 1) - 1) * Hop
               all == (m - 1) * Hop
    <3>4. all = less + Hop /\ less \in Int /\ all \in Int
      BY <3>1
    <3> HIDE DEF less, all
    <3>5. sum(m - 1) \in Int /\ to(m - 1) - from(1) = sum(m - 1) - less
      BY <3>2 DEF less
    <3>6. sum(m) \in Int /\ to(m) - from(1) = sum(m) - all
      <4>1. from(m) = to(m - 1) - Hop /\ sum(m) = sum(m - 1) + (to(m) - from(m))
            /\ to(m) \in Int /\ Hop \in Int
        BY <2>5, <3>1
      <4> HIDE DEF Fine, bad
      <4> QED
        BY <3>3, <3>4, <3>5, <4>1
    <3> QED
      BY <3>6, <2>4 DEF all
  <2> QED
    BY <2>6, <2>7
<1>6. Fine(n)
  <2>1. n \in 1 .. n
    BY <1>1
  <2> HIDE DEF Fine
  <2> QED
    BY <2>1, <1>5
<1> QED
  BY <1>2, <1>6 DEF n, from, to

-----------------------------------------------------------------------------
(* The catalog.                                                            *)

\* What was in the first n files.
HeldBy(n) == UNION {Held(chosen[i]) : i \in 1 .. n}

\* Each record of these files was found once, as all of them have it.
FoundTrue ==
  /\ found \subseteq HeldBy(at) /\ IsFiniteSet(found)
  /\ \A a, b \in found : SameKey(a, b) => a = b
  /\ \A a \in HeldBy(at) : \E b \in found : SameKey(a, b) /\ a.rec = b.rec /\ Signature(a) = Signature(b)
  /\ Cardinality(found) <= MAX_RECORDS

\* The files that were read are as they should be.
FilesTrue == \A i \in 1 .. at : ~File(i).malformed /\ File(i).grid = File(1).grid

\* No two neighbours of the axis overlap.
NoOverlap(axis) == \A i \in 1 .. Len(axis) - 1 : ~Overlap(axis[i], axis[i + 1])

CatalogTrue ==
  result.end = "catalog" =>
    /\ found # {} /\ NoOverlap(result.axis)
    /\ at = Len(chosen) /\ Sortable(found) /\ result.axis = Axis(found)
    /\ result.breaks = [i \in 1 .. Len(result.axis) |->
                          i = 1 \/ Break(result.axis[i - 1], result.axis[i])]

ScanIInv ==
  /\ chosen \in Seq(DOMAIN Files) /\ at \in 0 .. Len(chosen)
  /\ FoundTrue /\ FilesTrue /\ CatalogTrue /\ RefusedForTheSet
  /\ \A i, j \in 1 .. Len(chosen) : chosen[i] = chosen[j] => i = j
  /\ result.end # "catalog" => result.axis = <<>>

LEMMA HeldIs ==
  ASSUME CatalogAssumption, NEW name \in DOMAIN Files
  PROVE  /\ IsFiniteSet(Held(name))
         /\ \A a \in Held(name) : /\ a.file = name /\ a = [file |-> name, rec |-> a.rec]
                                  /\ {a.rec.start, a.rec.end, a.rec.from, a.rec.to, a.rec.stamp}
                                       \subseteq Int
<1> DEFINE lines == ToSet(Files[name].records)
<1>1. IsFiniteSet(lines) /\ \A r \in lines : {r.start, r.end, r.from, r.to, r.stamp} \subseteq Int
  BY DEF CatalogAssumption
<1> HIDE DEF lines
<1>2. Held(name) = {[file |-> name, rec |-> r] : r \in lines}
  BY DEF Held, lines
<1>3. IsFiniteSet({[file |-> name, rec |-> r] : r \in lines})
  <2> DEFINE f == [r \in lines |-> [file |-> name, rec |-> r]]
             T == {[file |-> name, rec |-> r] : r \in lines}
  <2>1. f \in Surjection(lines, T)
    BY DEF Surjection
  <2> HIDE DEF f, T
  <2>2. IsFiniteSet(T)
    BY <1>1, <2>1, FS_Surjection
  <2> QED
    BY <2>2 DEF T
<1> QED
  BY <1>1, <1>2, <1>3

LEMMA AllHeldIs ==
  ASSUME CatalogAssumption, chosen \in Seq(DOMAIN Files), NEW n \in 0 .. Len(chosen)
  PROVE  /\ HeldBy(n) \subseteq AllHeld /\ HeldBy(Len(chosen)) = AllHeld
         /\ n < Len(chosen) => HeldBy(n + 1) = HeldBy(n) \cup Held(chosen[n + 1])
         /\ \A a \in AllHeld : {a.rec.start, a.rec.end, a.rec.from, a.rec.to, a.rec.stamp}
                                 \subseteq Int
<1>1. DOMAIN chosen = 1 .. Len(chosen) /\ \A i \in 1 .. Len(chosen) : chosen[i] \in DOMAIN Files
  OBVIOUS
<1>2. ASSUME NEW a PROVE a \in AllHeld <=> \E i \in 1 .. Len(chosen) : a \in Held(chosen[i])
  BY <1>1 DEF AllHeld, ToSet
<1>3. ASSUME NEW a, NEW m \in Nat
      PROVE  a \in HeldBy(m) <=> \E i \in 1 .. m : a \in Held(chosen[i])
  BY DEF HeldBy
<1>4. HeldBy(n) \subseteq AllHeld /\ HeldBy(Len(chosen)) = AllHeld
  <2>1. n \in Nat /\ Len(chosen) \in Nat /\ \A i \in 1 .. n : i \in 1 .. Len(chosen)
    OBVIOUS
  <2>2. \A a : a \in HeldBy(Len(chosen)) <=> a \in AllHeld
    BY <1>2, <1>3, <2>1
  <2>3. \A a \in HeldBy(n) : a \in AllHeld
    BY <1>2, <1>3, <2>1
  <2> QED
    BY <2>2, <2>3
<1>5. ASSUME n < Len(chosen) PROVE HeldBy(n + 1) = HeldBy(n) \cup Held(chosen[n + 1])
  <2>1. \A i : i \in 1 .. n + 1 <=> i \in 1 .. n \/ i = n + 1
    OBVIOUS
  <2> QED
    BY <1>3, <2>1
<1>6. ASSUME NEW a \in AllHeld
      PROVE  {a.rec.start, a.rec.end, a.rec.from, a.rec.to, a.rec.stamp} \subseteq Int
  BY <1>1, <1>2, HeldIs
<1> QED
  BY <1>4, <1>5, <1>6

LEMMA ScanBegins == ASSUME CatalogAssumption, ScanInit PROVE ScanIInv
<1>1. PICK m \in 0 .. MaxChosen : chosen \in [1 .. m -> DOMAIN Files]
  BY DEF ScanInit, SeqOf
<1>2. chosen \in Seq(DOMAIN Files) /\ Len(chosen) = m /\ m \in Nat
  BY <1>1 DEF CatalogAssumption
<1>3. HeldBy(0) = {}
  BY DEF HeldBy
<1>4. FoundTrue /\ FilesTrue
  BY <1>3, FS_EmptySet DEF ScanInit, FoundTrue, FilesTrue, CatalogAssumption
<1>6. \A i, j \in 1 .. Len(chosen) : chosen[i] = chosen[j] => i = j
  BY <1>2 DEF ScanInit, IsInjective
<1>5. result.end = "running" /\ result.axis = <<>>
  BY DEF ScanInit, Running
<1> QED
  BY <1>2, <1>4, <1>5, <1>6 DEF ScanInit, ScanIInv, CatalogTrue, RefusedForTheSet, Refusals

\* An end that is no catalog.
LEMMA FailKept ==
  ASSUME ScanIInv, NEW how, how # "catalog", Fail(how), how \in Refusals => Reason(how)
  PROVE  ScanIInv'
<1>1. result'.end = how /\ result'.axis = <<>> /\ UNCHANGED <<chosen, at, found>>
  BY DEF Fail, Ended, Running
<1>2. (Reason(how))' <=> Reason(how)
  BY <1>1 DEF Reason, AllHeld, Neighbours
<1>3. FoundTrue' /\ FilesTrue'
  BY <1>1 DEF ScanIInv, FoundTrue, HeldBy, FilesTrue, File
<1>4. CatalogTrue'
  BY <1>1 DEF CatalogTrue
<1>5. RefusedForTheSet'
  BY <1>1, <1>2 DEF RefusedForTheSet
<1> QED
  BY <1>1, <1>3, <1>4, <1>5 DEF ScanIInv

\* The records of another file are taken.
LEMMA TakenIs ==
  ASSUME CatalogAssumption, ScanIInv, at < Len(chosen), ~Conflict(Held(chosen[at + 1])),
         Cardinality(Held(chosen[at + 1])) + Cardinality(found) <= MAX_RECORDS,
         found' = Taken(Held(chosen[at + 1])), at' = at + 1, UNCHANGED chosen
  PROVE  FoundTrue'
<1> DEFINE name == chosen[at + 1]
           new == Held(name)
           had == HeldBy(at)
           fresh == {a \in new : ~\E b \in found : SameKey(a, b)}
<1>1. name \in DOMAIN Files /\ at \in 0 .. Len(chosen)
  <2>1. at + 1 \in 1 .. Len(chosen) /\ chosen \in Seq(DOMAIN Files)
    BY DEF ScanIInv
  <2> QED
    BY <2>1 DEF ScanIInv
<1>2. HeldBy(at)' = had \cup new
  <2>1. HeldBy(at)' = HeldBy(at + 1)
    BY DEF HeldBy
  <2> QED
    BY <1>1, <2>1, AllHeldIs DEF ScanIInv
<1>3. IsFiniteSet(new) /\ \A a \in new : a = [file |-> name, rec |-> a.rec]
  BY <1>1, HeldIs
<1>4. \A a \in new, b \in found \cup new :
        a # b /\ SameKey(a, b) => a.rec = b.rec /\ Signature(a) = Signature(b)
  BY DEF Conflict, Signature
<1>5. /\ found \subseteq had /\ IsFiniteSet(found)
      /\ \A a, b \in found : SameKey(a, b) => a = b
      /\ \A a \in had : \E b \in found : SameKey(a, b) /\ a.rec = b.rec /\ Signature(a) = Signature(b)
  BY DEF ScanIInv, FoundTrue
<1>13. Cardinality(new) + Cardinality(found) <= MAX_RECORDS
  OBVIOUS
<1> HIDE DEF name, new, had
<1>6. found' = found \cup fresh
  BY DEF Taken, new, name
<1>7. \A a, b : (SameKey(a, b))' <=> SameKey(a, b)
  BY DEF SameKey, Key
<1>8. IsFiniteSet(found \cup fresh)
  <2>1. IsFiniteSet(fresh)
    <3>1. fresh \in SUBSET new
      OBVIOUS
    <3> HIDE DEF fresh
    <3> QED
      BY <3>1, <1>3, FS_Subset
  <2> HIDE DEF fresh
  <2> QED
    BY <2>1, <1>5, FS_Union
<1>9. \A a, b : SameKey(a, b) <=> SameKey(b, a)
  BY DEF SameKey
<1>10. ASSUME NEW a \in found \cup fresh, NEW b \in found \cup fresh, SameKey(a, b) PROVE a = b
  <2>1. CASE a \in found /\ b \in found
    BY <2>1, <1>5, <1>10
  <2>2. CASE a \in fresh /\ b \in fresh
    BY <2>2, <1>3, <1>4, <1>10
  <2> QED
    BY <2>1, <2>2, <1>9, <1>10
<1>11. ASSUME NEW a \in had \cup new
       PROVE  \E b \in found \cup fresh : SameKey(a, b) /\ a.rec = b.rec /\ Signature(a) = Signature(b)
  <2>1. CASE a \in had
    BY <2>1, <1>5
  <2>2. CASE a \in new /\ a \in fresh
    <3>1. SameKey(a, a)
      BY DEF SameKey
    <3> QED
      BY <2>2, <3>1
  <2>3. CASE a \in new /\ a \notin fresh
    <3>1. PICK b \in found : SameKey(a, b)
      BY <2>3
    <3>2. a.rec = b.rec /\ Signature(a) = Signature(b)
      <4>1. a = b \/ a # b
        OBVIOUS
      <4> QED
        BY <2>3, <3>1, <4>1, <1>4
    <3> QED
      BY <3>1, <3>2
  <2> QED
    BY <2>1, <2>2, <2>3
<1>12. found \cup fresh \subseteq had \cup new
  BY <1>5
<1>14. Cardinality(found \cup fresh) <= MAX_RECORDS
  <2>1. IsFiniteSet(found \cup new) /\ found \cup fresh \subseteq found \cup new
    BY <1>3, <1>5, FS_Union
  <2> HIDE DEF fresh
  <2>2. Cardinality(found \cup fresh) <= Cardinality(found \cup new)
    BY <2>1, FS_Subset
  <2>3. /\ Cardinality(found \cup new) = Cardinality(found) + Cardinality(new) - Cardinality(found \cap new)
        /\ IsFiniteSet(found \cap new)
    BY <1>3, <1>5, FS_Union, FS_Intersection
  <2>4. /\ Cardinality(found) \in Nat /\ Cardinality(new) \in Nat /\ Cardinality(found \cap new) \in Nat
        /\ Cardinality(found \cup fresh) \in Nat /\ MAX_RECORDS \in Nat
    BY <1>3, <1>5, <1>8, <2>3, FS_CardinalityType DEF CatalogAssumption
  <2> QED
    BY <2>2, <2>3, <2>4, <1>13
<1>15. \A a : Signature(a)' = Signature(a)
  BY DEF Signature
<1> HIDE DEF fresh
<1> QED
  BY <1>2, <1>6, <1>8, <1>10, <1>11, <1>12, <1>14, <1>15, <1>7 DEF FoundTrue

LEMMA ReadKept == ASSUME CatalogAssumption, ScanIInv, ReadFile PROVE ScanIInv'
<1> DEFINE name == chosen[at + 1]
           new == Held(name)
<1>1. /\ chosen \in Seq(DOMAIN Files) /\ at \in 0 .. Len(chosen) /\ at < Len(chosen)
      /\ at \in Nat /\ Len(chosen) \in Nat /\ result = Running
  BY DEF ScanIInv, ReadFile
<1>2. at + 1 \in 1 .. Len(chosen) /\ 1 \in 1 .. Len(chosen) /\ DOMAIN chosen = 1 .. Len(chosen)
  BY <1>1
<1>3. found \subseteq AllHeld /\ new \subseteq AllHeld
  <2> HIDE DEF new
  <2>1. at \in 0 .. Len(chosen) /\ at + 1 \in 0 .. Len(chosen)
    BY <1>1
  <2>2. chosen \in Seq(DOMAIN Files)
    BY <1>1
  <2>3. \A n \in 0 .. Len(chosen) : HeldBy(n) \subseteq AllHeld
    BY <2>2, AllHeldIs, Zenon
  <2>4. HeldBy(at + 1) = HeldBy(at) \cup new
    BY <1>1, AllHeldIs DEF new
  <2> QED
    BY <2>1, <2>3, <2>4 DEF ScanIInv, FoundTrue
<1>4. CASE Fail("grid") /\ Files[name].grid # File(1).grid
  <2>1. name \in ToSet(chosen) /\ chosen[1] \in ToSet(chosen)
    BY <1>2 DEF ToSet
  <2>2. Reason("grid")
    BY <2>1, <1>4 DEF File, Reason
  <2> QED
    BY <2>2, <1>4, FailKept
<1>5. CASE Fail("conflict") /\ Conflict(new)
  <2>1. PICK a \in new, b \in found \cup new :
          SameKey(a, b) /\ (Files[a.file].signature # Files[b.file].signature \/ a.rec # b.rec)
    BY <1>5 DEF Conflict
  <2>2. a \in AllHeld /\ b \in AllHeld /\ SameKey(a, b)
        /\ <<Signature(a), a.rec>> # <<Signature(b), b.rec>>
    BY <2>1, <1>3 DEF Signature
  <2>3. Reason("conflict")
    BY <2>2 DEF Reason
  <2> HIDE DEF new
  <2> QED
    BY <2>3, <1>5, FailKept
<1>6. CASE Fail("malformed") /\ Files[name].malformed
  <2>1. name \in ToSet(chosen)
    BY <1>2 DEF ToSet
  <2>2. Reason("malformed")
    BY <2>1, <1>6 DEF Reason
  <2> QED
    BY <2>2, <1>6, FailKept
<1>8. CASE Fail("limit") /\ Cardinality(new) + Cardinality(found) > MAX_RECORDS
  <2>1. name \in DOMAIN Files
    BY <1>1, <1>2
  <2>2. IsFiniteSet(new) /\ \A a \in new : a.file = name
    BY <2>1, HeldIs
  <2>3. IsFiniteSet(found) /\ \A a \in found : a.file # name
    <3>1. IsFiniteSet(found) /\ found \subseteq HeldBy(at)
      BY DEF ScanIInv, FoundTrue
    <3>2. ASSUME NEW a \in found PROVE a.file # name
      <4>1. PICK i \in 1 .. at : a \in Held(chosen[i])
        BY <3>1 DEF HeldBy
      <4>2. i \in 1 .. Len(chosen) /\ i # at + 1
        BY <1>1
      <4>3. chosen[i] \in DOMAIN Files /\ chosen[i] # name
        BY <1>1, <1>2, <4>2 DEF ScanIInv
      <4> QED
        BY <4>1, <4>3, HeldIs
    <3> QED
      BY <3>1, <3>2
  <2> HIDE DEF new, name
  <2>4. found \cap new = {}
    BY <2>2, <2>3
  <2>5. Cardinality(found \cup new) = Cardinality(found) + Cardinality(new)
    <3>1. /\ Cardinality(found \cup new) =
             Cardinality(found) + Cardinality(new) - Cardinality(found \cap new)
          /\ Cardinality(found \cap new) = 0
          /\ Cardinality(found) \in Nat /\ Cardinality(new) \in Nat
      BY <2>2, <2>3, <2>4, FS_Union, FS_EmptySet, FS_CardinalityType
    <3> QED
      BY <3>1
  <2>6. IsFiniteSet(AllHeld)
    <3>1. DOMAIN chosen = 1 .. Len(chosen) /\ \A i \in 1 .. Len(chosen) : chosen[i] \in DOMAIN Files
      BY <1>1
    <3> DEFINE all == {Held(n) : n \in ToSet(chosen)}
               f == [i \in 1 .. Len(chosen) |-> Held(chosen[i])]
    <3>2. f \in Surjection(1 .. Len(chosen), all)
      BY <3>1 DEF Surjection, ToSet
    <3>3. \A T \in all : IsFiniteSet(T)
      BY <3>1, HeldIs DEF ToSet
    <3>4. AllHeld = UNION all
      BY DEF AllHeld
    <3>5. IsFiniteSet(1 .. Len(chosen))
      BY <1>1, FS_Interval
    <3> HIDE DEF all, f
    <3>6. IsFiniteSet(all)
      BY <3>2, <3>5, FS_Surjection
    <3> QED
      BY <3>3, <3>4, <3>6, FS_UNION
  <2>7. Cardinality(found \cup new) <= Cardinality(AllHeld) /\ Cardinality(AllHeld) \in Nat
    <3>1. found \cup new \subseteq AllHeld
      BY <1>3
    <3> QED
      BY <2>6, <3>1, FS_Subset, FS_CardinalityType
  <2>8. Reason("limit")
    <3>1. /\ Cardinality(found) \in Nat /\ Cardinality(new) \in Nat /\ MAX_RECORDS \in Nat
      BY <2>2, <2>3, FS_CardinalityType DEF CatalogAssumption
    <3>2. Cardinality(AllHeld) > MAX_RECORDS
      BY <1>8, <2>5, <2>7, <3>1
    <3> QED
      BY <3>2 DEF Reason
  <2> QED
    BY <2>8, <1>8, FailKept
<1>7. CASE /\ ~Conflict(new) /\ found' = Taken(new) /\ at' = at + 1 /\ UNCHANGED <<chosen, result>>
           /\ ~Files[name].malformed /\ Files[name].grid = File(1).grid
           /\ Cardinality(new) + Cardinality(found) <= MAX_RECORDS
  <2>1. FoundTrue'
    BY <1>1, <1>7, TakenIs
  <2>2. at' \in 0 .. Len(chosen')
    BY <1>1, <1>7
  <2>3. result'.end = "running" /\ result'.axis = <<>>
    BY <1>1, <1>7 DEF Running
  <2>4. FilesTrue'
    <3>1. \A i \in 1 .. at + 1 : i \in 1 .. at \/ i = at + 1
      BY <1>1
    <3>2. \A i : File(i)' = File(i)
      BY <1>7 DEF File
    <3>3. ~File(at + 1).malformed /\ File(at + 1).grid = File(1).grid
      BY <1>7 DEF File
    <3> QED
      BY <1>7, <3>1, <3>2, <3>3 DEF ScanIInv, FilesTrue
  <2> QED
    BY <1>1, <1>7, <2>1, <2>2, <2>3, <2>4 DEF ScanIInv, CatalogTrue, RefusedForTheSet, Refusals
<1> QED
  BY <1>4, <1>5, <1>6, <1>7, <1>8 DEF ReadFile

\* Overlap and its neighbours see of a record no more than what it holds.
LEMMA OverlapOf ==
  ASSUME NEW a, NEW b, NEW c, NEW d, a.rec = c.rec, Signature(a) = Signature(c),
         b.rec = d.rec, Signature(b) = Signature(d), Overlap(a, b)
  PROVE  Overlap(c, d)
BY DEF Overlap, Contiguous, GapBetween

\* Every record of the files is found as it is, when all were read.
LEMMA AllFound ==
  ASSUME CatalogAssumption, ScanIInv, at = Len(chosen)
  PROVE  /\ found \subseteq AllHeld
         /\ \A a \in AllHeld : a.rec.stamp \in Int
         /\ \A a \in AllHeld :
              \E b \in found : SameKey(a, b) /\ a.rec = b.rec /\ Signature(a) = Signature(b)
<1>1. chosen \in Seq(DOMAIN Files) /\ Len(chosen) \in 0 .. Len(chosen)
  BY DEF ScanIInv
<1>2. HeldBy(at) = AllHeld /\ \A a \in AllHeld : a.rec.stamp \in Int
  BY <1>1, AllHeldIs
<1> QED
  BY <1>2 DEF ScanIInv, FoundTrue

LEMMA FinishKept == ASSUME CatalogAssumption, ScanIInv, FinishScan PROVE ScanIInv'
<1>1. /\ chosen \in Seq(DOMAIN Files) /\ at \in 0 .. Len(chosen) /\ result = Running
      /\ at = Len(chosen)
  BY DEF ScanIInv, FinishScan
<1>2. /\ found \subseteq AllHeld
      /\ \A a \in AllHeld : a.rec.stamp \in Int
      /\ \A a \in AllHeld :
           \E b \in found : SameKey(a, b) /\ a.rec = b.rec /\ Signature(a) = Signature(b)
  BY <1>1, AllFound
<1>6. ~(\E a, b \in found : a # b /\ a.rec.stamp = b.rec.stamp) => Sortable(found)
  BY <1>2 DEF Sortable, ScanIInv, FoundTrue
<1>3. CASE Fail("stamps") /\ \E a, b \in found : a # b /\ a.rec.stamp = b.rec.stamp
  <2>1. PICK a \in found, b \in found : a # b /\ a.rec.stamp = b.rec.stamp
    BY <1>3
  <2>2. ~SameKey(a, b)
    BY <2>1 DEF ScanIInv, FoundTrue
  <2>3. Reason("stamps")
    BY <2>1, <2>2, <1>2 DEF Reason
  <2> QED
    BY <2>3, <1>3, FailKept
<1>4. CASE Fail("empty") /\ found = {}
  <2>1. Reason("empty")
    BY <1>2, <1>4 DEF Reason
  <2> QED
    BY <2>1, <1>4, FailKept
<1>7. CASE /\ Fail("overlap") /\ \E p \in Pairs(Axis(found)) : Overlap(p[1], p[2])
           /\ ~\E a, b \in found : a # b /\ a.rec.stamp = b.rec.stamp
  <2> DEFINE axis == Axis(found)
  <2>1. PICK i \in 1 .. Len(axis) - 1 : Overlap(axis[i], axis[i + 1])
    BY <1>7 DEF Pairs
  <2>2. /\ axis \in Seq(found) /\ ToSet(axis) = found
        /\ \A k, m \in 1 .. Len(axis) : k < m => axis[k].rec.stamp < axis[m].rec.stamp
    BY <1>6, <1>7, AxisIs
  <2> HIDE DEF axis
  <2>3. /\ Len(axis) \in Nat /\ i \in 1 .. Len(axis) /\ i + 1 \in 1 .. Len(axis) /\ i \in Nat
    BY <2>2
  <2>4. axis[i] \in found /\ axis[i + 1] \in found
    BY <2>2, <2>3
  <2>5. Neighbours(axis[i], axis[i + 1])
    <3>1. axis[i].rec.stamp < axis[i + 1].rec.stamp
      BY <2>2, <2>3
    <3>2. ASSUME NEW c \in AllHeld, axis[i].rec.stamp < c.rec.stamp,
                 c.rec.stamp < axis[i + 1].rec.stamp
          PROVE  FALSE
      <4>1. PICK d \in found : c.rec = d.rec
        BY <1>2
      <4>2. PICK k \in 1 .. Len(axis) : d = axis[k]
        BY <2>2 DEF ToSet
      <4>3. k \in Nat /\ axis[k].rec.stamp = c.rec.stamp
        BY <2>3, <4>1, <4>2
      <4>4. axis[k].rec.stamp \in Int /\ axis[i].rec.stamp \in Int /\ axis[i + 1].rec.stamp \in Int
        BY <1>2, <2>4, <4>2
      <4>5. ~(k < i) /\ k # i
        BY <2>2, <2>3, <3>2, <4>3, <4>4
      <4>6. ~(i + 1 < k) /\ k # i + 1
        BY <2>2, <2>3, <3>2, <4>3, <4>4
      <4> QED
        BY <2>3, <4>3, <4>5, <4>6
    <3> QED
      BY <3>1, <3>2 DEF Neighbours
  <2>6. Reason("overlap")
    BY <1>2, <2>1, <2>4, <2>5 DEF Reason
  <2> QED
    BY <2>6, <1>7, FailKept
<1>5. CASE /\ ~\E a, b \in found : a # b /\ a.rec.stamp = b.rec.stamp
           /\ found # {} /\ ~\E p \in Pairs(Axis(found)) : Overlap(p[1], p[2])
           /\ result' = [end |-> "catalog", axis |-> Axis(found),
                         breaks |-> [i \in 1 .. Len(Axis(found)) |->
                                       i = 1 \/ Break(Axis(found)[i - 1], Axis(found)[i])]]
           /\ UNCHANGED <<chosen, at, found>>
  <2>1. Sortable(found)
    BY <1>5, <1>6
  <2>2. /\ result'.end = "catalog" /\ result'.axis = Axis(found)
        /\ result'.breaks = [i \in 1 .. Len(Axis(found)) |->
                               i = 1 \/ Break(Axis(found)[i - 1], Axis(found)[i])]
    BY <1>5
  <2>3. Axis(found') = Axis(found) /\ Sortable(found')
    BY <1>5, <2>1
  <2>6. NoOverlap(Axis(found))
    <3> DEFINE axis == Axis(found)
    <3>1. ~\E p \in Pairs(axis) : Overlap(p[1], p[2])
      BY <1>5
    <3> HIDE DEF axis
    <3>2. ASSUME NEW i \in 1 .. Len(axis) - 1 PROVE ~Overlap(axis[i], axis[i + 1])
      <4> DEFINE p == <<axis[i], axis[i + 1]>>
      <4>1. p \in Pairs(axis)
        BY DEF Pairs
      <4>2. p[1] = axis[i] /\ p[2] = axis[i + 1]
        OBVIOUS
      <4> HIDE DEF p
      <4> QED
        BY <3>1, <4>1, <4>2
    <3>3. NoOverlap(axis)
      BY <3>2 DEF NoOverlap
    <3> QED
      BY <3>3 DEF axis
  <2>7. NoOverlap(result'.axis)
    BY <2>2, <2>6
  <2>4. CatalogTrue'
    <3>1. NoOverlap(result.axis)'
      BY <2>7 DEF NoOverlap, Overlap, Signature, Contiguous, GapBetween
    <3> QED
      BY <1>1, <1>5, <2>2, <2>3, <3>1 DEF CatalogTrue
  <2>8. UNCHANGED <<chosen, at, found>>
    BY <1>5
  <2>9. FoundTrue'
    BY <2>8 DEF ScanIInv, FoundTrue, HeldBy, SameKey, Key, Signature
  <2>10. FilesTrue'
    BY <2>8 DEF ScanIInv, FilesTrue, File
  <2> QED
    BY <1>1, <1>5, <2>2, <2>4, <2>9, <2>10 DEF ScanIInv, RefusedForTheSet, Refusals
<1> QED
  BY <1>3, <1>4, <1>5, <1>7 DEF FinishScan

LEMMA ScanKept == ASSUME CatalogAssumption, ScanIInv, [ScanNext]_scanVars PROVE ScanIInv'
<1>1. CASE UNCHANGED scanVars
  <2>1. UNCHANGED <<chosen, at, found, result>>
    BY <1>1 DEF scanVars
  <2>2. FoundTrue' /\ FilesTrue'
    BY <2>1 DEF ScanIInv, FoundTrue, HeldBy, FilesTrue, File
  <2>3. RefusedForTheSet'
    BY <2>1 DEF ScanIInv, RefusedForTheSet, Reason, Neighbours, AllHeld
  <2>4. CatalogTrue'
    BY <2>1 DEF ScanIInv, CatalogTrue, NoOverlap
  <2> QED
    BY <2>1, <2>2, <2>3, <2>4 DEF ScanIInv
<1>2. CASE ReadFile
  BY <1>2, ReadKept
<1>3. CASE CancelScan
  BY <1>3, FailKept DEF CancelScan, Refusals
<1>4. CASE FinishScan
  BY <1>4, FinishKept
<1> QED
  BY <1>1, <1>2, <1>3, <1>4 DEF ScanNext, Scanned

LEMMA WholeIs ==
  ASSUME CatalogAssumption, ScanIInv, result.end = "catalog" PROVE CatalogIsWhole
<1>1. /\ result.axis = Axis(found) /\ Sortable(found) /\ at = Len(chosen)
      /\ chosen \in Seq(DOMAIN Files)
  BY DEF ScanIInv, CatalogTrue
<1>2. /\ Len(result.axis) = Cardinality(found) /\ ToSet(result.axis) = found
      /\ \A i, j \in 1 .. Len(result.axis) :
           i < j => result.axis[i].rec.stamp < result.axis[j].rec.stamp
  BY <1>1, AxisIs
<1>3. HeldBy(at) = AllHeld
  BY <1>1, AllHeldIs DEF ScanIInv
<1>4. /\ found \subseteq AllHeld /\ IsFiniteSet(found)
      /\ \A a, b \in found : Key(a.file, a.rec) = Key(b.file, b.rec) => a = b
      /\ \A a \in AllHeld : \E b \in found : Key(a.file, a.rec) = Key(b.file, b.rec)
                                           /\ a.rec = b.rec
  BY <1>3 DEF ScanIInv, FoundTrue, SameKey
<1>5. Distinct(AllHeld) = Distinct(found)
  <2>1. ASSUME NEW x \in Distinct(AllHeld) PROVE x \in Distinct(found)
    BY <1>4 DEF Distinct
  <2>2. ASSUME NEW x \in Distinct(found) PROVE x \in Distinct(AllHeld)
    BY <1>4 DEF Distinct
  <2> QED
    BY <2>1, <2>2
<1>6. Cardinality({Key(a.file, a.rec) : a \in AllHeld}) = Cardinality(found)
  <2> DEFINE keys == {Key(a.file, a.rec) : a \in AllHeld}
             f == [a \in found |-> Key(a.file, a.rec)]
  <2>1. f \in [found -> keys]
    BY <1>4
  <2>2. \A k \in keys : \E a \in found : f[a] = k
    BY <1>4
  <2>3. \A a, b \in found : f[a] = f[b] => a = b
    BY <1>4
  <2> HIDE DEF f, keys
  <2>4. ExistsBijection(found, keys)
    BY <2>1, <2>2, <2>3 DEF ExistsBijection, Bijection, Injection, IsInjective, Surjection
  <2>5. Cardinality(keys) = Cardinality(found)
    BY <1>4, <2>4, FS_Bijection
  <2> QED
    BY <2>5 DEF keys
<1> QED
  BY <1>2, <1>5, <1>6 DEF CatalogIsWhole

\* What has a catalog could not be refused, but for the limit.
LEMMA AcceptedIs ==
  ASSUME CatalogAssumption, ScanIInv, result.end = "catalog" PROVE AcceptedForTheSet
<1> DEFINE axis == result.axis
<1>1. /\ axis = Axis(found) /\ Sortable(found) /\ at = Len(chosen) /\ found # {} /\ NoOverlap(axis)
  BY DEF ScanIInv, CatalogTrue
<1>2. /\ found \subseteq AllHeld
      /\ \A a \in AllHeld : a.rec.stamp \in Int
      /\ \A a \in AllHeld :
           \E b \in found : SameKey(a, b) /\ a.rec = b.rec /\ Signature(a) = Signature(b)
  BY <1>1, AllFound
<1>3. /\ axis \in Seq(found) /\ ToSet(axis) = found /\ Len(axis) = Cardinality(found)
      /\ \A k, m \in 1 .. Len(axis) : k < m => axis[k].rec.stamp < axis[m].rec.stamp
  BY <1>1, AxisIs
<1> HIDE DEF axis
<1>4. Len(axis) <= MAX_RECORDS /\ \A a, b \in found : SameKey(a, b) => a = b
  BY <1>3 DEF ScanIInv, FoundTrue
<1>5. ~Reason("malformed") /\ ~Reason("grid")
  <2>1. \A n \in ToSet(chosen) : \E i \in 1 .. at : n = chosen[i]
    BY <1>1 DEF ScanIInv, ToSet
  <2>2. \A n \in ToSet(chosen) : ~Files[n].malformed /\ Files[n].grid = File(1).grid
    BY <2>1 DEF ScanIInv, FilesTrue, File
  <2> QED
    BY <2>2 DEF Reason
<1>6. ~Reason("empty")
  BY <1>1, <1>2 DEF Reason
<1>7. ~Reason("conflict")
  <2>1. ASSUME NEW a \in AllHeld, NEW b \in AllHeld, SameKey(a, b)
        PROVE  Signature(a) = Signature(b) /\ a.rec = b.rec
    <3>1. PICK c \in found : SameKey(a, c) /\ a.rec = c.rec /\ Signature(a) = Signature(c)
      BY <1>2
    <3>2. PICK d \in found : SameKey(b, d) /\ b.rec = d.rec /\ Signature(b) = Signature(d)
      BY <1>2
    <3>3. SameKey(c, d)
      BY <2>1, <3>1, <3>2 DEF SameKey
    <3> QED
      BY <1>4, <3>1, <3>2, <3>3
  <2> QED
    BY <2>1 DEF Reason
<1>8. ~Reason("stamps")
  <2>1. ASSUME NEW a \in AllHeld, NEW b \in AllHeld, ~SameKey(a, b) PROVE a.rec.stamp # b.rec.stamp
    <3>1. PICK c \in found : SameKey(a, c) /\ a.rec = c.rec
      BY <1>2
    <3>2. PICK d \in found : SameKey(b, d) /\ b.rec = d.rec
      BY <1>2
    <3>3. c # d
      BY <2>1, <3>1, <3>2 DEF SameKey
    <3> QED
      BY <1>1, <3>1, <3>2, <3>3 DEF Sortable
  <2> QED
    BY <2>1 DEF Reason
<1>9. ~Reason("overlap")
  <2>1. ASSUME NEW a \in AllHeld, NEW b \in AllHeld, Neighbours(a, b), Overlap(a, b) PROVE FALSE
    <3>1. PICK c \in found : a.rec = c.rec /\ Signature(a) = Signature(c)
      BY <1>2
    <3>2. PICK d \in found : b.rec = d.rec /\ Signature(b) = Signature(d)
      BY <1>2
    <3>3. PICK i \in 1 .. Len(axis) : c = axis[i]
      BY <1>3 DEF ToSet
    <3>4. PICK j \in 1 .. Len(axis) : d = axis[j]
      BY <1>3 DEF ToSet
    <3>5. /\ Len(axis) \in Nat /\ \A k \in 1 .. Len(axis) : axis[k] \in found
      BY <1>3
    <3>6. axis[i].rec.stamp < axis[j].rec.stamp /\ axis[i].rec.stamp \in Int /\ axis[j].rec.stamp \in Int
      BY <1>2, <2>1, <3>1, <3>2, <3>3, <3>4 DEF Neighbours
    <3>7. i < j
      BY <1>3, <3>5, <3>6
    <3>8. j = i + 1
      <4> SUFFICES ASSUME i + 1 < j PROVE FALSE
        BY <3>5, <3>7
      <4>1. i + 1 \in 1 .. Len(axis) /\ i < i + 1 /\ axis[i + 1] \in AllHeld
        BY <1>2, <3>5
      <4>2. axis[i].rec.stamp < axis[i + 1].rec.stamp /\ axis[i + 1].rec.stamp < axis[j].rec.stamp
        BY <1>3, <4>1
      <4> QED
        BY <2>1, <3>1, <3>2, <3>3, <3>4, <4>1, <4>2 DEF Neighbours
    <3>9. ~Overlap(axis[i], axis[i + 1])
      BY <1>1, <3>5, <3>8 DEF NoOverlap
    <3>10. Overlap(c, d)
      BY <2>1, <3>1, <3>2, OverlapOf
    <3> QED
      BY <3>3, <3>4, <3>8, <3>9, <3>10
  <2> QED
    BY <2>1 DEF Reason
<1> QED
  BY <1>4, <1>5, <1>6, <1>7, <1>8, <1>9 DEF AcceptedForTheSet, Refusals, axis

LEMMA AlikeAll ==
  ASSUME NEW f, NEW n \in Nat, n > 0, \A k \in 2 .. n : f[k] = f[k - 1] PROVE f[n] = f[1]
<1> DEFINE bad == {k \in 1 .. n : f[k] # f[1]}
<1>1. bad = {}
  <2> SUFFICES ASSUME bad # {} PROVE FALSE
    OBVIOUS
  <2>1. bad \subseteq Nat
    OBVIOUS
  <2>2. PICK m \in bad : \A k \in bad : <<k, m>> \notin OpToRel(<, Nat)
    <3> HIDE DEF bad
    <3> QED
      BY <2>1, WFMin, NatLessThanWellFounded, Zenon
  <2>3. \A k \in bad : ~(k < m)
    <3> HIDE DEF bad
    <3> QED
      BY <2>1, <2>2, Zenon DEF OpToRel
  <2>4. m \in 2 .. n /\ f[m] # f[1]
    OBVIOUS
  <2>5. f[m - 1] # f[1] /\ m - 1 \in 1 .. n /\ m - 1 < m
    BY <2>4
  <2> QED
    BY <2>3, <2>5
<1>2. n \in 1 .. n
  OBVIOUS
<1> QED
  BY <1>1, <1>2

LEMMA StretchIsWhole ==
  ASSUME CatalogAssumption, ScanIInv, result.end = "catalog",
         NEW i \in 1 .. Len(result.axis), NEW j \in 1 .. Len(result.axis), i <= j,
         \A k \in (i + 1) .. j : ~result.breaks[k]
  PROVE  LET a == result.axis[i]
             b == result.axis[j]
             between == Total(SubSeq(result.axis, i, j))
         IN  Signature(a) = Signature(b) /\ b.rec.end - a.rec.start = between - (j - i) * Hop
<1> DEFINE axis == result.axis
           s == SubSeq(axis, i, j)
           n == (j - i) + 1
<1>1. /\ axis \in Seq(found) /\ found \subseteq AllHeld
      /\ \A a \in found : a.rec.start \in Int /\ a.rec.end \in Int
  <2>1. axis = Axis(found) /\ Sortable(found) /\ chosen \in Seq(DOMAIN Files)
        /\ at \in 0 .. Len(chosen) /\ found \subseteq HeldBy(at)
    BY DEF ScanIInv, CatalogTrue, FoundTrue
  <2>2. /\ HeldBy(at) \subseteq AllHeld
        /\ \A a \in AllHeld : a.rec.start \in Int /\ a.rec.end \in Int
    BY <2>1, AllHeldIs
  <2>3. Axis(found) \in Seq(found)
    BY <2>1, AxisIs
  <2> QED
    BY <2>1, <2>2, <2>3
<1>2. \A k \in 2 .. Len(axis) : ~result.breaks[k] => ~Break(axis[k - 1], axis[k])
  <2>1. result.breaks = [k \in 1 .. Len(axis) |-> k = 1 \/ Break(axis[k - 1], axis[k])]
    BY DEF ScanIInv, CatalogTrue
  <2> HIDE DEF axis
  <2>2. \A k \in 2 .. Len(axis) : k \in 1 .. Len(axis) /\ k # 1
    <3>1. Len(axis) \in Nat
      BY <1>1
    <3> QED
      BY <3>1
  <2>3. \A k \in 1 .. Len(axis) : result.breaks[k] <=> (k = 1 \/ Break(axis[k - 1], axis[k]))
    BY <2>1, Zenon
  <2> QED
    BY <2>2, <2>3
<1> HIDE DEF axis
<1>3. /\ i \in 1 .. Len(axis) /\ j \in 1 .. Len(axis) /\ i <= j /\ Len(axis) \in Nat
      /\ \A k \in (i + 1) .. j : ~result.breaks[k]
  BY <1>1 DEF axis
<1>4. n \in Nat /\ n > 0 /\ i \in Int /\ j \in Int
  BY <1>3
<1>5. /\ s \in Seq(found) /\ Len(s) = n
      /\ \A m \in 1 .. n : s[m] = axis[(i + m) - 1]
  BY <1>1, <1>3
<1> HIDE DEF s
<1>6. ASSUME NEW k \in 2 .. n
      PROVE  s[k].rec.start = s[k - 1].rec.end - Hop /\ Signature(s[k]) = Signature(s[k - 1])
  <2>1. /\ (i + k) - 1 \in 2 .. Len(axis) /\ (i + k) - 1 \in (i + 1) .. j
        /\ k \in 1 .. n /\ k - 1 \in 1 .. n /\ (i + (k - 1)) - 1 = ((i + k) - 1) - 1
    BY <1>3, <1>4
  <2>2. ~Break(axis[((i + k) - 1) - 1], axis[(i + k) - 1])
    BY <2>1, <1>2, <1>3
  <2>3. ~Break(s[k - 1], s[k])
    BY <2>1, <2>2, <1>5
  <2> QED
    BY <2>3 DEF Break, Contiguous
<1>7. s[1] = axis[i] /\ s[n] = axis[j]
  <2>1. 1 \in 1 .. n /\ n \in 1 .. n /\ (i + 1) - 1 = i /\ (i + n) - 1 = j
    BY <1>4
  <2> HIDE DEF n
  <2> QED
    BY <2>1, <1>5
<1>8. Signature(s[n]) = Signature(s[1])
  <2> DEFINE f == [k \in 1 .. n |-> Signature(s[k])]
  <2>1. \A k \in 1 .. n : f[k] = Signature(s[k])
    OBVIOUS
  <2>2. \A k \in 2 .. n : f[k] = f[k - 1]
    <3>1. \A k \in 2 .. n : k \in 1 .. n /\ k - 1 \in 1 .. n
      BY <1>4
    <3> HIDE DEF f, n
    <3> QED
      BY <2>1, <3>1, <1>6
  <2> HIDE DEF f, n
  <2>3. f[n] = f[1]
    BY <2>2, <1>4, AlikeAll
  <2>4. n \in 1 .. n /\ 1 \in 1 .. n
    BY <1>4
  <2> QED
    BY <2>1, <2>3, <2>4
<1>9. s[n].rec.end - s[1].rec.start = Total(s) - (n - 1) * Hop
  <2>1. Hop \in Int
    BY DEF CatalogAssumption
  <2> HIDE DEF n
  <2> QED
    BY <2>1, <1>1, <1>4, <1>5, <1>6, TotalIs
<1>10. n - 1 = j - i
  BY <1>3
<1> HIDE DEF n
<1> QED
  BY <1>7, <1>8, <1>9, <1>10 DEF s, axis

LEMMA StretchesTrue ==
  ASSUME CatalogAssumption, ScanIInv PROVE StretchesAreWhole
<1>1. CASE result.end = "catalog"
  BY <1>1, StretchIsWhole DEF StretchesAreWhole, Total
<1>2. CASE result.end # "catalog"
  <2>1. Len(result.axis) = 0
    BY <1>2 DEF ScanIInv
  <2>2. 1 .. Len(result.axis) = {}
    BY <2>1
  <2> QED
    BY <2>2, Zenon DEF StretchesAreWhole
<1> QED
  BY <1>1, <1>2

\* CatalogIsOfTheSet: for any files and in whatever order they were chosen, a
\* catalog has each record once, as all files have it, in the order of time; what
\* they are refused for is so of their set, and only the limit, which counts
\* duplicates, may refuse in one order what has a catalog in another; and a
\* stretch without a break has as many samples as lie between its ends, of one
\* session.  (offline_h5.py Catalog.__init__())
THEOREM CatalogStaysOfTheSet ==
  ASSUME CatalogAssumption PROVE ScanSpec => []CatalogIsOfTheSet
<1>1. ScanInit => ScanIInv
  BY ScanBegins
<1>2. ScanIInv /\ [ScanNext]_scanVars => ScanIInv'
  BY ScanKept
<1>3. ScanIInv => CatalogIsOfTheSet
  <2> SUFFICES ASSUME ScanIInv PROVE CatalogIsOfTheSet
    OBVIOUS
  <2>1. CatalogIsWhole
    BY WholeIs DEF CatalogIsWhole
  <2>2. RefusedForTheSet /\ AcceptedForTheSet
    BY AcceptedIs DEF ScanIInv, AcceptedForTheSet
  <2> QED
    BY <2>1, <2>2, StretchesTrue DEF CatalogIsOfTheSet
<1> QED
  BY <1>1, <1>2, <1>3, PTL DEF ScanSpec

=============================================================================
