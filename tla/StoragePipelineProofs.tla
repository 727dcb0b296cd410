----------------------- MODULE StoragePipelineProofs -----------------------
(***************************************************************************)
(* StoragePipeline for every size, policy and bound: its types, whole rows,*)
(* and what the ledger, the disk and the lock say of an artifact; then the *)
(* order of frames through queue, window, row, batch and files, and what   *)
(* is counted.                                                             *)
(*                                                                         *)
(* The inductive invariant adds what the place of the worker tells about   *)
(* the file it holds (ArtifactInv), and that the window ends where the     *)
(* aggregator last was (RowInv).  On top of it, OrderInv says that each    *)
(* place holds later frames than the next; GapInv that two rows in a row,  *)
(* wherever the second still is, join or say that they do not; CountInv    *)
(* that what is dropped is counted; LossInv that a worker that lives and   *)
(* has given up nothing has all that it took.                              *)
(***************************************************************************)
EXTENDS StoragePipeline, FiniteSetTheorems, TLAPS

Window == [first : Nat, last : Nat, gap : BOOLEAN, day : Nat, endDay : Nat, count : Nat]

\* TypeOK, one variable at a time.
ProducerType ==
  /\ frame \in Nat /\ lastFrame \in Nat /\ segment \in Nat /\ day \in Nat
  /\ ppc \in {"idle", "push"} /\ stopping \in BOOLEAN /\ submitted \subseteq Nat
SharedType == queue \in Seq(Record) /\ state \in States /\ dropped \in Nat
AggregatorType ==
  /\ window \in Window /\ prev \in [frame : Nat, seg : Nat]
  /\ discarded \in Nat /\ kept \subseteq Nat
FileType ==
  /\ writer \in BOOLEAN /\ grant \in BOOLEAN /\ owner \in BOOLEAN
  /\ batch \in Seq(Row) /\ files \in Seq(Artifact)
WorkerType ==
  /\ wpc \in Places /\ after \in {"space", "lowdisk", "exit"}
  /\ finishing \in BOOLEAN /\ out \in Row
ErrorsType ==
  /\ outputDropped \in Nat /\ ioFailures \in Nat /\ pausedDay \in Nat
  /\ cause \in {"io", "quota"}
WorldType == disk \in 0 .. 2 /\ today \in Nat /\ events \in Nat

TypeInv == ProducerType /\ SharedType /\ AggregatorType /\ FileType /\ WorkerType
           /\ ErrorsType /\ WorldType

\* The ledger, the lock and the writer, by the place of the worker.
ArtifactInv ==
  /\ wpc # "dead" => \A i \in 1 .. Len(files) :
                        files[i].ledger = "WRITING" => grant /\ i = Len(files)
  /\ grant => Len(files) > 0 /\ files[Len(files)].ledger = "WRITING"
  /\ grant /\ wpc # "dead" => owner
  /\ writer => grant /\ wpc # "dead"
  /\ grant /\ ~writer => wpc \in {"create", "publish", "ready", "failed", "dying", "dead"}
  /\ wpc \in {"write", "append"} => writer
  /\ wpc \in {"start", "open", "reserve", "exit", "done"} => ~grant
  /\ wpc = "reserve" => owner
  /\ wpc \in {"create", "publish", "ready"} => grant /\ ~writer
  /\ wpc = "ready" => files[Len(files)].name = "final"
  /\ \A i \in 1 .. Len(files) : files[i].ledger = "READY" => files[i].name = "final"

\* Where accept still has its row.
Carrying ==
  \/ wpc \in {"accept", "space", "open", "reserve", "create", "write"}
  \/ wpc \in {"close", "publish", "ready"} /\ after = "space"

WindowIn ==
  window.count > 0 => Frames(window) \subseteq kept /\ prev.frame = window.last /\ prev.seg # 0
QueueIn == \A i \in 1 .. Len(queue) : queue[i].seg # 0
RowsIn(s, k) == \A i \in 1 .. Len(s) : Frames(s[i]) \subseteq k
FilesIn == \A i \in 1 .. Len(files) : RowsIn(files[i].rows, kept)
OutIn == out # NoRow \/ Carrying => Frames(out) \subseteq kept

\* Every row, wherever it is, sums frames that the aggregator was given.
RowInv == WindowIn /\ QueueIn /\ RowsIn(batch, kept) /\ FilesIn /\ OutIn

-----------------------------------------------------------------------------
(* Sequences and artifacts.                                                *)

\* One element of a sequence replaced.
LEMMA Replaced ==
  ASSUME NEW S, NEW s \in Seq(S), NEW n \in 1 .. Len(s), NEW a \in S
  PROVE  /\ [s EXCEPT ![n] = a] \in Seq(S)
         /\ Len([s EXCEPT ![n] = a]) = Len(s)
         /\ [s EXCEPT ![n] = a][n] = a
         /\ \A i \in 1 .. Len(s) : i # n => [s EXCEPT ![n] = a][i] = s[i]
  OBVIOUS

\* What a first part of a sequence of rows is.
LEMMA Prefix ==
  ASSUME NEW s \in Seq(Row), NEW n \in 0 .. Len(s)
  PROVE  /\ SubSeq(s, 1, n) \in Seq(Row) /\ Len(SubSeq(s, 1, n)) = n
         /\ \A i \in 1 .. n : SubSeq(s, 1, n)[i] = s[i]
  OBVIOUS

\* Only the last artifact changes, and only in these fields.
LastChanged(fields) ==
  /\ files' \in Seq(Artifact) /\ Len(files') = Len(files)
  /\ \A i \in 1 .. Len(files) : i # Len(files) => files'[i] = files[i]
  /\ "rows" \in fields \/ files'[Len(files)].rows = files[Len(files)].rows
  /\ "name" \in fields \/ files'[Len(files)].name = files[Len(files)].name
  /\ "ledger" \in fields \/ files'[Len(files)].ledger = files[Len(files)].ledger

LEMMA StoredChanges ==
  ASSUME files \in Seq(Artifact), Len(files) > 0, NEW rows \in Seq(Row), Stored(rows)
  PROVE  /\ LastChanged({"rows"})
         /\ files'[Len(files)].rows = files[Len(files)].rows \o rows
<1> DEFINE n == Len(files)
           a == [files[n] EXCEPT !.rows = @ \o rows]
<1>1. n \in 1 .. Len(files) /\ files[n] \in Artifact
  OBVIOUS
<1>2. files[n].rows \o rows \in Seq(Row)
  BY <1>1 DEF Artifact
<1>3. a \in Artifact /\ a.rows = files[n].rows \o rows
      /\ a.name = files[n].name /\ a.ledger = files[n].ledger
  BY <1>1, <1>2 DEF Artifact
<1>4. files' = [files EXCEPT ![n] = a]
  BY <1>1 DEF Stored, Current
<1> HIDE DEF a
<1> QED
  BY <1>1, <1>3, <1>4, Replaced DEF LastChanged

LEMMA RenamedChanges ==
  ASSUME files \in Seq(Artifact), Len(files) > 0, NEW x \in {"tmp", "final"},
         Named(x)
  PROVE  LastChanged({"name"}) /\ files'[Len(files)].name = x
<1> DEFINE n == Len(files)
           a == [files[n] EXCEPT !.name = x]
<1>1. n \in 1 .. Len(files) /\ files[n] \in Artifact
  OBVIOUS
<1>2. a \in Artifact /\ a.rows = files[n].rows /\ a.name = x /\ a.ledger = files[n].ledger
  BY <1>1 DEF Artifact
<1>3. files' = [files EXCEPT ![n] = a]
  BY <1>1 DEF Named, Decided, Current
<1> HIDE DEF a
<1>4. /\ files' \in Seq(Artifact) /\ Len(files') = n /\ files'[n] = a
      /\ \A i \in 1 .. n : i # n => files'[i] = files[i]
  BY <1>1, <1>2, <1>3, Replaced
<1> QED
  BY <1>2, <1>4 DEF LastChanged

LEMMA DecidedChanges ==
  ASSUME files \in Seq(Artifact), Len(files) > 0, NEW x \in {"READY", "QUARANTINED"},
         Decided(x)
  PROVE  LastChanged({"ledger"}) /\ files'[Len(files)].ledger = x
<1> DEFINE n == Len(files)
           a == [files[n] EXCEPT !.ledger = x]
<1>1. n \in 1 .. Len(files) /\ files[n] \in Artifact
  OBVIOUS
<1>2. a \in Artifact /\ a.rows = files[n].rows /\ a.name = files[n].name /\ a.ledger = x
  BY <1>1 DEF Artifact
<1>3. files' = [files EXCEPT ![n] = a]
  BY <1>1 DEF Named, Decided, Current
<1> HIDE DEF a
<1>4. /\ files' \in Seq(Artifact) /\ Len(files') = n /\ files'[n] = a
      /\ \A i \in 1 .. n : i # n => files'[i] = files[i]
  BY <1>1, <1>2, <1>3, Replaced
<1> QED
  BY <1>2, <1>4 DEF LastChanged

-----------------------------------------------------------------------------
(* Types.                                                                  *)

\* TypeInv says what TypeOK says.
LEMMA TypeInvIsTypeOK == TypeInv => TypeOK
<1> SUFFICES ASSUME TypeInv PROVE TypeOK
  OBVIOUS
<1>1. {writer, grant, owner} \subseteq BOOLEAN
  BY Zenon DEF TypeInv, FileType
<1> QED
  BY <1>1 DEF TypeOK, TypeInv, ProducerType, SharedType, AggregatorType, FileType, WorkerType,
              ErrorsType, WorldType, Window

\* The empty values have their types.
LEMMA Empties ==
  /\ NoRow \in Row /\ NoWindow \in Window /\ NoPrev \in [frame : Nat, seg : Nat]
  /\ <<>> \in Seq(Row) /\ <<>> \in Seq(Record) /\ <<>> \in Seq(Artifact)
  BY DEF NoRow, Row, NoWindow, Window, NoPrev

LEMMA TypeInit == Init => TypeInv
<1> SUFFICES ASSUME Init PROVE TypeInv
  OBVIOUS
<1>1. ProducerType /\ SharedType
  BY Empties DEF Init, ProducerType, SharedType, States
<1>2. AggregatorType /\ ErrorsType /\ WorldType
  BY Empties DEF Init, AggregatorType, ErrorsType, WorldType
<1>3. FileType /\ WorkerType
  BY Empties DEF Init, FileType, WorkerType, Places
<1> QED
  BY <1>1, <1>2, <1>3 DEF TypeInv

\* Which steps leave which part of the state alone.
LEMMA ProducerSame ==
  ASSUME \/ Start \/ Abandon \/ Resume \/ Empty \/ Idle \/ PopRefused
         \/ PopAbsorb \/ Roll \/ Keep \/ Space \/ LowDisk \/ LockArtifact
         \/ Reserve \/ Create \/ PushRow \/ AppendBatch \/ Flush \/ Status
         \/ Close \/ Publish \/ Ready \/ Failed \/ QuarantineFails \/ Finish
         \/ FinishPaused \/ Exit \/ Dying \/ DiskChanges \/ ClockSteps
         \/ Ended \/ UNCHANGED vars
  PROVE  UNCHANGED producerVars
  BY DEF Start, Abandon, Resume, Empty, Idle, PopRefused, PopAbsorb, Roll, Keep,
         Space, LowDisk, LockArtifact, Reserve, Create, PushRow, AppendBatch, Flush,
         Status, Close, Publish, Ready, Failed, QuarantineFails, Finish,
         FinishPaused, Exit, Dying, DiskChanges, ClockSteps, consumer, idle,
         producerVars, shared, aggregator, file, worker, errors, world, vars, Ended

LEMMA SharedSame ==
  ASSUME \/ Admit \/ SkipFrame \/ Stop \/ Start \/ Empty \/ Idle
         \/ Roll \/ Keep \/ Space \/ LockArtifact \/ Reserve \/ Create
         \/ PushRow \/ AppendBatch \/ Flush \/ Status \/ Close \/ Publish
         \/ Ready \/ QuarantineFails \/ Finish \/ FinishPaused \/ DiskChanges \/ ClockSteps
         \/ Ended \/ UNCHANGED vars
  PROVE  UNCHANGED shared
  BY DEF Admit, SkipFrame, Stop, Start, Empty, Idle, Roll, Keep, Space, LockArtifact,
         Reserve, Create, PushRow, AppendBatch, Flush, Status, Close, Publish, Ready,
         QuarantineFails, Finish, FinishPaused, DiskChanges, ClockSteps, consumer,
         idle, producerVars, shared, aggregator, file, worker, errors, world, vars,
         Ended

LEMMA AggregatorSame ==
  ASSUME \/ Refuse \/ Admit \/ Push \/ SkipFrame \/ Stop \/ Start
         \/ Abandon \/ Resume \/ Empty \/ Idle \/ PopRefused \/ Roll
         \/ Keep \/ Space \/ LowDisk \/ LockArtifact \/ Reserve \/ Create
         \/ PushRow \/ AppendBatch \/ Flush \/ Status \/ Close \/ Publish
         \/ Ready \/ QuarantineFails \/ FinishPaused \/ Exit \/ Dying \/ DiskChanges
         \/ ClockSteps
         \/ Ended \/ UNCHANGED vars
  PROVE  UNCHANGED aggregator
  BY DEF Refuse, Admit, Push, SkipFrame, Stop, Start, Abandon, Resume, Empty, Idle,
         PopRefused, Roll, Keep, Space, LowDisk, LockArtifact, Reserve, Create,
         PushRow, AppendBatch, Flush, Status, Close, Publish, Ready, QuarantineFails,
         FinishPaused, Exit, Dying, DiskChanges, ClockSteps, consumer, idle,
         producerVars, shared, aggregator, file, worker, errors, world, vars, Ended

LEMMA FileSame ==
  ASSUME \/ Refuse \/ Admit \/ Push \/ SkipFrame \/ Stop \/ Start
         \/ Abandon \/ Resume \/ Empty \/ Idle \/ PopRefused \/ PopAbsorb
         \/ Roll \/ Keep \/ Space \/ LowDisk \/ Status \/ Finish
         \/ Exit \/ DiskChanges \/ ClockSteps
         \/ Ended \/ UNCHANGED vars
  PROVE  UNCHANGED file
  BY DEF Refuse, Admit, Push, SkipFrame, Stop, Start, Abandon, Resume, Empty, Idle,
         PopRefused, PopAbsorb, Roll, Keep, Space, LowDisk, Status, Finish, Exit,
         DiskChanges, ClockSteps, consumer, idle, producerVars, shared, aggregator,
         file, worker, errors, world, vars, Ended

LEMMA ErrorsSame ==
  ASSUME \/ Refuse \/ Admit \/ Push \/ SkipFrame \/ Stop \/ Abandon
         \/ Empty \/ Idle \/ PopRefused \/ PopAbsorb \/ Roll \/ Keep
         \/ PushRow \/ Finish \/ FinishPaused \/ Dying \/ DiskChanges \/ ClockSteps
         \/ Ended \/ UNCHANGED vars
  PROVE  UNCHANGED errors
  BY DEF Refuse, Admit, Push, SkipFrame, Stop, Abandon, Empty, Idle, PopRefused,
         PopAbsorb, Roll, Keep, PushRow, Finish, FinishPaused, Dying, DiskChanges,
         ClockSteps, consumer, idle, producerVars, shared, aggregator, file, worker,
         errors, world, vars, Ended

LEMMA WorldSame ==
  ASSUME \/ Refuse \/ Admit \/ Push \/ SkipFrame \/ Stop \/ Abandon
         \/ Empty \/ Idle \/ PopRefused \/ PopAbsorb \/ Roll \/ Keep
         \/ LowDisk \/ PushRow \/ Failed \/ Finish \/ FinishPaused \/ Dying
         \/ Ended \/ UNCHANGED vars
  PROVE  UNCHANGED world
  BY DEF Refuse, Admit, Push, SkipFrame, Stop, Abandon, Empty, Idle, PopRefused,
         PopAbsorb, Roll, Keep, LowDisk, PushRow, Failed, Finish, FinishPaused,
         Dying, consumer, idle, producerVars, shared, aggregator, file, worker,
         errors, world, vars, Ended

LEMMA WorkerSame ==
  ASSUME \/ Refuse \/ Admit \/ Push \/ SkipFrame \/ Stop \/ DiskChanges
         \/ ClockSteps
         \/ Ended \/ UNCHANGED vars
  PROVE  UNCHANGED worker
  BY DEF Refuse, Admit, Push, SkipFrame, Stop, DiskChanges, ClockSteps, consumer,
         idle, producerVars, shared, aggregator, file, worker, errors, world, vars,
         Ended

-----------------------------------------------------------------------------
(* The types step by step, one part of the state at a time.                *)

\* main() numbers frames, segments and days.
LEMMA ProducerTyped ==
  ASSUME TypeInv, [Next]_vars
  PROVE  ProducerType'
<1>1. ASSUME Refuse PROVE ProducerType'
  BY <1>1 DEF Refuse, TypeInv, ProducerType
<1>2. ASSUME Admit PROVE ProducerType'
  BY <1>2 DEF Admit, TypeInv, ProducerType
<1>3. ASSUME Push PROVE ProducerType'
  <2>1. EstimatedDays \subseteq Nat
    BY DEF EstimatedDays, TypeInv, ProducerType, WorldType
  <2> QED
    BY <1>3, <2>1 DEF Push, SegmentOf, TypeInv, ProducerType
<1>4. ASSUME SkipFrame PROVE ProducerType'
  BY <1>4 DEF SkipFrame, TypeInv, ProducerType
<1>5. ASSUME Stop PROVE ProducerType'
  BY <1>5 DEF Stop, TypeInv, ProducerType
<1>6. ASSUME UNCHANGED producerVars PROVE ProducerType'
  BY <1>6 DEF TypeInv, ProducerType, producerVars
<1> QED
  BY <1>1, <1>2, <1>3, <1>4, <1>5, <1>6, ProducerSame DEF Next, Worker

\* The queue holds records, the counter counts.
LEMMA SharedTyped ==
  ASSUME TypeInv, [Next]_vars
  PROVE  SharedType'
<1>1. ASSUME Refuse PROVE SharedType'
  BY <1>1 DEF Refuse, TypeInv, SharedType
<1>2. ASSUME Push PROVE SharedType'
  <2>1. EstimatedDays \subseteq Nat /\ SegmentOf \in Nat /\ frame \in Nat
    BY DEF EstimatedDays, SegmentOf, TypeInv, ProducerType, WorldType
  <2>2. PICK d \in EstimatedDays : TryPush([frame |-> frame, seg |-> SegmentOf, day |-> d])
    BY <1>2 DEF Push
  <2>3. [frame |-> frame, seg |-> SegmentOf, day |-> d] \in Record
    BY <2>1 DEF Record
  <2>4. queue' \in Seq(Record) /\ dropped' \in Nat
    BY <2>2, <2>3 DEF TryPush, TypeInv, SharedType
  <2> QED
    BY <1>2, <2>4 DEF Push, TypeInv, SharedType
<1>3. ASSUME Abandon PROVE SharedType'
  BY <1>3, Empties DEF Abandon, TypeInv, SharedType
<1>4. ASSUME Resume PROVE SharedType'
  BY <1>4 DEF Resume, consumer, States, TypeInv, SharedType
<1>5. ASSUME PopRefused PROVE SharedType'
  BY <1>5 DEF PopRefused, TypeInv, SharedType
<1>6. ASSUME PopAbsorb PROVE SharedType'
  BY <1>6 DEF PopAbsorb, TypeInv, SharedType
<1>7. ASSUME LowDisk PROVE SharedType'
  BY <1>7 DEF LowDisk, idle, States, TypeInv, SharedType
<1>8. ASSUME Failed PROVE SharedType'
  BY <1>8 DEF Failed, States, TypeInv, SharedType
<1>9. ASSUME Exit PROVE SharedType'
  BY <1>9 DEF Exit, idle, States, TypeInv, SharedType
<1>10. ASSUME Dying PROVE SharedType'
  BY <1>10 DEF Dying, idle, States, TypeInv, SharedType
<1>11. ASSUME UNCHANGED shared PROVE SharedType'
  BY <1>11 DEF TypeInv, SharedType, shared
<1> QED
  BY <1>1, <1>2, <1>3, <1>4, <1>5, <1>6, <1>7, <1>8, <1>9, <1>10, <1>11, SharedSame DEF Next, Worker

\* A window extended is a window.
LEMMA ExtendedTyped ==
  ASSUME AggregatorType, NEW r \in Record
  PROVE  Extended(r) \in Window
<1>1. Gap(r) \in BOOLEAN
  BY Zenon DEF Gap
<1>2. r.frame \in Nat /\ r.day \in Nat
  BY DEF Record
<1>3. \A a, b \in Nat, c \in BOOLEAN, n \in Nat :
        [first |-> a, last |-> a, gap |-> c, day |-> b, endDay |-> b, count |-> n] \in Window
  BY DEF Window
<1>4. [first |-> r.frame, last |-> r.frame, gap |-> Gap(r),
       day |-> r.day, endDay |-> r.day, count |-> 1] \in Window
  BY <1>1, <1>2, <1>3, 1 \in Nat, Zenon
<1>5. [window EXCEPT !.last = r.frame, !.endDay = r.day, !.count = @ + 1] \in Window
  <2>1. window \in Window
    BY DEF AggregatorType
  <2>2. window.count + 1 \in Nat
    BY <2>1 DEF Window
  <2>3. \A a, b, n \in Nat :
          [window EXCEPT !.last = a, !.endDay = b, !.count = n] \in Window
    BY <2>1 DEF Window
  <2> QED
    BY <1>2, <2>2, <2>3, Zenon
<1> QED
  BY <1>4, <1>5 DEF Extended

\* A row of a window is a row.
LEMMA RowsTyped ==
  ASSUME NEW w \in Window, NEW g \in BOOLEAN
  PROVE  Rows(w, g) \subseteq Row
<1>1. w.first \in Nat /\ w.last \in Nat /\ w.day \in Nat /\ w.endDay \in Nat
  BY DEF Window
<1>2. (w.gap \/ g) \in BOOLEAN
  BY Zenon
<1>3. \A a, b, d \in Nat, c \in BOOLEAN :
        [first |-> a, last |-> b, gap |-> c, day |-> d] \in Row
  BY DEF Row
<1>4. \A d \in {w.day, w.endDay} :
        [first |-> w.first, last |-> w.last, gap |-> w.gap \/ g, day |-> d] \in Row
  BY <1>1, <1>2, <1>3, Zenon
<1> QED
  BY <1>4, Zenon DEF Rows

\* The aggregator has a window and a predecessor.
LEMMA AggregatorTyped ==
  ASSUME TypeInv, [Next]_vars
  PROVE  AggregatorType'
<1>1. ASSUME PopAbsorb PROVE AggregatorType'
  <2> DEFINE r == Head(queue)
  <2>1. r \in Record
    BY <1>1 DEF PopAbsorb, TypeInv, SharedType
  <2>2. Extended(r) \in Window
    BY <2>1, ExtendedTyped DEF TypeInv
  <2>3. window' \in Window
    BY <1>1, <2>2, Empties DEF PopAbsorb
  <2>4. prev' \in [frame : Nat, seg : Nat] /\ kept' \subseteq Nat
    BY <1>1, <2>1 DEF PopAbsorb, Record, TypeInv, AggregatorType
  <2>5. window.count \in Nat
    BY DEF TypeInv, AggregatorType, Window
  <2>6. discarded' \in Nat
    BY <1>1, <2>5 DEF PopAbsorb, TypeInv, AggregatorType
  <2> QED
    BY <2>3, <2>4, <2>6 DEF AggregatorType
<1>2. ASSUME Failed PROVE AggregatorType'
  BY <1>2, Empties DEF Failed, TypeInv, AggregatorType
<1>3. ASSUME Finish PROVE AggregatorType'
  <2>1. window.count \in Nat
    BY DEF TypeInv, AggregatorType, Window
  <2> QED
    BY <1>3, <2>1, Empties DEF Finish, TypeInv, AggregatorType
<1>4. ASSUME UNCHANGED aggregator PROVE AggregatorType'
  BY <1>4 DEF TypeInv, AggregatorType, aggregator
<1> QED
  BY <1>1, <1>2, <1>3, <1>4, AggregatorSame DEF Next, Worker

\* The counters of the worker count.
LEMMA ErrorsTyped ==
  ASSUME TypeInv, [Next]_vars
  PROVE  ErrorsType'
<1>1. ASSUME Start PROVE ErrorsType'
  BY <1>1 DEF Start, Fault, NoThrow, Throw, Thrown, errors, world, TypeInv, ErrorsType, WorldType
<1>2. ASSUME Resume PROVE ErrorsType'
  BY <1>2 DEF Resume, Fault, NoThrow, Throw, Thrown, errors, world, TypeInv, ErrorsType, WorldType
<1>3. ASSUME Space PROVE ErrorsType'
  BY <1>3 DEF Space, Fault, NoThrow, Throw, Thrown, errors, world, TypeInv, ErrorsType, WorldType
<1>4. ASSUME LowDisk PROVE ErrorsType'
  BY <1>4 DEF LowDisk, Fault, NoThrow, Throw, Thrown, errors, world, TypeInv, ErrorsType, WorldType
<1>5. ASSUME LockArtifact PROVE ErrorsType'
  BY <1>5 DEF LockArtifact, Fault, NoThrow, Throw, Thrown, errors, world, TypeInv, ErrorsType, WorldType
<1>6. ASSUME Reserve PROVE ErrorsType'
  BY <1>6 DEF Reserve, Fault, NoThrow, Throw, Thrown, errors, world, TypeInv, ErrorsType, WorldType
<1>7. ASSUME Create PROVE ErrorsType'
  BY <1>7 DEF Create, Fault, NoThrow, Throw, Thrown, errors, world, TypeInv, ErrorsType, WorldType
<1>8. ASSUME AppendBatch PROVE ErrorsType'
  BY <1>8 DEF AppendBatch, AppendFails, Fault, NoThrow, Throw, Thrown, errors, world, TypeInv, ErrorsType, WorldType
<1>9. ASSUME Flush PROVE ErrorsType'
  BY <1>9 DEF Flush, AppendFails, Fault, NoThrow, Throw, Thrown, errors, world, TypeInv, ErrorsType, WorldType
<1>10. ASSUME Status PROVE ErrorsType'
  BY <1>10 DEF Status, Fault, NoThrow, Throw, Thrown, errors, world, TypeInv, ErrorsType, WorldType
<1>11. ASSUME Close PROVE ErrorsType'
  BY <1>11 DEF Close, AppendFails, Fault, NoThrow, Throw, Thrown, errors, world, TypeInv, ErrorsType, WorldType
<1>12. ASSUME Publish PROVE ErrorsType'
  BY <1>12 DEF Publish, Fault, NoThrow, Throw, Thrown, errors, world, TypeInv, ErrorsType, WorldType
<1>13. ASSUME Ready PROVE ErrorsType'
  BY <1>13 DEF Ready, Fault, NoThrow, Throw, Thrown, errors, world, TypeInv, ErrorsType, WorldType
<1>14. ASSUME Failed PROVE ErrorsType'
  BY <1>14 DEF Failed, Fault, NoThrow, Throw, Thrown, errors, world, TypeInv, ErrorsType, WorldType
<1>15. ASSUME QuarantineFails PROVE ErrorsType'
  BY <1>15 DEF QuarantineFails, Fault, NoThrow, Throw, Thrown, errors, world, TypeInv, ErrorsType, WorldType
<1>16. ASSUME Exit PROVE ErrorsType'
  BY <1>16 DEF Exit, Fault, NoThrow, Throw, Thrown, errors, world, TypeInv, ErrorsType, WorldType
<1>17. ASSUME UNCHANGED errors PROVE ErrorsType'
  BY <1>17 DEF TypeInv, ErrorsType, errors
<1> QED
  BY <1>1, <1>2, <1>3, <1>4, <1>5, <1>6, <1>7, <1>8, <1>9, <1>10, <1>11, <1>12,
     <1>13, <1>14, <1>15, <1>16, <1>17, ErrorsSame DEF Next, Worker

\* The disk and the clock.
LEMMA WorldTyped ==
  ASSUME TypeInv, [Next]_vars
  PROVE  WorldType'
<1>1. ASSUME Start PROVE WorldType'
  BY <1>1 DEF Start, Fault, NoThrow, Throw, Thrown, world, TypeInv, WorldType
<1>2. ASSUME Resume PROVE WorldType'
  BY <1>2 DEF Resume, Fault, NoThrow, Throw, Thrown, world, TypeInv, WorldType
<1>3. ASSUME Space PROVE WorldType'
  BY <1>3 DEF Space, Fault, NoThrow, Throw, Thrown, world, TypeInv, WorldType
<1>4. ASSUME LockArtifact PROVE WorldType'
  BY <1>4 DEF LockArtifact, Fault, NoThrow, Throw, Thrown, world, TypeInv, WorldType
<1>5. ASSUME Reserve PROVE WorldType'
  BY <1>5 DEF Reserve, Fault, NoThrow, Throw, Thrown, world, TypeInv, WorldType
<1>6. ASSUME Create PROVE WorldType'
  BY <1>6 DEF Create, Fault, NoThrow, Throw, Thrown, world, TypeInv, WorldType
<1>7. ASSUME AppendBatch PROVE WorldType'
  BY <1>7 DEF AppendBatch, AppendFails, Fault, NoThrow, Throw, Thrown, world, TypeInv, WorldType
<1>8. ASSUME Flush PROVE WorldType'
  BY <1>8 DEF Flush, AppendFails, Fault, NoThrow, Throw, Thrown, world, TypeInv, WorldType
<1>9. ASSUME Status PROVE WorldType'
  BY <1>9 DEF Status, Fault, NoThrow, Throw, Thrown, world, TypeInv, WorldType
<1>10. ASSUME Close PROVE WorldType'
  BY <1>10 DEF Close, AppendFails, Fault, NoThrow, Throw, Thrown, world, TypeInv, WorldType
<1>11. ASSUME Publish PROVE WorldType'
  BY <1>11 DEF Publish, Fault, NoThrow, Throw, Thrown, world, TypeInv, WorldType
<1>12. ASSUME Ready PROVE WorldType'
  BY <1>12 DEF Ready, Fault, NoThrow, Throw, Thrown, world, TypeInv, WorldType
<1>13. ASSUME QuarantineFails PROVE WorldType'
  BY <1>13 DEF QuarantineFails, Fault, NoThrow, Throw, Thrown, world, TypeInv, WorldType
<1>14. ASSUME Exit PROVE WorldType'
  BY <1>14 DEF Exit, Fault, NoThrow, Throw, Thrown, world, TypeInv, WorldType
<1>15. ASSUME DiskChanges PROVE WorldType'
  BY <1>15 DEF DiskChanges, Fault, NoThrow, Throw, Thrown, world, TypeInv, WorldType
<1>16. ASSUME ClockSteps PROVE WorldType'
  BY SizesAssumption, <1>16 DEF ClockSteps, Fault, NoThrow, Throw, Thrown, world, TypeInv, WorldType
<1>17. ASSUME UNCHANGED world PROVE WorldType'
  BY <1>17 DEF TypeInv, WorldType, world
<1> QED
  BY <1>1, <1>2, <1>3, <1>4, <1>5, <1>6, <1>7, <1>8, <1>9, <1>10, <1>11, <1>12,
     <1>13, <1>14, <1>15, <1>16, <1>17, WorldSame DEF Next, Worker

\* The worker is at a place, with a row.
LEMMA WorkerTyped ==
  ASSUME TypeInv, [Next]_vars
  PROVE  WorkerType'
<1>1. ASSUME Start PROVE WorkerType'
  BY <1>1 DEF Start, idle, TypeInv, WorkerType, Places
<1>2. ASSUME Abandon PROVE WorkerType'
  BY <1>2 DEF Abandon, idle, TypeInv, WorkerType, Places
<1>3. ASSUME Resume PROVE WorkerType'
  BY <1>3 DEF Resume, idle, TypeInv, WorkerType, Places
<1>4. ASSUME Empty PROVE WorkerType'
  BY <1>4 DEF Empty, idle, TypeInv, WorkerType, Places
<1>5. ASSUME Idle PROVE WorkerType'
  BY <1>5 DEF Idle, idle, TypeInv, WorkerType, Places
<1>6. ASSUME PopRefused PROVE WorkerType'
  BY <1>6 DEF PopRefused, idle, TypeInv, WorkerType, Places
<1>7. ASSUME PopAbsorb PROVE WorkerType'
  <2>1. window \in Window /\ Extended(Head(queue)) \in Window
    BY <1>7, ExtendedTyped DEF PopAbsorb, TypeInv, SharedType, AggregatorType
  <2>2. out' \in Row
    BY <1>7, <2>1, RowsTyped DEF PopAbsorb, TypeInv, WorkerType
  <2> QED
    BY <1>7, <2>2 DEF PopAbsorb, TypeInv, WorkerType, Places
<1>8. ASSUME Roll PROVE WorkerType'
  BY <1>8 DEF Roll, idle, TypeInv, WorkerType, Places
<1>9. ASSUME Keep PROVE WorkerType'
  BY <1>9 DEF Keep, idle, TypeInv, WorkerType, Places
<1>10. ASSUME Space PROVE WorkerType'
  BY <1>10 DEF Space, Throw, Thrown, idle, TypeInv, WorkerType, Places
<1>11. ASSUME LowDisk PROVE WorkerType'
  BY <1>11, Empties DEF LowDisk, Accepted, Returned, idle, TypeInv, WorkerType, Places
<1>12. ASSUME LockArtifact PROVE WorkerType'
  BY <1>12 DEF LockArtifact, Throw, Thrown, idle, TypeInv, WorkerType, Places
<1>13. ASSUME Reserve PROVE WorkerType'
  BY <1>13 DEF Reserve, Throw, Thrown, idle, TypeInv, WorkerType, Places
<1>14. ASSUME Create PROVE WorkerType'
  BY <1>14 DEF Create, Throw, Thrown, idle, TypeInv, WorkerType, Places
<1>15. ASSUME PushRow PROVE WorkerType'
  BY <1>15, Empties DEF PushRow, Accepted, Returned, idle, TypeInv, WorkerType, Places
<1>16. ASSUME AppendBatch PROVE WorkerType'
  BY <1>16, Empties DEF AppendBatch, Accepted, Returned, AppendFails, Fault, NoThrow, Throw, Thrown, idle, TypeInv, WorkerType, Places
<1>17. ASSUME Flush PROVE WorkerType'
  BY <1>17 DEF Flush, AppendFails, Fault, NoThrow, Throw, Thrown, idle, TypeInv, WorkerType, Places
<1>18. ASSUME Status PROVE WorkerType'
  BY <1>18 DEF Status, idle, TypeInv, WorkerType, Places
<1>19. ASSUME Close PROVE WorkerType'
  BY <1>19 DEF Close, AppendFails, Fault, NoThrow, Throw, Thrown, idle, TypeInv, WorkerType, Places
<1>20. ASSUME Publish PROVE WorkerType'
  BY <1>20 DEF Publish, Throw, Thrown, idle, TypeInv, WorkerType, Places
<1>21. ASSUME Ready PROVE WorkerType'
  BY <1>21 DEF Ready, Throw, Thrown, idle, TypeInv, WorkerType, Places
<1>22. ASSUME Failed PROVE WorkerType'
  BY <1>22, Empties DEF Failed, idle, TypeInv, WorkerType, Places
<1>23. ASSUME QuarantineFails PROVE WorkerType'
  BY <1>23 DEF QuarantineFails, idle, TypeInv, WorkerType, Places
<1>24. ASSUME Finish PROVE WorkerType'
  <2>1. out' \in Row
    BY <1>24, RowsTyped DEF Finish, TypeInv, WorkerType, AggregatorType
  <2> QED
    BY <1>24, <2>1 DEF Finish, TypeInv, WorkerType, Places
<1>25. ASSUME FinishPaused PROVE WorkerType'
  BY <1>25 DEF FinishPaused, idle, TypeInv, WorkerType, Places
<1>26. ASSUME Exit PROVE WorkerType'
  BY <1>26 DEF Exit, idle, TypeInv, WorkerType, Places
<1>27. ASSUME Dying PROVE WorkerType'
  BY <1>27 DEF Dying, idle, TypeInv, WorkerType, Places
<1>28. ASSUME UNCHANGED worker PROVE WorkerType'
  BY <1>28 DEF TypeInv, WorkerType, worker
<1> QED
  BY <1>1, <1>2, <1>3, <1>4, <1>5, <1>6, <1>7, <1>8, <1>9, <1>10, <1>11, <1>12,
     <1>13, <1>14, <1>15, <1>16, <1>17, <1>18, <1>19, <1>20, <1>21, <1>22, <1>23,
     <1>24, <1>25, <1>26, <1>27, <1>28, WorkerSame DEF Next, Worker

\* What appending does to the types of the file.
LEMMA AppendTypes ==
  ASSUME FileType, Len(files) > 0, Appended \/ AppendFails
  PROVE  files' \in Seq(Artifact) /\ batch' \in Seq(Row)
<1>1. ASSUME Appended PROVE files' \in Seq(Artifact) /\ batch' \in Seq(Row)
  BY <1>1, StoredChanges, Empties DEF Appended, LastChanged, FileType
<1>2. ASSUME AppendFails PROVE files' \in Seq(Artifact) /\ batch' \in Seq(Row)
  <2>1. PICK n \in 0 .. Len(batch) : Stored(SubSeq(batch, 1, n))
    BY <1>2 DEF AppendFails
  <2>2. SubSeq(batch, 1, n) \in Seq(Row)
    BY Prefix DEF FileType
  <2>3. files' \in Seq(Artifact)
    BY <2>1, <2>2, StoredChanges DEF LastChanged, FileType
  <2> QED
    BY <1>2, <2>3 DEF AppendFails, FileType
<1> QED
  BY <1>1, <1>2

\* The file in hand and the artifacts.
LEMMA FileTyped ==
  ASSUME TypeInv, ArtifactInv, [Next]_vars
  PROVE  FileType'
<1>len. writer \/ grant => Len(files) > 0
  BY DEF ArtifactInv
<1>1. ASSUME LockArtifact PROVE FileType'
  BY <1>1 DEF LockArtifact, idle, TypeInv, FileType
<1>2. ASSUME Reserve PROVE FileType'
  <2>1. [rows |-> <<>>, name |-> "none", ledger |-> "WRITING", day |-> out.day] \in Artifact
    BY Empties DEF Artifact, Row, TypeInv, WorkerType
  <2>2. files' \in Seq(Artifact)
    BY <1>2, <2>1 DEF Reserve, TypeInv, FileType
  <2> QED
    BY <1>2, <2>2 DEF Reserve, TypeInv, FileType
<1>3. ASSUME Create PROVE FileType'
  <2>1. files' \in Seq(Artifact) /\ batch' \in Seq(Row)
    BY <1>3, <1>len, RenamedChanges DEF Create, LastChanged, ArtifactInv, TypeInv, FileType
  <2> QED
    BY <1>3, <2>1 DEF Create, TypeInv, FileType
<1>4. ASSUME PushRow PROVE FileType'
  BY <1>4 DEF PushRow, TypeInv, FileType, WorkerType
<1>5. ASSUME AppendBatch PROVE FileType'
  <2>1. files' \in Seq(Artifact) /\ batch' \in Seq(Row)
    BY <1>5, <1>len, AppendTypes DEF AppendBatch, ArtifactInv, TypeInv
  <2> QED
    BY <1>5, <2>1 DEF AppendBatch, TypeInv, FileType
<1>6. ASSUME Flush PROVE FileType'
  <2>1. files' \in Seq(Artifact) /\ batch' \in Seq(Row)
    BY <1>6, <1>len, AppendTypes DEF Flush, TypeInv, FileType
  <2> QED
    BY <1>6, <2>1 DEF Flush, TypeInv, FileType
<1>7. ASSUME Close PROVE FileType'
  <2>1. files' \in Seq(Artifact) /\ batch' \in Seq(Row)
    BY <1>7, <1>len, AppendTypes DEF Close, TypeInv, FileType
  <2> QED
    BY <1>7, <2>1 DEF Close, TypeInv, FileType
<1>8. ASSUME Publish PROVE FileType'
  <2>1. files' \in Seq(Artifact) /\ batch' \in Seq(Row)
    BY <1>8, <1>len, RenamedChanges DEF Publish, LastChanged, ArtifactInv, TypeInv, FileType
  <2> QED
    BY <1>8, <2>1 DEF Publish, TypeInv, FileType
<1>9. ASSUME Ready PROVE FileType'
  <2>1. files' \in Seq(Artifact) /\ batch' \in Seq(Row)
    BY <1>9, <1>len, DecidedChanges DEF Ready, LastChanged, ArtifactInv, TypeInv, FileType
  <2> QED
    BY <1>9, <2>1 DEF Ready, TypeInv, FileType
<1>10. ASSUME Failed PROVE FileType'
  <2>1. files' \in Seq(Artifact) /\ batch' \in Seq(Row)
    BY <1>10, <1>len, DecidedChanges, Empties DEF Failed, Quarantined, LastChanged, TypeInv, FileType
  <2> QED
    BY <1>10, <2>1 DEF Failed, Quarantined, TypeInv, FileType
<1>11. ASSUME QuarantineFails PROVE FileType'
  BY <1>11, Empties DEF QuarantineFails, TypeInv, FileType
<1>12. ASSUME FinishPaused PROVE FileType'
  <2>1. files' \in Seq(Artifact) /\ batch' \in Seq(Row)
    BY <1>12, <1>len, DecidedChanges, Empties DEF FinishPaused, Quarantined, LastChanged, TypeInv, FileType
  <2> QED
    BY <1>12, <2>1 DEF FinishPaused, Quarantined, TypeInv, FileType
<1>13. ASSUME Dying PROVE FileType'
  BY <1>13 DEF Dying, TypeInv, FileType
<1>14. ASSUME UNCHANGED file PROVE FileType'
  BY <1>14 DEF TypeInv, FileType, file
<1> QED
  BY <1>1, <1>2, <1>3, <1>4, <1>5, <1>6, <1>7, <1>8, <1>9, <1>10, <1>11, <1>12,
     <1>13, <1>14, FileSame DEF Next, Worker

LEMMA TypeStep ==
  ASSUME TypeInv, ArtifactInv, [Next]_vars
  PROVE  TypeInv'
  BY ProducerTyped, SharedTyped, AggregatorTyped, FileTyped, WorkerTyped, ErrorsTyped,
     WorldTyped DEF TypeInv

-----------------------------------------------------------------------------
(* The artifacts.                                                          *)

\* Rows and names do not change what the ledger says, nor which files are final.
LEMMA AppendedArtifacts ==
  ASSUME FileType, Len(files) > 0, Appended \/ AppendFails
  PROVE  LastChanged({"rows"})
<1>1. ASSUME Appended PROVE LastChanged({"rows"})
  BY <1>1, StoredChanges DEF Appended, FileType
<1>2. ASSUME AppendFails PROVE LastChanged({"rows"})
  <2>1. PICK n \in 0 .. Len(batch) : Stored(SubSeq(batch, 1, n))
    BY <1>2 DEF AppendFails
  <2> QED
    BY <2>1, Prefix, StoredChanges DEF FileType
<1> QED
  BY <1>1, <1>2

\* The ledger and the names as the steps see them.
LEMMA LastKept ==
  ASSUME NEW fields, LastChanged(fields), FileType
  PROVE  /\ Len(files') = Len(files)
         /\ \A i \in 1 .. Len(files) : i # Len(files) =>
              files'[i].ledger = files[i].ledger /\ files'[i].name = files[i].name
         /\ "name" \in fields \/ files'[Len(files)].name = files[Len(files)].name
         /\ "ledger" \in fields \/ files'[Len(files)].ledger = files[Len(files)].ledger
  BY DEF LastChanged

LEMMA ArtifactInit == Init => ArtifactInv
  BY DEF Init, ArtifactInv

\* Every step keeps the ledger, the lock and the writer together.
LEMMA ArtifactStep ==
  ASSUME TypeInv, ArtifactInv, [Next]_vars
  PROVE  ArtifactInv'
<1>len. writer \/ grant => Len(files) > 0
  BY DEF ArtifactInv
<1>type. FileType /\ WorkerType
  BY DEF TypeInv
<1>1. ASSUME Start PROVE ArtifactInv'
  BY <1>1, <1>type DEF Start, file, idle, ArtifactInv, WorkerType
<1>2. ASSUME Abandon PROVE ArtifactInv'
  BY <1>2, <1>type DEF Abandon, file, idle, ArtifactInv, WorkerType
<1>3. ASSUME Resume PROVE ArtifactInv'
  BY <1>3, <1>type DEF Resume, file, idle, ArtifactInv, WorkerType
<1>4. ASSUME Empty PROVE ArtifactInv'
  BY <1>4, <1>type DEF Empty, file, idle, ArtifactInv, WorkerType
<1>5. ASSUME Idle PROVE ArtifactInv'
  BY <1>5, <1>type DEF Idle, file, idle, ArtifactInv, WorkerType
<1>6. ASSUME PopRefused PROVE ArtifactInv'
  BY <1>6, <1>type DEF PopRefused, file, idle, ArtifactInv, WorkerType
<1>7. ASSUME PopAbsorb PROVE ArtifactInv'
  BY <1>7, <1>type DEF PopAbsorb, file, idle, ArtifactInv, WorkerType
<1>8. ASSUME Roll PROVE ArtifactInv'
  BY <1>8, <1>type DEF Roll, file, idle, ArtifactInv, WorkerType
<1>9. ASSUME Keep PROVE ArtifactInv'
  BY <1>9, <1>type DEF Keep, file, idle, ArtifactInv, WorkerType
<1>10. ASSUME Space PROVE ArtifactInv'
  BY <1>10, <1>type DEF Space, Throw, Thrown, file, idle, ArtifactInv, WorkerType
<1>11. ASSUME LowDisk PROVE ArtifactInv'
  BY <1>11, <1>type DEF LowDisk, Accepted, Returned, file, idle, ArtifactInv, WorkerType
<1>12. ASSUME LockArtifact PROVE ArtifactInv'
  BY <1>12, <1>type DEF LockArtifact, Throw, Thrown, idle, ArtifactInv
<1>13. ASSUME Reserve PROVE ArtifactInv'
  <2>1. ASSUME HasRoom(out.day),
               files' = Append(files, [rows |-> <<>>, name |-> "none",
                                       ledger |-> "WRITING", day |-> out.day]),
               grant' = TRUE, wpc' = "create"
        PROVE  ArtifactInv'
    <3>1. /\ Len(files') = Len(files) + 1 /\ Len(files) \in Nat
          /\ files'[Len(files')].ledger = "WRITING" /\ files'[Len(files')].name = "none"
          /\ \A i \in 1 .. Len(files) : files'[i] = files[i]
      BY <2>1, <1>type DEF FileType
    <3>2. \A i \in 1 .. Len(files') : i = Len(files') \/ i \in 1 .. Len(files)
      BY <3>1
    <3> QED
      BY <1>13, <2>1, <3>1, <3>2 DEF Reserve, ArtifactInv
  <2>2. ASSUME UNCHANGED <<files, grant>>, wpc' = Thrown PROVE ArtifactInv'
    BY <1>13, <2>2 DEF Reserve, Thrown, ArtifactInv
  <2> QED
    BY <1>13, <2>1, <2>2 DEF Reserve, Throw
<1>14. ASSUME Create PROVE ArtifactInv'
  <2>1. ASSUME Named("tmp") PROVE ArtifactInv'
    <3>1. LastChanged({"name"}) /\ files'[Len(files)].name = "tmp"
      BY <1>14, <1>len, <1>type, <2>1, RenamedChanges DEF Create, ArtifactInv, FileType
    <3> QED
      BY <1>14, <1>type, <3>1, LastKept DEF Create, Throw, Thrown, idle, ArtifactInv
  <2>2. ASSUME UNCHANGED files PROVE ArtifactInv'
    BY <1>14, <1>type, <2>2 DEF Create, Throw, Thrown, idle, ArtifactInv
  <2> QED
    BY <1>14, <2>1, <2>2 DEF Create, Throw
<1>15. ASSUME PushRow PROVE ArtifactInv'
  BY <1>15, <1>type DEF PushRow, Accepted, Returned, idle, ArtifactInv
<1>16. ASSUME AppendBatch PROVE ArtifactInv'
  <2>1. ASSUME Appended \/ AppendFails, writer PROVE ArtifactInv'
    <3>1. LastChanged({"rows"})
      BY <1>len, <1>type, <2>1, AppendedArtifacts
    <3> HIDE DEF Appended
    <3> QED
      BY <1>16, <1>type, <2>1, <3>1, LastKept DEF AppendBatch, Accepted, Returned, AppendFails, Throw, Thrown, idle, ArtifactInv
  <2>2. ASSUME UNCHANGED files, ~writer \/ wpc = "flush" PROVE ArtifactInv'
    BY <1>16, <1>type, <2>2 DEF AppendBatch, Accepted, Returned, AppendFails, Throw, Thrown, idle, ArtifactInv, WorkerType
  <2> QED
    BY <1>16, <1>type, <2>1, <2>2 DEF AppendBatch, ArtifactInv, FileType
<1>17. ASSUME Flush PROVE ArtifactInv'
  <2>1. ASSUME Appended \/ AppendFails, writer PROVE ArtifactInv'
    <3>1. LastChanged({"rows"})
      BY <1>len, <1>type, <2>1, AppendedArtifacts
    <3> HIDE DEF Appended
    <3> QED
      BY <1>17, <1>type, <2>1, <3>1, LastKept DEF Flush, AppendFails, Throw, Thrown, idle, ArtifactInv
  <2>2. ASSUME UNCHANGED files, ~writer \/ wpc = "flush" PROVE ArtifactInv'
    BY <1>17, <1>type, <2>2 DEF Flush, AppendFails, Throw, Thrown, idle, ArtifactInv, WorkerType
  <2> QED
    BY <1>17, <1>type, <2>1, <2>2 DEF Flush, FileType
<1>18. ASSUME Status PROVE ArtifactInv'
  BY <1>18, <1>type DEF Status, file, idle, ArtifactInv, WorkerType
<1>19. ASSUME Close PROVE ArtifactInv'
  <2>1. ASSUME Appended \/ AppendFails, writer,
               \/ writer' = FALSE /\ wpc' = "publish"
               \/ UNCHANGED writer /\ wpc' = Thrown
        PROVE  ArtifactInv'
    <3>1. LastChanged({"rows"})
      BY <1>len, <1>type, <2>1, AppendedArtifacts
    <3>2. UNCHANGED <<grant, owner>> /\ wpc = "close"
      BY <1>19 DEF Close
    <3>3. CASE writer' = FALSE /\ wpc' = "publish"
      BY <1>type, <2>1, <3>1, <3>2, <3>3, LastKept DEF ArtifactInv
    <3>4. CASE UNCHANGED writer /\ wpc' = Thrown
      BY <1>type, <2>1, <3>1, <3>2, <3>4, LastKept DEF Thrown, ArtifactInv
    <3> QED
      BY <2>1, <3>3, <3>4
  <2>2. ASSUME UNCHANGED files, UNCHANGED writer, ~writer, wpc' = after PROVE ArtifactInv'
    BY <1>19, <1>type, <2>2 DEF Close, idle, ArtifactInv, WorkerType
  <2>3. AppendFails => wpc' = Thrown
    BY DEF AppendFails, Throw
  <2>4. \/ UNCHANGED files /\ UNCHANGED writer /\ ~writer /\ wpc' = after
        \/ Appended /\ writer /\ writer' = FALSE /\ wpc' = "publish"
        \/ AppendFails /\ writer /\ UNCHANGED writer
    BY <1>19 DEF Close
  <2> QED
    <3>1. CASE UNCHANGED files /\ UNCHANGED writer /\ ~writer /\ wpc' = after
      BY <3>1, <2>2
    <3>2. CASE Appended /\ writer /\ writer' = FALSE /\ wpc' = "publish"
      BY <3>2, <2>1
    <3>3. CASE AppendFails /\ writer /\ UNCHANGED writer
      BY <3>3, <2>1, <2>3
    <3> QED
      BY <2>4, <3>1, <3>2, <3>3
<1>20. ASSUME Publish PROVE ArtifactInv'
  <2>1. ASSUME Named("final") PROVE ArtifactInv'
    <3>1. LastChanged({"name"}) /\ files'[Len(files)].name = "final"
      BY <1>20, <1>len, <1>type, <2>1, RenamedChanges DEF Publish, ArtifactInv, FileType
    <3> QED
      BY <1>20, <1>type, <3>1, LastKept DEF Publish, Throw, Thrown, idle, ArtifactInv
  <2>2. ASSUME UNCHANGED files, wpc' = Thrown PROVE ArtifactInv'
    BY <1>20, <1>type, <2>2 DEF Publish, Throw, Thrown, idle, ArtifactInv
  <2> QED
    BY <1>20, <2>1, <2>2 DEF Publish, Throw
<1>21. ASSUME Ready PROVE ArtifactInv'
  <2>1. ASSUME Decided("READY"), grant, grant' = FALSE, owner' = FALSE, wpc' = after PROVE ArtifactInv'
    <3>1. LastChanged({"ledger"}) /\ files'[Len(files)].ledger = "READY"
      BY <1>len, <1>type, <2>1, DecidedChanges DEF FileType
    <3> QED
      BY <1>21, <1>type, <2>1, <3>1, LastKept DEF Ready, Throw, Thrown, idle, ArtifactInv, WorkerType
  <2>2. ASSUME UNCHANGED <<files, grant, owner>>, wpc' = Thrown PROVE ArtifactInv'
    BY <1>21, <1>type, <2>2 DEF Ready, Throw, Thrown, idle, ArtifactInv, WorkerType
  <2> QED
    BY <1>21, <2>1, <2>2 DEF Ready, Throw, Thrown, ArtifactInv
<1>22. ASSUME Failed PROVE ArtifactInv'
  <2>1. ASSUME Decided("QUARANTINED"), grant PROVE ArtifactInv'
    <3>1. LastChanged({"ledger"}) /\ files'[Len(files)].ledger = "QUARANTINED"
      BY <1>len, <1>type, <2>1, DecidedChanges DEF FileType
    <3> QED
      BY <1>22, <1>type, <2>1, <3>1, LastKept DEF Failed, Quarantined, idle, ArtifactInv, WorkerType
  <2>2. ASSUME UNCHANGED files, ~grant PROVE ArtifactInv'
    BY <1>22, <1>type, <2>2 DEF Failed, Quarantined, idle, ArtifactInv, WorkerType
  <2> QED
    BY <1>22, <2>1, <2>2 DEF Failed, Quarantined, ArtifactInv
<1>23. ASSUME QuarantineFails PROVE ArtifactInv'
  BY <1>23, <1>type DEF QuarantineFails, idle, ArtifactInv
<1>24. ASSUME Finish PROVE ArtifactInv'
  BY <1>24, <1>type DEF Finish, file, idle, ArtifactInv, WorkerType
<1>25. ASSUME FinishPaused PROVE ArtifactInv'
  <2>1. ASSUME Decided("QUARANTINED"), grant PROVE ArtifactInv'
    <3>1. LastChanged({"ledger"}) /\ files'[Len(files)].ledger = "QUARANTINED"
      BY <1>len, <1>type, <2>1, DecidedChanges DEF FileType
    <3> QED
      BY <1>25, <1>type, <2>1, <3>1, LastKept DEF FinishPaused, Quarantined, idle, ArtifactInv, WorkerType
  <2>2. ASSUME UNCHANGED files, ~grant PROVE ArtifactInv'
    BY <1>25, <1>type, <2>2 DEF FinishPaused, Quarantined, idle, ArtifactInv, WorkerType
  <2> QED
    BY <1>25, <2>1, <2>2 DEF FinishPaused, Quarantined, ArtifactInv
<1>26. ASSUME Exit PROVE ArtifactInv'
  BY <1>26, <1>type DEF Exit, file, idle, ArtifactInv, WorkerType
<1>27. ASSUME Dying PROVE ArtifactInv'
  BY <1>27, <1>type DEF Dying, idle, ArtifactInv
<1>28. ASSUME UNCHANGED <<file, worker>> PROVE ArtifactInv'
  BY <1>28 DEF file, worker, ArtifactInv
<1> QED
  BY <1>1, <1>2, <1>3, <1>4, <1>5, <1>6, <1>7, <1>8, <1>9, <1>10, <1>11, <1>12,
     <1>13, <1>14, <1>15, <1>16, <1>17, <1>18, <1>19, <1>20, <1>21, <1>22, <1>23,
     <1>24, <1>25, <1>26, <1>27, <1>28, FileSame, WorkerSame DEF Next, Worker

-----------------------------------------------------------------------------
(* The rows.                                                               *)

LEMMA RowInit == Init => RowInv
  BY DEF Init, RowInv, WindowIn, QueueIn, RowsIn, FilesIn, OutIn, Carrying, NoWindow

\* What was given to the aggregator stays given.
LEMMA KeptGrows ==
  ASSUME [Next]_vars
  PROVE  kept \subseteq kept'
<1>1. ASSUME PopAbsorb PROVE kept \subseteq kept'
  BY <1>1 DEF PopAbsorb
<1>2. ASSUME Failed PROVE kept \subseteq kept'
  BY <1>2 DEF Failed
<1>3. ASSUME Finish PROVE kept \subseteq kept'
  BY <1>3 DEF Finish
<1>4. ASSUME UNCHANGED aggregator PROVE kept \subseteq kept'
  BY <1>4 DEF aggregator
<1> QED
  BY <1>1, <1>2, <1>3, <1>4, AggregatorSame DEF Next, Worker

LEMMA RowsInGrow ==
  ASSUME NEW s, NEW k, NEW m, k \subseteq m, RowsIn(s, k)
  PROVE  RowsIn(s, m)
  BY DEF RowsIn

LEMMA RowsInConcat ==
  ASSUME NEW s \in Seq(Row), NEW t \in Seq(Row), NEW k, RowsIn(s, k), RowsIn(t, k)
  PROVE  RowsIn(s \o t, k)
<1> SUFFICES ASSUME NEW i \in 1 .. Len(s \o t) PROVE Frames((s \o t)[i]) \subseteq k
  BY DEF RowsIn
<1>1. CASE i \in 1 .. Len(s)
  <2>1. (s \o t)[i] = s[i]
    BY <1>1
  <2> QED
    BY <1>1, <2>1 DEF RowsIn
<1>2. CASE i \notin 1 .. Len(s)
  <2>1. i - Len(s) \in 1 .. Len(t) /\ (s \o t)[i] = t[i - Len(s)]
    BY <1>2
  <2> QED
    BY <2>1 DEF RowsIn
<1> QED
  BY <1>1, <1>2

\* A window extended over the next record: the heart of the matter.  A window
\* that has a beginning ends where the aggregator was last, so a record that
\* is no gap is the frame after it.
LEMMA ExtendedWhole ==
  ASSUME AggregatorType, WindowIn, NEW r \in Record
  PROVE  /\ Frames(Extended(r)) \subseteq kept \cup {r.frame}
         /\ Extended(r).last = r.frame
<1>1. r.frame \in Nat
  BY DEF Record
<1>2. CASE window.count = 0 \/ Gap(r)
  <2>1. Extended(r).first = r.frame /\ Extended(r).last = r.frame
    BY <1>2 DEF Extended
  <2> QED
    BY <1>1, <2>1 DEF Frames
<1>3. CASE ~(window.count = 0 \/ Gap(r))
  <2>1. window.first \in Nat /\ window.last \in Nat /\ window.count > 0
    BY <1>3 DEF AggregatorType, Window
  <2>2. r.frame = window.last + 1 /\ Frames(window) \subseteq kept
    BY <1>3, <2>1 DEF Gap, WindowIn
  <2>3. Extended(r).first = window.first /\ Extended(r).last = r.frame
    BY <1>3 DEF Extended, AggregatorType, Window
  <2>4. window.first .. (window.last + 1) \subseteq (window.first .. window.last) \cup {window.last + 1}
    BY <2>1
  <2> QED
    BY <2>2, <2>3, <2>4 DEF Frames
<1> QED
  BY <1>2, <1>3

\* The rows of a window have its frames.
LEMMA RowFrames ==
  ASSUME NEW w, NEW g, NEW r \in Rows(w, g)
  PROVE  Frames(r) = Frames(w)
  BY DEF Rows, Frames

LEMMA WindowStep ==
  ASSUME TypeInv, RowInv, [Next]_vars
  PROVE  WindowIn'
<1>1. ASSUME PopAbsorb PROVE WindowIn'
  <2> DEFINE r == Head(queue)
  <2>1. r \in Record /\ r.seg # 0
    BY <1>1 DEF PopAbsorb, TypeInv, SharedType, RowInv, QueueIn
  <2>2. Frames(Extended(r)) \subseteq kept \cup {r.frame} /\ Extended(r).last = r.frame
    BY <2>1, ExtendedWhole DEF TypeInv, RowInv
  <2>3. /\ kept' = kept \cup {r.frame} /\ prev' = [frame |-> r.frame, seg |-> r.seg]
        /\ window' = NoWindow \/ window' = Extended(r)
    BY <1>1 DEF PopAbsorb
  <2>4. CASE window' = NoWindow
    BY <2>4 DEF WindowIn, NoWindow
  <2>5. CASE window' = Extended(r)
    BY <2>1, <2>2, <2>3, <2>5 DEF WindowIn, Frames
  <2> QED
    BY <2>3, <2>4, <2>5
<1>2. ASSUME Failed \/ Finish PROVE WindowIn'
  <2>1. window' = NoWindow
    BY <1>2 DEF Failed, Finish
  <2> QED
    BY <2>1 DEF WindowIn, NoWindow
<1>3. ASSUME UNCHANGED aggregator PROVE WindowIn'
  BY <1>3 DEF aggregator, RowInv, WindowIn, Frames
<1> QED
  BY <1>1, <1>2, <1>3, AggregatorSame DEF Next, Worker

LEMMA QueueStep ==
  ASSUME TypeInv, RowInv, [Next]_vars
  PROVE  QueueIn'
<1>type. queue \in Seq(Record)
  BY DEF TypeInv, SharedType
<1>1. ASSUME Push PROVE QueueIn'
  <2>1. PICK d \in EstimatedDays : TryPush([frame |-> frame, seg |-> SegmentOf, day |-> d])
    BY <1>1 DEF Push
  <2>2. SegmentOf # 0
    BY DEF SegmentOf, NewSegment, TypeInv, ProducerType
  <2>3. CASE UNCHANGED queue
    BY <2>3 DEF RowInv, QueueIn
  <2>4. ASSUME NEW x, x.seg # 0, queue' = Append(queue, x) PROVE QueueIn'
    <3>1. /\ Len(queue') = Len(queue) + 1 /\ Len(queue) \in Nat
          /\ queue'[Len(queue')] = x
          /\ \A i \in 1 .. Len(queue) : queue'[i] = queue[i]
      BY <1>type, <2>4
    <3> QED
      BY <2>4, <3>1 DEF RowInv, QueueIn
  <2> QED
    BY <2>1, <2>2, <2>3, <2>4 DEF TryPush
<1>2. ASSUME PopRefused \/ PopAbsorb PROVE QueueIn'
  <2>1. queue # <<>> /\ queue' = Tail(queue)
    BY <1>2 DEF PopRefused, PopAbsorb
  <2> QED
    BY <1>type, <2>1 DEF RowInv, QueueIn
<1>3. ASSUME Abandon PROVE QueueIn'
  BY <1>3 DEF Abandon, QueueIn
<1>4. ASSUME UNCHANGED queue PROVE QueueIn'
  BY <1>4 DEF RowInv, QueueIn
<1>5. Refuse \/ Resume \/ LowDisk \/ Failed \/ Exit \/ Dying => UNCHANGED queue
  BY DEF Refuse, Resume, LowDisk, Failed, Exit, Dying, consumer, idle
<1>6. UNCHANGED shared => UNCHANGED queue
  BY DEF shared
<1> QED
  BY <1>1, <1>2, <1>3, <1>4, <1>5, <1>6, SharedSame DEF Next, Worker

\* The rows that an append adds to the current file were in the batch.
LEMMA AppendedWhole ==
  ASSUME FileType, Len(files) > 0, RowInv, Appended \/ AppendFails
  PROVE  /\ \A i \in 1 .. Len(files') : RowsIn(files'[i].rows, kept)
         /\ RowsIn(batch', kept)
<1>1. ASSUME NEW rows \in Seq(Row), Stored(rows), RowsIn(rows, kept)
      PROVE  \A i \in 1 .. Len(files') : RowsIn(files'[i].rows, kept)
  <2>1. /\ Len(files') = Len(files)
        /\ \A i \in 1 .. Len(files) : i # Len(files) => files'[i] = files[i]
        /\ files'[Len(files)].rows = files[Len(files)].rows \o rows
    BY <1>1, StoredChanges DEF LastChanged, FileType
  <2>2. files[Len(files)] \in Artifact /\ Len(files) \in 1 .. Len(files)
    BY DEF FileType
  <2>4. files[Len(files)].rows \in Seq(Row)
    BY <2>2 DEF Artifact
  <2>3. RowsIn(files[Len(files)].rows \o rows, kept)
    BY <1>1, <2>2, <2>4, RowsInConcat DEF RowInv, FilesIn
  <2> QED
    BY <2>1, <2>3 DEF RowInv, FilesIn
<1>2. CASE Appended
  <2>1. Stored(batch) /\ batch' = <<>> /\ batch \in Seq(Row) /\ RowsIn(batch, kept)
    BY <1>2 DEF Appended, FileType, RowInv
  <2>2. RowsIn(batch', kept)
    BY <2>1 DEF RowsIn
  <2> QED
    BY <1>1, <2>1, <2>2
<1>3. CASE AppendFails
  <2>1. PICK n \in 0 .. Len(batch) : Stored(SubSeq(batch, 1, n))
    BY <1>3 DEF AppendFails
  <2>2. SubSeq(batch, 1, n) \in Seq(Row) /\ RowsIn(SubSeq(batch, 1, n), kept)
    BY Prefix DEF FileType, RowInv, RowsIn
  <2>3. RowsIn(batch', kept)
    BY <1>3 DEF AppendFails, RowInv
  <2> QED
    BY <1>1, <2>1, <2>2, <2>3
<1> QED
  BY <1>2, <1>3

\* No other change of the current file touches rows.
LEMMA OtherChanges ==
  ASSUME FileType, Len(files) > 0, RowInv,
         \/ \E x \in {"tmp", "final"} : Named(x)
         \/ \E x \in {"READY", "QUARANTINED"} : Decided(x)
  PROVE  \A i \in 1 .. Len(files') : RowsIn(files'[i].rows, kept)
<1>1. PICK f \in {{"name"}, {"ledger"}} : LastChanged(f)
  BY RenamedChanges, DecidedChanges DEF FileType
<1>2. /\ Len(files') = Len(files)
      /\ \A i \in 1 .. Len(files) : files'[i].rows = files[i].rows
  BY <1>1 DEF LastChanged, FileType
<1> QED
  BY <1>2 DEF RowInv, FilesIn

LEMMA FilesStep ==
  ASSUME TypeInv, ArtifactInv, RowInv, [Next]_vars
  PROVE  FilesIn' /\ RowsIn(batch', kept')
<1> DEFINE Good == /\ \A i \in 1 .. Len(files') : RowsIn(files'[i].rows, kept)
                   /\ RowsIn(batch', kept)
<1>len. writer \/ grant => Len(files) > 0
  BY DEF ArtifactInv
<1>type. FileType /\ WorkerType
  BY DEF TypeInv
<1>old. RowsIn(batch, kept) /\ FilesIn
  BY DEF RowInv
<1>1. ASSUME UNCHANGED <<files, batch>> PROVE Good
  BY <1>1, <1>old DEF FilesIn
<1>2. ASSUME Reserve PROVE Good
  <2>1. CASE UNCHANGED files
    BY <1>2, <2>1, <1>1 DEF Reserve
  <2>2. ASSUME NEW x, x.rows = <<>>, files' = Append(files, x) PROVE Good
    <3>1. /\ Len(files') = Len(files) + 1 /\ Len(files) \in Nat
          /\ files'[Len(files')].rows = <<>>
          /\ \A i \in 1 .. Len(files) : files'[i] = files[i]
      BY <2>2, <1>type DEF FileType
    <3>2. \A i \in 1 .. Len(files') : RowsIn(files'[i].rows, kept)
      BY <3>1, <1>old DEF FilesIn, RowsIn
    <3>3. UNCHANGED batch
      BY <1>2 DEF Reserve
    <3> QED
      BY <3>2, <3>3, <1>old
  <2> QED
    BY <1>2, <2>1, <2>2 DEF Reserve
<1>3. ASSUME Create \/ Publish \/ Ready PROVE Good
  <2>1. UNCHANGED batch /\ grant
    BY <1>3 DEF Create, Publish, Ready, ArtifactInv
  <2>2. \/ UNCHANGED files
        \/ \E x \in {"tmp", "final"} : Named(x)
        \/ \E x \in {"READY", "QUARANTINED"} : Decided(x)
    BY <1>3 DEF Create, Publish, Ready
  <2> QED
    BY <2>1, <2>2, <1>1, <1>len, <1>type, <1>old, OtherChanges
<1>4. ASSUME PushRow PROVE Good
  <2>1. /\ batch' = Append(batch, out) /\ UNCHANGED files
        /\ Frames(out) \subseteq kept
    BY <1>4 DEF PushRow, RowInv, OutIn, Carrying
  <2>2. /\ Len(batch') = Len(batch) + 1 /\ Len(batch) \in Nat
        /\ batch'[Len(batch')] = out
        /\ \A i \in 1 .. Len(batch) : batch'[i] = batch[i]
    BY <2>1, <1>type DEF FileType
  <2>3. RowsIn(batch', kept)
    BY <2>1, <2>2, <1>old DEF RowsIn
  <2> QED
    BY <2>1, <2>3, <1>old DEF FilesIn
<1>5. ASSUME AppendBatch \/ Flush \/ Close PROVE Good
  <2>1. \/ UNCHANGED files /\ UNCHANGED batch
        \/ writer /\ Appended
        \/ writer /\ AppendFails
    BY <1>5 DEF AppendBatch, Flush, Close, ArtifactInv
  <2> QED
    BY <2>1, <1>1, <1>len, <1>type, AppendedWhole
<1>6. ASSUME Failed \/ FinishPaused PROVE Good
  <2>1. batch' = <<>>
    BY <1>6 DEF Failed, FinishPaused, Quarantined
  <2>2. \/ UNCHANGED files
        \/ grant /\ Decided("QUARANTINED")
    BY <1>6 DEF Failed, FinishPaused, Quarantined
  <2>3. RowsIn(batch', kept)
    BY <2>1 DEF RowsIn
  <2>4. CASE UNCHANGED files
    BY <2>3, <2>4, <1>old DEF FilesIn
  <2>5. CASE grant /\ Decided("QUARANTINED")
    BY <2>3, <2>5, <1>len, <1>type, OtherChanges
  <2> QED
    BY <2>2, <2>4, <2>5
<1>7. ASSUME QuarantineFails PROVE Good
  BY <1>7, <1>old DEF QuarantineFails, FilesIn, RowsIn
<1>rest. LockArtifact \/ Dying \/ UNCHANGED file => UNCHANGED <<files, batch>>
  BY DEF LockArtifact, Dying, file
<1>good. Good
  BY <1>1, <1>2, <1>3, <1>4, <1>5, <1>6, <1>7, <1>rest, FileSame DEF Next, Worker
<1> QED
  BY <1>good, KeptGrows, RowsInGrow DEF FilesIn

LEMMA OutStep ==
  ASSUME TypeInv, RowInv, [Next]_vars
  PROVE  OutIn'
<1> DEFINE Good == out' # NoRow \/ Carrying' => Frames(out') \subseteq kept
<1>old. OutIn /\ WorkerType
  BY DEF RowInv, TypeInv
<1>1. ASSUME PopAbsorb PROVE OutIn'
  <2> DEFINE r == Head(queue)
  <2>1. r \in Record
    BY <1>1 DEF PopAbsorb, TypeInv, SharedType
  <2>2. Frames(Extended(r)) \subseteq kept \cup {r.frame} /\ kept' = kept \cup {r.frame}
    BY <1>1, <2>1, ExtendedWhole DEF PopAbsorb, TypeInv, RowInv
  <2>3. CASE out' \in Rows(window, TRUE) /\ window.count > 0
    BY <2>2, <2>3, RowFrames DEF OutIn, RowInv, WindowIn
  <2>4. CASE out' \in Rows(Extended(r), FALSE)
    BY <2>2, <2>4, RowFrames DEF OutIn
  <2>5. CASE out' = out /\ wpc' = "flush"
    BY <1>old, <2>2, <2>5 DEF OutIn, Carrying
  <2> QED
    BY <1>1, <2>3, <2>4, <2>5 DEF PopAbsorb
<1>2. ASSUME Finish PROVE Good
  <2>1. CASE out' \in Rows(window, FALSE) /\ window.count > 0
    BY <2>1, RowFrames DEF RowInv, WindowIn
  <2>2. CASE UNCHANGED out /\ wpc' = "close"
    BY <1>2, <2>2, <1>old DEF Finish, OutIn, Carrying
  <2> QED
    BY <1>2, <2>1, <2>2 DEF Finish
<1>3. ASSUME Start PROVE Good
  BY <1>3, <1>old DEF Start, OutIn, Carrying, WorkerType
<1>4. ASSUME Abandon PROVE Good
  BY <1>4, <1>old DEF Abandon, OutIn, Carrying, WorkerType
<1>5. ASSUME Resume PROVE Good
  BY <1>5, <1>old DEF Resume, OutIn, Carrying, WorkerType
<1>6. ASSUME Empty PROVE Good
  BY <1>6, <1>old DEF Empty, OutIn, Carrying, WorkerType
<1>7. ASSUME Idle PROVE Good
  BY <1>7, <1>old DEF Idle, OutIn, Carrying, WorkerType
<1>8. ASSUME PopRefused PROVE Good
  BY <1>8, <1>old DEF PopRefused, OutIn, Carrying, WorkerType
<1>9. ASSUME Roll PROVE Good
  BY <1>9, <1>old DEF Roll, OutIn, Carrying, WorkerType
<1>10. ASSUME Keep PROVE Good
  BY <1>10, <1>old DEF Keep, OutIn, Carrying, WorkerType
<1>11. ASSUME Space PROVE Good
  BY <1>11, <1>old DEF Space, Throw, Thrown, OutIn, Carrying, WorkerType
<1>12. ASSUME LowDisk PROVE Good
  BY <1>12, <1>old DEF LowDisk, Accepted, Returned, OutIn, Carrying, WorkerType
<1>13. ASSUME LockArtifact PROVE Good
  BY <1>13, <1>old DEF LockArtifact, Throw, Thrown, OutIn, Carrying, WorkerType
<1>14. ASSUME Reserve PROVE Good
  BY <1>14, <1>old DEF Reserve, Throw, Thrown, OutIn, Carrying, WorkerType
<1>15. ASSUME Create PROVE Good
  BY <1>15, <1>old DEF Create, Throw, Thrown, OutIn, Carrying, WorkerType
<1>16. ASSUME PushRow PROVE Good
  BY <1>16, <1>old DEF PushRow, Accepted, Returned, OutIn, Carrying, WorkerType
<1>17. ASSUME AppendBatch PROVE Good
  BY <1>17, <1>old DEF AppendBatch, Accepted, Returned, AppendFails, Throw, Thrown, OutIn, Carrying, WorkerType
<1>18. ASSUME Flush PROVE Good
  BY <1>18, <1>old DEF Flush, AppendFails, Throw, Thrown, OutIn, Carrying, WorkerType
<1>19. ASSUME Status PROVE Good
  BY <1>19, <1>old DEF Status, OutIn, Carrying, WorkerType
<1>20. ASSUME Close PROVE Good
  BY <1>20, <1>old DEF Close, AppendFails, Throw, Thrown, OutIn, Carrying, WorkerType
<1>21. ASSUME Publish PROVE Good
  BY <1>21, <1>old DEF Publish, Throw, Thrown, OutIn, Carrying, WorkerType
<1>22. ASSUME Ready PROVE Good
  BY <1>22, <1>old DEF Ready, Throw, Thrown, OutIn, Carrying, WorkerType
<1>23. ASSUME Failed PROVE Good
  BY <1>23, <1>old DEF Failed, OutIn, Carrying, WorkerType
<1>24. ASSUME QuarantineFails PROVE Good
  BY <1>24, <1>old DEF QuarantineFails, OutIn, Carrying, WorkerType
<1>25. ASSUME FinishPaused PROVE Good
  BY <1>25, <1>old DEF FinishPaused, OutIn, Carrying, WorkerType
<1>26. ASSUME Exit PROVE Good
  BY <1>26, <1>old DEF Exit, OutIn, Carrying, WorkerType
<1>27. ASSUME Dying PROVE Good
  BY <1>27, <1>old DEF Dying, OutIn, Carrying, WorkerType
<1>28. ASSUME UNCHANGED worker PROVE Good
  BY <1>28, <1>old DEF worker, OutIn, Carrying
<1>good. ~PopAbsorb => Good
  BY <1>2, <1>3, <1>4, <1>5, <1>6, <1>7, <1>8, <1>9, <1>10, <1>11, <1>12, <1>13,
     <1>14, <1>15, <1>16, <1>17, <1>18, <1>19, <1>20, <1>21, <1>22, <1>23, <1>24,
     <1>25, <1>26, <1>27, <1>28, WorkerSame DEF Next, Worker
<1> QED
  BY <1>1, <1>good, KeptGrows DEF OutIn

LEMMA RowStep ==
  ASSUME TypeInv, ArtifactInv, RowInv, [Next]_vars
  PROVE  RowInv'
  BY WindowStep, QueueStep, FilesStep, OutStep DEF RowInv

-----------------------------------------------------------------------------
(* The theorems.                                                           *)

IInv == TypeInv /\ ArtifactInv /\ RowInv

LEMMA Inductive == Spec => []IInv
<1>1. Init => IInv
  BY TypeInit, ArtifactInit, RowInit DEF IInv
<1>2. IInv /\ [Next]_vars => IInv'
  BY TypeStep, ArtifactStep, RowStep DEF IInv
<1> QED
  BY <1>1, <1>2, PTL DEF Spec

\* Every variable of the pipeline keeps its type, whatever the sizes.
THEOREM TypeCorrect == Spec => []TypeOK
<1>1. IInv => TypeOK
  BY TypeInvIsTypeOK DEF IInv
<1> QED
  BY <1>1, Inductive, PTL

\* No row, in memory or on disk, ever sums over a frame that the aggregator was
\* not given: windows never span a refused, lost or dropped spectrum.
THEOREM WholeRows == Spec => []RowsAreWhole
<1>1. IInv => RowsAreWhole
  <2> SUFFICES ASSUME IInv, NEW r \in InHand \cup OnDisk PROVE Frames(r) \subseteq kept
    BY DEF RowsAreWhole
  <2>type. batch \in Seq(Row) /\ files \in Seq(Artifact)
    BY DEF IInv, TypeInv, FileType
  <2>1. CASE r \in {batch[i] : i \in DOMAIN batch}
    BY <2>type, <2>1 DEF IInv, RowInv, RowsIn
  <2>2. CASE r \in {out} \ {NoRow}
    BY <2>2 DEF IInv, RowInv, OutIn
  <2>3. CASE r \in OnDisk
    <3>1. PICK i \in 1 .. Len(files) : r \in {files[i].rows[j] : j \in DOMAIN files[i].rows}
      BY <2>type, <2>3 DEF OnDisk
    <3>2. files[i] \in Artifact
      BY <2>type, <3>1
    <3>3. files[i].rows \in Seq(Row)
      BY <3>2 DEF Artifact
    <3> QED
      BY <3>1, <3>3 DEF IInv, RowInv, FilesIn, RowsIn
  <2> QED
    BY <2>1, <2>2, <2>3 DEF InHand
<1> QED
  BY <1>1, Inductive, PTL

\* As long as the worker lives, what the ledger calls WRITING is its current
\* file and is locked.
THEOREM Locked == Spec => []LockedWhileWriting
<1>1. IInv => LockedWhileWriting
  BY DEF IInv, ArtifactInv, TypeInv, FileType, LockedWhileWriting, Current
<1> QED
  BY <1>1, Inductive, PTL

\* What the ledger calls READY has its final name and nothing left in memory.
THEOREM Published == Spec => []ReadyIsPublished
<1>1. IInv => ReadyIsPublished
  BY DEF IInv, ArtifactInv, TypeInv, FileType, ReadyIsPublished, Current
<1> QED
  BY <1>1, Inductive, PTL

\* A step changes the current artifact, if it still is WRITING, or adds one.
LEMMA OnlyWriting ==
  ASSUME IInv, [Next]_vars
  PROVE  \/ UNCHANGED files
         \/ \E f : LastChanged(f) /\ files[Len(files)].ledger = "WRITING"
         \/ \E x : files' = Append(files, x)
<1> DEFINE Good == \/ UNCHANGED files
                   \/ \E f : LastChanged(f) /\ files[Len(files)].ledger = "WRITING"
                   \/ \E x : files' = Append(files, x)
<1>type. FileType
  BY DEF IInv, TypeInv
<1>held. writer \/ grant => Len(files) > 0 /\ files[Len(files)].ledger = "WRITING"
  BY DEF IInv, ArtifactInv
<1>1. ASSUME Create \/ Publish \/ Ready PROVE Good
  <2>1. grant
    BY <1>1 DEF Create, Publish, Ready, IInv, ArtifactInv
  <2>2. \/ UNCHANGED files
        \/ \E x \in {"tmp", "final"} : Named(x)
        \/ \E x \in {"READY", "QUARANTINED"} : Decided(x)
    BY <1>1 DEF Create, Publish, Ready
  <2> QED
    BY <2>1, <2>2, <1>held, <1>type, RenamedChanges, DecidedChanges DEF FileType
<1>2. ASSUME AppendBatch \/ Flush \/ Close PROVE Good
  <2>1. \/ UNCHANGED files
        \/ writer /\ Appended
        \/ writer /\ AppendFails
    BY <1>2 DEF AppendBatch, Flush, Close, IInv, ArtifactInv
  <2> QED
    BY <2>1, <1>held, <1>type, AppendedArtifacts
<1>3. ASSUME Failed \/ FinishPaused PROVE Good
  <2>1. \/ UNCHANGED files
        \/ grant /\ Decided("QUARANTINED")
    BY <1>3 DEF Failed, FinishPaused, Quarantined
  <2> QED
    BY <2>1, <1>held, <1>type, DecidedChanges DEF FileType
<1>4. ASSUME Reserve PROVE Good
  BY <1>4 DEF Reserve
<1>5. LockArtifact \/ PushRow \/ QuarantineFails \/ Dying \/ UNCHANGED file => UNCHANGED files
  BY DEF LockArtifact, PushRow, QuarantineFails, Dying, file
<1> QED
  BY <1>1, <1>2, <1>3, <1>4, <1>5, FileSame DEF Next, Worker

\* An artifact that the ledger calls READY is never written, renamed or
\* withdrawn again by the pipeline.
THEOREM Immutable == Spec => ReadyIsImmutable
<1>1. ASSUME IInv, [Next]_vars
      PROVE  \A i \in DOMAIN files : files[i].ledger = "READY" => files'[i] = files[i]
  <2> SUFFICES ASSUME NEW i \in 1 .. Len(files), files[i].ledger = "READY"
               PROVE  files'[i] = files[i]
    BY DEF IInv, TypeInv, FileType
  <2>1. CASE UNCHANGED files
    BY <2>1
  <2>2. ASSUME NEW f, LastChanged(f), files[Len(files)].ledger = "WRITING"
        PROVE  files'[i] = files[i]
    BY <2>2 DEF LastChanged
  <2>3. ASSUME NEW x, files' = Append(files, x) PROVE files'[i] = files[i]
    BY <2>3 DEF IInv, TypeInv, FileType
  <2> QED
    BY <1>1, <2>1, <2>2, <2>3, OnlyWriting
<1> QED
  BY <1>1, Inductive, PTL DEF Spec, ReadyIsImmutable

-----------------------------------------------------------------------------
(* Frames, from the queue to the files.                                    *)

\* What the worker holds may still be written.
Working == wpc \notin {"failed", "dying", "dead"}

\* Where there is a row between the aggregator and the batch.
Bearing ==
  \/ wpc \in {"accept", "space", "lowdisk", "open", "reserve", "create", "write"}
  \/ wpc \in {"close", "publish", "ready"} /\ after # "exit"

DiskRow(i, j) == files[i].rows[j]
RowsOfFile(i) == 1 .. Len(files[i].rows)

-----------------------------------------------------------------------------
(* The order of frames.                                                    *)

\* What waits was offered after all that the aggregator was given.
QueueOrder ==
  /\ \A i \in 1 .. Len(queue) : queue[i].frame < frame
  /\ \A i, j \in 1 .. Len(queue) : i < j => queue[i].frame < queue[j].frame
  /\ \A i \in 1 .. Len(queue), k \in kept : k < queue[i].frame
  /\ \A k \in kept : k < frame

\* Rows on disk, in the order of their files.
FilesOrder ==
  /\ \A i \in 1 .. Len(files) : \A j \in RowsOfFile(i) : DiskRow(i, j).first <= DiskRow(i, j).last
  /\ \A i, k \in 1 .. Len(files) : \A j \in RowsOfFile(i), l \in RowsOfFile(k) :
       i < k \/ (i = k /\ j < l) => DiskRow(i, j).last < DiskRow(k, l).first

\* Where the rows on disk end, where those of the batch do, and that all of
\* that is before frame f.
DiskLasts == UNION {{DiskRow(i, j).last : j \in RowsOfFile(i)} : i \in 1 .. Len(files)}
BatchLasts == {batch[i].last : i \in 1 .. Len(batch)}
Before(lasts, f) == \A x \in lasts : x < f

BatchOrder ==
  Working =>
    /\ \A i \in 1 .. Len(batch) : batch[i].first <= batch[i].last /\ Before(DiskLasts, batch[i].first)
    /\ \A i, j \in 1 .. Len(batch) : i < j => batch[i].last < batch[j].first

OutOrder ==
  Working /\ Bearing =>
    out.first <= out.last /\ Before(DiskLasts, out.first) /\ Before(BatchLasts, out.first)

WindowOrder ==
  Working /\ window.count > 0 =>
    /\ window.first <= window.last
    /\ Before(DiskLasts, window.first) /\ Before(BatchLasts, window.first)
    /\ Bearing => out.last < window.first

OrderInv == QueueOrder /\ FilesOrder /\ BatchOrder /\ OutOrder /\ WindowOrder

-----------------------------------------------------------------------------
(* Neighbours.                                                             *)

\* s goes on where r ends, or says that it does not.
Joined(r, s) == s.first = r.last + 1 \/ s.gap

\* The last row of the file that is open, on disk or in the batch.
Rest == files[Len(files)].rows
HasLast == writer /\ (batch # <<>> \/ Rest # <<>>)
LastRow == IF batch # <<>> THEN batch[Len(batch)] ELSE Rest[Len(Rest)]

\* Where the worker is when it has left the loop.
Ending == {"accept", "space", "lowdisk", "open", "reserve", "create", "write", "append",
           "close", "publish", "ready", "exit", "dying", "dead", "done"}

WorkerPlace == finishing => wpc \in Ending
FilePlace ==
  /\ Working /\ ~writer => batch = <<>>
  /\ wpc = "create" => Rest = <<>>
  /\ wpc = "lowdisk" => ~writer
PlaceInv == WorkerPlace /\ FilePlace /\ window.count < Target

DiskJoined == \A i \in 1 .. Len(files) : \A j \in RowsOfFile(i) : j > 1 => Joined(DiskRow(i, j - 1), DiskRow(i, j))

BatchJoined ==
  Working =>
    /\ \A j \in 1 .. Len(batch) : j > 1 => Joined(batch[j - 1], batch[j])
    /\ writer /\ batch # <<>> /\ Rest # <<>> => Joined(Rest[Len(Rest)], batch[1])

OutJoined == Working /\ Bearing /\ HasLast => Joined(LastRow, out)

WindowJoined ==
  Working /\ window.count > 0 =>
    /\ Bearing => Joined(out, window)
    /\ ~Bearing /\ HasLast => Joined(LastRow, window)

\* Without a window, the row before the next one ends where the aggregator is.
PrevJoined ==
  Working /\ window.count = 0 /\ ~finishing =>
    /\ Bearing => prev.seg # 0 /\ out.last = prev.frame
    /\ ~Bearing /\ HasLast => prev.seg # 0 /\ LastRow.last = prev.frame

GapInv == PlaceInv /\ DiskJoined /\ BatchJoined /\ OutJoined /\ WindowJoined /\ PrevJoined

-----------------------------------------------------------------------------
(* What is counted.                                                        *)

\* A frame that was offered has a lower number than the next one, and what
\* waits or was taken was offered.
CountInv ==
  /\ frame > 0 /\ 0 \notin submitted
  /\ IsFiniteSet(submitted)
  /\ \A s \in submitted : s < frame
  /\ kept \cup Queued \subseteq submitted
  /\ DropsAreCounted

\* Where out may still be lost or written.
Laden == Bearing \/ wpc = "failed"

\* A frame has a place behind the aggregator.
IsWritten(f) == \E i \in 1 .. Len(files) : \E j \in RowsOfFile(i) : f \in Frames(DiskRow(i, j))
IsBatched(f) == \E i \in 1 .. Len(batch) : f \in Frames(batch[i])
Covered(f) ==
  \/ IsWritten(f) \/ IsBatched(f)
  \/ Laden /\ f \in Frames(out)
  \/ window.count > 0 /\ f \in Frames(window)

Alive == wpc \notin {"dying", "dead"}

\* A worker that is not RUNNING has given up a row, and one that has given up
\* nothing has a place for all that it took.
LossInv ==
  /\ Alive /\ state \notin {"RUNNING", "STOPPING"} => outputDropped > 0
  /\ state = "STOPPING" => wpc \in {"done", "dying", "dead"}
  /\ Alive => outputDropped + discarded > 0 \/ \A f \in kept : Covered(f)

-----------------------------------------------------------------------------
(* Sequences of rows, on disk and in the batch.                            *)

\* The elements of two sequences put together.
LEMMA ConcatAt ==
  ASSUME NEW s \in Seq(Row), NEW t \in Seq(Row)
  PROVE  /\ s \o t \in Seq(Row) /\ Len(s \o t) = Len(s) + Len(t)
         /\ \A i \in 1 .. Len(s) : (s \o t)[i] = s[i]
         /\ \A i \in 1 .. Len(s \o t) :
              i \notin 1 .. Len(s) => i - Len(s) \in 1 .. Len(t) /\ (s \o t)[i] = t[i - Len(s)]
  OBVIOUS

LEMMA ConcatBatch ==
  ASSUME NEW s \in Seq(Row), NEW t \in Seq(Row), \A i \in 1 .. Len(t) : t[i] = batch[i]
  PROVE  /\ Len(s \o t) = Len(s) + Len(t)
         /\ \A i \in 1 .. Len(s) : (s \o t)[i] = s[i]
         /\ \A i \in 1 .. Len(s \o t) : i \notin 1 .. Len(s) =>
              i - Len(s) \in 1 .. Len(t) /\ (s \o t)[i] = batch[i - Len(s)]
  BY ConcatAt

\* Rows have numbers.
LEMMA RowTyped == \A r \in Row : r.first \in Nat /\ r.last \in Nat
  BY DEF Row

LEMMA DiskTyped ==
  ASSUME FileType, NEW i \in 1 .. Len(files)
  PROVE  /\ files[i].rows \in Seq(Row)
         /\ \A j \in RowsOfFile(i) : DiskRow(i, j) \in Row /\ DiskRow(i, j).first \in Nat
                                     /\ DiskRow(i, j).last \in Nat
<1>1. files[i] \in Artifact
  BY DEF FileType
<1>2. files[i].rows \in Seq(Row)
  BY <1>1 DEF Artifact
<1> QED
  BY <1>2, RowTyped DEF RowsOfFile, DiskRow

LEMMA BatchTyped ==
  ASSUME FileType
  PROVE  /\ Len(batch) \in Nat /\ Len(files) \in Nat
         /\ \A i \in 1 .. Len(batch) : batch[i] \in Row /\ batch[i].first \in Nat /\ batch[i].last \in Nat
  BY RowTyped DEF FileType

\* The rows of every file stay.
SameRows ==
  /\ Len(files') = Len(files)
  /\ \A i \in 1 .. Len(files) : files'[i].rows = files[i].rows

\* The current file gets further rows.
MoreRows(t) ==
  /\ Len(files) > 0 /\ Len(files') = Len(files)
  /\ \A i \in 1 .. Len(files) : i # Len(files) => files'[i].rows = files[i].rows
  /\ files'[Len(files)].rows = files[Len(files)].rows \o t

\* There is a further file, without rows.
OneMoreFile ==
  /\ Len(files') = Len(files) + 1 /\ files'[Len(files) + 1].rows = <<>>
  /\ \A i \in 1 .. Len(files) : files'[i].rows = files[i].rows

-----------------------------------------------------------------------------
(* What a step does to rows.                                               *)

\* What the worker has in hand stays there, unless the disk is low.
Holds ==
  /\ Working' => Working
  /\ Bearing' => Bearing /\ out' = out
  /\ Laden /\ Alive' => LowDisk \/ (Laden' /\ out' = out)

\* What the aggregator has aside.
aside == <<window, prev, finishing>>

Moves    == SameRows /\ UNCHANGED <<batch, aside>> /\ Holds /\ (writer' => writer \/ wpc = "create")
Opens    == OneMoreFile /\ UNCHANGED <<batch, aside>> /\ Holds /\ ~writer'
PushesRow == /\ SameRows /\ UNCHANGED aside
             /\ batch' = Append(batch, out) /\ Working /\ Bearing /\ ~Bearing' /\ writer
Writes   == MoreRows(batch) /\ batch' = <<>> /\ UNCHANGED aside /\ Working /\ Holds /\ writer
Breaks   == \E n \in 0 .. Len(batch) : MoreRows(SubSeq(batch, 1, n)) /\ writer /\ Working /\ ~Working'
            /\ UNCHANGED <<batch, window>> /\ (Laden /\ Alive' => Laden' /\ out' = out)
GivesUp  == /\ Failed \/ QuarantineFails \/ FinishPaused
            /\ SameRows /\ batch' = <<>> /\ ~writer' /\ ~Bearing'
            /\ window' = NoWindow \/ (UNCHANGED window /\ (Working' => Working))
Absorbs  == PopAbsorb /\ SameRows /\ UNCHANGED <<batch, writer>> /\ Working /\ Working'
Finishes == /\ Finish /\ SameRows /\ UNCHANGED <<batch, writer>> /\ window' = NoWindow /\ finishing'
            /\ Working /\ ~Bearing
            /\ \/ window.count > 0 /\ out' \in Rows(window, FALSE)
               \/ ~Bearing'

\* Renaming an artifact or deciding on it leaves its rows.
LEMMA OnlyRows ==
  ASSUME FileType, Len(files) > 0,
         \/ \E x \in {"tmp", "final"} : Named(x)
         \/ \E x \in {"READY", "QUARANTINED"} : Decided(x)
  PROVE  SameRows
<1>1. PICK f \in {{"name"}, {"ledger"}} : LastChanged(f)
  BY RenamedChanges, DecidedChanges DEF FileType
<1> QED
  BY <1>1 DEF LastChanged, SameRows, FileType

\* What an append adds to the current file is the batch, or its beginning.
LEMMA AppendAdds ==
  ASSUME FileType, Len(files) > 0
  PROVE  /\ Appended => MoreRows(batch) /\ batch' = <<>>
         /\ AppendFails => /\ \E n \in 0 .. Len(batch) : MoreRows(SubSeq(batch, 1, n))
                           /\ UNCHANGED batch /\ wpc' = Thrown
<1>1. ASSUME NEW rows \in Seq(Row), Stored(rows) PROVE MoreRows(rows)
  BY <1>1, StoredChanges DEF LastChanged, MoreRows, FileType
<1>2. Appended => MoreRows(batch) /\ batch' = <<>>
  BY <1>1 DEF Appended, FileType
<1>3. ASSUME AppendFails
      PROVE  /\ \E n \in 0 .. Len(batch) : MoreRows(SubSeq(batch, 1, n))
             /\ UNCHANGED batch /\ wpc' = Thrown
  <2>1. PICK n \in 0 .. Len(batch) : Stored(SubSeq(batch, 1, n))
    BY <1>3 DEF AppendFails
  <2>2. SubSeq(batch, 1, n) \in Seq(Row)
    BY Prefix DEF FileType
  <2> QED
    BY <1>1, <1>3, <2>1, <2>2 DEF AppendFails, Throw
<1> QED
  BY <1>2, <1>3

\* Every step is one of these.
LEMMA StepKinds ==
  ASSUME TypeInv, ArtifactInv, [Next]_vars
  PROVE  \/ Moves \/ Opens \/ PushesRow \/ Writes \/ Breaks \/ GivesUp \/ Absorbs \/ Finishes
<1> DEFINE Kind == Moves \/ Opens \/ PushesRow \/ Writes \/ Breaks \/ GivesUp \/ Absorbs \/ Finishes
<1>type. FileType /\ WorkerType
  BY DEF TypeInv
<1>len. writer \/ grant => Len(files) > 0
  BY DEF ArtifactInv
<1>same. UNCHANGED files => SameRows
  BY DEF SameRows
<1>thrown. wpc' = Thrown => ~Working' /\ (Alive' => Laden')
  BY DEF Thrown, Working, Laden, Alive
<1>1. ASSUME UNCHANGED file, UNCHANGED worker, UNCHANGED aggregator PROVE Moves
  BY <1>1, <1>same DEF file, worker, aggregator, Moves, Holds, Working, Laden, Alive, Bearing, aside
<1>2. ASSUME Start PROVE Moves
  BY <1>2, <1>same DEF Start, file, aggregator, Moves, Holds, Working, Laden, Alive, Bearing, aside
<1>3. ASSUME Abandon PROVE Moves
  BY <1>3, <1>same DEF Abandon, file, aggregator, Moves, Holds, Working, Laden, Alive, Bearing, aside
<1>4. ASSUME Resume PROVE Moves
  BY <1>4, <1>same DEF Resume, consumer, file, aggregator, Moves, Holds, Working, Laden, Alive, Bearing, aside
<1>5. ASSUME Empty \/ Idle PROVE Moves
  BY <1>5, <1>same DEF Empty, Idle, file, aggregator, Moves, Holds, Working, Laden, Alive, Bearing, aside
<1>6. ASSUME PopRefused PROVE Moves
  BY <1>6, <1>same DEF PopRefused, file, aggregator, Moves, Holds, Working, Laden, Alive, Bearing, aside
<1>7. ASSUME PopAbsorb PROVE Absorbs
  BY <1>7, <1>same DEF PopAbsorb, file, Absorbs, Working
<1>8. ASSUME Roll \/ Keep PROVE Moves
  BY <1>8, <1>same DEF Roll, Keep, idle, file, aggregator, Moves, Holds, Working, Laden, Alive, Bearing, aside
<1>9. ASSUME Space PROVE Moves
  BY <1>9, <1>same, <1>thrown
     DEF Space, Throw, idle, file, aggregator, Moves, Holds, Working, Laden, Alive, Bearing, aside, Thrown
<1>10. ASSUME LowDisk PROVE Moves
  BY <1>10, <1>same DEF LowDisk, Accepted, Returned, idle, file, aggregator, Moves, Holds, Working,
                         Laden, Alive, Bearing, aside
<1>11. ASSUME LockArtifact PROVE Moves
  BY <1>11, <1>same DEF LockArtifact, Throw, Thrown, idle, aggregator, Moves, Holds, Working,
                         Laden, Alive, Bearing, aside
<1>12. ASSUME Reserve PROVE Kind
  <2>1. UNCHANGED <<batch, aside, out, after>> /\ wpc = "reserve" /\ ~writer /\ ~writer'
    BY <1>12 DEF Reserve, idle, aggregator, aside, ArtifactInv
  <2>2. Holds
    BY <1>12 DEF Reserve, Throw, Thrown, Holds, Working, Laden, Alive, Bearing, aside
  <2>3. CASE UNCHANGED files
    BY <2>1, <2>2, <2>3, <1>same DEF Moves
  <2>4. ASSUME NEW x, x.rows = <<>>, files' = Append(files, x) PROVE OneMoreFile
    BY <2>4, <1>type DEF OneMoreFile, FileType
  <2> QED
    BY <1>12, <2>1, <2>2, <2>3, <2>4 DEF Reserve, Opens
<1>13. ASSUME Create PROVE Moves
  <2>1. SameRows
    BY <1>13, <1>same, <1>len, <1>type, OnlyRows DEF Create, ArtifactInv
  <2> QED
    BY <1>13, <2>1 DEF Create, Throw, Thrown, idle, aggregator, Moves, Holds, Working, Laden, Alive, Bearing, aside
<1>14. ASSUME PushRow PROVE PushesRow
  BY <1>14, <1>same DEF PushRow, Accepted, Returned, idle, aggregator, PushesRow, Working, Bearing, aside,
                         ArtifactInv
<1>15. ASSUME AppendBatch PROVE Kind
  <2>1. writer /\ Len(files) > 0 /\ UNCHANGED aside /\ Working
    BY <1>15, <1>len DEF AppendBatch, ArtifactInv, idle, aggregator, aside, Working
  <2>2. CASE AppendFails /\ UNCHANGED out
    BY <2>1, <2>2, <1>type, <1>thrown, AppendAdds DEF Breaks, aside
  <2>3. CASE Appended /\ Accepted /\ Returned
    <3>1. Holds
      BY <1>15, <2>3 DEF AppendBatch, Accepted, Returned, Holds, Working, Laden, Alive, Bearing, aside
    <3> QED
      BY <2>1, <2>3, <3>1, <1>type, AppendAdds DEF Writes
  <2> QED
    BY <1>15, <2>2, <2>3 DEF AppendBatch
<1>16. ASSUME Flush PROVE Kind
  <2>1. UNCHANGED <<aside, out, after>> /\ Working
    BY <1>16 DEF Flush, idle, aggregator, aside, Working
  <2>2. CASE AppendFails /\ writer
    BY <2>1, <2>2, <1>len, <1>type, <1>thrown, AppendAdds DEF Breaks, aside
  <2>3. CASE Appended /\ writer /\ wpc' = "status"
    <3>1. Holds
      BY <1>16, <2>1, <2>3 DEF Flush, Holds, Working, Laden, Alive, Bearing, aside
    <3> QED
      BY <2>1, <2>3, <3>1, <1>len, <1>type, AppendAdds DEF Writes
  <2>4. CASE wpc' = "status" /\ UNCHANGED <<batch, files>>
    BY <1>16, <2>1, <2>4, <1>same DEF Flush, Moves, Holds, Working, Laden, Alive, Bearing, aside
  <2> QED
    BY <1>16, <2>2, <2>3, <2>4 DEF Flush
<1>17. ASSUME Status PROVE Moves
  BY <1>17, <1>same DEF Status, idle, file, aggregator, Moves, Holds, Working, Laden, Alive, Bearing, aside
<1>18. ASSUME Close PROVE Kind
  <2>1. UNCHANGED <<aside, out, after>> /\ Working /\ wpc = "close"
    BY <1>18 DEF Close, idle, aggregator, aside, Working
  <2>2. CASE AppendFails /\ writer
    BY <2>1, <2>2, <1>len, <1>type, <1>thrown, AppendAdds DEF Breaks, aside
  <2>3. CASE Appended /\ writer /\ wpc' = "publish"
    <3>1. Holds
      BY <2>1, <2>3 DEF Holds, Working, Laden, Alive, Bearing, aside
    <3> QED
      BY <2>1, <2>3, <3>1, <1>len, <1>type, AppendAdds DEF Writes
  <2>4. CASE wpc' = after /\ UNCHANGED <<batch, files, writer>>
    BY <2>1, <2>4, <1>same, <1>type DEF Moves, Holds, Working, Laden, Alive, Bearing, WorkerType
  <2> QED
    BY <1>18, <2>2, <2>3, <2>4 DEF Close
<1>19. ASSUME Publish PROVE Moves
  <2>1. SameRows
    BY <1>19, <1>same, <1>len, <1>type, OnlyRows DEF Publish, ArtifactInv
  <2> QED
    BY <1>19, <2>1 DEF Publish, Throw, Thrown, idle, aggregator, Moves, Holds, Working, Laden, Alive, Bearing, aside
<1>20. ASSUME Ready PROVE Moves
  <2>1. SameRows
    BY <1>20, <1>same, <1>len, <1>type, OnlyRows DEF Ready, ArtifactInv
  <2> QED
    BY <1>20, <2>1, <1>type DEF Ready, Throw, Thrown, idle, aggregator, Moves, Holds, Working, Laden, Alive, Bearing, aside, WorkerType
<1>21. ASSUME Quarantined PROVE SameRows /\ batch' = <<>> /\ ~writer'
  BY <1>21, <1>same, <1>len, <1>type, OnlyRows DEF Quarantined
<1>22. ASSUME Failed PROVE GivesUp
  BY <1>22, <1>21 DEF Failed, GivesUp, Bearing, aside
<1>23. ASSUME QuarantineFails PROVE GivesUp
  BY <1>23, <1>same DEF QuarantineFails, GivesUp, aggregator, Holds, Working, Laden, Alive, Bearing, aside
<1>24. ASSUME Finish PROVE Finishes
  BY <1>24, <1>same DEF Finish, file, Finishes, Holds, Working, Laden, Alive, Bearing, aside
<1>25. ASSUME FinishPaused PROVE GivesUp
  BY <1>25, <1>21 DEF FinishPaused, GivesUp, aggregator, Holds, Working, Laden, Alive, Bearing, aside
<1>26. ASSUME Exit PROVE Moves
  BY <1>26, <1>same DEF Exit, idle, file, aggregator, Moves, Holds, Working, Laden, Alive, Bearing, aside
<1>27. ASSUME Dying PROVE Moves
  BY <1>27, <1>same DEF Dying, idle, aggregator, Moves, Holds, Working, Laden, Alive, Bearing, aside
<1>28. \/ Refuse \/ Admit \/ Push \/ SkipFrame \/ Stop \/ DiskChanges \/ ClockSteps \/ Ended \/ UNCHANGED vars
       => UNCHANGED file /\ UNCHANGED worker /\ UNCHANGED aggregator
  BY FileSame, WorkerSame, AggregatorSame
<1> QED
  BY <1>1, <1>2, <1>3, <1>4, <1>5, <1>6, <1>7, <1>8, <1>9, <1>10, <1>11, <1>12, <1>13, <1>14,
     <1>15, <1>16, <1>17, <1>18, <1>19, <1>20, <1>22, <1>23, <1>24, <1>25, <1>26, <1>27, <1>28
     DEF Next, Worker

-----------------------------------------------------------------------------
(* The order of frames, step by step.                                      *)

\* Frames are numbered upwards, queued in that order, and taken in that order.
LEMMA QueueOrderStep ==
  ASSUME TypeInv, QueueOrder, [Next]_vars
  PROVE  QueueOrder'
<1>type. /\ queue \in Seq(Record) /\ Len(queue) \in Nat /\ frame \in Nat /\ kept \subseteq Nat
         /\ \A i \in 1 .. Len(queue) : queue[i].frame \in Nat
  <2>1. \A r \in Record : r.frame \in Nat
    BY DEF Record
  <2> QED
    BY <2>1 DEF TypeInv, SharedType, ProducerType, AggregatorType
<1>1. ASSUME UNCHANGED <<queue, kept>>, frame' \in {frame, frame + 1} PROVE QueueOrder'
  BY <1>1, <1>type DEF QueueOrder
<1>2. ASSUME Push PROVE QueueOrder'
  <2>1. UNCHANGED kept /\ frame' = frame + 1
    BY <1>2 DEF Push, aggregator
  <2>2. CASE UNCHANGED queue
    BY <2>1, <2>2, <1>1
  <2>3. ASSUME NEW x, x.frame = frame, queue' = Append(queue, x) PROVE QueueOrder'
    <3>1. /\ Len(queue') = Len(queue) + 1 /\ queue'[Len(queue) + 1].frame = frame
          /\ \A i \in 1 .. Len(queue) : queue'[i].frame = queue[i].frame
      BY <2>3, <1>type
    <3>2. \A i \in 1 .. Len(queue') : i = Len(queue) + 1 \/ i \in 1 .. Len(queue)
      BY <3>1, <1>type
    <3>3. /\ \A i \in 1 .. Len(queue) : queue[i].frame < frame
          /\ \A i, j \in 1 .. Len(queue) : i < j => queue[i].frame < queue[j].frame
          /\ \A i \in 1 .. Len(queue), k \in kept : k < queue[i].frame
          /\ \A k \in kept : k < frame /\ k \in Nat
      BY <1>type DEF QueueOrder
    <3>num. frame \in Nat /\ frame' = frame + 1 /\ \A i \in 1 .. Len(queue) : queue[i].frame \in Nat
      BY <2>1, <1>type
    <3>4. \A i \in 1 .. Len(queue') : queue'[i].frame < frame'
      <4>1. ASSUME NEW i \in 1 .. Len(queue') PROVE queue'[i].frame < frame'
        <5>1. CASE i = Len(queue) + 1
          BY <3>1, <3>num, <5>1
        <5>2. CASE i \in 1 .. Len(queue)
          BY <3>1, <3>3, <3>num, <5>2
        <5> QED
          BY <3>2, <5>1, <5>2
      <4> QED
        BY <4>1
    <3>5. \A i, j \in 1 .. Len(queue') : i < j => queue'[i].frame < queue'[j].frame
      <4>1. \A i, j \in 1 .. Len(queue') : i < j => i \in 1 .. Len(queue)
        BY <3>1, <1>type
      <4> QED
        BY <3>1, <3>2, <3>3, <4>1
    <3>6. \A i \in 1 .. Len(queue'), k \in kept' : k < queue'[i].frame
      BY <2>1, <3>1, <3>2, <3>3
    <3>7. \A k \in kept' : k < frame'
      BY <2>1, <3>3, <3>num
    <3> QED
      BY <3>4, <3>5, <3>6, <3>7 DEF QueueOrder
  <2> QED
    BY <1>2, <2>2, <2>3 DEF Push, TryPush
<1>3. ASSUME PopRefused \/ PopAbsorb PROVE QueueOrder'
  <2>1. /\ queue # <<>> /\ queue' = Tail(queue) /\ frame' = frame
        /\ kept' = kept \/ kept' = kept \cup {Head(queue).frame}
    BY <1>3 DEF PopRefused, PopAbsorb, producerVars, aggregator
  <2>2. /\ Len(queue') = Len(queue) - 1 /\ 1 \in 1 .. Len(queue) /\ Head(queue) = queue[1]
        /\ \A i \in 1 .. Len(queue') : i + 1 \in 1 .. Len(queue) /\ queue'[i] = queue[i + 1]
    BY <2>1, <1>type
  <2>3. \A i \in 1 .. Len(queue') : queue'[i].frame < frame'
    BY <2>1, <2>2 DEF QueueOrder
  <2>4. \A i, j \in 1 .. Len(queue') : i < j => queue'[i].frame < queue'[j].frame
    <3>1. \A i, j \in 1 .. Len(queue') : i < j => i + 1 < j + 1
      BY <1>type
    <3> QED
      BY <2>2, <3>1 DEF QueueOrder
  <2>5. \A i \in 1 .. Len(queue'), k \in kept' : k < queue'[i].frame
    <3>1. \A i \in 1 .. Len(queue') : 1 < i + 1
      BY <2>2, <1>type
    <3>2. \A i \in 1 .. Len(queue') : Head(queue).frame < queue'[i].frame
      BY <2>2, <3>1 DEF QueueOrder
    <3> QED
      BY <2>1, <2>2, <3>2 DEF QueueOrder
  <2>6. \A k \in kept' : k < frame'
    BY <2>1, <2>2 DEF QueueOrder
  <2> QED
    BY <2>3, <2>4, <2>5, <2>6 DEF QueueOrder
<1>4. ASSUME Abandon PROVE QueueOrder'
  BY <1>4, <1>type DEF Abandon, producerVars, aggregator, QueueOrder
<1>5. ASSUME Refuse PROVE QueueOrder'
  BY <1>5, <1>1 DEF Refuse, aggregator
<1>6. ASSUME Admit \/ SkipFrame \/ Stop PROVE QueueOrder'
  BY <1>6, <1>1 DEF Admit, SkipFrame, Stop, shared, aggregator
<1>7. ASSUME UNCHANGED producerVars, UNCHANGED <<queue, kept>> PROVE QueueOrder'
  BY <1>7, <1>1 DEF producerVars
<1>8. ASSUME UNCHANGED shared, UNCHANGED aggregator PROVE UNCHANGED <<queue, kept>>
  BY <1>8 DEF shared, aggregator
<1>9. ASSUME Resume \/ LowDisk \/ Failed \/ Exit \/ Dying PROVE UNCHANGED <<queue, kept>>
  BY <1>9 DEF Resume, LowDisk, Failed, Exit, Dying, consumer, idle, aggregator
<1>10. ASSUME Finish PROVE UNCHANGED <<queue, kept>>
  BY <1>10 DEF Finish, shared
<1> QED
  BY <1>2, <1>3, <1>4, <1>5, <1>6, <1>7, <1>8, <1>9, <1>10, ProducerSame, SharedSame, AggregatorSame
     DEF Next, Worker

\* Where a row ends on disk.
LEMMA LastOnDisk ==
  ASSUME NEW i \in 1 .. Len(files), NEW j \in 1 .. Len(files[i].rows)
  PROVE  files[i].rows[j].last \in DiskLasts
<1>1. files[i].rows[j].last \in {DiskRow(i, l).last : l \in RowsOfFile(i)}
  BY DEF DiskRow, RowsOfFile
<1> QED
  BY <1>1, Zenon DEF DiskLasts

\* Files with the same rows are in the same order and end at the same frames.
LEMMA DiskStays ==
  ASSUME FileType, FilesOrder, SameRows
  PROVE  FilesOrder' /\ DiskLasts' \subseteq DiskLasts
<1>1. 1 .. Len(files') = 1 .. Len(files)
  BY DEF SameRows
<1>2. \A i \in 1 .. Len(files) : files'[i].rows = files[i].rows
  BY DEF SameRows
<1>3. \A i \in 1 .. Len(files') : \A j \in 1 .. Len(files'[i].rows) :
        files'[i].rows[j].first <= files'[i].rows[j].last
  BY <1>1, <1>2 DEF FilesOrder, DiskRow, RowsOfFile
<1>4. ASSUME NEW i \in 1 .. Len(files'), NEW k \in 1 .. Len(files'),
             NEW j \in 1 .. Len(files'[i].rows), NEW l \in 1 .. Len(files'[k].rows),
             i < k \/ (i = k /\ j < l)
      PROVE  files'[i].rows[j].last < files'[k].rows[l].first
  <2>1. files'[i].rows = files[i].rows /\ files'[k].rows = files[k].rows
    BY <1>1, <1>2
  <2> QED
    BY <1>1, <1>4, <2>1 DEF FilesOrder, DiskRow, RowsOfFile
<1>5. FilesOrder'
  BY <1>3, <1>4 DEF FilesOrder, DiskRow, RowsOfFile
<1>6. ASSUME NEW x \in DiskLasts' PROVE x \in DiskLasts
  <2>1. PICK i \in 1 .. Len(files') : \E j \in 1 .. Len(files'[i].rows) : x = files'[i].rows[j].last
    BY DEF DiskLasts, DiskRow, RowsOfFile
  <2>2. i \in 1 .. Len(files) /\ files'[i].rows = files[i].rows
    BY <1>1, <1>2
  <2>3. PICK j \in 1 .. Len(files[i].rows) : x = files[i].rows[j].last
    BY <2>1, <2>2
  <2> QED
    BY <2>2, <2>3, LastOnDisk
<1> QED
  BY <1>5, <1>6

\* A file without rows adds nothing.
LEMMA DiskOpens ==
  ASSUME FileType, FilesOrder, OneMoreFile
  PROVE  FilesOrder' /\ DiskLasts' \subseteq DiskLasts
<1>1. \A i \in 1 .. Len(files') : \A j : j \in 1 .. Len(files'[i].rows) =>
        i \in 1 .. Len(files) /\ files'[i].rows = files[i].rows
  <2>1. 1 .. Len(<<>>) = {}
    OBVIOUS
  <2>2. \A i \in 1 .. Len(files') : i = Len(files) + 1 \/ i \in 1 .. Len(files)
    BY BatchTyped DEF OneMoreFile
  <2> QED
    BY <2>1, <2>2 DEF OneMoreFile
<1>2. \A i \in 1 .. Len(files') : \A j \in 1 .. Len(files'[i].rows) :
        files'[i].rows[j].first <= files'[i].rows[j].last
  BY <1>1 DEF FilesOrder, DiskRow, RowsOfFile
<1>3. ASSUME NEW i \in 1 .. Len(files'), NEW k \in 1 .. Len(files'),
             NEW j \in 1 .. Len(files'[i].rows), NEW l \in 1 .. Len(files'[k].rows),
             i < k \/ (i = k /\ j < l)
      PROVE  files'[i].rows[j].last < files'[k].rows[l].first
  <2>1. /\ i \in 1 .. Len(files) /\ files'[i].rows = files[i].rows
        /\ k \in 1 .. Len(files) /\ files'[k].rows = files[k].rows
    BY <1>1
  <2> QED
    BY <1>3, <2>1 DEF FilesOrder, DiskRow, RowsOfFile
<1>4. FilesOrder'
  BY <1>2, <1>3 DEF FilesOrder, DiskRow, RowsOfFile
<1>5. ASSUME NEW x \in DiskLasts' PROVE x \in DiskLasts
  <2>1. PICK i \in 1 .. Len(files') : \E j \in 1 .. Len(files'[i].rows) : x = files'[i].rows[j].last
    BY DEF DiskLasts, DiskRow, RowsOfFile
  <2>2. i \in 1 .. Len(files) /\ files'[i].rows = files[i].rows
    BY <1>1, <2>1
  <2>3. PICK j \in 1 .. Len(files[i].rows) : x = files[i].rows[j].last
    BY <2>1, <2>2
  <2> QED
    BY <2>2, <2>3, LastOnDisk
<1> QED
  BY <1>4, <1>5

\* The rows of the batch, or its first ones, follow those on disk.
LEMMA DiskGrows ==
  ASSUME FileType, FilesOrder, BatchOrder, Working, NEW n \in 0 .. Len(batch),
         NEW t \in Seq(Row), Len(t) = n, \A i \in 1 .. n : t[i] = batch[i], MoreRows(t)
  PROVE  FilesOrder' /\ DiskLasts' \subseteq DiskLasts \cup BatchLasts
<1> DEFINE c == Len(files)
           old(i) == i \in 1 .. c
           s == files[c].rows
<1>type. /\ c \in Nat /\ c \in 1 .. c /\ s \in Seq(Row) /\ Len(s) \in Nat
         /\ 1 .. Len(files') = 1 .. c
  BY BatchTyped, DiskTyped DEF MoreRows
<1>1. files'[c].rows = s \o t /\ \A i \in 1 .. c : i # c => files'[i].rows = files[i].rows
  BY DEF MoreRows
<1>2. /\ Len(s \o t) = Len(s) + n
      /\ \A i \in 1 .. Len(s) : (s \o t)[i] = s[i]
      /\ \A i \in 1 .. Len(s \o t) : i \notin 1 .. Len(s) =>
           i - Len(s) \in 1 .. n /\ (s \o t)[i] = batch[i - Len(s)]
  <2>1. Len(t) = n /\ \A i \in 1 .. Len(t) : t[i] = batch[i]
    OBVIOUS
  <2> HIDE DEF s, c
  <2> QED
    BY <2>1, <1>type, ConcatBatch
\* A row on disk is one that was, or one of the batch at the end of the last file.
<1>3. ASSUME NEW i \in 1 .. c, NEW j \in 1 .. Len(files'[i].rows)
      PROVE  \/ j \in 1 .. Len(files[i].rows) /\ files'[i].rows[j] = files[i].rows[j]
             \/ /\ i = c /\ j \notin 1 .. Len(s) /\ j - Len(s) \in 1 .. Len(batch)
                /\ files'[i].rows[j] = batch[j - Len(s)]
  <2>1. CASE i # c
    BY <1>1, <2>1
  <2>2. CASE i = c
    <3>1. j \in 1 .. Len(s \o t) /\ files'[i].rows[j] = (s \o t)[j]
      BY <1>1, <2>2
    <3>2. Len(batch) \in Nat /\ 1 .. n \subseteq 1 .. Len(batch)
      BY BatchTyped
    <3> QED
      BY <1>2, <2>2, <3>1, <3>2
  <2> QED
    BY <2>1, <2>2
<1>batch. /\ \A i \in 1 .. Len(batch) : batch[i].first <= batch[i].last
          /\ \A i \in 1 .. Len(batch) : \A x \in DiskLasts : x < batch[i].first
          /\ \A i, j \in 1 .. Len(batch) : i < j => batch[i].last < batch[j].first
  BY DEF BatchOrder, Before
<1>ends. \A i \in 1 .. c : \A j \in 1 .. Len(files[i].rows) : files[i].rows[j].last \in DiskLasts
  BY DEF DiskRow, RowsOfFile, DiskLasts
<1>disk. /\ \A i \in 1 .. c : \A j \in 1 .. Len(files[i].rows) :
              files[i].rows[j].first <= files[i].rows[j].last
         /\ \A i, k \in 1 .. c : \A j \in 1 .. Len(files[i].rows), l \in 1 .. Len(files[k].rows) :
              i < k \/ (i = k /\ j < l) => files[i].rows[j].last < files[k].rows[l].first
  BY DEF FilesOrder, DiskRow, RowsOfFile
<1>len. \A i \in 1 .. c : Len(files[i].rows) \in Nat
  BY DiskTyped
<1>4. \A i \in 1 .. c : \A j \in 1 .. Len(files'[i].rows) :
        files'[i].rows[j].first <= files'[i].rows[j].last
  BY <1>3, <1>batch, <1>disk
<1>5. ASSUME NEW i \in 1 .. c, NEW k \in 1 .. c,
             NEW j \in 1 .. Len(files'[i].rows), NEW l \in 1 .. Len(files'[k].rows),
             i < k \/ (i = k /\ j < l)
      PROVE  files'[i].rows[j].last < files'[k].rows[l].first
  <2>1. CASE l \in 1 .. Len(files[k].rows) /\ files'[k].rows[l] = files[k].rows[l]
    <3>1. ~(i = c /\ j \notin 1 .. Len(s) /\ j - Len(s) \in 1 .. Len(batch))
      <4>1. i = c => k = c /\ j < l
        BY <1>5, <1>type
      <4> QED
        BY <4>1, <2>1, <1>len, <1>type
    <3>2. j \in 1 .. Len(files[i].rows) /\ files'[i].rows[j] = files[i].rows[j]
      BY <1>3, <3>1
    <3> QED
      BY <1>5, <2>1, <3>2, <1>disk
  <2>2. CASE /\ k = c /\ l \notin 1 .. Len(s) /\ l - Len(s) \in 1 .. Len(batch)
             /\ files'[k].rows[l] = batch[l - Len(s)]
    <3>1. CASE j \in 1 .. Len(files[i].rows) /\ files'[i].rows[j] = files[i].rows[j]
      BY <2>2, <3>1, <1>ends, <1>batch
    <3>2. CASE /\ i = c /\ j \notin 1 .. Len(s) /\ j - Len(s) \in 1 .. Len(batch)
               /\ files'[i].rows[j] = batch[j - Len(s)]
      <4>1. j < l /\ j \in Int /\ l \in Int
        BY <1>5, <2>2, <3>2
      <4>2. j - Len(s) < l - Len(s)
        BY <4>1, <1>type
      <4>3. batch[j - Len(s)].last < batch[l - Len(s)].first
        BY <2>2, <3>2, <4>2, <1>batch
      <4> QED
        BY <2>2, <3>2, <4>3
    <3> QED
      BY <1>3, <3>1, <3>2
  <2> QED
    BY <1>3, <2>1, <2>2
<1>6. FilesOrder'
  BY <1>4, <1>5, <1>type DEF FilesOrder, DiskRow, RowsOfFile
<1>7. ASSUME NEW x \in DiskLasts' PROVE x \in DiskLasts \cup BatchLasts
  <2>1. PICK i \in 1 .. c : \E j \in 1 .. Len(files'[i].rows) : x = files'[i].rows[j].last
    BY <1>type DEF DiskLasts, DiskRow, RowsOfFile
  <2>2. PICK j \in 1 .. Len(files'[i].rows) : x = files'[i].rows[j].last
    BY <2>1
  <2> QED
    BY <1>3, <2>2, <1>ends DEF BatchLasts
<1> QED
  BY <1>6, <1>7

-----------------------------------------------------------------------------
(* The place of the worker.                                                *)

LEMMA WorkerPlaceStep ==
  ASSUME TypeInv, WorkerPlace, [Next]_vars
  PROVE  WorkerPlace'
<1>type. WorkerType
  BY DEF TypeInv
<1>1. ASSUME Start PROVE WorkerPlace'
  BY <1>1, <1>type DEF Start, idle, WorkerPlace, Ending, WorkerType
<1>2. ASSUME Abandon PROVE WorkerPlace'
  BY <1>2, <1>type DEF Abandon, idle, WorkerPlace, Ending, WorkerType
<1>3. ASSUME Resume PROVE WorkerPlace'
  BY <1>3, <1>type DEF Resume, idle, WorkerPlace, Ending, WorkerType
<1>4. ASSUME Empty PROVE WorkerPlace'
  BY <1>4, <1>type DEF Empty, idle, WorkerPlace, Ending, WorkerType
<1>5. ASSUME Idle PROVE WorkerPlace'
  BY <1>5, <1>type DEF Idle, idle, WorkerPlace, Ending, WorkerType
<1>6. ASSUME PopRefused PROVE WorkerPlace'
  BY <1>6, <1>type DEF PopRefused, idle, WorkerPlace, Ending, WorkerType
<1>7. ASSUME PopAbsorb PROVE WorkerPlace'
  BY <1>7, <1>type DEF PopAbsorb, idle, WorkerPlace, Ending, WorkerType
<1>8. ASSUME Roll PROVE WorkerPlace'
  BY <1>8, <1>type DEF Roll, idle, WorkerPlace, Ending, WorkerType
<1>9. ASSUME Keep PROVE WorkerPlace'
  BY <1>9, <1>type DEF Keep, idle, WorkerPlace, Ending, WorkerType
<1>10. ASSUME Space PROVE WorkerPlace'
  BY <1>10, <1>type DEF Space, Throw, Thrown, idle, WorkerPlace, Ending, WorkerType
<1>11. ASSUME LowDisk PROVE WorkerPlace'
  BY <1>11, <1>type DEF LowDisk, Accepted, Returned, idle, WorkerPlace, Ending, WorkerType
<1>12. ASSUME LockArtifact PROVE WorkerPlace'
  BY <1>12, <1>type DEF LockArtifact, Throw, Thrown, idle, WorkerPlace, Ending, WorkerType
<1>13. ASSUME Reserve PROVE WorkerPlace'
  BY <1>13, <1>type DEF Reserve, Throw, Thrown, idle, WorkerPlace, Ending, WorkerType
<1>14. ASSUME Create PROVE WorkerPlace'
  BY <1>14, <1>type DEF Create, Throw, Thrown, idle, WorkerPlace, Ending, WorkerType
<1>15. ASSUME PushRow PROVE WorkerPlace'
  BY <1>15, <1>type DEF PushRow, Accepted, Returned, idle, WorkerPlace, Ending, WorkerType
<1>16. ASSUME AppendBatch PROVE WorkerPlace'
  BY <1>16, <1>type DEF AppendBatch, Accepted, Returned, AppendFails, Throw, Thrown, idle, WorkerPlace, Ending, WorkerType
<1>17. ASSUME Flush PROVE WorkerPlace'
  BY <1>17, <1>type DEF Flush, AppendFails, Throw, Thrown, idle, WorkerPlace, Ending, WorkerType
<1>18. ASSUME Status PROVE WorkerPlace'
  BY <1>18, <1>type DEF Status, idle, WorkerPlace, Ending, WorkerType
<1>19. ASSUME Close PROVE WorkerPlace'
  BY <1>19, <1>type DEF Close, AppendFails, Throw, Thrown, idle, WorkerPlace, Ending, WorkerType
<1>20. ASSUME Publish PROVE WorkerPlace'
  BY <1>20, <1>type DEF Publish, Throw, Thrown, idle, WorkerPlace, Ending, WorkerType
<1>21. ASSUME Ready PROVE WorkerPlace'
  BY <1>21, <1>type DEF Ready, Throw, Thrown, idle, WorkerPlace, Ending, WorkerType
<1>22. ASSUME Failed PROVE WorkerPlace'
  BY <1>22, <1>type DEF Failed, idle, WorkerPlace, Ending, WorkerType
<1>23. ASSUME QuarantineFails PROVE WorkerPlace'
  BY <1>23, <1>type DEF QuarantineFails, idle, WorkerPlace, Ending, WorkerType
<1>24. ASSUME Finish PROVE WorkerPlace'
  BY <1>24, <1>type DEF Finish, idle, WorkerPlace, Ending, WorkerType
<1>25. ASSUME FinishPaused PROVE WorkerPlace'
  BY <1>25, <1>type DEF FinishPaused, idle, WorkerPlace, Ending, WorkerType
<1>26. ASSUME Exit PROVE WorkerPlace'
  BY <1>26, <1>type DEF Exit, idle, WorkerPlace, Ending, WorkerType
<1>27. ASSUME Dying PROVE WorkerPlace'
  BY <1>27, <1>type DEF Dying, idle, WorkerPlace, Ending, WorkerType
<1>28. ASSUME UNCHANGED worker PROVE WorkerPlace'
  BY <1>28 DEF worker, WorkerPlace
<1> QED
  BY <1>1, <1>2, <1>3, <1>4, <1>5, <1>6, <1>7, <1>8, <1>9, <1>10, <1>11, <1>12, <1>13, <1>14, <1>15, <1>16, <1>17, <1>18, <1>19, <1>20, <1>21, <1>22, <1>23, <1>24, <1>25, <1>26, <1>27, <1>28, WorkerSame DEF Next, Worker

\* A batch is held by the writer of a file that is open, and a file that is
\* being created has no rows.
LEMMA FilePlaceStep ==
  ASSUME TypeInv, ArtifactInv, PlaceInv, [Next]_vars
  PROVE  FilePlace'
<1>type. FileType /\ WorkerType
  BY DEF TypeInv
<1>old. FilePlace
  BY DEF PlaceInv
<1>1. wpc' = "create" => Rest' = <<>>
  <2>1. ASSUME wpc' = "create", wpc # "create" PROVE Rest' = <<>>
    <3>1. Reserve
      BY <2>1, <1>type, WorkerSame DEF Next, Worker, Start, Abandon, Resume, Empty, Idle, PopRefused,
         PopAbsorb, Roll, Keep, Space, LowDisk, LockArtifact, Create, PushRow, AppendBatch, Flush,
         Status, Close, Publish, Ready, Failed, QuarantineFails, Finish, FinishPaused, Exit, Dying,
         Accepted, AppendFails, Throw, Thrown, WorkerType, worker
    <3>2. \E x : x.rows = <<>> /\ files' = Append(files, x)
      BY <2>1, <3>1 DEF Reserve, Throw, Thrown
    <3> QED
      BY <3>2, <1>type DEF Rest, FileType
  <2>2. ASSUME wpc' = "create", wpc = "create" PROVE UNCHANGED file
    BY <2>2, FileSame DEF Next, Worker, LockArtifact, Reserve, Create, PushRow, AppendBatch, Flush,
       Close, Publish, Ready, Failed, QuarantineFails, FinishPaused, Dying, Throw, Thrown
  <2> QED
    BY <2>1, <2>2, <1>old DEF FilePlace, Rest, file
<1>2. ASSUME wpc' = "lowdisk" PROVE ~writer'
  <2>1. \/ Space \/ Close \/ Ready
        \/ UNCHANGED worker /\ UNCHANGED file
    BY <1>2, <1>type, WorkerSame, FileSame DEF Next, Worker, Start, Abandon, Resume, Empty, Idle, PopRefused,
       PopAbsorb, Roll, Keep, LowDisk, LockArtifact, Reserve, Create, PushRow, AppendBatch, Flush,
       Status, Publish, Failed, QuarantineFails, Finish, FinishPaused, Exit, Dying,
       Accepted, AppendFails, Throw, Thrown, WorkerType
  <2>2. ASSUME Space PROVE ~writer'
    BY <1>2, <2>2 DEF Space, Throw, Thrown, file
  <2>3. ASSUME Close PROVE ~writer'
    BY <1>2, <2>3 DEF Close, AppendFails, Throw, Thrown
  <2>4. ASSUME Ready PROVE ~writer'
    BY <1>2, <2>4 DEF Ready, ArtifactInv
  <2> QED
    BY <1>2, <1>old, <2>1, <2>2, <2>3, <2>4 DEF FilePlace, worker, file
<1>3. ASSUME Working', ~writer' PROVE batch' = <<>>
  <2>1. CASE writer
    <3>1. Close \/ Failed \/ FinishPaused
      BY <1>3, <2>1, FileSame DEF Next, Worker, Working, LockArtifact, Reserve, Create, PushRow,
         AppendBatch, Flush, Publish, Ready, QuarantineFails, Dying, file
    <3> QED
      BY <1>3, <2>1, <3>1 DEF Close, Failed, FinishPaused, Quarantined, Appended
  <2>2. CASE ~writer
    <3>1. CASE PushRow \/ AppendBatch
      BY <2>2, <3>1 DEF PushRow, AppendBatch, ArtifactInv
    <3>2. CASE ~(PushRow \/ AppendBatch)
      <4>1. \/ batch' = <<>>
            \/ UNCHANGED batch /\ Working
        BY <1>3, <2>2, <3>2, FileSame, WorkerSame DEF Next, Worker, Working, LockArtifact, Reserve, Create,
           Start, Abandon, Resume, Empty, Idle, PopRefused, PopAbsorb, Roll, Keep, Space, LowDisk, Status,
           Flush, Close, Publish, Ready, Failed, QuarantineFails, Finish, FinishPaused, Exit, Dying,
           Quarantined, Throw, Thrown, file, worker
      <4> QED
        BY <2>2, <4>1, <1>old DEF FilePlace
    <3> QED
      BY <3>1, <3>2
  <2> QED
    BY <2>1, <2>2
<1> QED
  BY <1>1, <1>2, <1>3 DEF FilePlace

-----------------------------------------------------------------------------
(* A spectrum is taken.                                                    *)

Taken == Head(queue)
Longer == Extended(Taken)
Cut == window.count > 0 /\ Gap(Taken)

\* It is of a later frame than all before it, and begins a window or goes on
\* with one.
LEMMA TakenIsNext ==
  ASSUME TypeInv, RowInv, QueueOrder, PopAbsorb
  PROVE  /\ Taken.frame \in Nat /\ Taken.seg # 0 /\ (\A k \in kept : k < Taken.frame)
         /\ Longer \in Window /\ Longer.last = Taken.frame /\ Longer.count > 0
         /\ window.count = 0 \/ Gap(Taken) =>
              Longer.first = Taken.frame /\ Longer.gap = Gap(Taken) /\ Longer.count = 1
         /\ window.count > 0 /\ ~Gap(Taken) =>
              Longer.first = window.first /\ Longer.gap = window.gap
<1>1. queue \in Seq(Record) /\ queue # <<>> /\ AggregatorType
  BY DEF PopAbsorb, TypeInv, SharedType
<1>2. Taken = queue[1] /\ 1 \in 1 .. Len(queue) /\ Taken \in Record
  BY <1>1 DEF Taken
<1>3. Taken.frame \in Nat
  BY <1>2 DEF Record
<1>4. Taken.seg # 0 /\ \A k \in kept : k < Taken.frame
  BY <1>2 DEF RowInv, QueueIn, QueueOrder
<1>5. Longer \in Window
  BY <1>1, <1>2, ExtendedTyped DEF Longer
<1>6. window.count = 0 \/ Gap(Taken) =>
        /\ Longer.first = Taken.frame /\ Longer.gap = Gap(Taken) /\ Longer.count = 1
        /\ Longer.last = Taken.frame
  BY DEF Longer, Extended
<1>7. ASSUME ~(window.count = 0 \/ Gap(Taken))
      PROVE  /\ Longer.first = window.first /\ Longer.gap = window.gap
             /\ Longer.last = Taken.frame /\ Longer.count = window.count + 1
  BY <1>1, <1>7 DEF Longer, Extended, AggregatorType, Window
<1>8. window.count \in Nat
  BY <1>1 DEF AggregatorType, Window
<1> QED
  BY <1>3, <1>4, <1>5, <1>6, <1>7, <1>8

\* It leaves a row of the window it cuts, a longer window, or a row of that.
LEMMA TakenLeaves ==
  ASSUME TypeInv, RowInv, QueueOrder, PlaceInv, PopAbsorb
  PROVE  /\ ~Bearing /\ ~finishing /\ Working /\ Working'
         /\ prev'.frame = Taken.frame /\ prev'.seg = Taken.seg
         /\ kept' = kept \cup {Taken.frame} /\ window'.count < Target
         /\ \/ Cut /\ window' = Longer /\ out' \in Rows(window, TRUE)
            \/ window' = Longer /\ ~Bearing'
            \/ ~Cut /\ window' = NoWindow /\ out' \in Rows(Longer, FALSE) /\ Bearing'
<1>1. wpc = "pop"
  BY DEF PopAbsorb
<1>2. ~finishing
  BY <1>1 DEF PlaceInv, WorkerPlace, Ending
<1>3. ~Bearing /\ Working
  BY <1>1 DEF Bearing, Working
<1>4. Working'
  BY DEF PopAbsorb, Working
<1>5. /\ prev'.frame = Taken.frame /\ prev'.seg = Taken.seg
      /\ kept' = kept \cup {Taken.frame}
  BY DEF PopAbsorb, Taken
<1>6. /\ window' = IF Longer.count >= Target THEN NoWindow ELSE Longer
      /\ \/ Cut /\ out' \in Rows(window, TRUE)
         \/ Cut /\ Policy # "emit" /\ Longer.count >= Target
         \/ ~Cut /\ Longer.count >= Target /\ out' \in Rows(Longer, FALSE) /\ Bearing'
         \/ ~(Longer.count >= Target) /\ out' = out /\ wpc' = "flush"
  BY DEF PopAbsorb, Taken, Longer, Cut, Bearing
<1>7. Target \in Nat \ {0} /\ window.count < Target /\ window.count \in Nat /\ Longer.count \in Nat
  BY SizesAssumption, TakenIsNext DEF PlaceInv, TypeInv, AggregatorType, Window
<1>8. Cut => ~(Longer.count >= Target)
  BY <1>7, TakenIsNext DEF Cut
<1>9. out' = out /\ wpc' = "flush" => ~Bearing'
  BY DEF Bearing
<1>10. window'.count < Target
  BY <1>6, <1>7 DEF NoWindow
<1> QED
  BY <1>2, <1>3, <1>4, <1>5, <1>6, <1>8, <1>9, <1>10

LEMMA PlaceStep ==
  ASSUME TypeInv, ArtifactInv, RowInv, QueueOrder, PlaceInv, [Next]_vars
  PROVE  PlaceInv'
<1>1. WorkerPlace'
  BY WorkerPlaceStep DEF PlaceInv
<1>2. FilePlace'
  BY FilePlaceStep
<1>3. window'.count < Target
  <2>1. CASE PopAbsorb
    BY <2>1, TakenLeaves
  <2>2. CASE Failed \/ Finish
    <3>1. window' = NoWindow
      BY <2>2 DEF Failed, Finish
    <3>2. NoWindow.count < Target
      BY SizesAssumption DEF NoWindow
    <3> QED
      BY <3>1, <3>2
  <2>3. CASE UNCHANGED aggregator
    BY <2>3 DEF aggregator, PlaceInv
  <2> QED
    BY <2>1, <2>2, <2>3, AggregatorSame DEF Next, Worker
<1> QED
  BY <1>1, <1>2, <1>3 DEF PlaceInv

-----------------------------------------------------------------------------
(* What is on disk, in the batch, in hand and in the window, in this order. *)

\* What a record or a window is before, and the numbers in it.
LEMMA LastsAreNumbers ==
  ASSUME FileType
  PROVE  DiskLasts \subseteq Nat /\ BatchLasts \subseteq Nat
<1>1. ASSUME NEW x \in DiskLasts PROVE x \in Nat
  <2>1. PICK i \in 1 .. Len(files) : \E j \in RowsOfFile(i) : x = DiskRow(i, j).last
    BY DEF DiskLasts
  <2> QED
    BY <2>1, DiskTyped
<1>2. ASSUME NEW x \in BatchLasts PROVE x \in Nat
  BY BatchTyped DEF BatchLasts
<1> QED
  BY <1>1, <1>2

\* Rows end at frames that the aggregator was given.
LEMMA LastsAreKept ==
  ASSUME FileType, RowInv, FilesOrder, BatchOrder, Working
  PROVE  DiskLasts \subseteq kept /\ BatchLasts \subseteq kept
<1>1. ASSUME NEW r, r.first \in Nat, r.last \in Nat, r.first <= r.last, Frames(r) \subseteq kept
      PROVE  r.last \in kept
  BY <1>1 DEF Frames
<1>2. ASSUME NEW x \in DiskLasts PROVE x \in kept
  <2>1. PICK i \in 1 .. Len(files) : \E j \in RowsOfFile(i) : x = DiskRow(i, j).last
    BY DEF DiskLasts
  <2>2. PICK j \in RowsOfFile(i) : x = DiskRow(i, j).last
    BY <2>1
  <2>3. DiskRow(i, j).first <= DiskRow(i, j).last /\ Frames(DiskRow(i, j)) \subseteq kept
    BY DEF FilesOrder, RowInv, FilesIn, RowsIn, RowsOfFile, DiskRow
  <2>4. DiskRow(i, j).first \in Nat /\ DiskRow(i, j).last \in Nat
    BY DiskTyped
  <2> QED
    BY <1>1, <2>2, <2>3, <2>4
<1>3. ASSUME NEW x \in BatchLasts PROVE x \in kept
  <2>1. PICK i \in 1 .. Len(batch) : x = batch[i].last
    BY DEF BatchLasts
  <2>2. batch[i].first <= batch[i].last /\ Frames(batch[i]) \subseteq kept
    BY DEF BatchOrder, RowInv, RowsIn
  <2>3. batch[i].first \in Nat /\ batch[i].last \in Nat
    BY BatchTyped
  <2> QED
    BY <1>1, <2>1, <2>2, <2>3
<1> QED
  BY <1>2, <1>3

\* A row that goes to the batch ends it.
LEMMA BatchGrows ==
  ASSUME FileType, WorkerType, BatchOrder, OutOrder, PushesRow, DiskLasts' \subseteq DiskLasts
  PROVE  BatchLasts' \subseteq BatchLasts \cup {out.last} /\ BatchOrder'
<1>1. /\ Len(batch') = Len(batch) + 1 /\ batch'[Len(batch) + 1] = out
      /\ \A i \in 1 .. Len(batch) : batch'[i] = batch[i]
      /\ \A i \in 1 .. Len(batch') : i \in 1 .. Len(batch) \/ i = Len(batch) + 1
  BY BatchTyped DEF PushesRow, FileType
<1>2. /\ out.first <= out.last /\ (\A x \in DiskLasts : x < out.first)
      /\ \A i \in 1 .. Len(batch) : batch[i].last < out.first
  BY DEF PushesRow, OutOrder, Before, BatchLasts
<1>3. /\ \A i \in 1 .. Len(batch) : batch[i].first <= batch[i].last
      /\ \A i \in 1 .. Len(batch) : \A x \in DiskLasts : x < batch[i].first
      /\ \A i, j \in 1 .. Len(batch) : i < j => batch[i].last < batch[j].first
  BY DEF PushesRow, BatchOrder, Before
<1>4. \A i \in 1 .. Len(batch') : batch'[i].first <= batch'[i].last
  BY <1>1, <1>2, <1>3
<1>5. \A i \in 1 .. Len(batch') : \A x \in DiskLasts' : x < batch'[i].first
  BY <1>1, <1>2, <1>3
<1>6. ASSUME NEW i \in 1 .. Len(batch'), NEW j \in 1 .. Len(batch'), i < j
      PROVE  batch'[i].last < batch'[j].first
  <2>1. i \in 1 .. Len(batch)
    BY <1>1, <1>6, BatchTyped
  <2> QED
    BY <1>1, <1>2, <1>3, <1>6, <2>1
<1>7. BatchLasts' \subseteq BatchLasts \cup {out.last}
  BY <1>1 DEF BatchLasts
<1> QED
  BY <1>4, <1>5, <1>6, <1>7 DEF BatchOrder, Before

\* Where rows on disk and in the batch end, one step later.
LEMMA LastsStep ==
  ASSUME TypeInv, ArtifactInv, OrderInv, [Next]_vars
  PROVE  /\ FilesOrder'
         /\ Working' => BatchOrder'
         /\ Working' => \/ /\ DiskLasts' \cup BatchLasts' \subseteq DiskLasts \cup BatchLasts
                           /\ ~PushesRow
                        \/ /\ DiskLasts' \cup BatchLasts' \subseteq DiskLasts \cup BatchLasts \cup {out.last}
                           /\ PushesRow
<1>type. FileType /\ WorkerType
  BY DEF TypeInv
<1>old. FilesOrder /\ BatchOrder /\ OutOrder
  BY DEF OrderInv
<1> DEFINE Rows1 == DiskLasts' \cup BatchLasts' \subseteq DiskLasts \cup BatchLasts
<1>1. ASSUME SameRows \/ OneMoreFile PROVE FilesOrder' /\ DiskLasts' \subseteq DiskLasts
  BY <1>1, <1>type, <1>old, DiskStays, DiskOpens
<1>2. ASSUME UNCHANGED batch, DiskLasts' \subseteq DiskLasts, Working' => Working
      PROVE  (Working' => BatchOrder') /\ Rows1
  <2>1. BatchLasts' = BatchLasts
    BY <1>2 DEF BatchLasts
  <2>2. Working' => BatchOrder'
    BY <1>2, <1>old DEF BatchOrder, Before
  <2> QED
    BY <1>2, <2>1, <2>2
<1>3. ASSUME batch' = <<>>, DiskLasts' \subseteq DiskLasts \cup BatchLasts
      PROVE  BatchOrder' /\ Rows1
  <2>1. 1 .. Len(batch') = {}
    BY <1>3
  <2>2. BatchLasts' = {}
    BY <2>1 DEF BatchLasts
  <2> QED
    BY <1>3, <2>1, <2>2 DEF BatchOrder
<1>4. CASE Moves \/ Opens
  BY <1>1, <1>2, <1>4 DEF Moves, Opens, Holds, PushesRow
<1>5. CASE PushesRow
  BY <1>1, <1>5, <1>type, <1>old, BatchGrows DEF PushesRow
<1>6. CASE Writes
  <2>1. FilesOrder' /\ DiskLasts' \subseteq DiskLasts \cup BatchLasts
    <3>1. Len(batch) \in 0 .. Len(batch) /\ batch \in Seq(Row)
      BY <1>type, BatchTyped DEF FileType
    <3> QED
      BY <1>6, <1>type, <1>old, <3>1, DiskGrows DEF Writes
  <2>2. ~PushesRow
    BY <1>6, <1>type DEF Writes, PushesRow, FileType
  <2> QED
    BY <1>3, <1>6, <2>1, <2>2 DEF Writes
<1>7. CASE Breaks
  <2>1. PICK n \in 0 .. Len(batch) : MoreRows(SubSeq(batch, 1, n)) /\ Working /\ ~Working'
    BY <1>7 DEF Breaks
  <2>2. /\ SubSeq(batch, 1, n) \in Seq(Row) /\ Len(SubSeq(batch, 1, n)) = n
        /\ \A i \in 1 .. n : SubSeq(batch, 1, n)[i] = batch[i]
    BY <1>type, Prefix DEF FileType
  <2>3. FilesOrder'
    BY <2>1, <2>2, <1>type, <1>old, DiskGrows
  <2> QED
    BY <2>1, <2>3
<1>8. CASE GivesUp
  <2>1. ~PushesRow
    BY <1>8, <1>type DEF GivesUp, PushesRow, FileType
  <2> QED
    BY <1>1, <1>3, <1>8, <2>1 DEF GivesUp
<1>9. CASE Absorbs
  <2>1. ~PushesRow
    BY <1>9, <1>type DEF Absorbs, PushesRow, FileType
  <2> QED
    BY <1>1, <1>2, <1>9, <2>1 DEF Absorbs
<1>10. CASE Finishes
  <2>1. ~PushesRow
    BY <1>10, <1>type DEF Finishes, PushesRow, FileType
  <2> QED
    BY <1>1, <1>2, <1>10, <2>1 DEF Finishes
<1> QED
  BY <1>4, <1>5, <1>6, <1>7, <1>8, <1>9, <1>10, StepKinds

\* A row of a window has its ends, and its gap.
LEMMA RowEnds ==
  ASSUME NEW w, NEW g, NEW r \in Rows(w, g)
  PROVE  r.first = w.first /\ r.last = w.last /\ (w.gap \/ g => r.gap)
<1>1. PICK d \in {w.day, w.endDay} : r = [first |-> w.first, last |-> w.last, gap |-> w.gap \/ g, day |-> d]
  BY DEF Rows
<1>2. r.first = w.first /\ r.last = w.last /\ r.gap = (w.gap \/ g)
  BY <1>1
<1> QED
  BY <1>2, Zenon

\* The row in hand comes after those on disk and in the batch.
LEMMA OutOrderStep ==
  ASSUME TypeInv, ArtifactInv, RowInv, PlaceInv, OrderInv, [Next]_vars
  PROVE  OutOrder'
<1>type. FileType /\ WorkerType /\ AggregatorType
  BY DEF TypeInv
<1>old. FilesOrder /\ BatchOrder /\ OutOrder /\ WindowOrder /\ QueueOrder
  BY DEF OrderInv
<1>1. SUFFICES ASSUME Working', Bearing'
               PROVE  out'.first <= out'.last /\ \A x \in DiskLasts' \cup BatchLasts' : x < out'.first
  BY <1>1 DEF OutOrder, Before
<1>2. ~PushesRow /\ DiskLasts' \cup BatchLasts' \subseteq DiskLasts \cup BatchLasts
  BY <1>1, LastsStep DEF PushesRow
<1>3. CASE Holds
  BY <1>1, <1>2, <1>3, <1>old DEF Holds, OutOrder, Before
<1>4. ASSUME Working, window.count > 0, NEW g, out' \in Rows(window, g)
      PROVE  out'.first <= out'.last /\ \A x \in DiskLasts \cup BatchLasts : x < out'.first
  BY <1>4, <1>old, RowEnds DEF WindowOrder, Before
<1>5. CASE Absorbs
  <2>1. CASE Cut /\ out' \in Rows(window, TRUE)
    BY <1>2, <1>4, <1>5, <2>1 DEF Absorbs, Cut
  <2>2. CASE ~Cut /\ out' \in Rows(Longer, FALSE)
    <3>1. out'.first = Longer.first /\ out'.last = Longer.last /\ Longer.last = Taken.frame
      BY <1>5, <1>old, <2>2, RowEnds, TakenIsNext DEF Absorbs
    <3>2. DiskLasts \subseteq kept /\ BatchLasts \subseteq kept
      BY <1>5, <1>type, <1>old, LastsAreKept DEF Absorbs
    <3>3. Taken.frame \in Nat /\ \A k \in kept : k < Taken.frame
      BY <1>5, <1>old, TakenIsNext DEF Absorbs
    <3>4. CASE window.count = 0 \/ Gap(Taken)
      <4>1. Longer.first = Taken.frame
        BY <1>5, <1>old, <3>4, TakenIsNext DEF Absorbs
      <4> QED
        BY <1>2, <3>1, <3>2, <3>3, <4>1
    <3>5. CASE window.count > 0 /\ ~Gap(Taken)
      <4>1. Longer.first = window.first
        BY <1>5, <1>old, <3>5, TakenIsNext DEF Absorbs
      <4>2. window.first <= window.last /\ \A x \in DiskLasts \cup BatchLasts : x < window.first
        BY <1>5, <1>old, <3>5 DEF Absorbs, WindowOrder, Before
      <4>3. window.first \in Nat /\ window.last \in Nat
        BY <1>type DEF AggregatorType, Window
      <4>4. window.last \in kept
        BY <3>5, <4>2, <4>3 DEF RowInv, WindowIn, Frames
      <4> QED
        BY <1>2, <3>1, <3>3, <4>1, <4>2, <4>3, <4>4
    <3>6. window.count \in Nat
      BY <1>type DEF AggregatorType, Window
    <3> QED
      BY <3>1, <3>4, <3>5, <3>6
  <2> QED
    BY <1>1, <1>5, <1>old, <2>1, <2>2, TakenLeaves DEF Absorbs
<1>6. CASE Finishes
  BY <1>1, <1>2, <1>4, <1>6 DEF Finishes
<1> QED
  BY <1>1, <1>2, <1>3, <1>5, <1>6, StepKinds DEF Moves, Opens, Writes, Breaks, GivesUp

\* The window comes after the row in hand.
LEMMA WindowOrderStep ==
  ASSUME TypeInv, ArtifactInv, RowInv, PlaceInv, OrderInv, [Next]_vars
  PROVE  WindowOrder'
<1>type. FileType /\ WorkerType /\ AggregatorType
  BY DEF TypeInv
<1>old. FilesOrder /\ BatchOrder /\ OutOrder /\ WindowOrder /\ QueueOrder
  BY DEF OrderInv
<1> DEFINE Behind == \A x \in DiskLasts' \cup BatchLasts' : x < window'.first
<1>1. SUFFICES ASSUME Working', window'.count > 0
               PROVE  /\ window'.first <= window'.last /\ Behind
                      /\ Bearing' => out'.last < window'.first
  BY <1>1 DEF WindowOrder, Before
<1>2. window' # NoWindow
  BY <1>1 DEF NoWindow
<1>3. CASE UNCHANGED window /\ ~PushesRow /\ Working /\ (Bearing' => Bearing /\ out' = out)
  <2>1. /\ window.first <= window.last /\ (\A x \in DiskLasts \cup BatchLasts : x < window.first)
        /\ Bearing => out.last < window.first
    BY <1>1, <1>3, <1>old DEF WindowOrder, Before
  <2>2. DiskLasts' \cup BatchLasts' \subseteq DiskLasts \cup BatchLasts
    BY <1>1, <1>3, LastsStep
  <2> QED
    BY <1>3, <2>1, <2>2
<1>4. CASE PushesRow
  <2>1. UNCHANGED window /\ Bearing /\ Working /\ ~Bearing'
    BY <1>4 DEF PushesRow, aside
  <2>2. /\ window.first <= window.last /\ (\A x \in DiskLasts \cup BatchLasts : x < window.first)
        /\ out.last < window.first
    BY <1>1, <1>old, <2>1 DEF WindowOrder, Before
  <2>3. DiskLasts' \cup BatchLasts' \subseteq DiskLasts \cup BatchLasts \cup {out.last}
    BY <1>1, <1>4, LastsStep
  <2> QED
    BY <2>1, <2>2, <2>3
<1>5. CASE Absorbs
  <2>1. window' = Longer /\ ((Cut /\ out' \in Rows(window, TRUE)) \/ ~Bearing')
    BY <1>2, <1>5, <1>old, TakenLeaves DEF Absorbs
  <2>2. ~PushesRow
    BY <1>5, <1>old, TakenLeaves DEF Absorbs, PushesRow
  <2>3. \A x \in DiskLasts' \cup BatchLasts' : x \in DiskLasts \cup BatchLasts /\ x \in kept
    BY <1>1, <1>5, <1>type, <1>old, <2>2, LastsStep, LastsAreKept DEF Absorbs
  <2>4. Taken.frame \in Nat /\ (\A k \in kept : k < Taken.frame) /\ Longer.last = Taken.frame
    BY <1>5, <1>old, TakenIsNext DEF Absorbs
  <2>5. window.count \in Nat /\ window.first \in Nat /\ window.last \in Nat
    BY <1>type DEF AggregatorType, Window
  <2>6. window.count > 0 =>
          /\ window.first <= window.last /\ window.last \in kept
          /\ \A x \in DiskLasts \cup BatchLasts : x < window.first
    BY <1>5, <1>old, <2>5 DEF Absorbs, WindowOrder, Before, RowInv, WindowIn, Frames
  <2>7. CASE window.count = 0 \/ Gap(Taken)
    <3>1. Longer.first = Taken.frame
      BY <1>5, <1>old, <2>7, TakenIsNext DEF Absorbs
    <3>2. Cut /\ out' \in Rows(window, TRUE) => out'.last < Taken.frame
      BY <2>4, <2>6, RowEnds DEF Cut
    <3>3. window'.first <= window'.last /\ Behind
      BY <2>1, <2>3, <2>4, <3>1
    <3> QED
      BY <2>1, <3>1, <3>2, <3>3
  <2>8. CASE window.count > 0 /\ ~Gap(Taken)
    <3>1. Longer.first = window.first /\ ~Cut
      BY <1>5, <1>old, <2>8, TakenIsNext DEF Absorbs, Cut
    <3>2. window.last < Taken.frame
      BY <2>4, <2>6, <2>8
    <3>3. window'.first <= window'.last
      BY <2>1, <2>4, <2>5, <2>6, <2>8, <3>1, <3>2
    <3>4. Behind
      BY <2>1, <2>3, <2>6, <2>8, <3>1
    <3> QED
      BY <2>1, <3>1, <3>3, <3>4
  <2> QED
    BY <2>5, <2>7, <2>8
<1> QED
  BY <1>1, <1>2, <1>3, <1>4, <1>5, StepKinds DEF Moves, Opens, Writes, Breaks, GivesUp, Finishes, Holds, aside, PushesRow

LEMMA OrderStep ==
  ASSUME TypeInv, ArtifactInv, RowInv, PlaceInv, OrderInv, [Next]_vars
  PROVE  OrderInv'
<1>1. QueueOrder'
  BY QueueOrderStep DEF OrderInv
<1>2. FilesOrder' /\ BatchOrder'
  BY LastsStep DEF BatchOrder
<1> QED
  BY <1>1, <1>2, OutOrderStep, WindowOrderStep DEF OrderInv

-----------------------------------------------------------------------------
(* Neighbours, step by step.                                               *)

\* The last row of the open file stays the last, until another is pushed.
LEMMA LastStep ==
  ASSUME TypeInv, ArtifactInv, FilePlace, [Next]_vars, Working'
  PROVE  \/ PushesRow /\ LastRow' = out
         \/ HasLast' => HasLast /\ LastRow' = LastRow
<1>type. FileType /\ WorkerType
  BY DEF TypeInv
<1>1. CASE SameRows /\ UNCHANGED batch /\ (writer' => writer)
  BY <1>1, BatchTyped DEF SameRows, HasLast, LastRow, Rest, ArtifactInv
<1>2. CASE Moves
  <2>1. CASE writer' /\ ~writer
    <3>1. Rest = <<>> /\ batch = <<>>
      BY <1>2, <2>1 DEF Moves, Holds, FilePlace
    <3> QED
      BY <1>2, <2>1, <3>1 DEF Moves, HasLast, Rest, SameRows
  <2> QED
    BY <1>1, <1>2, <2>1 DEF Moves
<1>3. CASE Opens \/ GivesUp
  BY <1>3 DEF Opens, GivesUp, HasLast
<1>4. CASE PushesRow
  <2>1. batch' # <<>> /\ batch'[Len(batch')] = out
    BY <1>4, <1>type DEF PushesRow, FileType
  <2> QED
    BY <1>4, <2>1 DEF LastRow
<1>5. CASE Writes
  <2>1. /\ batch' = <<>> /\ writer /\ Len(files) \in 1 .. Len(files)
        /\ Rest' = Rest \o batch
    BY <1>5, BatchTyped DEF Writes, MoreRows, Rest
  <2>2. Rest \in Seq(Row) /\ batch \in Seq(Row)
    BY <1>type, <2>1, DiskTyped DEF FileType, Rest
  <2>3. CASE batch = <<>>
    BY <2>1, <2>2, <2>3 DEF HasLast, LastRow
  <2>4. CASE batch # <<>>
    <3>1. Rest' # <<>> /\ Rest'[Len(Rest')] = batch[Len(batch)]
      BY <2>1, <2>2, <2>4
    <3> QED
      BY <2>1, <2>4, <3>1 DEF HasLast, LastRow
  <2> QED
    BY <2>3, <2>4
<1>6. CASE Absorbs \/ Finishes
  BY <1>1, <1>6 DEF Absorbs, Finishes
<1> QED
  BY <1>2, <1>3, <1>4, <1>5, <1>6, StepKinds DEF Breaks

\* The rows of the batch go on where those of the file end.
LEMMA DiskJoinedStep ==
  ASSUME TypeInv, ArtifactInv, DiskJoined, BatchJoined, [Next]_vars
  PROVE  DiskJoined'
<1>type. FileType
  BY DEF TypeInv
<1>1. CASE SameRows
  <2>1. 1 .. Len(files') = 1 .. Len(files) /\ \A i \in 1 .. Len(files) : files'[i].rows = files[i].rows
    BY <1>1 DEF SameRows
  <2>2. \A i \in 1 .. Len(files') : \A j \in 1 .. Len(files'[i].rows) : j > 1 =>
          Joined(files'[i].rows[j - 1], files'[i].rows[j])
    BY <2>1 DEF DiskJoined, DiskRow, RowsOfFile
  <2> QED
    BY <2>2 DEF DiskJoined, DiskRow, RowsOfFile, Joined
<1>2. CASE OneMoreFile
  <2>1. \A i \in 1 .. Len(files') : \A j : j \in 1 .. Len(files'[i].rows) =>
          i \in 1 .. Len(files) /\ files'[i].rows = files[i].rows
    <3>1. 1 .. Len(<<>>) = {}
      OBVIOUS
    <3>2. \A i \in 1 .. Len(files') : i = Len(files) + 1 \/ i \in 1 .. Len(files)
      BY <1>2, <1>type, BatchTyped DEF OneMoreFile
    <3> QED
      BY <1>2, <3>1, <3>2 DEF OneMoreFile
  <2> QED
    BY <2>1 DEF DiskJoined, DiskRow, RowsOfFile, Joined
<1>3. ASSUME NEW n \in 0 .. Len(batch), NEW t \in Seq(Row), Len(t) = n,
             \A i \in 1 .. n : t[i] = batch[i], MoreRows(t), Working, writer
      PROVE  DiskJoined'
  <2> DEFINE c == Len(files)
             s == files[c].rows
  <2>type. c \in 1 .. c /\ s \in Seq(Row) /\ Len(s) \in Nat /\ 1 .. Len(files') = 1 .. c
    BY <1>3, <1>type, BatchTyped, DiskTyped DEF MoreRows
  <2>1. files'[c].rows = s \o t /\ \A i \in 1 .. c : i # c => files'[i].rows = files[i].rows
    BY <1>3 DEF MoreRows
  <2>2. /\ Len(s \o t) = Len(s) + n
        /\ \A i \in 1 .. Len(s) : (s \o t)[i] = s[i]
        /\ \A i \in 1 .. Len(s \o t) : i \notin 1 .. Len(s) =>
             i - Len(s) \in 1 .. n /\ (s \o t)[i] = batch[i - Len(s)]
    <3>1. Len(t) = n /\ \A i \in 1 .. Len(t) : t[i] = batch[i]
      BY <1>3
    <3> HIDE DEF s, c
    <3> QED
      BY <3>1, <2>type, ConcatBatch
  <2>3. /\ \A j \in 1 .. Len(batch) : j > 1 => Joined(batch[j - 1], batch[j])
        /\ batch # <<>> /\ s # <<>> => Joined(s[Len(s)], batch[1])
        /\ \A j \in 1 .. Len(s) : j > 1 => Joined(s[j - 1], s[j])
    BY <1>3, <2>type DEF BatchJoined, Rest, DiskJoined, DiskRow, RowsOfFile
  <2>4. ASSUME NEW j \in 1 .. Len(s \o t), j > 1 PROVE Joined((s \o t)[j - 1], (s \o t)[j])
    <3>1. j - 1 \in 1 .. Len(s \o t)
      BY <2>2, <2>4, <2>type
    <3>2. CASE j \in 1 .. Len(s)
      <4>1. j - 1 \in 1 .. Len(s)
        BY <2>4, <3>2, <2>type
      <4> QED
        BY <2>2, <2>3, <2>4, <3>2, <4>1
    <3>3. CASE j \notin 1 .. Len(s) /\ j - 1 \in 1 .. Len(s)
      <4>1. j = Len(s) + 1
        BY <2>type, <3>3
      <4>2. s # <<>> /\ batch # <<>>
        BY <1>3, <1>type, <2>2, <3>3 DEF FileType
      <4>3. (s \o t)[j] = batch[1] /\ (s \o t)[j - 1] = s[Len(s)]
        BY <2>2, <2>type, <3>3, <4>1
      <4> QED
        BY <2>3, <4>2, <4>3
    <3>4. CASE j - 1 \notin 1 .. Len(s)
      <4>1. j \notin 1 .. Len(s)
        BY <2>4, <2>type, <3>4
      <4>2. j - Len(s) > 1 /\ j - Len(s) \in 1 .. Len(batch) /\ (j - Len(s)) - 1 = (j - 1) - Len(s)
        BY <1>3, <1>type, <2>2, <2>type, <3>1, <3>4, <4>1, BatchTyped
      <4>3. Joined(batch[(j - 1) - Len(s)], batch[j - Len(s)])
        BY <2>3, <4>2
      <4> QED
        BY <2>2, <3>1, <3>4, <4>1, <4>3
    <3> QED
      BY <3>2, <3>3, <3>4
  <2>5. \A i \in 1 .. c : \A j \in 1 .. Len(files'[i].rows) : j > 1 =>
          Joined(files'[i].rows[j - 1], files'[i].rows[j])
    BY <2>1, <2>4 DEF DiskJoined, DiskRow, RowsOfFile
  <2> QED
    BY <2>5, <2>type DEF DiskJoined, DiskRow, RowsOfFile, Joined
<1>4. CASE Writes
  BY <1>3, <1>4, <1>type, BatchTyped DEF Writes, FileType
<1>5. CASE Breaks
  <2>1. PICK n \in 0 .. Len(batch) : MoreRows(SubSeq(batch, 1, n)) /\ writer /\ Working
    BY <1>5 DEF Breaks
  <2> QED
    BY <1>3, <1>type, <2>1, Prefix DEF FileType
<1> QED
  BY <1>1, <1>2, <1>4, <1>5, StepKinds DEF Moves, Opens, PushesRow, GivesUp, Absorbs, Finishes

\* A row that goes to the batch goes on where the last one ends.
LEMMA BatchJoinedStep ==
  ASSUME TypeInv, ArtifactInv, PlaceInv, BatchJoined, OutJoined, [Next]_vars
  PROVE  BatchJoined'
<1>type. FileType
  BY DEF TypeInv
<1>1. SUFFICES ASSUME Working'
               PROVE  /\ \A j \in 1 .. Len(batch') : j > 1 => Joined(batch'[j - 1], batch'[j])
                      /\ writer' /\ batch' # <<>> /\ Rest' # <<>> => Joined(Rest'[Len(Rest')], batch'[1])
  BY <1>1 DEF BatchJoined, Joined
<1>2. ASSUME UNCHANGED batch, Working, writer' => writer, Rest' = Rest \/ ~writer'
      PROVE  /\ \A j \in 1 .. Len(batch') : j > 1 => Joined(batch'[j - 1], batch'[j])
             /\ writer' /\ batch' # <<>> /\ Rest' # <<>> => Joined(Rest'[Len(Rest')], batch'[1])
  BY <1>2 DEF BatchJoined
<1>3. SameRows => Rest' = Rest \/ ~writer
  BY BatchTyped, <1>type DEF SameRows, Rest, ArtifactInv
<1>4. CASE Moves
  <2>1. CASE writer' /\ ~writer
    <3>1. batch' = <<>> /\ 1 .. Len(<<>>) = {}
      BY <1>1, <1>4, <2>1 DEF Moves, Holds, PlaceInv, FilePlace
    <3> QED
      BY <3>1
  <2> QED
    BY <1>1, <1>2, <1>3, <1>4, <2>1 DEF Moves, Holds
<1>5. CASE Opens
  BY <1>1, <1>2, <1>5 DEF Opens, Holds
<1>6. CASE PushesRow
  <2>1. /\ Len(batch') = Len(batch) + 1 /\ batch'[Len(batch) + 1] = out /\ Len(batch) \in Nat
        /\ \A i \in 1 .. Len(batch) : batch'[i] = batch[i]
    BY <1>6, <1>type DEF PushesRow, FileType
  <2>2. UNCHANGED Rest
    BY <1>3, <1>6 DEF PushesRow
  <2>3. ASSUME NEW j \in 1 .. Len(batch'), j > 1 PROVE Joined(batch'[j - 1], batch'[j])
    <3>1. CASE j \in 1 .. Len(batch)
      <4>1. j - 1 \in 1 .. Len(batch)
        BY <2>1, <2>3, <3>1
      <4> QED
        BY <1>6, <2>1, <2>3, <3>1, <4>1 DEF PushesRow, BatchJoined
    <3>2. CASE j \notin 1 .. Len(batch)
      <4>1. j = Len(batch) + 1 /\ Len(batch) \in 1 .. Len(batch) /\ j - 1 = Len(batch)
        BY <2>1, <2>3, <3>2
      <4>2. batch # <<>>
        BY <4>1, <1>type DEF FileType
      <4>3. Joined(batch[Len(batch)], out)
        BY <1>6, <4>2 DEF PushesRow, OutJoined, HasLast, LastRow
      <4> QED
        BY <2>1, <4>1, <4>3
    <3> QED
      BY <3>1, <3>2
  <2>4. ASSUME Rest' # <<>> PROVE Joined(Rest'[Len(Rest')], batch'[1])
    <3>1. CASE batch = <<>>
      <4>1. Joined(Rest[Len(Rest)], out)
        BY <1>6, <2>2, <2>4, <3>1 DEF PushesRow, OutJoined, HasLast, LastRow
      <4> QED
        BY <2>1, <2>2, <3>1, <4>1
    <3>2. CASE batch # <<>>
      <4>1. Joined(Rest[Len(Rest)], batch[1])
        BY <1>6, <2>2, <2>4, <3>2 DEF PushesRow, BatchJoined
      <4>2. 1 \in 1 .. Len(batch)
        BY <1>type, <3>2 DEF FileType
      <4> QED
        BY <2>1, <2>2, <4>1, <4>2
    <3> QED
      BY <3>1, <3>2
  <2> QED
    BY <2>3, <2>4
<1>7. CASE Writes \/ GivesUp
  <2>1. batch' = <<>> /\ 1 .. Len(<<>>) = {}
    BY <1>7 DEF Writes, GivesUp
  <2> QED
    BY <2>1
<1>8. CASE Absorbs \/ Finishes
  BY <1>2, <1>3, <1>8 DEF Absorbs, Finishes
<1> QED
  BY <1>1, <1>4, <1>5, <1>6, <1>7, <1>8, StepKinds DEF Breaks

\* What a spectrum is gathered into goes on where the last row ends, or the
\* window before it does.
LEMMA LongerJoined ==
  ASSUME TypeInv, RowInv, QueueOrder, PlaceInv, WindowJoined, PrevJoined, PopAbsorb, HasLast
  PROVE  Cut \/ Joined(LastRow, Longer)
<1>1. Working /\ ~Bearing /\ ~finishing
  BY TakenLeaves
<1>2. window.count \in Nat /\ Longer.gap \in BOOLEAN
  BY TakenIsNext DEF TypeInv, AggregatorType, Window
<1>3. CASE window.count > 0 /\ ~Gap(Taken)
  <2>1. Joined(LastRow, window)
    BY <1>1, <1>3 DEF WindowJoined
  <2>2. Longer.first = window.first /\ Longer.gap = window.gap
    BY <1>3, TakenIsNext
  <2> QED
    BY <2>1, <2>2 DEF Joined
<1>4. CASE window.count = 0
  <2>1. prev.seg # 0 /\ LastRow.last = prev.frame
    BY <1>1, <1>4 DEF PrevJoined
  <2>2. Longer.first = Taken.frame /\ Longer.gap = Gap(Taken)
    BY <1>4, TakenIsNext
  <2>3. Gap(Taken) \/ Taken.frame = prev.frame + 1
    BY <2>1 DEF Gap
  <2> QED
    BY <2>1, <2>2, <2>3 DEF Joined
<1> QED
  BY <1>2, <1>3, <1>4 DEF Cut

LEMMA OutJoinedStep ==
  ASSUME TypeInv, ArtifactInv, RowInv, QueueOrder, GapInv, [Next]_vars
  PROVE  OutJoined'
<1>1. SUFFICES ASSUME Working', Bearing', HasLast'
               PROVE  Joined(LastRow', out')
  BY <1>1 DEF OutJoined, Joined
<1>2. ~PushesRow /\ HasLast /\ LastRow' = LastRow
  BY <1>1, LastStep DEF PushesRow, GapInv, PlaceInv
<1>3. CASE Holds
  BY <1>1, <1>2, <1>3 DEF Holds, GapInv, OutJoined
<1>4. CASE Absorbs
  <2>1. CASE Cut /\ out' \in Rows(window, TRUE)
    BY <1>2, <2>1, RowEnds DEF Joined
  <2>2. CASE ~Cut /\ out' \in Rows(Longer, FALSE)
    <3>1. Joined(LastRow, Longer)
      BY <1>2, <1>4, <2>2, LongerJoined DEF Absorbs, GapInv
    <3> QED
      BY <1>2, <2>2, <3>1, RowEnds DEF Joined
  <2> QED
    BY <1>1, <1>4, <2>1, <2>2, TakenLeaves DEF Absorbs, GapInv
<1>5. CASE Finishes
  <2>1. window.count > 0 /\ out' \in Rows(window, FALSE) /\ Joined(LastRow, window)
    BY <1>1, <1>2, <1>5 DEF Finishes, GapInv, WindowJoined
  <2> QED
    BY <1>2, <2>1, RowEnds DEF Joined
<1> QED
  BY <1>1, <1>2, <1>3, <1>4, <1>5, StepKinds DEF Moves, Opens, Writes, Breaks, GivesUp

LEMMA WindowJoinedStep ==
  ASSUME TypeInv, ArtifactInv, RowInv, QueueOrder, GapInv, [Next]_vars
  PROVE  WindowJoined'
<1>old. WindowJoined /\ FilePlace
  BY DEF GapInv, PlaceInv
<1>1. SUFFICES ASSUME Working', window'.count > 0
               PROVE  /\ Bearing' => Joined(out', window')
                      /\ ~Bearing' /\ HasLast' => Joined(LastRow', window')
  BY <1>1 DEF WindowJoined, Joined
<1>2. window' # NoWindow
  BY <1>1 DEF NoWindow
<1>last. (PushesRow /\ LastRow' = out) \/ (HasLast' => HasLast /\ LastRow' = LastRow)
  BY <1>1, <1>old, LastStep
<1>3. CASE UNCHANGED window /\ Holds /\ ~PushesRow /\ (wpc = "lowdisk" => (writer' => writer))
  <2>1. Bearing' => Joined(out', window')
    BY <1>1, <1>3, <1>old DEF Holds, WindowJoined
  <2>2. ~Bearing' /\ HasLast' => ~Bearing
    BY <1>1, <1>3, <1>old DEF Holds, Laden, Alive, Working, LowDisk, FilePlace, HasLast
  <2> QED
    BY <1>1, <1>3, <1>old, <1>last, <2>1, <2>2 DEF Holds, WindowJoined
<1>4. CASE PushesRow
  <2>1. batch' # <<>> /\ batch'[Len(batch')] = out
    BY <1>4 DEF PushesRow, TypeInv, FileType
  <2>2. LastRow' = out
    BY <2>1 DEF LastRow
  <2> QED
    BY <1>1, <1>4, <1>old, <2>2 DEF PushesRow, WindowJoined, aside
<1>5. CASE Absorbs
  <2>1. window' = Longer /\ ((Cut /\ out' \in Rows(window, TRUE)) \/ ~Bearing')
    BY <1>2, <1>5, TakenLeaves DEF Absorbs, GapInv
  <2>2. Cut => Longer.gap
    BY <1>5, TakenIsNext DEF Absorbs, Cut
  <2>3. ~PushesRow
    BY <1>5, TakenLeaves DEF Absorbs, PushesRow, GapInv
  <2>4. HasLast' => Joined(LastRow', Longer)
    BY <1>5, <1>last, <2>2, <2>3, LongerJoined DEF Absorbs, GapInv, Joined
  <2> QED
    BY <2>1, <2>2, <2>4 DEF Joined
<1>6. CASE GivesUp
  BY <1>6 DEF GivesUp, HasLast
<1> QED
  BY <1>1, <1>2, <1>3, <1>4, <1>5, <1>6, StepKinds DEF Moves, Opens, Writes, Breaks, Finishes, aside

LEMMA PrevJoinedStep ==
  ASSUME TypeInv, ArtifactInv, RowInv, QueueOrder, GapInv, [Next]_vars
  PROVE  PrevJoined'
<1>old. PrevJoined /\ FilePlace
  BY DEF GapInv, PlaceInv
<1>1. SUFFICES ASSUME Working', window'.count = 0, ~finishing'
               PROVE  /\ Bearing' => prev'.seg # 0 /\ out'.last = prev'.frame
                      /\ ~Bearing' /\ HasLast' => prev'.seg # 0 /\ LastRow'.last = prev'.frame
  BY <1>1 DEF PrevJoined
<1>last. (PushesRow /\ LastRow' = out) \/ (HasLast' => HasLast /\ LastRow' = LastRow)
  BY <1>1, <1>old, LastStep
<1>3. CASE UNCHANGED aside /\ Holds /\ ~PushesRow /\ (wpc = "lowdisk" => (writer' => writer))
  <2>1. Bearing' => prev'.seg # 0 /\ out'.last = prev'.frame
    BY <1>1, <1>3, <1>old DEF Holds, PrevJoined, aside
  <2>2. ~Bearing' /\ HasLast' => ~Bearing
    BY <1>1, <1>3, <1>old DEF Holds, Laden, Alive, Working, LowDisk, FilePlace, HasLast
  <2> QED
    BY <1>1, <1>3, <1>old, <1>last, <2>1, <2>2 DEF Holds, PrevJoined, aside
<1>4. CASE PushesRow
  <2>1. batch' # <<>> /\ batch'[Len(batch')] = out
    BY <1>4 DEF PushesRow, TypeInv, FileType
  <2>2. LastRow' = out
    BY <2>1 DEF LastRow
  <2> QED
    BY <1>1, <1>4, <1>old, <2>2 DEF PushesRow, PrevJoined, aside
<1>5. CASE Absorbs
  <2>1. window' # Longer
    BY <1>1, <1>5, TakenIsNext DEF Absorbs
  <2>2. ~Cut /\ out' \in Rows(Longer, FALSE) /\ Bearing'
    BY <1>5, <2>1, TakenLeaves DEF Absorbs, GapInv
  <2>3. out'.last = Taken.frame /\ Taken.seg # 0
    BY <1>5, <2>2, RowEnds, TakenIsNext DEF Absorbs
  <2> QED
    BY <1>5, <2>2, <2>3, TakenLeaves DEF Absorbs, GapInv
<1>6. CASE GivesUp
  BY <1>6 DEF GivesUp, HasLast
<1> QED
  BY <1>1, <1>3, <1>4, <1>5, <1>6, StepKinds DEF Moves, Opens, Writes, Breaks, Finishes

LEMMA GapStep ==
  ASSUME TypeInv, ArtifactInv, RowInv, OrderInv, GapInv, [Next]_vars
  PROVE  GapInv'
<1>1. QueueOrder
  BY DEF OrderInv
<1>2. PlaceInv'
  BY <1>1, PlaceStep DEF GapInv
<1>3. DiskJoined' /\ BatchJoined'
  BY DiskJoinedStep, BatchJoinedStep DEF GapInv
<1>4. OutJoined' /\ WindowJoined' /\ PrevJoined'
  BY <1>1, OutJoinedStep, WindowJoinedStep, PrevJoinedStep
<1> QED
  BY <1>2, <1>3, <1>4 DEF GapInv

-----------------------------------------------------------------------------
(* What is dropped is counted.                                             *)

\* Frames offered that neither wait nor were taken.
Lost == submitted \ (kept \cup Queued)

\* A queue holds as many frames as records.
LEMMA QueueCounts ==
  ASSUME SharedType, QueueOrder
  PROVE  IsFiniteSet(Queued) /\ Cardinality(Queued) = Len(queue)
<1> DEFINE f == [i \in 1 .. Len(queue) |-> queue[i].frame]
<1>1. Len(queue) \in Nat /\ DOMAIN queue = 1 .. Len(queue)
  BY DEF SharedType
<1>2. f \in [1 .. Len(queue) -> Queued]
  BY <1>1 DEF Queued
<1>3. \A i, j \in 1 .. Len(queue) : f[i] = f[j] => i = j
  <2>1. \A i \in 1 .. Len(queue) : queue[i].frame \in Nat
    <3>1. \A r \in Record : r.frame \in Nat
      BY DEF Record
    <3> QED
      BY <3>1 DEF SharedType
  <2>2. ASSUME NEW i \in 1 .. Len(queue), NEW j \in 1 .. Len(queue), f[i] = f[j], i # j PROVE FALSE
    <3>1. i < j \/ j < i
      BY <2>2
    <3> QED
      BY <2>1, <2>2, <3>1 DEF QueueOrder
  <2> QED
    BY <2>2
<1>4. \A x \in Queued : \E i \in 1 .. Len(queue) : f[i] = x
  BY <1>1 DEF Queued
<1>5. ExistsBijection(1 .. Len(queue), Queued)
  <2>1. DOMAIN f = 1 .. Len(queue)
    OBVIOUS
  <2> HIDE DEF f
  <2>2. f \in Injection(1 .. Len(queue), Queued)
    BY <1>2, <1>3, <2>1 DEF Injection, IsInjective
  <2>3. f \in Surjection(1 .. Len(queue), Queued)
    BY <1>2, <1>4 DEF Surjection
  <2> QED
    BY <2>2, <2>3 DEF ExistsBijection, Bijection
<1> QED
  BY <1>1, <1>5, FS_CountingElements, FS_NatBijection

LEMMA CountStep ==
  ASSUME TypeInv, QueueOrder, CountInv, [Next]_vars
  PROVE  CountInv'
<1>type. /\ queue \in Seq(Record) /\ DOMAIN queue = 1 .. Len(queue) /\ Len(queue) \in Nat
         /\ frame \in Nat /\ dropped \in Nat /\ submitted \subseteq Nat
  BY DEF TypeInv, SharedType, ProducerType
<1>old. /\ IsFiniteSet(submitted) /\ (\A s \in submitted : s < frame)
        /\ kept \cup Queued \subseteq submitted
        /\ IsFiniteSet(Lost) /\ dropped = Cardinality(Lost)
  BY FS_Subset DEF CountInv, DropsAreCounted, Lost
<1>1. ASSUME frame' \in {frame, frame + 1}, submitted' \subseteq submitted \cup {frame},
             IsFiniteSet(submitted'), \A s \in submitted' : s < frame',
             kept' \cup Queued' \subseteq submitted', dropped' = Cardinality(Lost')
      PROVE  CountInv'
  BY <1>1, <1>type DEF CountInv, DropsAreCounted, Lost
<1>2. ASSUME UNCHANGED <<queue, kept, submitted, dropped>>, frame' \in {frame, frame + 1} PROVE CountInv'
  <2>1. Queued' = Queued
    BY <1>2 DEF Queued
  <2>2. Lost' = Lost
    BY <1>2, <2>1 DEF Lost
  <2>3. \A s \in submitted' : s < frame'
    BY <1>2, <1>old, <1>type
  <2> QED
    BY <1>1, <1>2, <1>old, <2>1, <2>2, <2>3
\* One more frame is offered and counted.
<1>3. ASSUME UNCHANGED <<queue, kept>>, dropped' = dropped + 1, frame' = frame + 1,
             submitted' = submitted \cup {frame}
      PROVE  CountInv'
  <2>1. Queued' = Queued
    BY <1>3 DEF Queued
  <2>2. frame \notin submitted
    BY <1>old, <1>type
  <2>3. Lost' = Lost \cup {frame} /\ frame \notin Lost
    BY <1>3, <1>old, <2>1, <2>2 DEF Lost
  <2>4. Cardinality(Lost') = dropped'
    BY <1>3, <1>old, <2>3, FS_AddElement
  <2>5. IsFiniteSet(submitted') /\ \A s \in submitted' : s < frame'
    BY <1>3, <1>old, <1>type, FS_AddElement
  <2> QED
    BY <1>1, <1>3, <1>old, <2>1, <2>4, <2>5
<1>4. ASSUME Push PROVE CountInv'
  <2>1. UNCHANGED kept /\ frame' = frame + 1 /\ submitted' = submitted \cup {frame}
    BY <1>4 DEF Push, aggregator
  <2>2. CASE UNCHANGED queue /\ dropped' = dropped + 1
    BY <1>3, <2>1, <2>2
  <2>3. ASSUME NEW x, x.frame = frame, queue' = Append(queue, x), UNCHANGED dropped PROVE CountInv'
    <3>1. /\ Len(queue') = Len(queue) + 1 /\ queue'[Len(queue) + 1] = x
          /\ DOMAIN queue' = 1 .. Len(queue')
          /\ \A i \in 1 .. Len(queue) : queue'[i] = queue[i]
          /\ \A i \in 1 .. Len(queue') : i \in 1 .. Len(queue) \/ i = Len(queue) + 1
      BY <1>type, <2>3
    <3>2. Queued' = Queued \cup {frame}
      <4>1. \A y \in Queued' : y \in Queued \cup {frame}
        BY <1>type, <2>3, <3>1 DEF Queued
      <4>2. \A y \in Queued \cup {frame} : y \in Queued'
        <5>1. \A i \in 1 .. Len(queue) : i \in 1 .. Len(queue')
          BY <3>1, <1>type
        <5>2. Len(queue) + 1 \in 1 .. Len(queue')
          BY <3>1, <1>type
        <5> QED
          BY <1>type, <2>3, <3>1, <5>1, <5>2 DEF Queued
      <4> QED
        BY <4>1, <4>2
    <3>3. frame \notin submitted
      BY <1>old, <1>type
    <3>4. Lost' = Lost
      BY <1>old, <2>1, <3>2, <3>3 DEF Lost
    <3>5. IsFiniteSet(submitted') /\ \A s \in submitted' : s < frame'
      BY <2>1, <1>old, <1>type, FS_AddElement
    <3> QED
      BY <1>1, <1>old, <2>1, <2>3, <3>2, <3>4, <3>5
  <2> QED
    BY <1>4, <2>2, <2>3 DEF Push, TryPush
\* What waits is counted when the drain is given up.
<1>5. ASSUME Abandon PROVE CountInv'
  <2>1. /\ UNCHANGED <<kept, frame, submitted>> /\ queue' = <<>>
        /\ dropped' = dropped + Len(queue)
    BY <1>5 DEF Abandon, producerVars, aggregator
  <2>2. Queued' = {}
    BY <2>1 DEF Queued
  <2>3. IsFiniteSet(Queued) /\ Cardinality(Queued) = Len(queue)
    BY QueueCounts DEF TypeInv
  <2>4. Queued \cap kept = {}
    <3>1. \A i \in 1 .. Len(queue) : queue[i].frame \notin kept
      <4>1. ASSUME NEW i \in 1 .. Len(queue), queue[i].frame \in kept PROVE FALSE
        <5>1. queue[i].frame < queue[i].frame
          BY <4>1 DEF QueueOrder
        <5>2. queue[i].frame \in Nat
          BY <4>1 DEF TypeInv, AggregatorType
        <5> QED
          BY <5>1, <5>2
      <4> QED
        BY <4>1
    <3> QED
      BY <3>1, <1>type DEF Queued
  <2>5. Lost' = Lost \cup Queued /\ Lost \cap Queued = {}
    BY <2>1, <2>2, <2>4, <1>old DEF Lost
  <2>6. Cardinality(Lost \cup Queued) = Cardinality(Lost) + Cardinality(Queued) - Cardinality(Lost \cap Queued)
    <3>1. IsFiniteSet(Lost) /\ IsFiniteSet(Queued)
      BY <1>old, <2>3
    <3> QED
      BY <3>1, FS_Union, Zenon
  <2>7. Cardinality(Lost') = dropped'
    <3>1. Cardinality(Lost \cap Queued) = 0
      BY <2>5, FS_EmptySet
    <3>2. Cardinality(Lost \cup Queued) = dropped + Len(queue)
      BY <1>old, <1>type, <2>3, <2>6, <3>1
    <3> QED
      BY <2>1, <2>5, <3>2
  <2> QED
    BY <1>1, <1>old, <2>1, <2>2, <2>7
\* A record is popped.
<1>6. ASSUME PopRefused \/ PopAbsorb PROVE CountInv'
  <2>1. queue # <<>> /\ queue' = Tail(queue) /\ UNCHANGED <<frame, submitted>>
    BY <1>6 DEF PopRefused, PopAbsorb, producerVars
  <2>2. /\ Len(queue') = Len(queue) - 1 /\ 1 \in 1 .. Len(queue) /\ Head(queue) = queue[1]
        /\ DOMAIN queue' = 1 .. Len(queue')
        /\ \A i \in 1 .. Len(queue') : i + 1 \in 1 .. Len(queue) /\ queue'[i] = queue[i + 1] /\ 1 < i + 1
    BY <2>1, <1>type
  <2>before. \A i \in 1 .. Len(queue) : i = 1 \/ \E j \in 1 .. Len(queue') : i = j + 1
    <3>1. ASSUME NEW i \in 1 .. Len(queue), i # 1 PROVE \E j \in 1 .. Len(queue') : i = j + 1
      <4>1. i - 1 \in 1 .. Len(queue') /\ i = (i - 1) + 1
        BY <2>2, <3>1, <1>type
      <4> QED
        BY <4>1
    <3> QED
      BY <3>1
  <2>3. Queued = Queued' \cup {Head(queue).frame}
    <3>1. \A y \in Queued : y \in Queued' \cup {Head(queue).frame}
      <4>1. ASSUME NEW i \in 1 .. Len(queue) PROVE queue[i].frame \in Queued' \cup {Head(queue).frame}
        <5>1. CASE i = 1
          BY <2>2, <5>1
        <5>2. ASSUME NEW j \in 1 .. Len(queue'), i = j + 1 PROVE queue[i].frame \in Queued'
          BY <2>2, <5>2 DEF Queued
        <5> QED
          BY <2>before, <5>1, <5>2
      <4> QED
        BY <1>type, <4>1 DEF Queued
    <3>2. \A y \in Queued' : y \in Queued
      BY <1>type, <2>2 DEF Queued
    <3>3. Head(queue).frame \in Queued
      BY <1>type, <2>2 DEF Queued
    <3> QED
      BY <3>1, <3>2, <3>3
  <2>4. Head(queue).frame \notin Queued' /\ Head(queue).frame \notin kept
    <3>1. ASSUME NEW x, x = Head(queue).frame, x \in Queued' \/ x \in kept PROVE FALSE
      <4>1. x < x
        BY <1>type, <2>2, <3>1, SMTT(30) DEF Queued, QueueOrder
      <4>2. x \in Nat
        BY <2>3, <3>1, <1>old, <1>type
      <4> QED
        BY <4>1, <4>2
    <3> QED
      BY <3>1
  <2>5. CASE PopRefused
    <3>1. kept' = kept /\ dropped' = dropped + 1
      BY <2>5 DEF PopRefused, aggregator
    <3>2. Lost' = Lost \cup {Head(queue).frame} /\ Head(queue).frame \notin Lost
      BY <1>old, <2>1, <2>3, <2>4, <3>1 DEF Lost
    <3>3. Cardinality(Lost') = dropped'
      BY <1>old, <3>1, <3>2, FS_AddElement
    <3> QED
      BY <1>1, <1>old, <2>1, <2>3, <3>1, <3>3
  <2>6. CASE PopAbsorb
    <3>1. kept' = kept \cup {Head(queue).frame} /\ dropped' = dropped
      BY <2>6 DEF PopAbsorb
    <3>2. kept' \cup Queued' = kept \cup Queued
      BY <2>3, <3>1
    <3>3. Lost' = Lost
      BY <2>1, <3>2 DEF Lost
    <3> QED
      BY <1>1, <1>old, <2>1, <3>1, <3>2, <3>3
  <2> QED
    BY <1>6, <2>5, <2>6
<1>7. ASSUME Refuse PROVE CountInv'
  BY <1>3, <1>7 DEF Refuse, aggregator
<1>8. ASSUME Admit \/ SkipFrame \/ Stop PROVE CountInv'
  BY <1>2, <1>8 DEF Admit, SkipFrame, Stop, shared, aggregator
<1>9. ASSUME UNCHANGED producerVars, UNCHANGED <<queue, kept, dropped>> PROVE CountInv'
  BY <1>2, <1>9 DEF producerVars
<1>10. ASSUME UNCHANGED shared, UNCHANGED aggregator PROVE UNCHANGED <<queue, kept, dropped>>
  BY <1>10 DEF shared, aggregator
<1>11. ASSUME Resume \/ LowDisk \/ Failed \/ Exit \/ Dying PROVE UNCHANGED <<queue, kept, dropped>>
  BY <1>11 DEF Resume, LowDisk, Failed, Exit, Dying, consumer, idle, aggregator
<1>12. ASSUME Finish PROVE UNCHANGED <<queue, kept, dropped>>
  BY <1>12 DEF Finish, shared
<1> QED
  BY <1>4, <1>5, <1>6, <1>7, <1>8, <1>9, <1>10, <1>11, <1>12, ProducerSame, SharedSame, AggregatorSame
     DEF Next, Worker

-----------------------------------------------------------------------------
(* What is taken has a place, or a counter says that it has none.          *)

\* What is on disk stays there, and what is appended comes there.
LEMMA WrittenStays ==
  ASSUME FileType, NEW f, SameRows \/ OneMoreFile, IsWritten(f)
  PROVE  IsWritten(f)'
<1>1. PICK i \in 1 .. Len(files) : \E j \in RowsOfFile(i) : f \in Frames(DiskRow(i, j))
  BY DEF IsWritten
<1>2. i \in 1 .. Len(files') /\ files'[i].rows = files[i].rows
  BY BatchTyped DEF SameRows, OneMoreFile
<1>3. \E j \in 1 .. Len(files'[i].rows) : f \in Frames(files'[i].rows[j])
  BY <1>1, <1>2 DEF RowsOfFile, DiskRow
<1> QED
  BY <1>2, <1>3 DEF IsWritten, RowsOfFile, DiskRow, Frames

LEMMA WrittenGrows ==
  ASSUME FileType, NEW t \in Seq(Row), MoreRows(t), NEW f,
         IsWritten(f) \/ \E i \in 1 .. Len(t) : f \in Frames(t[i])
  PROVE  IsWritten(f)'
<1> DEFINE c == Len(files)
           s == files[c].rows
<1>1. c \in 1 .. Len(files) /\ Len(files') = Len(files) /\ s \in Seq(Row)
  BY BatchTyped, DiskTyped DEF MoreRows
<1>2. files'[c].rows = s \o t /\ \A i \in 1 .. Len(files) : i # c => files'[i].rows = files[i].rows
  BY DEF MoreRows
<1>3. /\ \A j \in 1 .. Len(s) : j \in 1 .. Len(s \o t) /\ (s \o t)[j] = s[j]
      /\ \A j \in 1 .. Len(t) : Len(s) + j \in 1 .. Len(s \o t) /\ (s \o t)[Len(s) + j] = t[j]
  BY <1>1
<1>4. ASSUME NEW i \in 1 .. Len(files), NEW j \in 1 .. Len(files'[i].rows), f \in Frames(files'[i].rows[j])
      PROVE  IsWritten(f)'
  BY <1>1, <1>4 DEF IsWritten, RowsOfFile, DiskRow, Frames
<1>5. ASSUME NEW i \in 1 .. Len(files), NEW j \in 1 .. Len(files[i].rows), f \in Frames(files[i].rows[j])
      PROVE  IsWritten(f)'
  <2>1. CASE i = c
    BY <1>2, <1>3, <1>4, <1>5, <2>1
  <2>2. CASE i # c
    BY <1>2, <1>4, <1>5, <2>2
  <2> QED
    BY <2>1, <2>2
<1>6. ASSUME NEW j \in 1 .. Len(t), f \in Frames(t[j])
      PROVE  IsWritten(f)'
  <2>1. Len(s) + j \in 1 .. Len(files'[c].rows) /\ f \in Frames(files'[c].rows[Len(s) + j])
    BY <1>2, <1>3, <1>6
  <2> QED
    BY <1>1, <1>4, <2>1
<1> QED
  BY <1>5, <1>6 DEF IsWritten, RowsOfFile, DiskRow

\* A step that gives nothing up leaves what is stored.
LEMMA StoredStays ==
  ASSUME TypeInv, NEW f, Moves \/ Opens \/ PushesRow \/ Writes \/ Breaks \/ Absorbs \/ Finishes,
         \/ IsWritten(f) \/ IsBatched(f)
         \/ PushesRow /\ f \in Frames(out)
  PROVE  IsWritten(f)' \/ IsBatched(f)'
<1>type. FileType
  BY DEF TypeInv
<1>1. CASE (SameRows \/ OneMoreFile) /\ UNCHANGED batch
  <2>1. ~PushesRow
    BY <1>1, <1>type DEF PushesRow, FileType
  <2>2. IsBatched(f) => IsBatched(f)'
    BY <1>1 DEF IsBatched, Frames
  <2> QED
    BY <1>1, <1>type, <2>1, <2>2, WrittenStays
<1>2. CASE PushesRow
  <2>1. /\ Len(batch) + 1 \in 1 .. Len(batch') /\ batch'[Len(batch) + 1] = out
        /\ \A i \in 1 .. Len(batch) : i \in 1 .. Len(batch') /\ batch'[i] = batch[i]
    BY <1>2, <1>type DEF PushesRow, FileType
  <2>2. f \in Frames(out) => IsBatched(f)'
    BY <2>1 DEF IsBatched, Frames
  <2>3. IsBatched(f) => IsBatched(f)'
    BY <2>1 DEF IsBatched, Frames
  <2> QED
    BY <1>2, <1>type, <2>2, <2>3, WrittenStays DEF PushesRow
<1>3. CASE Writes
  <2>1. ~PushesRow
    BY <1>3, <1>type DEF Writes, PushesRow, FileType
  <2> QED
    BY <1>3, <1>type, <2>1, WrittenGrows DEF Writes, IsBatched, FileType
<1>4. CASE Breaks
  <2>1. PICK n \in 0 .. Len(batch) : MoreRows(SubSeq(batch, 1, n))
    BY <1>4 DEF Breaks
  <2>2. IsWritten(f) => IsWritten(f)'
    BY <1>type, <2>1, Prefix, WrittenGrows DEF FileType
  <2>3. ~PushesRow
    BY <1>4, <1>type DEF Breaks, PushesRow, FileType
  <2> QED
    BY <1>4, <2>2, <2>3 DEF Breaks, IsBatched, Frames
<1> QED
  BY <1>1, <1>2, <1>3, <1>4 DEF Moves, Opens, Absorbs, Finishes

LEMMA CountersGrow ==
  ASSUME TypeInv, [Next]_vars
  PROVE  /\ outputDropped \in Nat /\ discarded \in Nat /\ outputDropped' >= outputDropped
         /\ Failed \/ discarded' >= discarded
<1>type. outputDropped \in Nat /\ discarded \in Nat /\ window.count \in Nat
  BY DEF TypeInv, ErrorsType, AggregatorType, Window
<1>1. outputDropped' \in {outputDropped, outputDropped + 1}
  BY ErrorsSame DEF Next, Worker, Start, Resume, Space, LowDisk, LockArtifact, Reserve, Create,
     AppendBatch, Flush, Status, Close, Publish, Ready, Failed, QuarantineFails, Exit, errors
<1>2. ASSUME ~Failed PROVE discarded' \in {discarded, discarded + window.count, discarded + 0}
  <2>1. UNCHANGED aggregator => discarded' = discarded
    BY DEF aggregator
  <2>2. PopAbsorb \/ Finish => discarded' \in {discarded + window.count, discarded + 0}
    BY DEF PopAbsorb, Finish
  <2> QED
    BY <1>2, <2>1, <2>2, AggregatorSame DEF Next, Worker
<1> QED
  BY <1>type, <1>1, <1>2

LEMMA PauseStep ==
  ASSUME TypeInv, LossInv, [Next]_vars
  PROVE  /\ Alive' => Alive
         /\ Alive' /\ state' \notin {"RUNNING", "STOPPING"} => outputDropped' > 0
         /\ state' = "STOPPING" => wpc' \in {"done", "dying", "dead"}
<1>1. CASE Resume
  BY <1>1, CountersGrow DEF Resume, LossInv, Alive
<1>2. CASE LowDisk \/ Failed
  <2>1. outputDropped' = outputDropped + 1 /\ outputDropped \in Nat
    BY <1>2, CountersGrow DEF LowDisk, Failed
  <2> QED
    BY <1>2, <2>1 DEF LowDisk, Failed, Accepted, Alive
<1>3. CASE Exit
  BY <1>3 DEF Exit, Alive
<1>4. CASE Dying
  BY <1>4 DEF Dying, Alive
<1>5. ASSUME UNCHANGED state, wpc \in {"dying", "dead", "done"} => UNCHANGED wpc
      PROVE  /\ Alive' => Alive
             /\ Alive' /\ state' \notin {"RUNNING", "STOPPING"} => outputDropped' > 0
             /\ state' = "STOPPING" => wpc' \in {"done", "dying", "dead"}
  <2>1. Alive' => Alive
    BY <1>5 DEF Alive
  <2>2. outputDropped > 0 => outputDropped' > 0
    <3>1. outputDropped' \in Nat
      BY ErrorsTyped DEF ErrorsType
    <3> QED
      BY <3>1, CountersGrow
  <2>3. state' = "STOPPING" => wpc' \in {"done", "dying", "dead"}
    BY <1>5 DEF LossInv
  <2> QED
    BY <1>5, <2>1, <2>2, <2>3 DEF LossInv
<1>6. CASE UNCHANGED worker /\ UNCHANGED state
  BY <1>5, <1>6 DEF worker
<1>7. Refuse \/ Push => UNCHANGED state
  BY DEF Refuse, Push
<1>8. Admit \/ SkipFrame \/ Stop \/ DiskChanges \/ ClockSteps \/ Ended \/ UNCHANGED vars => UNCHANGED state
  BY SharedSame DEF shared
<1>9. ASSUME Worker, ~(Resume \/ LowDisk \/ Failed \/ Exit \/ Dying) PROVE UNCHANGED state
  BY <1>9, SharedSame DEF Worker, Abandon, PopRefused, PopAbsorb, shared
<1>10. ASSUME Worker, ~Dying PROVE wpc \notin {"dying", "dead", "done"}
  BY <1>10 DEF Worker, Start, Abandon, Resume, Empty, Idle, PopRefused, PopAbsorb, Roll, Keep, Space,
     LowDisk, LockArtifact, Reserve, Create, PushRow, AppendBatch, Flush, Status, Close, Publish, Ready,
     Failed, QuarantineFails, Finish, FinishPaused, Exit
<1>11. CASE Worker
  BY <1>1, <1>2, <1>3, <1>4, <1>5, <1>9, <1>10, <1>11
<1>12. CASE \/ Refuse \/ Admit \/ Push \/ SkipFrame \/ Stop \/ DiskChanges \/ ClockSteps
            \/ Ended \/ UNCHANGED vars
  <2>1. UNCHANGED worker /\ UNCHANGED state
    BY <1>7, <1>8, <1>12, WorkerSame
  <2> QED
    BY <1>6, <2>1
<1> QED
  BY <1>11, <1>12 DEF Next

\* A spectrum that is taken is in the row or the window it leaves, with what
\* the window had.
LEMMA TakenCovered ==
  ASSUME TypeInv, RowInv, QueueOrder, WindowOrder, PlaceInv, CountInv, PopAbsorb,
         \A f \in kept : Covered(f), NEW g \in kept \cup {Taken.frame}
  PROVE  Covered(g)' \/ discarded' > discarded
<1> DEFINE w == IF window.count > 0 THEN Frames(window) ELSE {}
<1>type. FileType /\ window \in Window /\ discarded \in Nat
  BY DEF TypeInv, AggregatorType
<1>num. window.count \in Nat /\ window.first \in Nat /\ window.last \in Nat /\ Taken.frame \in Nat
  BY <1>type, TakenIsNext DEF Window
<1>1. Absorbs
  BY TakenLeaves DEF Absorbs, PopAbsorb, file, SameRows
<1>2. ~Laden /\ ~Bearing
  BY DEF PopAbsorb, Laden, Bearing
<1>3. IsWritten(g) \/ IsBatched(g) => IsWritten(g)' \/ IsBatched(g)'
  BY <1>1, StoredStays
<1>4. CASE IsWritten(g) \/ IsBatched(g)
  BY <1>3, <1>4 DEF Covered
<1>5. CASE g \in w \cup {Taken.frame}
  <2>1. ASSUME ~Cut PROVE g \in Frames(Longer)
    <3>1. CASE window.count = 0
      <4>1. Longer.first = Taken.frame /\ Longer.last = Taken.frame
        BY <3>1, TakenIsNext
      <4> QED
        BY <1>5, <1>num, <3>1, <4>1 DEF Frames
    <3>2. CASE window.count > 0
      <4>1. ~Gap(Taken) /\ Longer.first = window.first /\ Longer.last = Taken.frame
        BY <2>1, <3>2, TakenIsNext DEF Cut
      <4>2. \A k \in Frames(window) : k < Taken.frame /\ k \in Int /\ window.first <= k
        <5>1. Frames(window) \subseteq kept
          BY <3>2 DEF RowInv, WindowIn
        <5>2. \A k \in Frames(window) : k \in Int /\ window.first <= k
          BY <1>num DEF Frames
        <5> QED
          BY <5>1, <5>2, TakenIsNext
      <4>3. window.first <= Taken.frame
        <5>1. window.first <= window.last /\ Taken.frame = prev.frame + 1 /\ prev.frame = window.last
          BY <3>2, <4>1, <1>1 DEF Absorbs, WindowOrder, Gap, RowInv, WindowIn
        <5> QED
          BY <1>num, <5>1
      <4> QED
        BY <1>5, <1>num, <4>1, <4>2, <4>3 DEF Frames
    <3> QED
      BY <1>num, <3>1, <3>2
  <2>2. CASE ~Cut /\ window' = Longer
    BY <2>1, <2>2, TakenIsNext DEF Covered, Frames
  <2>3. CASE ~Cut /\ out' \in Rows(Longer, FALSE) /\ Bearing'
    <3>1. out'.first = Longer.first /\ out'.last = Longer.last
      BY <2>3, RowEnds
    <3> QED
      BY <2>1, <2>3, <3>1 DEF Covered, Laden, Frames
  <2>4. CASE Cut /\ Policy = "emit"
    <3>1. out' \in Rows(window, TRUE) /\ wpc' = "accept"
      BY <2>4 DEF PopAbsorb, Cut, Taken
    <3>2. out'.first = window.first /\ out'.last = window.last /\ Laden'
      BY <3>1, RowEnds DEF Laden, Bearing
    <3>3. window' = Longer
      BY <3>1, <2>4, TakenLeaves
    <3>4. Longer.first = Taken.frame /\ Longer.last = Taken.frame /\ Longer.count > 0
      BY <2>4, TakenIsNext DEF Cut
    <3>5. CASE g \in Frames(window)
      BY <3>2, <3>5 DEF Covered, Frames
    <3>6. CASE g = Taken.frame
      BY <1>num, <3>3, <3>4, <3>6 DEF Covered, Frames
    <3> QED
      BY <1>5, <3>5, <3>6
  <2>5. CASE Cut /\ Policy # "emit"
    <3>1. discarded' = discarded + window.count /\ window.count > 0
      BY <2>5, SizesAssumption DEF PopAbsorb, Cut, Taken
    <3> QED
      BY <3>1, <1>type, <1>num
  <2> QED
    BY <2>2, <2>3, <2>4, <2>5, TakenLeaves
<1>6. g \in kept => \/ IsWritten(g) \/ IsBatched(g)
                    \/ g \in w
  BY <1>2 DEF Covered
<1> QED
  BY <1>4, <1>5, <1>6

LEMMA LossStep ==
  ASSUME TypeInv, ArtifactInv, RowInv, OrderInv, PlaceInv, CountInv, LossInv, [Next]_vars
  PROVE  LossInv'
<1>type. window.count \in Nat /\ discarded \in Nat /\ outputDropped \in Nat
  BY DEF TypeInv, AggregatorType, ErrorsType, Window
<1>num. /\ outputDropped' \in Nat /\ discarded' \in Nat
        /\ outputDropped' > 0 => outputDropped' + discarded' > 0
        /\ discarded' > 0 => outputDropped' + discarded' > 0
  <2>1. outputDropped' \in Nat /\ discarded' \in Nat
    BY TypeStep DEF TypeInv, AggregatorType, ErrorsType
  <2>2. \A a, b \in Nat : (a > 0 => a + b > 0) /\ (b > 0 => a + b > 0)
    OBVIOUS
  <2> QED
    BY <2>1, <2>2
<1>order. QueueOrder /\ WindowOrder
  BY DEF OrderInv
<1>1. /\ Alive' => Alive
      /\ Alive' /\ state' \notin {"RUNNING", "STOPPING"} => outputDropped' > 0
      /\ state' = "STOPPING" => wpc' \in {"done", "dying", "dead"}
  BY PauseStep
<1>2. ASSUME Alive' PROVE outputDropped' + discarded' > 0 \/ \A f \in kept' : Covered(f)'
  <2>1. CASE Failed \/ FinishPaused
    <3>1. outputDropped' > 0
      <4>1. Failed => outputDropped' = outputDropped + 1
        BY DEF Failed
      <4>2. FinishPaused => outputDropped' = outputDropped /\ state # "RUNNING" /\ wpc = "finish"
        BY DEF FinishPaused, errors
      <4>3. FinishPaused => outputDropped > 0
        BY <1>1, <1>2, <4>2 DEF LossInv
      <4> QED
        BY <1>type, <2>1, <4>1, <4>2, <4>3
    <3> QED
      BY <1>num, <3>1
  <2>2. CASE QuarantineFails
    BY <1>2, <2>2 DEF QuarantineFails, Alive
  <2>3. CASE outputDropped + discarded > 0 /\ ~Failed
    <3>1. outputDropped' > 0 \/ discarded' > 0
      <4>1. outputDropped' >= outputDropped /\ discarded' >= discarded
        BY <2>3, CountersGrow
      <4> QED
        BY <1>type, <1>num, <2>3, <4>1
    <3> QED
      BY <1>num, <3>1
  <2>4. CASE (\A f \in kept : Covered(f)) /\ PopAbsorb
    <3>1. kept' = kept \cup {Taken.frame}
      BY <2>4 DEF PopAbsorb, Taken
    <3>2. \A f \in kept' : Covered(f)' \/ discarded' > discarded
      BY <2>4, <3>1, <1>order, TakenCovered
    <3>3. discarded' > discarded => outputDropped' + discarded' > 0
      <4>1. discarded' > discarded => discarded' > 0
        BY <1>type, <1>num
      <4> QED
        BY <1>num, <4>1
    <3> QED
      BY <3>2, <3>3
  <2>5. CASE (\A f \in kept : Covered(f)) /\ Finish
    <3>1. kept' = kept /\ Finishes /\ ~Laden
      BY <2>5 DEF Finish, Finishes, file, SameRows, Working, Bearing, Laden
    <3>2. ASSUME NEW f \in kept, IsWritten(f) \/ IsBatched(f) PROVE Covered(f)'
      BY <3>1, <3>2, StoredStays DEF Covered
    <3>3. CASE window.count > 0 /\ Policy = "emit"
      <4>1. out' \in Rows(window, FALSE) /\ Laden'
        BY <2>5, <3>3 DEF Finish, Laden, Bearing
      <4>2. \A f \in Frames(window) : Covered(f)'
        BY <4>1, RowEnds DEF Covered, Frames
      <4> QED
        BY <2>5, <3>1, <3>2, <4>2 DEF Covered
    <3>4. CASE window.count > 0 /\ Policy # "emit"
      <4>1. discarded' = discarded + window.count
        BY <2>5, <3>4, SizesAssumption DEF Finish
      <4> QED
        BY <1>type, <1>num, <3>4, <4>1
    <3>5. CASE ~(window.count > 0)
      BY <2>5, <3>1, <3>2, <3>5 DEF Covered
    <3> QED
      BY <3>3, <3>4, <3>5
  <2>6. CASE /\ \A f \in kept : Covered(f)
             /\ ~(PopAbsorb \/ Finish \/ Failed \/ FinishPaused \/ QuarantineFails)
    <3>1. kept' = kept /\ window' = window
      BY <2>6, AggregatorSame DEF Next, Worker, aggregator
    <3>2. Moves \/ Opens \/ PushesRow \/ Writes \/ Breaks
      BY <2>6, StepKinds DEF GivesUp, Absorbs, Finishes
    <3>3. CASE LowDisk
      <4>1. outputDropped' = outputDropped + 1
        BY <3>3 DEF LowDisk
      <4>2. outputDropped' > 0
        BY <1>type, <4>1
      <4> QED
        BY <1>num, <4>2
    <3>4. CASE ~LowDisk
      <4>1. Laden /\ ~PushesRow => Laden' /\ out' = out
        <5>1. Holds => (Laden => Laden' /\ out' = out)
          BY <1>2, <3>4 DEF Holds
        <5>2. Moves \/ Opens \/ Writes => Holds
          BY DEF Moves, Opens, Writes
        <5>3. Breaks => (Laden => Laden' /\ out' = out)
          BY <1>2 DEF Breaks
        <5> QED
          BY <3>2, <5>1, <5>2, <5>3
      <4>2. PushesRow => (Laden => Bearing)
        BY DEF PushesRow
      <4>3. ASSUME NEW f \in kept PROVE Covered(f)'
        <5>1. CASE IsWritten(f) \/ IsBatched(f) \/ (PushesRow /\ f \in Frames(out))
          BY <3>2, <5>1, StoredStays DEF Covered
        <5>2. CASE Laden /\ f \in Frames(out) /\ ~PushesRow
          BY <4>1, <5>2 DEF Covered, Frames
        <5>3. CASE window.count > 0 /\ f \in Frames(window)
          BY <3>1, <5>3 DEF Covered, Frames
        <5> QED
          BY <2>6, <5>1, <5>2, <5>3 DEF Covered
      <4> QED
        BY <3>1, <4>3
    <3> QED
      BY <3>3, <3>4
  <2> QED
    BY <1>1, <1>2, <2>1, <2>2, <2>3, <2>4, <2>5, <2>6 DEF LossInv
<1> QED
  BY <1>1, <1>2 DEF LossInv

-----------------------------------------------------------------------------
(* The theorems.                                                           *)

LEMMA OrderInit == Init => OrderInv /\ GapInv
<1> SUFFICES ASSUME Init PROVE OrderInv /\ GapInv
  OBVIOUS
<1>1. /\ 1 .. Len(files) = {} /\ 1 .. Len(batch) = {} /\ 1 .. Len(queue) = {}
      /\ kept = {} /\ window.count = 0 /\ ~Bearing /\ ~writer /\ ~finishing /\ wpc = "start"
      /\ batch = <<>>
  BY DEF Init, NoWindow, Bearing
<1>2. OrderInv
  BY <1>1 DEF OrderInv, QueueOrder, FilesOrder, BatchOrder, OutOrder, WindowOrder
<1>3. PlaceInv
  BY <1>1, SizesAssumption DEF PlaceInv, WorkerPlace, FilePlace
<1> QED
  BY <1>1, <1>2, <1>3 DEF GapInv, DiskJoined, BatchJoined, OutJoined, WindowJoined, PrevJoined, HasLast

LEMMA LossInit == Init => CountInv /\ LossInv
<1> SUFFICES ASSUME Init PROVE CountInv /\ LossInv
  OBVIOUS
<1>1. Queued = {}
  BY DEF Init, Queued
<1>2. submitted \ (kept \cup Queued) = {} /\ submitted = {} /\ kept = {} /\ dropped = 0 /\ frame = 1
  BY <1>1 DEF Init
<1>3. CountInv
  BY <1>1, <1>2, FS_EmptySet DEF CountInv, DropsAreCounted
<1> QED
  BY <1>2, <1>3 DEF LossInv, Init

OInv == IInv /\ OrderInv /\ GapInv /\ CountInv /\ LossInv

LEMMA Ordered == Spec => []OInv
<1>1. Init => OInv
  BY TypeInit, ArtifactInit, RowInit, OrderInit, LossInit DEF OInv, IInv
<1>2. OInv /\ [Next]_vars => OInv'
  <2> SUFFICES ASSUME OInv, [Next]_vars PROVE OInv'
    OBVIOUS
  <2>1. TypeInv /\ ArtifactInv /\ RowInv /\ PlaceInv /\ QueueOrder
    BY DEF OInv, IInv, GapInv, OrderInv
  <2>2. IInv'
    BY <2>1, TypeStep, ArtifactStep, RowStep DEF IInv
  <2>3. OrderInv' /\ GapInv'
    BY <2>1, OrderStep, GapStep DEF OInv
  <2>4. CountInv' /\ LossInv'
    BY <2>1, CountStep, LossStep DEF OInv
  <2> QED
    BY <2>2, <2>3, <2>4 DEF OInv
<1> QED
  BY <1>1, <1>2, PTL DEF Spec

\* No frame is ever in two rows on disk, across files, failures and restarts of
\* the worker's file: a row of a later file sums later frames only.
THEOREM FramesOnce == Spec => []FrameOnce
<1>1. OInv => FrameOnce
  <2> SUFFICES ASSUME OInv, NEW i \in 1 .. Len(files), NEW k \in 1 .. Len(files), i < k,
                      NEW j \in DOMAIN files[i].rows, NEW l \in DOMAIN files[k].rows
               PROVE  files[i].rows[j].last < files[k].rows[l].first
    BY DEF FrameOnce, OInv, IInv, TypeInv, FileType
  <2>1. FileType /\ FilesOrder
    BY DEF OInv, IInv, TypeInv, OrderInv
  <2>2. files[i].rows \in Seq(Row) /\ files[k].rows \in Seq(Row)
    BY <2>1, DiskTyped
  <2>3. j \in RowsOfFile(i) /\ l \in RowsOfFile(k)
    BY <2>2 DEF RowsOfFile
  <2> QED
    BY <2>1, <2>3 DEF FilesOrder, DiskRow
<1> QED
  BY <1>1, Ordered, PTL

\* Two rows that follow each other in an artifact never overlap, and the second
\* is flagged DISCONTINUITY wherever frames between them are missing.
THEOREM GapsFlagged == Spec => []GapsAreFlagged
<1>1. OInv => GapsAreFlagged
  <2> SUFFICES ASSUME OInv, NEW i \in 1 .. Len(files), NEW j \in DOMAIN files[i].rows, j > 1
               PROVE  LET r == files[i].rows[j - 1]  s == files[i].rows[j]
                      IN r.last < s.first /\ (s.first = r.last + 1 \/ s.gap)
    BY DEF GapsAreFlagged, OInv, IInv, TypeInv, FileType
  <2>1. FileType /\ FilesOrder /\ DiskJoined
    BY DEF OInv, IInv, TypeInv, OrderInv, GapInv
  <2>2. files[i].rows \in Seq(Row)
    BY <2>1, DiskTyped
  <2>3. j \in RowsOfFile(i) /\ j - 1 \in RowsOfFile(i) /\ j - 1 < j
    BY <2>2 DEF RowsOfFile
  <2>4. DiskRow(i, j - 1).last < DiskRow(i, j).first
    BY <2>1, <2>3 DEF FilesOrder
  <2>5. Joined(DiskRow(i, j - 1), DiskRow(i, j))
    BY <2>1, <2>3 DEF DiskJoined
  <2> QED
    BY <2>4, <2>5 DEF Joined, DiskRow
<1> QED
  BY <1>1, Ordered, PTL

\* Every spectrum that was offered is waiting, was taken or is counted as
\* dropped, and as long as the worker lives every spectrum that it took is in
\* its window or in a row unless a counter says that rows were given up.
THEOREM LossesCounted == Spec => []LossesAreCounted
<1>1. ASSUME OInv PROVE LossesShow
  <2> SUFFICES ASSUME Alive, ~(outputDropped + discarded > 0), NEW f \in kept
               PROVE  f \in Held
    BY DEF LossesShow, Alive
  <2>type. FileType /\ DOMAIN files = 1 .. Len(files) /\ DOMAIN batch = 1 .. Len(batch)
    BY <1>1 DEF OInv, IInv, TypeInv, FileType
  <2>1. Covered(f)
    BY <1>1 DEF OInv, LossInv
  <2>2. f # 0
    BY <1>1 DEF OInv, CountInv
  <2>3. CASE IsWritten(f)
    <3>1. PICK i \in 1 .. Len(files) : \E j \in RowsOfFile(i) : f \in Frames(DiskRow(i, j))
      BY <2>3 DEF IsWritten
    <3>2. PICK j \in RowsOfFile(i) : f \in Frames(DiskRow(i, j))
      BY <3>1
    <3>3. j \in DOMAIN files[i].rows
      BY <2>type, DiskTyped DEF RowsOfFile
    <3>4. files[i].rows[j] \in OnDisk
      BY <2>type, <3>3 DEF OnDisk
    <3> QED
      BY <3>2, <3>4 DEF Held, DiskRow
  <2>4. CASE IsBatched(f)
    BY <2>type, <2>4 DEF IsBatched, Held, InHand
  <2>5. CASE Laden /\ f \in Frames(out)
    <3>1. out # NoRow
      <4>1. Frames(NoRow) \subseteq {0}
        BY DEF Frames, NoRow
      <4> QED
        BY <2>2, <2>5, <4>1
    <3>2. out \in InHand
      BY <3>1 DEF InHand
    <3> QED
      BY <2>5, <3>2 DEF Held
  <2>6. CASE window.count > 0 /\ f \in Frames(window)
    <3>1. f \in IF window.count > 0 THEN Frames(window) ELSE {}
      BY <2>6
    <3> QED
      BY <3>1 DEF Held
  <2> QED
    BY <2>1, <2>3, <2>4, <2>5, <2>6 DEF Covered
<1>2. OInv => DropsAreCounted
  BY DEF OInv, CountInv
<1>3. OInv => LossesAreCounted
  BY <1>1, <1>2 DEF LossesAreCounted
<1> QED
  BY <1>3, Ordered, PTL

=============================================================================
