-------------------------- MODULE StoragePipeline --------------------------
(***************************************************************************)
(* The storage of an observation (src/src/storage): main() offers a        *)
(* spectrum a cycle, try_submit numbers it and pushes it on a bounded      *)
(* queue, the worker thread gathers the spectra of a window into a row and *)
(* writes rows to capped HDF5 files, each reserved in the ledger before it *)
(* is created and READY there only after it has its final name.            *)
(*                                                                         *)
(* A spectrum is its frame number, its segment and its observation day:    *)
(* within a segment sample_start grows with every frame numbered, so the   *)
(* aggregator's test on samples says what its test on frames says.  A row  *)
(* is the frames it sums and its DISCONTINUITY flag.                       *)
(***************************************************************************)
EXTENDS Integers, Sequences, FiniteSets

CONSTANTS QueueCapacity,  \* queue_capacity_records
          Target,         \* target_records_, spectra of a full window
          BatchRows,      \* append_batch_records
          DayLimit,       \* files that the quota of a day has room for
          RetryLimit,     \* io_retry_limit
          ResumeFree,     \* disk level of resume_free_bytes
          Policy,         \* partial_window_policy
          MaxFrame,       \* bound on the frame numbers
          Days,           \* bound on the calendar days
          MaxEvents       \* bound on disk changes, clock steps and faults

ASSUME SizesAssumption ==
  /\ {QueueCapacity, Target, BatchRows, DayLimit, MaxFrame, Days} \subseteq Nat \ {0}
  /\ {RetryLimit, MaxEvents} \subseteq Nat
  /\ ResumeFree \in 1 .. 2
  /\ Policy \in {"emit", "discard"}

VARIABLES
  \* main(): the producer
  frame,      \* telemetry_frame_id
  ppc,        \* where try_submit is
  lastFrame, segment, day,    \* last_frame_, segment_ (0: not anchored), day of the estimate
  stopping,   \* stopping_
  \* shared
  queue,      \* queue_
  state,      \* state_
  dropped,    \* dropped_
  \* the worker
  wpc,        \* where worker() is
  after,      \* where close_file returns to
  finishing,  \* past the loop
  window,     \* pending_ of the aggregator, count 0 when there is none
  prev,       \* previous_frame_ and previous_segment_, 0 before the first
  out,        \* the row passed to accept
  writer, grant, owner,       \* HDF5 file open; reservation held; lock held
  batch,      \* rows not appended yet
  outputDropped, discarded, ioFailures, pausedDay,
  cause,      \* what the exception says
  \* the world
  files,      \* the artifacts: rows on disk, name, ledger state, day
  disk,       \* free space: 0 low, 1 above min_free, 2 room for a file too
  today, events,
  submitted, kept  \* history: frames offered, frames given to the aggregator

producerVars == <<frame, ppc, lastFrame, segment, day, stopping, submitted>>
shared       == <<queue, state, dropped>>
aggregator   == <<window, prev, discarded, kept>>
file         == <<writer, grant, owner, batch, files>>
worker       == <<wpc, after, finishing, out>>
errors       == <<outputDropped, ioFailures, pausedDay, cause>>
world        == <<disk, today, events>>
vars == <<producerVars, shared, aggregator, file, worker, errors, world>>

NoWindow == [first |-> 0, last |-> 0, gap |-> FALSE, day |-> 1, endDay |-> 1, count |-> 0]
NoPrev   == [frame |-> 0, seg |-> 0]
NoRow    == [first |-> 0, last |-> 0, gap |-> FALSE, day |-> 1]

Init ==
  /\ frame = 1 /\ ppc = "idle" /\ lastFrame = 0 /\ segment = 0 /\ day = 1
  /\ stopping = FALSE
  /\ queue = <<>> /\ state = "RUNNING" /\ dropped = 0
  /\ wpc = "start" /\ after = "space" /\ finishing = FALSE
  /\ window = NoWindow /\ prev = NoPrev /\ out = NoRow
  /\ writer = FALSE /\ grant = FALSE /\ owner = FALSE /\ batch = <<>>
  /\ outputDropped = 0 /\ discarded = 0 /\ ioFailures = 0 /\ pausedDay = 0
  /\ cause = "io"
  /\ files = <<>> /\ disk = 2 /\ today = 1 /\ events = 0
  /\ submitted = {} /\ kept = {}

-----------------------------------------------------------------------------
(* The producer: try_submit and stop.                                      *)

\* The worker's state refuses the spectrum.
Refuse ==
  /\ ppc = "idle" /\ ~stopping /\ frame <= MaxFrame
  /\ state # "RUNNING"
  /\ dropped' = dropped + 1
  /\ submitted' = submitted \cup {frame}
  /\ frame' = frame + 1
  /\ UNCHANGED <<ppc, lastFrame, segment, day, stopping, queue, state,
                 aggregator, file, worker, errors, world>>

\* The state is read: the worker may change it before the push.
Admit ==
  /\ ppc = "idle" /\ ~stopping /\ frame <= MaxFrame
  /\ state = "RUNNING"
  /\ ppc' = "push"
  /\ UNCHANGED <<frame, lastFrame, segment, day, stopping, submitted,
                 shared, aggregator, file, worker, errors, world>>

\* A frame number that does not follow the last numbered one starts a segment,
\* anchored at the system clock; within one, time is counted in samples.
NewSegment == segment = 0 \/ frame # lastFrame + 1
SegmentOf == IF NewSegment THEN segment + 1 ELSE segment
EstimatedDays == IF NewSegment THEN {today} ELSE {d \in {day, day + 1} : d <= Days}

TryPush(r) ==
  IF Len(queue) < QueueCapacity
  THEN queue' = Append(queue, r) /\ UNCHANGED dropped
  ELSE dropped' = dropped + 1 /\ UNCHANGED queue

Push ==
  /\ ppc = "push"
  /\ \E d \in EstimatedDays :
       /\ TryPush([frame |-> frame, seg |-> SegmentOf, day |-> d])
       /\ day' = d
  /\ segment' = SegmentOf /\ lastFrame' = frame
  /\ submitted' = submitted \cup {frame}
  /\ frame' = frame + 1 /\ ppc' = "idle"
  /\ UNCHANGED <<stopping, state, aggregator, file, worker, errors, world>>

\* The recovery of main() leaves a number out.
SkipFrame ==
  /\ ppc = "idle" /\ ~stopping /\ frame < MaxFrame
  /\ frame' = frame + 1
  /\ UNCHANGED <<ppc, lastFrame, segment, day, stopping, submitted,
                 shared, aggregator, file, worker, errors, world>>

Stop ==
  /\ ppc = "idle" /\ ~stopping
  /\ stopping' = TRUE
  /\ UNCHANGED <<frame, ppc, lastFrame, segment, day, submitted,
                 shared, aggregator, file, worker, errors, world>>

-----------------------------------------------------------------------------
(* The worker: faults, and where they lead.                                *)

\* A fault the environment still has in hand.
Fault == events < MaxEvents /\ events' = events + 1 /\ UNCHANGED <<disk, today>>

\* An exception: caught in the loop by failed(), after the loop by the last
\* handler of the thread.
Thrown == IF finishing THEN "dying" ELSE "failed"
Throw(c) == wpc' = Thrown /\ cause' = c
NoThrow == UNCHANGED <<cause, world>>

\* accept returns.
Accepted == out' = NoRow /\ wpc' = IF finishing THEN "close" ELSE "flush"
Returned == after' = IF finishing THEN "exit" ELSE after

Current == Len(files)
Stored(rows) == files' = [files EXCEPT ![Current].rows = @ \o rows]
Named(x) == files' = [files EXCEPT ![Current].name = x]
Decided(x) == files' = [files EXCEPT ![Current].ledger = x]

\* Mutant: the rows appended stay in the batch.
AppendedTwice == /\ Stored(batch) /\ UNCHANGED batch
Appended == /\ Stored(batch) /\ batch' = <<>>

\* An append that throws may have written the first rows of the batch.
AppendFails ==
  /\ \E n \in 0 .. Len(batch) : Stored(SubSeq(batch, 1, n))
  /\ Fault /\ Throw("io")
  /\ UNCHANGED batch

-----------------------------------------------------------------------------
(* The worker: start and loop.                                             *)

consumer == <<queue, dropped, aggregator>>

\* The ledger is opened.
Start ==
  /\ wpc = "start"
  /\ \/ wpc' = "loop" /\ NoThrow
     \/ wpc' = "dying" /\ Fault /\ UNCHANGED cause
  /\ UNCHANGED <<producerVars, shared, aggregator, file, after, finishing, out,
                 outputDropped, ioFailures, pausedDay>>

\* The deadline of the drain has passed.
Abandon ==
  /\ wpc = "loop" /\ stopping
  /\ queue' = <<>> /\ dropped' = dropped + Len(queue)
  /\ wpc' = "finish"
  /\ UNCHANGED <<producerVars, state, aggregator, file, after, finishing, out, errors, world>>

Resumable ==
  \/ state = "PAUSED_DISK" /\ disk >= ResumeFree
  \/ state = "PAUSED_QUOTA" /\ today # pausedDay
  \/ state = "ERROR" /\ ioFailures <= RetryLimit

\* A retry waits for the back-off, which is not modelled: a worker that goes
\* round the loop in ERROR only drops what it pops.
Resume ==
  /\ wpc = "loop"
  /\ \/ /\ Resumable /\ state' = "RUNNING"
        /\ wpc' = "pop" /\ NoThrow
     \/ /\ ~Resumable \/ state = "ERROR"
        /\ wpc' = "pop" /\ NoThrow /\ UNCHANGED state
     \/ /\ state = "PAUSED_DISK" /\ Fault      \* statvfs fails
        /\ wpc' = "dying" /\ UNCHANGED <<state, cause>>
  /\ UNCHANGED <<producerVars, consumer, file, after, finishing, out,
                 outputDropped, ioFailures, pausedDay>>

\* Nothing to pop: the producer may push and stop before stopping_ is read.
Empty ==
  /\ wpc = "pop" /\ queue = <<>>
  /\ wpc' = "idle"
  /\ UNCHANGED <<producerVars, shared, aggregator, file, after, finishing, out, errors, world>>

\* Mutant: stopping_ is only looked at when there is something to pop.
IdleForever ==
  /\ wpc = "idle"
  /\ wpc' = "flush"
  /\ UNCHANGED <<producerVars, shared, aggregator, file, after, finishing, out, errors, world>>

Idle ==
  /\ wpc = "idle"
  /\ wpc' = IF stopping THEN "finish" ELSE "flush"
  /\ UNCHANGED <<producerVars, shared, aggregator, file, after, finishing, out, errors, world>>

PopRefused ==
  /\ wpc = "pop" /\ queue # <<>> /\ state # "RUNNING"
  /\ queue' = Tail(queue) /\ dropped' = dropped + 1
  /\ wpc' = "loop"
  /\ UNCHANGED <<producerVars, state, aggregator, file, after, finishing, out, errors, world>>

-----------------------------------------------------------------------------
(* The aggregator.                                                         *)

\* Mutant: only a new segment is a gap.
GapBySegment(r) == prev.seg # 0 /\ r.seg # prev.seg

Gap(r) == prev.seg # 0 /\ (r.seg # prev.seg \/ r.frame # prev.frame + 1)

\* Mutant: the window that follows a gap does not say so.
ExtendedUnmarked(r) ==
  IF window.count = 0 \/ Gap(r)
  THEN [first |-> r.frame, last |-> r.frame, gap |-> FALSE,
        day |-> r.day, endDay |-> r.day, count |-> 1]
  ELSE [window EXCEPT !.last = r.frame, !.endDay = r.day, !.count = @ + 1]

Extended(r) ==
  IF window.count = 0 \/ Gap(r)
  THEN [first |-> r.frame, last |-> r.frame, gap |-> Gap(r),
        day |-> r.day, endDay |-> r.day, count |-> 1]
  ELSE [window EXCEPT !.last = r.frame, !.endDay = r.day, !.count = @ + 1]

\* The row of a window is of the day of its midpoint.
Rows(w, gap) ==
  {[first |-> w.first, last |-> w.last, gap |-> w.gap \/ gap, day |-> d] :
     d \in {w.day, w.endDay}}

\* A push emits one row at most: a window that a gap cuts is not a full one,
\* and the spectrum that cuts it is then alone in its window.
PopAbsorb ==
  /\ wpc = "pop" /\ queue # <<>> /\ state = "RUNNING"
  /\ queue' = Tail(queue) /\ kept' = kept \cup {Head(queue).frame}
  /\ LET r    == Head(queue)
         cut  == window.count > 0 /\ Gap(r)
         full == Extended(r).count >= Target
     IN /\ prev' = [frame |-> r.frame, seg |-> r.seg]
        /\ window' = IF full THEN NoWindow ELSE Extended(r)
        /\ discarded' = discarded + IF cut /\ Policy = "discard" THEN window.count ELSE 0
        /\ IF cut /\ Policy = "emit" THEN out' \in Rows(window, TRUE) /\ wpc' = "accept"
           ELSE IF full THEN out' \in Rows(Extended(r), FALSE) /\ wpc' = "accept"
           ELSE out' = out /\ wpc' = "flush"
  /\ UNCHANGED <<producerVars, state, dropped, file, after, finishing, errors, world>>

-----------------------------------------------------------------------------
(* accept: a row on its way to a file.                                     *)

idle == <<producerVars, queue, dropped, aggregator, finishing>>

\* A file ends with its day, or when it is long enough.
Roll ==
  /\ wpc = "accept" /\ writer
  /\ wpc' = "close" /\ after' = "space"
  /\ UNCHANGED <<idle, state, file, out, errors, world>>

Keep ==
  /\ wpc = "accept" /\ (writer => out.day = files[Current].day)
  /\ wpc' = "space"
  /\ UNCHANGED <<idle, state, file, after, out, errors, world>>

Space ==
  /\ wpc = "space"
  /\ \/ /\ disk = 0
        /\ wpc' = "close" /\ after' = "lowdisk" /\ NoThrow
     \/ /\ disk > 0 /\ writer
        /\ wpc' = "write" /\ UNCHANGED after /\ NoThrow
     \/ /\ disk = 1 /\ ~writer
        /\ wpc' = "lowdisk" /\ UNCHANGED after /\ NoThrow
     \/ /\ disk = 2 /\ ~writer
        /\ wpc' = "open" /\ UNCHANGED after /\ NoThrow
     \/ Fault /\ Throw("io") /\ UNCHANGED after
  /\ UNCHANGED <<idle, state, file, out, outputDropped, ioFailures, pausedDay>>

\* Mutant: the row is dropped without a count.
LowDiskUncounted ==
  /\ wpc = "lowdisk"
  /\ state' = "PAUSED_DISK"
  /\ Accepted /\ Returned
  /\ UNCHANGED <<idle, file, errors, world>>

LowDisk ==
  /\ wpc = "lowdisk"
  /\ state' = "PAUSED_DISK" /\ outputDropped' = outputDropped + 1
  /\ Accepted /\ Returned
  /\ UNCHANGED <<idle, file, ioFailures, pausedDay, cause, world>>

LockArtifact ==
  /\ wpc = "open"
  /\ \/ owner' = TRUE /\ wpc' = "reserve" /\ NoThrow
     \/ Fault /\ Throw("io") /\ UNCHANGED owner
  /\ UNCHANGED <<idle, state, writer, grant, batch, files, after, out,
                 outputDropped, ioFailures, pausedDay>>

\* The quota table has a row for a day when a file was reserved on it.
Reserved(d) == Cardinality({i \in DOMAIN files : files[i].day = d})
HasRoom(d) ==
  /\ Reserved(d) < DayLimit
  /\ Reserved(d) = 0 => \A i \in DOMAIN files : files[i].day <= d

Reserve ==
  /\ wpc = "reserve"
  /\ \/ /\ HasRoom(out.day)
        /\ files' = Append(files, [rows |-> <<>>, name |-> "none",
                                   ledger |-> "WRITING", day |-> out.day])
        /\ grant' = TRUE /\ wpc' = "create" /\ NoThrow
     \/ /\ ~HasRoom(out.day)
        /\ Throw("quota") /\ UNCHANGED <<files, grant, world>>
     \/ Fault /\ Throw("io") /\ UNCHANGED <<files, grant>>
  /\ UNCHANGED <<idle, state, writer, owner, batch, after, out,
                 outputDropped, ioFailures, pausedDay>>

Create ==
  /\ wpc = "create"
  /\ \/ /\ writer' = TRUE /\ wpc' = "write" /\ NoThrow
        /\ Named("tmp")
     \/ /\ Fault /\ Throw("io") /\ UNCHANGED writer
        /\ \/ UNCHANGED files
           \/ Named("tmp")
  /\ UNCHANGED <<idle, state, grant, owner, batch, after, out,
                 outputDropped, ioFailures, pausedDay>>

PushRow ==
  /\ wpc = "write"
  /\ batch' = Append(batch, out)
  /\ IF Len(batch) + 1 < BatchRows
     THEN /\ Accepted /\ Returned
     ELSE wpc' = "append" /\ out' = NoRow /\ UNCHANGED after
  /\ UNCHANGED <<idle, state, writer, grant, owner, files, errors, world>>

AppendBatch ==
  /\ wpc = "append"
  /\ \/ Appended /\ Accepted /\ Returned /\ NoThrow
     \/ AppendFails /\ UNCHANGED <<after, out>>
  /\ UNCHANGED <<idle, state, writer, grant, owner, outputDropped, ioFailures, pausedDay>>

\* The periodic flush, when it is due.
Flush ==
  /\ wpc = "flush"
  /\ \/ wpc' = "status" /\ NoThrow /\ UNCHANGED <<batch, files>>
     \/ writer /\ Appended /\ wpc' = "status" /\ NoThrow
     \/ writer /\ AppendFails
  /\ UNCHANGED <<idle, state, writer, grant, owner, after, out,
                 outputDropped, ioFailures, pausedDay>>

\* The status file is outside of the handler of the loop.
Status ==
  /\ wpc = "status"
  /\ \/ wpc' = "loop" /\ NoThrow
     \/ wpc' = "dying" /\ Fault /\ UNCHANGED cause
  /\ UNCHANGED <<idle, state, file, after, out, outputDropped, ioFailures, pausedDay>>

-----------------------------------------------------------------------------
(* close_file, failed() and the end of the thread.                         *)

\* Mutant: the file keeps its temporary name.
CloseUnpublished ==
  /\ wpc = "close"
  /\ \/ /\ ~writer /\ wpc' = after /\ NoThrow /\ UNCHANGED <<writer, batch, files>>
     \/ /\ writer /\ Appended /\ writer' = FALSE /\ wpc' = "ready" /\ NoThrow
  /\ UNCHANGED <<idle, state, grant, owner, after, out, outputDropped, ioFailures, pausedDay>>

\* Rows still in the batch are appended, the file is closed.
Close ==
  /\ wpc = "close"
  /\ \/ /\ ~writer /\ wpc' = after /\ NoThrow /\ UNCHANGED <<writer, batch, files>>
     \/ /\ writer /\ Appended /\ writer' = FALSE /\ wpc' = "publish" /\ NoThrow
     \/ /\ writer /\ AppendFails /\ UNCHANGED writer
  /\ UNCHANGED <<idle, state, grant, owner, after, out, outputDropped, ioFailures, pausedDay>>

\* The rename, then the fsync of the directory.
Publish ==
  /\ wpc = "publish"
  /\ \/ Named("final") /\ wpc' = "ready" /\ NoThrow
     \/ Fault /\ Throw("io") /\ (Named("final") \/ UNCHANGED files)
  /\ UNCHANGED <<idle, state, writer, grant, owner, batch, after, out,
                 outputDropped, ioFailures, pausedDay>>

Ready ==
  /\ wpc = "ready"
  /\ \/ /\ Decided("READY")
        /\ grant' = FALSE /\ owner' = FALSE /\ wpc' = after /\ NoThrow
     \/ Fault /\ Throw("io") /\ UNCHANGED <<files, grant, owner>>
  /\ UNCHANGED <<idle, state, writer, batch, after, out,
                 outputDropped, ioFailures, pausedDay>>

\* quarantine: the writer is dropped, its rows are lost, the artifact is
\* withdrawn before its lock is released.
Quarantined ==
  /\ writer' = FALSE /\ batch' = <<>>
  /\ IF grant THEN Decided("QUARANTINED") ELSE UNCHANGED files
  /\ grant' = FALSE /\ owner' = FALSE

\* failed(): the row in hand, the window and the file are given up.
Failed ==
  /\ wpc = "failed"
  /\ Quarantined
  /\ window' = NoWindow /\ prev' = NoPrev /\ discarded' = 0
  /\ outputDropped' = outputDropped + 1
  /\ out' = NoRow
  /\ IF cause = "quota"
     THEN state' = "PAUSED_QUOTA" /\ pausedDay' = today /\ UNCHANGED ioFailures
     ELSE state' = "ERROR" /\ ioFailures' = ioFailures + 1 /\ UNCHANGED pausedDay
  /\ wpc' = "flush"
  /\ UNCHANGED <<producerVars, queue, dropped, kept, after, finishing, cause, world>>

\* The ledger refuses the quarantine: the exception leaves the loop.
QuarantineFails ==
  /\ \/ wpc = "failed"
     \/ wpc = "finish" /\ state # "RUNNING"
  /\ grant /\ Fault
  /\ writer' = FALSE /\ batch' = <<>> /\ wpc' = "dying"
  /\ UNCHANGED <<producerVars, shared, aggregator, files, grant, owner, after,
                 finishing, out, outputDropped, ioFailures, pausedDay, cause>>

\* The loop is left: the last window becomes a row, the file is closed.
Finish ==
  /\ wpc = "finish" /\ state = "RUNNING"
  /\ finishing' = TRUE /\ after' = "exit"
  /\ window' = NoWindow
  /\ IF window.count > 0 /\ Policy = "emit"
     THEN out' \in Rows(window, FALSE) /\ wpc' = "accept"
     ELSE UNCHANGED out /\ wpc' = "close"
  /\ discarded' = discarded + IF Policy = "discard" THEN window.count ELSE 0
  /\ UNCHANGED <<producerVars, shared, prev, kept, file, errors, world>>

FinishPaused ==
  /\ wpc = "finish" /\ state # "RUNNING"
  /\ Quarantined
  /\ finishing' = TRUE /\ wpc' = "exit"
  /\ UNCHANGED <<producerVars, shared, aggregator, after, out, errors, world>>

Exit ==
  /\ wpc = "exit"
  /\ \/ state' = "STOPPING" /\ wpc' = "done" /\ NoThrow
     \/ state' = "STOPPING" /\ wpc' = "dying" /\ Fault /\ UNCHANGED cause
  /\ UNCHANGED <<idle, file, after, out, outputDropped, ioFailures, pausedDay>>

\* The last handler: a reservation still held is left to the recovery.
Dying ==
  /\ wpc = "dying"
  /\ state' = "ERROR" /\ writer' = FALSE /\ owner' = FALSE
  /\ wpc' = "dead"
  /\ UNCHANGED <<idle, grant, batch, files, after, out, errors, world>>

Worker ==
  \/ Start \/ Abandon \/ Resume \/ Empty \/ Idle \/ PopRefused \/ PopAbsorb
  \/ Roll \/ Keep \/ Space \/ LowDisk \/ LockArtifact \/ Reserve \/ Create
  \/ PushRow \/ AppendBatch \/ Flush \/ Status \/ Close \/ Publish \/ Ready
  \/ Failed \/ QuarantineFails \/ Finish \/ FinishPaused \/ Exit \/ Dying

-----------------------------------------------------------------------------
(* The world, and the whole.                                               *)

DiskChanges ==
  /\ events < MaxEvents /\ events' = events + 1
  /\ disk' \in (0 .. 2) \ {disk}
  /\ UNCHANGED <<producerVars, shared, aggregator, file, worker, errors, today>>

\* Midnight, or a clock that is set.
ClockSteps ==
  /\ events < MaxEvents /\ events' = events + 1
  /\ today' \in (1 .. Days) \ {today}
  /\ UNCHANGED <<producerVars, shared, aggregator, file, worker, errors, disk>>

Ended == wpc \in {"done", "dead"} /\ (stopping \/ frame > MaxFrame) /\ UNCHANGED vars

Next == Refuse \/ Admit \/ Push \/ SkipFrame \/ Stop \/ Worker
        \/ DiskChanges \/ ClockSteps \/ Ended

Spec == Init /\ [][Next]_vars

\* The worker runs, its waits time out, and nothing it calls hangs; the drain
\* deadline, the faults and the world are free.
FairSpec == Spec /\ WF_vars(Worker)

-----------------------------------------------------------------------------
(* Properties.                                                             *)

Record == [frame : Nat, seg : Nat, day : Nat]
Row == [first : Nat, last : Nat, gap : BOOLEAN, day : Nat]
Artifact == [rows : Seq(Row), name : {"none", "tmp", "final"},
             ledger : {"WRITING", "READY", "QUARANTINED"}, day : Nat]
Places == {"start", "loop", "pop", "idle", "accept", "space", "lowdisk", "open",
           "reserve", "create", "write", "append", "flush", "status", "close",
           "publish", "ready", "failed", "finish", "exit", "dying", "dead", "done"}
States == {"RUNNING", "PAUSED_QUOTA", "PAUSED_DISK", "STOPPING", "ERROR"}

\* Every variable keeps its type.
TypeOK ==
  /\ {frame, lastFrame, segment, day, dropped, outputDropped, discarded,
      ioFailures, pausedDay, today, events} \subseteq Nat
  /\ ppc \in {"idle", "push"} /\ stopping \in BOOLEAN
  /\ queue \in Seq(Record) /\ state \in States
  /\ wpc \in Places /\ after \in {"space", "lowdisk", "exit"} /\ finishing \in BOOLEAN
  /\ window \in [first : Nat, last : Nat, gap : BOOLEAN, day : Nat, endDay : Nat, count : Nat]
  /\ prev \in [frame : Nat, seg : Nat]
  /\ out \in Row /\ batch \in Seq(Row) /\ files \in Seq(Artifact)
  /\ {writer, grant, owner} \subseteq BOOLEAN
  /\ cause \in {"io", "quota"} /\ disk \in 0 .. 2
  /\ submitted \subseteq Nat /\ kept \subseteq Nat

\* The rows on their way to the current file and those of all files, as the
\* frames they sum.
InHand == {batch[i] : i \in DOMAIN batch} \cup ({out} \ {NoRow})
OnDisk == UNION {{files[i].rows[j] : j \in DOMAIN files[i].rows} : i \in DOMAIN files}
Frames(r) == r.first .. r.last

\* A row sums every frame from its first to its last, and each was given to
\* the aggregator: what was refused, dropped from a full queue or popped in a
\* pause is never inside a row (Aggregator::push, and try_submit's numbering).
RowsAreWhole == \A r \in InHand \cup OnDisk : Frames(r) \subseteq kept

\* In an artifact rows follow each other without overlap, and where frames are
\* missing between two of them the later one is flagged DISCONTINUITY.
GapsAreFlagged ==
  \A i \in DOMAIN files : \A j \in DOMAIN files[i].rows :
    j > 1 => LET r == files[i].rows[j - 1]  s == files[i].rows[j]
             IN r.last < s.first /\ (s.first = r.last + 1 \/ s.gap)

\* No frame is in two rows that survive: not across files, however the worker
\* failed, rolled and started again.
FrameOnce ==
  \A i, k \in DOMAIN files : i < k =>
    \A j \in DOMAIN files[i].rows, l \in DOMAIN files[k].rows :
      files[i].rows[j].last < files[k].rows[l].first

\* An artifact that is being written, or not yet decided, is locked as long as
\* the worker lives: the maintenance, which recovers what is WRITING and not
\* locked, keeps its hands off it.
LockedWhileWriting ==
  /\ wpc # "dead" => \A i \in DOMAIN files : files[i].ledger = "WRITING" => owner /\ i = Current
  /\ writer => owner

\* READY in the ledger is final on disk, and nothing of it is still in memory.
ReadyIsPublished ==
  \A i \in DOMAIN files : files[i].ledger = "READY" =>
    files[i].name = "final" /\ (i = Current => ~writer /\ ~grant)

\* dropped_ is the number of spectra offered and neither queued nor given to
\* the aggregator: refused by state, by a full queue, or popped in a pause.
Queued == {queue[i].frame : i \in DOMAIN queue}
DropsAreCounted == dropped = Cardinality(submitted \ (kept \cup Queued))

\* What the aggregator was given is in its window, in a row, or some counter
\* says that rows were given up; only the death of the thread hides a loss.
Held ==
  Queued \cup (UNION {Frames(r) : r \in InHand \cup OnDisk})
         \cup (IF window.count > 0 THEN Frames(window) ELSE {})
LossesShow ==
  wpc \notin {"dying", "dead"} => kept \subseteq Held \/ outputDropped + discarded > 0

\* Every spectrum that was offered is in the queue, was given to the
\* aggregator, or is counted as dropped; and what the aggregator was given is
\* in its window, in a row, or a counter says that rows were given up
\* (try_submit(), worker() and failed()).
LossesAreCounted == DropsAreCounted /\ LossesShow

\* An artifact that is READY never changes again.
ReadyIsImmutable ==
  [][\A i \in DOMAIN files : files[i].ledger = "READY" => files'[i] = files[i]]_vars

\* stop() returns: the worker ends, whatever fails on the way.
StopReturns == stopping ~> wpc \in {"done", "dead"}

\* A pause ends when its reason does.
PausesEnd ==
  /\ state = "PAUSED_DISK" ~> (state # "PAUSED_DISK" \/ disk < ResumeFree)
  /\ state = "PAUSED_QUOTA" ~> (state # "PAUSED_QUOTA" \/ today = pausedDay)
=============================================================================
