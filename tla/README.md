# Verification of the solar correlator

TLA+ specifications of the solar radio interferometer in `src/`, the TLC runs
that check them on small instances, and TLAPS proofs of the properties that
matter most. Module, action and variable names follow the source where TLA+
allows it; `PROJECT.json` maps every definition that models code to its lines.

## 1. The system

Two SDR receivers on a Raspberry Pi stream 10 MSPS each. One **producer
process** per receiver (forked by `src/src/main.cpp`) pushes the receiver's
callbacks into a **shared-memory ring**; the **correlator process** aligns the two
streams against a common noise source, switches the RF front end to the sky and
correlates paired hops for ever. Every integration goes out as **UDP telemetry**
and into the **storage pipeline**, which aggregates it into HDF5 windows. A
**maintenance** process (Python, over an SQLite ledger) validates, copies,
verifies and deletes those artifacts; **viewers** (Python) reassemble the telemetry
and browse the archive.

| Component | State it keeps | Operations | Interacts with |
|---|---|---|---|
| Shared-memory ring, `ring_buffer.hpp` | head, tail, overflow count, slots, ready and start flags, header | create, attach, write, read, peek, skip, flush | producer and correlator process |
| Stream producer, `main.cpp` 449-593 | ready flag, running flag, expected sample number | receiver callback, run loop, exit | ring, SDR API |
| Startup alignment, `startup_alignment.hpp`, `time_alignment.cpp` | relative offset of the two tails | acquire: flush, measure, skip, confirm | both rings |
| Correlator, `correlator.cpp` | overlap half, primed, drop baselines | prime, integration cycle | both rings |
| Supervisor, `main.cpp` | system state, children, GPIO levels, lock | start-up sequence, running loop, recovery, shutdown | everything |
| Telemetry sender, `telemetry_sender.hpp` | session, sequence | send spectrum in 8 chunks | viewers, over UDP |
| Storage pipeline, `storage/` | SPSC record queue, segment anchor, writer state, aggregator window, open file | try_submit; worker loop, roll, publish, quarantine, drain | correlator thread, ledger, disk |
| Artifact ledger, `storage_budget.cpp`, `ledger.py`, SQL schema | artifact rows, quota days, jobs, audit | reserve, ready, quarantine, prepare png, jobs | writer, maintenance, quick-look |
| Maintenance, `storage_maintenance.py`, `ownership.py`, `transfer.py` | file locks, clock marker, probe artifacts | startup, recover, cleanup, sync | ledger, archive, remote |
| Quick-look, `generate_quicklook.py` | PNG reservation, temporary file | generate | ledger, parent artifact |
| Automatic maintenance, `storage_config.cpp`, `storage_auto.py` | process group, child | start, check, stop, serve | supervisor, maintenance |
| Telemetry receiver, `telemetry_protocol.py` | pending, completed and retired frames, the queue, joiner entries | feed, expire, drain, close; add, poll | viewers |
| Live model and waterfalls, `science_model.py`, `viewer_fx.py` | bounded history, trace, deep groups, coordinates, pause, drift points | frames, ticks, drag, pause, measure | joiner, GUI |
| Selected bin, `viewer_fx.py` | spin box, marker, curves, snapshot, readout | edits, keys, clicks, drags, hover | live model |
| Rolling median, `rolling_controls.py`, `rolling_median.py`, `rolling_background.py` | settings, worker, tokens, cached residuals, sorted window | request, cancel, accept, render | live model, archive |
| Colour scales, `viewer_fx.py`, `rolling_controls.py`, `viewer_h5.py` | scales drawn and remembered per kind of display, link, settings | set, link, enter and leave modes, save | all of the viewer |
| H5 source, `viewer_h5.py` | catalog, data, view, spectrum, worker, flags of what waits, view cache | index, load, spectrum, refine, cancel, measure | archive reader, GUI |
| Archive reader, `offline_h5.py` | catalog of records, cache of blocks | scan, load, record, part | HDF5 files |
| Display cache, `h5_cache.py`, `rolling_background.py` | a directory shared by viewers | read, write, evict, clean | H5 source |
| Simple viewers, `viewer.py`, `viewer_dual.py` | rings of rows, frames that wait for a partner | batch, pair, commit, reset | receivers |

### What makes each part correct

* **Ring**: it is a bounded queue; no slot is read while it is written; stale counters are safe.
* **Producer, alignment, correlator**: the two tails stay at one instant from the
  lock on; no sample from behind a loss is ever used; nothing received before the
  antenna switch settled is observed; a discarded integration shows as a missing number.
* **Supervisor**: one instance; the antenna switch ends in its safe position on every
  way out; every child is reaped; a fault stops, or recovers a bounded number of times.
* **Telemetry**: a frame that is delivered holds the chunks of one frame of one
  session, at most once; joined streams belong to one observation.
* **Storage pipeline**: rows sum contiguous records; gaps are flagged; no record is
  in two rows; what is lost is counted; what is READY is final.
* **Ledger, maintenance, quick-look**: an artifact only moves forward; nothing
  that is being written or read is deleted; what is DELETED or replaced is never
  published again; the quota of a day is never exceeded nor refunded.
* **Automatic maintenance**: no process of its group outlives the supervisor's stop.
* **Viewers**: a result is shown only for the request that is still current; what
  is drawn, read under the pointer or measured is of one record, one bin and one
  scale; a gap stays a gap.
* **Rolling median**: the incremental window equals the window of its definition.
* **Archive reader**: a catalog is a function of the set of files; a tile is the mean of its records.
* **Display cache**: a file under a key is whole, and the budget is kept.

### What is hard about it

* **Two processes share the ring without locks.** Each side decides on a counter
  that the other has moved since, and the counters wrap.
* **Two rings must advance together.** Nothing ties their tails but the order of the
  correlator's own calls; any lost sample destroys the phase calibration, so
  the program must notice every loss and fail closed.
* **Processes die.** A producer is killed in the middle of a chunk, the correlator
  is stopped during start-up, the writer crashes between a file and its ledger row.
* **The storage worker is slower than the producer.** A full queue drops records,
  and a dropped record must become a gap, never a shifted time axis.
* **Four kinds of process touch one archive**: the writer, the quick-look, cleanup
  and synchronisation, with advisory locks on files that are themselves deleted.
* **UDP loses, repeats and reorders**; a viewer must never join the chunks of two frames.
* **The viewers read in threads.** An answer comes when the question no longer
  holds; what was asked meanwhile is kept in flags that are served one at a time.
* **Clocks step**, and the cleanup deletes by them.
* **Start-up and shutdown** pass through a dozen steps, any of which may throw, and
  the antenna switch must end in its safe position.

## 2. Plan

| # | Modules | Composes | Abstract specification | Theorems | Status |
|---|---|---|---|---|---|
| 1 | `RingBuffer` | | `BoundedFifo` | type, ownership, staleness, race freedom, refinement | proved |
| 2 | `PairedStreams` (callback, alignment, switch, correlator, recovery) | two rings, as the queues that `RingBuffer` implements | | type, pairing, no loss behind, no transient, visible gap | proved |
| 3 | `StoragePipeline` (`try_submit`, queue, aggregator, worker, files) | queue and aggregator | | type, whole rows, order of the frames, flagged gaps, counted losses, locks, publication, immutability | proved |
| 4 | `ArtifactLifecycle` (ledger, recover, cleanup, sync, quick-look, locks, crashes) | four processes, locks, ledger | | type and locks, live owner, image charged once, true ledger, kept until uploaded, gone for ever | proved |
| 5 | `StorageOwner`, `StartupProbe`, `CleanupClock`, `AutoMaintenance`, `Maintenance` (the starts, the clock and the workers of maintenance) | `Maintenance` over the four | | quota never resets, remote recorded, young kept, workers alone | proved |
| 6 | `Supervisor` (children, outputs, lock, names of the shared memory, start, stop) | | | clean end, own memory | proved |
| 7 | `Reassembly`, `FrameJoin`, `Telemetry` (sender, lossy channel, reassembler, joiner) | `Telemetry` over both: the joiner takes what the reassembler leaves | | types, unmixed frames, none twice, counted losses; emitted in order, nothing forgotten | proved |
| 8 | `LiveHistory`, `RollingView`, `SelectedBin`, `Scales`, `LiveViewer` (the live viewer) | `RollingView` extends, `SelectedBin` instantiates `LiveHistory`; `LiveViewer` over the four | residuals from nothing | true history, still display, kinds kept apart, visits without a trace | checked; history, stillness and `Scales` proved |
| 9 | `CatalogScan`, `ArchiveLoad`, `RollingTiles`, `H5Source`, `DisplayCache` (the H5 viewer) | `RollingTiles` extends `ArchiveLoad` | reference tiles and medians | of `CatalogScan`: a catalog is of the set of files; of `DisplayCache`: results whole, budget kept | checked; `CatalogScan` and `DisplayCache` proved |
| 10 | `Waterfall`, `SingleView`, `DualView` (the simple viewers) | both over `Waterfall`; `Telemetry` extends them | rows by frame number | the rows of a waterfall are the frames by number, no row mixes two cycles | proved |

The order follows what a failure would cost: corrupted samples first, then a silently
wrong phase, then lost or duplicated archive data, then availability, then what a viewer
shows. Models with RECURSIVE operators (`ArchiveLoad`, `RollingTiles`) stay with TLC.
What the others of 8 and 9 show is a function of bounded sequences, which small instances
exercise well.

## 3. Modules

### RingBuffer and BoundedFifo

`RingBuffer` models `SharedMemoryRingBuffer` one shared-memory access per step.
`WriteLoad` is the producer's load of the tail with the tests on it, `WriteSample` the
store of one sample, `WriteCommit` the release store of the head, `WriteRefuse` the
increment of the overflow count; `ReadLoad`, `PeekLoad`, `SkipLoad` and `FlushLoad` load
the head, `CopySample` copies one sample, and the commits publish the tail.
`ProducerDies` kills the producer between any two of its steps. Acquire and release are
modelled as interleaving: a stale value is one that was loaded earlier, which the
separate load steps already allow.

`BoundedFifo` is what the ring promises: a bounded queue that takes a chunk whole or
refuses it whole. `ImplementsFifo` maps it onto the slots between the tail and the head;
a chunk enters when the head is published, a refusal takes effect when the tail was
loaded.

### PairedStreams

The rings are here the queues that `RingBuffer` is proved to implement, reduced to what
alignment depends on: `fill[p]`, the samples a ring holds, and `offset`, the time of the
next sample of channel 2 minus that of channel 1.

| Model | Code |
|---|---|
| `cb[p]`: streaming, lossy, unready, exited | the producer before a fault, inside `fail()`, with its ready flag cleared, and past its run loop |
| `gap[p]` | the next `firstSampleNum` or `reset` will not match |
| `pc`, `state`, `options`, `exit` | the place of `main()` after the fork, `SystemState`, the command line, `exit_code` |
| `attempt`, `good` | the loops of `StartupAlignment::acquire` |
| `boundary` | the watermark of the source switch |
| `primed`, `primeDrops`, `frame`, `cycleOk` | `primed_`, `drops1_`/`drops2_` and the loop of the integration in `correlator.cpp` |
| `lost`, `broken`, `transient`, `idGap`, `flushed` | history: a channel has lost samples; a ring holds samples from behind a loss; samples from before the switch settled; distance of the frame number to the last published one; flushed since that one |

*Atomicity.* Ready flags, dead children and overflow counts only ever turn bad while the
acquisition lasts, and what a ring holds only grows between two calls of its consumer.
Several tests of them in a row are one step, because each outcome of the separate tests
is an outcome of one of them at some moment. A paired read or skip waits for both rings
first, so it is one step (`Advance`). Flushing two rings is two steps, and so is reading
the two watermarks.

*The measurement.* The correlation peak is floating point. What `acquire` sees of it is
a lag that is weak or invalid (`MeasuredWeak`); the true offset; the true offset a whole
snapshot away, because the correlation is circular; or a confident lie. `LiesAssumption`
allows fewer lies than there are confirmations: this is the reason for the
confirmations, and the mutant `VerifyOneLess` shows that with one fewer the lock is
wrong. The sign convention of the lag is the one that `time_alignment.cpp` documents.
DSP failures are a fault of the cycle.

*Faults*, chosen per run by the constant `Faults`: `slow` lets a deadline pass although
the receiver streams; `usb` loses samples or resets; `crash` kills a child; `dsp` and
`gpio` make those calls throw.

### StoragePipeline

| Model | Code |
|---|---|
| `frame`, `ppc`, `lastFrame`, `segment`, `day` | `telemetry_frame_id`; `try_submit` between its test of `state_` and the push; `last_frame_`, `segment_`, the day of the estimated time |
| `queue`, `state`, `dropped`, `stopping` | `queue_`, `state_`, `dropped_`, `stopping_` |
| `wpc`, `after`, `finishing` | the place of `worker()` and its callees, where `close_file` returns to, the code after the loop |
| `window`, `prev`, `discarded` | the aggregator: `pending_`, `previous_frame_` and `previous_segment_`, the discard counter |
| `out`, `batch`, `writer`, `grant`, `owner` | the row in `accept`, the rows not appended, the open file, the reservation, the artifact lock |
| `cause`, `ioFailures`, `pausedDay`, `outputDropped` | the exception, and what `failed()` keeps |
| `files` | per artifact its rows on disk, its name, its row in the ledger, its day |
| `disk`, `today`, `events` | free space in three levels, the system clock's day, the bound on faults and changes |
| `submitted`, `kept` | history: frames offered, frames given to the aggregator |

*Data.* A spectrum is its frame number, segment and day. `sample_start` grows by one
integration for each frame within a segment, hence the aggregator's test on samples
decides as its test on frames does. A row is the range of frames it sums and its gap
flag; the sums are not kept. The day of a row is the day of its window's midpoint, which
is either of its ends. A push to the aggregator emits at most one row, because a window
that is cut by a gap was not full.

*Steps.* The single-producer single-consumer queue is one step per operation. What the
code reads and then acts on is two: the state in `try_submit` (`Admit`, `Push`), the
empty queue and `stopping_` (`Empty`, `Idle`), lock, reservation and creation of a file,
rename and `READY`. An append that throws may have written any prefix of the batch. The
back-off between two retries is free: the worker may or may not find it over. The
deadline of the drain may pass at any time after `stop`. `stop` and `try_submit` are
called by the same thread, so they do not overlap.

*Ledger.* Only the writer's half is here: `reserve`, which refuses a day without room
and a day earlier than one already charged, `ready` and `quarantine`. The quota of a day
is counted in files; what earlier sessions and the quick-look's share charge is folded
into `DayLimit`.

### Supervisor

`main` is, for every instance that is started, its place in `main()`, `g_running`, a
signal that waits for `Handle`, the object it is opening, the rings it has opened and its
exit code; `child` the
same of its two receivers. `lock` is `SingleInstanceLock` (a `flock`, which a forked
receiver inherits until it has closed it), `names` who owns the object under a name of
the shared memory and whether it is made, `devices` the receiver hardware, `gpio` the
outputs that are high. The parent's steps are `Acquire`, `Prepare`, `Fork`, `Calibrate`,
the loop that opens the rings, `Start`, `Select` and the wait for an interruption, then
the way out: `Stop`, `Terminate`, `Reap`, `Deadline`, `Unlink`, `Leave` and `Release`. A
ring is opened by its name, whoever's object has it, and mapped when the object has its
mark (`Look`, `Open`, `Attach`; `GiveUp` closes what has none). A receiver creates, fills
and initialises its object in separate steps, may be killed, fail or hang between any two
of them, and its hardware is free again when it has died (the driver's service,
external). A constructor that fails once the object has its name removes the *name*
(`FillFails`, `ring_buffer.hpp:131-134`), which may be another object's by then; `robbed`
remembers whose. Only the receiver of a killed parent can still be at that place when
another instance has made its own object, and `MemoryIsOwn` says that nothing else takes a
name or a ring away. A command to an output that fails is taken at its worst: the output stays as
it was. What runs inside the loop is `PairedStreams`'.

### AutoMaintenance

Programs follow one another; each starts a worker that leads a process group. `Start`,
`Check` and `Stop` are `AutoMaintenance`'s, the worker's places are `storage_auto.py`'s:
it ties itself to its parent (`prctl`), takes the `.auto` lock, serves the role that is
due, waits for the helper of a pass and kills it. SIGTERM is a flag until the handler
runs between two steps. A helper may ignore SIGTERM, and a worker may be killed
(`MayCrash`). Time is "due".

### ArtifactLifecycle

| Model | Code |
|---|---|
| `row`, `upload`, `look`, `quota` | the tables `artifact` and `job` (one destination) and the share of the image in the quota of the day |
| `file`, `tmp`, `remote` | content under the final name, whether the `.tmp` is there, content at the destination; a digest is the content it is of |
| `inode`, `held`, `fd` | the lock file's inode, 0 when it is unlinked; who holds a lock on which inode, shared or exclusive; what a process has opened |
| `pc`, `at`, `rows`, `verified`, `old` | of writer, cleanup, sync and generator: place, artifact, the rows listed at the begin of a pass, the digest it found, "expired" as read once per pass |
| `WriterNext`, `CleanupNext`, `SyncNext`, `GeneratorNext`, `RecoverSteps(p)` | `StoragePipeline`'s half as the others see it; `cleanup()`; `sync()` and `due()`; `generate_quicklook.py`; `recover()` of both workers |
| `Crash`, `Edit`, `Expire` | a kill between any two steps; a change of the file by hand; the passing of the retention |

One observation file and its image stand for all artifacts, whose rows are independent.
A lock belongs to an inode: `open()` and `flock()` are two steps, and the cleanup
unlinks the lock file of what it deleted, so a process may lock a file nobody else can
open any more. An inode that is made anew is the smallest not in use. Lists are made in
the order of the code, images after their files. Ages, back-offs and failing transfers
are choices.

### StorageOwner, StartupProbe, CleanupClock, Maintenance

`StorageOwner` is the start that finds, makes or refuses ledger and marker (`Start`,
`Open`, `Schema`, `Identify`, `Match`, `Mark`), what a run writes and charges, and
between the runs a loss or a replacement of the ledger. `StartupProbe` is `probe()` and
`stale_probes()`: a transfer may fail with or without its effect, the remote refuses to
delete what it does not have, and the copy of a killed start goes on in its own session
(`Late`). "Old" is past the grace of a day, which outlasts a start and a copy. Every step
of an attempt may fail, the last one too: the status file is written after the row was
deleted, and the attempt that follows copies the probe again without a row. `astray` is
the probes that this happened to, the one exception of `RemoteIsRecorded`.

`CleanupClock` is `clock_safe()` with its uses: true time, the skew of the system clock,
the monotonic clock, boots and NTP are the world. Without NTP the clock may be stepped at
any time and by any amount (`Skews`), between two steps of a pass as well. A pass takes
the time first and asks for NTP afterwards (`Begin`, `Decide`), and the run that it lets
start begins later (`Run`) and stamps its recordings by the clock of that moment. Where
the code cannot see a step of the clock, `unseen` adds it up: within the threshold from
one accepted pass to the next, between the reading of the clock and that of NTP, between
the pass and the run, and at a first pass that asks for no NTP. `YoungAreKept` says that a
recording is deleted early by no more than that. `Maintenance` composes the three and
`AutoMaintenance`, and states what each promises of the whole.

### Reassembly, FrameJoin and Telemetry

`Reassembly` sends datagrams one by one (`SendChunk`, `AbandonFrame` at a failing send,
`NewSession` at a restart); what was sent may arrive at any time, any number of times,
also damaged. `feed()`, `expire()` and `drain()` run in the receiver thread, `Take` is
the reader. `meta` and `val` say whether stamp and samples are as sent. The dictionary
`pending` is a set whose frames carry their place among those begun (`born`); what is
too old is what was born up to one of them. `first` remembers the frame `last_id` began
with: `frame_gaps` counts from there, so `GapsCoverLosses` is about the numbers between
the first frame handed over and the last; a frame that comes late before the first is
never part of it. A gap once counted is not taken back when the frame comes late after
all. `FrameJoin` is
`FrameJoiner` under `update_data`: the queues of the receivers fill, the GUI takes them,
sorts, adds frame by frame with a poll after each and one at the end; the loop of
`poll()` is split at each key. Its ordered dictionary is a set, too: with an entry that is
old, those born before it are old. `Telemetry` puts the joiner beside the reassembler; they
share no state, as the joiner is given every order in which frames may come.
Stamps rise with the frames (the sender's clock does not step back), but for `MaxWrong`
frames whose stamp differs between two streams.

### LiveHistory, RollingView, SelectedBin, Scales, LiveViewer

`LiveHistory` is the model of the live viewer: `ObservationHistory`, `DeepIntegrator`,
the coordinates and the range of the waterfalls, the pause and the drift points. A frame
is session, number and stamp, a power the set of the frames in it. `RollingView` adds
the worker thread of the rolling median: it takes a snapshot and the residuals made
before as a cache, and answers later; a residual is the set of frames whose median it
is, `version` only tells whether a token still holds. `SelectedBin` is the spin box,
marker, curves, pause and readout, with bin `b` at `3 * b` of the axis. The pause may come
while the marker is dragged; a marker that is then let go stays where it is until it is
dragged again or put to a bin (`astray`), the exception of `OneBinIsShown`. `Scales` is who
owns the two colour scales: a scale is the kind of display it was set for and a choice;
setting it from the program emits no signal. A viewer that is closed in a rolling mode saves
the scales of that mode, and the next one begins the live display with them; `carried` is
those scales, the exception of `ScalesKeepToKind` (`Suits`). `LiveViewer` puts the four side by side and
states what they promise together. The H5 source is not part of these modules.

### CatalogScan, ArchiveLoad, RollingTiles, H5Source, DisplayCache

`CatalogScan` reads the chosen files one by one (`Catalog`): duplicates once, conflicts
and overlaps refused, one axis of time, in which a record's place is the number of stamps
below its own. `Reason` is what a set of files may be refused for, whatever their order;
only for the limit of records does the order decide, as the duplicates of a file count
while it is read. `ArchiveLoad` loads a range in runs of rows of
one block through the bounded cache (`_load`, `read_block`); a sum is the set of its
records. `RollingTiles` is `_kernel()`, `_h5_residuals()` and `LogMean` with numbers
small enough to compare every median with its definition. `H5Source` is the class of
this name: one reader at a time, flags for what waits, posted calls and the view timer;
handlers call one another and are operators on the state `h`, the events of the Qt loop
are the actions. A generation or a revision is whether the worker's still holds. A call
that was posted (`Post`) and a timer that has expired (`Fire`) run in any order: a posted
load that finds a reader of something else is passed over, and a posted call that starts
no reader leaves a view that waits without one. `excused` names what was given up, refused,
not read or passed over, until it is asked for again; it is what `ShownIsChosen` excepts.
A measurement keeps two cells (`Measure`, `Display`), each with the number of its segment
in what was displayed when it was chosen, and for the history the catalog and the first
record of that display. `DisplayCache` is the directory of results that
several viewers share without a lock: every system call is a step and may fail; the
cleaning is one step that may end early.

### Waterfall, SingleView, DualView

`Waterfall` is the ring of rows, `SingleView` the viewer of one legacy stream,
`DualView` the pairing of two receivers by number, stamp and count with its waiting
time. Both take one frame a step: `TakeFrame` and `Draw` are the loop of `update_data()`
and what follows it; `Tick`, `Ingest(c)`, `Ingested`, `Commit` and `Committed` the timer,
the loop of `ingest()` over the frames of a receiver, and that of `commit_ready()`. How
many frames a receiver gives at a time is free. The two senders are independent.
`given` keeps the last HISTORY rows that a panel was given, whatever their session, since
it was reset.

## 4. Runs

Modules that share no state are checked in one run where their questions belong
together: the variable `part` of such an MC module says whose behaviour it is, and the
others stay as they begin. Each part has its own instance, constants and bounds, so
nothing is lost but the product of the state spaces, which would say nothing.

| Run | Parts and bounds | What it shows |
|---|---|---|
| `ring` | 4 slots, counters modulo 8, chunks of 1, 3 and 5 samples, requests up to 3 | every interleaving, with a producer that dies in a chunk, counters that wrap, a chunk that spans the end of the slots and one that is always refused: `NoSlotRace`, `ImplementsFifo` |
| `paired` | rings of 6, snapshots of 4, hops and batches of 2, 2 attempts, 2 confirmations, 1 lie, 1 recovery, all faults | `LockedTogether`, `NothingBehindALoss`, `NoTransientObserved`, `RecoveryShows` |
| `paired_live` | rings of 4, one attempt and confirmation, lossy and dying receivers | `AcquisitionEnds`: a loss on a started channel ends the acquisition, and start-up ends |
| `storage` | queue, window and batch of 2, 2 files a day, 1 retry, 6 frames, 2 days, 2 events, policy `emit` | `RowsAreWhole`, `GapsAreFlagged`, `FrameOnce`, `LossesAreCounted`, `ReadyIsPublished` |
| `program` | two symmetric instances of `Supervisor` with a signal and a failing receiver, or a killed parent and a failing receiver, or a failing output | `EndsClean`, `MemoryIsOwn` |
| `maintenance` | `StorageOwner` with 3 files, 2 kills, 2 losses; three probes, 2 attempts, 2 kills; a clock right, 1 ahead or 3 behind, retention 2, threshold 1, over 2 boots, 3 units of time and 1 record, without and with `cleanup_require_ntp_sync`; two programs with helpers that ignore SIGTERM and killed workers | `QuotaKept`, `RemoteIsRecorded`, `YoungAreKept`, `WorkersAreAlone` |
| `lifecycle` | "uploads" keeps what is not uploaded, 1 attempt, 1 crash, 1 edit; "local" uploads nothing, 2 attempts, 2 crashes; no tombstone is kept | `LiveOwnerKeepsWriting`, `PngChargedOnce`, `LedgerIsTrue`, `KeptIfRequired` |
| `telemetry` | two sessions of two frames of two chunks, 1 fault; three frames of one chunk within a window of 2, out of order; a legacy stream; three frames of two streams, one with a wrong stamp; a sender that starts again; the viewers of one and two receivers, with 2 rows, 2 sessions of 4 frames, 2 frames that may wait, and stamps that differ between the two | `FramesAreOwn`, `LossesAreCounted`, `EmittedInOrder`, `NothingIsForgotten`, `WaterfallsAreHistory` |
| `live_viewer` | the rolling median; the history with two bins and late frames, browsed, and measured on; the selected bin; the scales over 6 acts | `RollingIsTrue`, `HistoryIsTrue`, `DisplayHoldsStill`, `OneBinIsShown`, `ScalesKeepToKind` |
| `h5_viewer` | the tiles of 4 records; the reader, also with invalid records and a short range; the display over 5 acts and a measurement on it; four of ten files; two viewers of one directory | `RangeIsWhole`, `MediansAreTrue`, `ShownIsChosen`, `CatalogIsOfTheSet`, `ResultsAreWhole` |
| `liveness` | storage with window and batch of 1, 1 file a day, no retry; one instance with a signal and a fault; the artifact without uploads, 1 crash | `WorkerGoesOn`, `EndsAtLast`, `PendingEnds` |
| `paired_recovery` | no faults but a ring that fills | *violation*, see below |

*Why the bounds are enough.* Four slots with chunks of 1, 3 and 5 make empty, partly
full, full, wrapped and refused differ, and a modulus of twice the capacity is the
tightest the constructor admits (a capacity of 2^31 with 32-bit counters). Rings of
three batches let one channel fill while the other one starves; a snapshot of two
batches has an alias on both sides; two confirmations are the first number for which a
lie can hide behind a true one. A queue of two can be full while the worker holds a
window with one spectrum; two files and two days are the least with a roll, a refused
quota and a clock that goes back; two events are the least in which a fault meets a
pause or a second fault. Two instances are the least that can meet, and one crash with
one artifact the least for a lock file that is unlinked under a waiting process; a
second crash lets recovery meet what a recovery left. Two chunks and two sessions are
the least that can be mixed, two streams the least that can be joined. A clock that is
right, off by the threshold, or off by more than threshold and retention is what a check
can tell apart; beyond the retention `unseen` counts no further. The files of the catalog
hold duplicates enough that one order of four is refused by the limit and another is not.

Deadlock is checked, with `Ended` as the only place to stop, in `ring`, `paired`,
`paired_live`, `paired_recovery`, `storage` and `lifecycle`. `CHECK_DEADLOCK FALSE`
stands where a program ends or bounded inputs run out: `maintenance`, `program`, `telemetry`,
`live_viewer`, `h5_viewer`, `liveness`.

### Finding

* **`paired_recovery`**: in `skip_align` mode an overflow is to be followed by a flush,
  a new prime and `RUNNING` (`docs/02-firmware-dsp/architecture1.md:608-622`). But an
  overflow is a refused write, on which the callback has cleared its ready flag and
  ended its run loop (`main.cpp:467`). Nothing is written to that ring again, the prime
  misses its deadline and the program ends with 1.

### Other disagreements met while modelling

The models take these steps. Where they break what a property would say, the property
names the exception, by the history variable given here, and claims the rest.

* Storage: a spectrum that `try_submit` accepts between the worker's look at the empty
  queue and its look at `stopping_` is in no file and no counter
  (`storage_pipeline.cpp:111`). A row of yesterday that is refused after midnight pauses
  all of today, because `failed()` records the day of the clock
  (`storage_pipeline.cpp:97`).
* Maintenance: `sync` stats a file without reading the row again under the lock, so a
  file that was deleted since the list ends the whole pass
  (`storage_maintenance.py:163`). A start that is killed while ledger or marker are
  empty makes every later start refuse (`storage_maintenance.py:277`). A probe that
  never reached the remote keeps its row for ever, since `deletefile` fails
  (`storage_maintenance.py:249`). The comment that ends `probe()` keeps the remote identity
  of a probe until its removal succeeded (`:239`), but the row is deleted before the status
  file is written, in the same `try` (`:228`): when that fails, the next attempt copies the
  same probe again, and if it fails too, or the start is killed, no record leads to what is on
  the remote (`astray`). A jump of the clock is to pause the deletion
  (`docs/storage/README.md:78`), but the time of a pass is compared only with that of the last
  accepted one (`storage_maintenance.py:50`): a jump between the reading of the clock and that
  of NTP (`:82`, `:46`), or between the pass that lets a run start and its first stamp, is not
  seen, and steps below the threshold accumulate from pass to pass (`unseen`).
* Supervisor: a parent that is killed by SIGKILL leaves receivers that go on and hold
  the hardware, and later starts fail closed; one of them that fails while it makes its
  object removes the name of the next instance's (`robbed`, `ring_buffer.hpp:131`). A
  program that is started beside the dying
  worker of a killed one fails the `.auto` lock and stops.
* Live viewer: the clipping of the rolling median is not redrawn in a pause
  (`rolling_controls.py:132`); a marker that is dragged into a pause stays off its bin
  (`viewer_fx.py:1703`, `astray`); the scale of a rolling mode is saved as the live one
  (`viewer_fx.py:935`, `carried`). The readout over the powers reads the running trace in a
  pause (`viewer_fx.py:2092`): it is outside `PausedIsHeld`, which is about what is drawn.
* H5 viewer: new settings or a zoom that wait for the reader are dropped when a timer
  expires in the same turn of the loop or the record asked for is cached
  (`viewer_h5.py:179`, `:180`, `excused`). A measurement compares segment numbers of two
  displays (`viewer_h5.py:830`): two cells pass for one segment when their displays began
  in different ones, or were of different catalogs. The record limit of a catalog counts
  duplicates while a file is read (`offline_h5.py:86`), so of the files `a`, `b`, `later`
  and `restart` of the run one order gives a catalog and another is refused.
* Dead code: `RfiController` is constructed nowhere, `original_levels` and
  `rolling_cache` are never filled.

## 5. Fairness

* `PairedStreams`: weak fairness of `Main` and of each `Receiver(p)`. Supervisor, API
  threads and child run loops are scheduled by the kernel and none of them waits for
  another without a deadline (`wait_for_samples`, `acquire`). The faults and the signal
  are not fair: they need not happen.
* `StoragePipeline`: weak fairness of `Worker`, the thread. It polls, its waits are
  bounded, and calls into the file system and SQLite are assumed to return. The
  producer, the drain deadline, the disk, the clock and the faults are free, so
  `StopReturns` does not rest on the deadline.
* `Supervisor`: weak fairness of the parent's steps and of the delivery of its signals.
  Receivers have none: they may hang, and the parent's deadlines with SIGKILL must do.
* `ArtifactLifecycle`: weak fairness of each of the four processes. systemd (or
  `storage_auto.py`) starts the workers again after a crash and periodically; crashes
  are bounded, edits and expiry are free.
* In `MCLiveness` parts share a condition of weak fairness, as a behaviour is of one
  part only: `WF` of a disjunction over parts then is `WF` of the one disjunct that can
  be enabled.
* The other modules state no liveness.

## 6. Proofs

Every theorem holds for all values of the constants that satisfy the named assumptions
of its module, and is checked by `tlapm` without unproved steps.

| Module | Theorems | Argument |
|---|---|---|
| `RingBufferProofs`, ring | `TypeCorrect`, `Ownership`, `Staleness`, `RaceFreedom`, `Refinement` | `IInv == TypeOK /\ OwnershipKept /\ StaleIsSafe` is inductive. Ownership alone is not: a commit preserves it only because the space was computed from a tail that lies behind the present one. Race freedom follows from `IInv`. The refinement adds `DataInv`: the samples of a chunk in progress are already in their slots, and those copied so far are the ones at the old tail. Every step maps to a step of `BoundedFifo` or a stutter |
| `RingBufferProofs`, streams | `StreamTypes`, `Paired`, `Contiguous`, `CleanObservation`, `GapShows` | `TypeInv` adds to the types that a confirmation is still missing where one is counted. `SafetyInv == LockInv /\ LossInv /\ TransientInv /\ NumberInv`. `LockInv` is the heart: while verifying, a wrong offset implies that every confirmation counted was a lie (`good <= lies`), so `MaxLies < Confirmations` forbids a wrong lock. After it, only paired steps move the tails of an aligned session: the flushes of a recovery need `options.skip` |
| `StoragePipelineProofs` | `TypeCorrect`, `WholeRows`, `Locked`, `Published`, `Immutable`, `FramesOnce`, `GapsFlagged`, `LossesCounted` | `IInv == TypeInv /\ ArtifactInv /\ RowInv`. `ArtifactInv` ties each place of the worker to `writer`, `grant`, `owner` and the state of the last file; only that file is ever undecided. `RowInv` says the window and every row lie within `kept`. `Immutable` is an action property from the same invariant. On top of it: `OrderInv`: files, batch, row, window, kept frames and queue hold frames in this order, each place later ones than the place before it, so no frame is in two rows. That holds only while the worker can still write (`Working`), as a failure abandons the batch. `GapInv`: two rows in a row, wherever the later one still is, join or say that they do not; it needs `PlaceInv`, what is open at each place of the worker. `CountInv`: every frame offered is waiting, taken or counted. `LossInv`: what a living worker took is in its window, row, batch or a file, or a counter says that rows were given up |
| `MaintenanceProofs`, maintenance | `Invariance`, `QuotaIsKept`, `ProbesRecorded`, `YoungKept`, `WorkersAlone` | `IInv` says at each step of a start how ledger and marker match each other and what was written: a run can only be reached with a marker that names the ledger, and a ledger that was lost or replaced names another. `Apart`: the start, the copy of a killed start and the sync worker never have the same probe, so that a row which one of them deletes is not one that another still delivers; `RowHeld`: a start has its row whenever it copies. A start whose status file failed is the one that may copy without a row, and `RowHeld` follows it into `astray`. `PassTrue` and `MarkTrue`: pass and mark hold the true time up to what the clock was off by then. `AllNear`: as long as `unseen` is below the retention, the mark, the run's clock and every stamp are off by no more than `unseen` from the truth and from one another (`Near`); what a pass overlooks adds to it (`AcceptedNear`, by the triangle inequality), so what it finds expired is at least that close to its age. `WorkersAreAlone` is inductive with the types |
| `SupervisorProofs` | `EndsCleanly`, `MemoryOwned` | `Alone`: who runs has the lock. From it follows that a step of one instance leaves names, hardware and outputs of a running one alone; `Forked`, `Finished`, `Hardware`, `Named`, `Kept`, `Opened` and `Safe` say what an instance has of them at every place. A name can be lost only to the failing constructor of a killed parent's receiver (`Robbed`), since every other instance that runs would need the lock. Every action is first shown to be one of seven kinds of moves (`Moved`), and each part of the invariant is then shown against these kinds |
| `ArtifactLifecycleProofs` | `LifecycleTypes`, `LiveOwner`, `ChargedOnce`, `LedgerTrue`, `KeptUntilUploadedAlways`, `GoneForEver` | The lock of an artifact is on an inode, and lock files are unlinked, so that no inode is locked twice (`OneOwner`) does not suffice: two processes may each hold a lock file of the same name. `SameInode` says that they do not as long as the artifact is not `Gone`; an artifact that is gone never comes back (`GoneForEver`, an action property), and one that is deleted is gone in the ledger before its lock file is unlinked (`Pending`). Hence two exclusive holders of one artifact that is not gone are one process, and no recovery touches what a live owner writes. `Unbegun` and `Charged` are the arithmetic of the image's share; `Unlinked`, `Jobs` and `LooksHaveRows` what the ledger may say in between. For what is given up, `Entries` says what a row that was listed earlier may still claim when its turn comes, `Uploading` what a verified job is of, and `Condemned` that what the cleanup decided on without the lock still holds under it. `KeptUntilUploadedAlways` is the action property `[][KeepUnverified => KeptUntilUploaded]_vars`, which `KeptIfRequired` checks in the run |
| `TelemetryProofs`, reassembly | `FramesUnmixed`, `FramesOwn`, `LossesCounted`, `TypesKept` | `Assembly` says of a frame under assembly what `NoMixedFrame` says of a complete one: its parts are chunks of that frame of the active stream, none twice. That no typed frame comes twice rests on three bounded memories. `RetiredOf`: a session that was left is in `retired`, which never overflows. `Behind`: a number that was handed over is in `completed` or too far behind `last_id`; when a full `completed` forgets one, the numbers that came after it are so many that they would not fit in the window around it. `Conflicts`: the entries of `completed` that say nothing of the window are no more than the damaged chunks, as each conflict, there or still to come, is a fault of its own. `FramesAccounted` is its own argument; for `GapsCoverLosses` a complete frame adds to `gaps` at least the numbers it adds to the missing ones |
| `TelemetryProofs`, joiner | `EmittedInOrderAlways`, `NothingIsForgottenEver` | `BaseInv`: a poll visits its keys upwards, and what has its anchor is still to be visited (`ToVisit`), so `last_id` never passes an entry that could be emitted; the entries have different keys and places (`OneEach`), hence those that come and go can be counted, an eviction and a change of session included. `OrderInv`: a frame that was emitted is of the active session, up to `last_id`, or of a retired one, which never becomes active again as long as `retired` reaches over the sessions. `EvenInv` follows one batch through all its adds and polls: it is added by stamp, session, number and kind, so what is left is an upper part (`EvenBatch`); the anchor, the lowest kind, makes the entry, and the last kind completes it before the next key begins, so there is one entry at most and nothing to evict, be the capacity 1 |
| `TelemetryProofs`, waterfalls | `ShownByNumber` | A waterfall is `RowsUpTo(last, given)`: this is inductive by `NextRow`: a ring moved on by the gap and given a row displays the rows up to that row's number, which needs that a gap as long as the ring blanks all of it and that `given` may forget what has left the ring. `WaitsOk` says of the rows that wait that they are ahead of what was committed, of one session, one for each number, and no more than `PairMax`; from it follows that a commit has at most one row of each panel, and `OneStamp` that two rows in a line are of one cycle. `Compared` ties the peaks to the two rows |
| `MaintenanceProofs`, viewers' cache | `Shared` | `CacheIInv`: what a viewer has in hand is what its step left there, of its key and, from the check on, whole (`InHand`), although others replace and remove the file meanwhile; what a pass has not listed was put in place since it listed (`Listed`), hence what stays at its end is within the budget but for these |
| `MaintenanceProofs`, catalog | `CatalogStaysOfTheSet` | `ScanIInv`: what was found is each record of the files read so far, once, with the spectrum that all of them give (`FoundTrue`). On records with different stamps the rank is a bijection, so the axis has each of them at one place and in the order of time (`PlacesAre`, `AxisIs`). That the samples of a stretch add up rests on the fold of the community modules, a recursive function: `SumsExist` and `TotalIs` show by the least counterexample that it exists and grows by one record at a time |
| `ViewerProofs`, scales | `KindsApart`, `NoTrace` | `ScalesIInv`: every scale in the display, the memory, the settings and the copies of a visit is of its kind (`Good`), live settings are never of the H5 mode (`LiveKept`), and during a visit the memory of the mode that was left is what was saved at its start (`Visiting`), so that leaving by any path brings it back. A restart carries the saved scales into the live display whatever their kind; that they stay the only ones of another kind, and none of the H5 mode, is `Suits` with `carried` |
| `LiveHistoryProofs` | `HistoryStaysTrue`, `FramesHoldStill` | `HistoryInv`: the rows are numbered up to the last frame without a gap, a missing one being a hole (`Numbered`); the trace is their end, of one bin (`Sampled`); the groups follow one another and each is of as many frames as its numbers say (`Grouped`, `Whole`), and what is being summed goes on from the last of them (`Accumulates`); the display is a state that the history had, moved on by what came since (`ViewOk`, `Behind`). Each push is shown to extend the rows by holes and a row (`Extends`), hence a frame that is in both is in the same place (`SamePlace`, `Steady`). That the group drawn is the group read out needs that at most one group covers a frame (`GroupsAgree`). The curve over time is a recursive function; `SeriesIs` shows by its least counterexample that its points are the samples and that no line crosses a break |
| `ViewerProofs`, rolling median | `ResidualsStayTrue` | The median is made by a worker that is given a snapshot and what the last one made. `RollIInv` says of every residual that is kept, by the controller or a worker, that it is of the run of frames its signature names (`Signed`): the rows of a window follow each other in number and time (`RunIs`), so that its settings, its first frame and its length say which frames it has (`ResidualIs`), and what is reused is what would be made (`CacheIs`). A mean that is kept is of as many frames as its group has, among those of the cache; as many of them are in the rows, hence they are the same (`DeepIs`, by cardinality). A worker whose token holds has the settings of now (`WorkerOk`), since every change of them takes the token away; the image is what the values say unless it is due to be drawn anew (`DrawnAs`) |
| `ViewerProofs`, selected bin | `OneBinStays` | `BinIInv`: the spin box names the bin of the model, a marker that is neither dragged nor `astray` is at it, and what is displayed was drawn of a trace of that bin (`Fringed`), also when the fringes were hidden or the mode changed since. That a curve is of all samples of the trace and has a gap wherever two do not follow one another (`CurveIs`) is a fact about `FlattenSeq` of the community modules, a recursive function: `FlattenIs` proves by the least counterexample that linked chains are flattened to one chain with all their elements |
| `ViewerProofs`, bin and display | `HoldsStill` | `DisplayHoldsStill` of `LiveViewer`: of the history `FramesHoldStill`, of the scales `NoTrace`, and of the selected bin that what is drawn in a pause is drawn of the fringes only (`WithFringeIs`) |

The assumptions are `SizesAssumption` (sizes are positive, a snapshot and a hop fit in a
ring), `BoundsAssumption`, `LiesAssumption`, `BoundsOfSupervisor`, `ReassemblyAssumption`
(sizes are positive), `JoinAssumption` and those of `RingBuffer`; TLC evaluates them on the runs.
`FramesOwn` has a hypothesis, `Remembered`: `completed` is longer than two windows
and the faults together, and `retired` takes every session but one. The code has 64, 8
and 32: a run with fewer than 48 damaged chunks and no more than 33 sessions. Past that,
so many frames in conflict push a number out of `completed` that is within the window
still, and its repeated chunks would complete it again. `EmittedInOrderAlways` has one of
the same name: the joiner's `retired`, 32 in the code, is as long as there are sessions;
past that a session that was left could come back. `JoinAssumption` makes the anchor the
lowest kind, as it is in the code (`telemetry_protocol.py:12`); `NothingIsForgottenEver`
needs no more. `ProbeAssumption` and `ClockAssumption` are types: at least one attempt, a
clock that may be right among its `Skews`. `CacheAssumption` takes the viewers to be finitely many, `CatalogAssumption` the records of a
file, which differ and whose samples and times are integers.
`HistoryAssumption` says that lengths are positive, that a range has two rows at least and
no more than are kept, and that a frame is in time or late by more than a break
(`Lates`), which is all that the history tells apart; `ResidualsStayTrue` needs it too, and
`SettingsAssumption`, that windows and minima of the rolling median are positive.
`BinAssumption` says the same of the selected bin. Apart from `Remembered` and
`LiesAssumption` (fewer wrong measurements than confirmations) no assumption excludes a step
that the code can take: what the code breaks is an exception within the property.
`ArtifactLifecycleProofs` and `WorkersAlone` rest on no assumption about the constants.

`VisitsLeaveNoTrace` was first stated as "both scales are those of before". The proof
failed on it, and TLC, asked with 12 acts where the run has 6, found why: a pause lets the
memory of a kind put two different scales under a link, and the leave that renders the
display makes them one. The property now says what the code keeps: linked scales are one
of the two, others are as before.

*Only model-checked*

* Liveness (`LossStops`, `StartupEnds`, `StopReturns`, `PausesEnd`, `EndsAtLast`,
  `PendingEnds`, `ExpiredIsDeleted`): the proof system does not treat liveness under
  fairness.
* `RangeIsWhole` and `MediansAreTrue`: their modules declare RECURSIVE operators, and
  what a recursion computes for every input needs an induction over data that is out of
  the prover's reach.
* `ShownIsChosen` of the H5 viewer: not proved. Its invariant has to say of each of some
  forty places of `H5Source` what is posted, pending and running there.

## 7. Not modelled

* **Weak memory**: acquire and release are treated as loads of values that may be stale,
  not as reorderings. The ring's counters are each written by one side, for which this
  is exact.
* **Floating point**: FFT, windows, cross-spectra, peak estimation, row sums, RFI masks,
  rendering. Their control is modelled where it changes state.
* **Configuration, HDF5 layout and its bounded driver, runtime trace, Qt widgets, PLL
  firmware, one-shot tools**: no state that another component depends on, or sequential
  code.
* **RFI controls**: `RfiController` is constructed nowhere in the viewer, so none of its
  states is reachable.
* Within the modelled parts: more than one artifact with its image, more than one
  destination of uploads, sessions that come back in the joiner, the region of interest
  and the deep frames of the H5 mode, the layout checks of a file (one outcome,
  malformed), the sizes of cached results (all one), and three refusals that only end a
  request with an error: edges of a waterfall that do not rise (`offline_h5.py:266`), a
  window or an image above `MAX_WINDOW_CELLS` (`rolling_median.py:225`,
  `rolling_background.py:82`). The clipping of a residual is outside `RollingIsTrue`, and its
  refusal (`TooLarge`) is modelled but not reached within the bounds of the run.
