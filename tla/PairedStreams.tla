--------------------------- MODULE PairedStreams ---------------------------
(***************************************************************************)
(* Two receivers, two rings, one correlator: the receiver callback, the    *)
(* start-up alignment, the source switch, the correlator's paired reads    *)
(* and the recovery of the supervisor (src/src/main.cpp,                   *)
(* startup_alignment.hpp, time_alignment.cpp, correlator.cpp).             *)
(*                                                                         *)
(* The rings are the queues that RingBuffer implements: what is kept of    *)
(* each is how much it holds, and of both, how far their tails are apart   *)
(* in time.  Several tests in a row of values that only ever turn bad      *)
(* (dead child, ready flag, overflow count) or only grow (samples to read) *)
(* are one step: every outcome of the separate tests is also one of theirs.*)
(***************************************************************************)
EXTENDS Integers

CONSTANTS RingCapacity,       \* BUFFER_CAPACITY
          Snapshot,       \* SNAPSHOT_SIZE, even
          Hop,            \* hop_, samples of a paired read
          Batch,          \* numSamples of a receiver callback
          Frames,         \* options_.frames, paired reads of an integration
          Attempts,       \* max_align_retries
          Confirmations,  \* Options::confirmations
          MaxRecoveries,  \* kMaxDiagRecoveries
          MaxLies,        \* bound on confident but wrong measurements
          Skew,           \* bound on the initial distance of the streams
          MaxDrift,       \* bound on how far one receiver runs ahead
          Faults          \* which faults happen: see below

ASSUME StreamSizes ==
  /\ {RingCapacity, Snapshot, Hop, Batch, Frames} \subseteq Nat \ {0}
  /\ Snapshot % 2 = 0
  /\ Snapshot <= RingCapacity /\ Hop <= RingCapacity

ASSUME BoundsAssumption ==
  /\ {Attempts, MaxRecoveries, MaxLies, Skew, MaxDrift} \subseteq Nat
  /\ Faults \subseteq {"slow", "usb", "crash", "dsp", "gpio"}

\* The measurements that are confident and wrong are fewer than the
\* confirmations: what the confirmations are for.
ASSUME LiesAssumption == Confirmations \in Nat /\ MaxLies < Confirmations

Chan == {1, 2}

VARIABLES
  fill,        \* [Chan -> samples committed and not consumed]
  offset,      \* time of channel 2's tail minus time of channel 1's tail
  started,     \* [Chan -> start_stream flag]
  cb,          \* [Chan -> receiver process: streaming, lossy, unready, exited]
  gap,         \* [Chan -> firstSampleNum or reset will not match]
  drops,       \* [Chan -> overflow_cnt]
  running,     \* g_running
  options,     \* cli: skip_align, cal_phase, and whether the source switches
  pc,          \* where main() is
  state,       \* SystemState
  isAligned,   \* is_sample_aligned
  calibrated,  \* is_phase_calibrated
  attempt, good, lies,     \* of StartupAlignment::acquire
  boundary,    \* samples to discard after the source switch
  primed, primeDrops,      \* primed_, drops1_ and drops2_ of the correlator
  frame,       \* paired reads of this integration
  cycleOk, ovBefore,       \* outcome of the cycle, overflow counts before it
  recoveries,  \* diag_recovery_count
  exit,        \* exit_code
  lost, broken,            \* history: loss per channel; samples behind a loss
  transient,   \* history: samples left from before the source settled
  idGap,       \* history: telemetry_frame_id minus the last published one
  flushed      \* history: the streams were flushed since that frame

producer == <<started, cb, gap, drops, lost, broken>>
tails    == <<fill, offset, transient>>
align    == <<isAligned, attempt, good, lies>>
dsp      == <<primed, primeDrops, frame, cycleOk, ovBefore>>
report   == <<recoveries, idGap, flushed>>
verdict  == <<state, exit>>
streamVars == <<fill, offset, transient, producer, running, options, pc, align, calibrated,
          boundary, dsp, report, verdict>>

Abs(n) == IF n < 0 THEN -n ELSE n
Larger(a, b) == IF a > b THEN a ELSE b
Avail(n) == \A p \in Chan : fill[p] >= n

\* How far channel 2's writer is ahead of channel 1's.
Drift == offset + fill[2] - fill[1]

Lags == 1 - (Snapshot \div 2) .. (Snapshot \div 2) - 1

StreamInit ==
  /\ fill = [p \in Chan |-> 0] /\ offset \in -Skew .. Skew
  /\ started = [p \in Chan |-> FALSE] /\ cb = [p \in Chan |-> "streaming"]
  /\ gap = [p \in Chan |-> FALSE] /\ drops = [p \in Chan |-> 0]
  /\ running = TRUE
  /\ options \in {[skip |-> TRUE, cal |-> FALSE, switch |-> FALSE],
                  [skip |-> TRUE, cal |-> FALSE, switch |-> TRUE],
                  [skip |-> FALSE, cal |-> FALSE, switch |-> TRUE],
                  [skip |-> FALSE, cal |-> TRUE, switch |-> TRUE]}
  /\ pc = "gate1" /\ state = "STARTUP" /\ exit = 0
  /\ isAligned = FALSE /\ calibrated = FALSE
  /\ attempt = 0 /\ good = 0 /\ lies = 0 /\ boundary = 0
  /\ primed = FALSE /\ primeDrops = drops /\ frame = 0
  /\ cycleOk = FALSE /\ ovBefore = drops
  /\ recoveries = 0 /\ idGap = 1 /\ flushed = FALSE
  /\ lost = [p \in Chan |-> FALSE] /\ broken = [p \in Chan |-> FALSE]
  /\ transient = 0

-----------------------------------------------------------------------------
(* The receiver processes.                                                 *)

consumer == <<running, options, pc, align, calibrated, boundary, dsp, report, verdict>>

\* write() takes the batch whole, or counts an overflow and takes nothing.
\* The next sample number expected moves on in either case.
Write(p, onRefusal) ==
  IF Batch <= RingCapacity - fill[p]
  THEN /\ fill' = [fill EXCEPT ![p] = @ + Batch]
       /\ broken' = [broken EXCEPT ![p] = @ \/ lost[p]]
       /\ UNCHANGED <<cb, drops, lost>>
  ELSE /\ drops' = [drops EXCEPT ![p] = @ + 1]
       /\ lost' = [lost EXCEPT ![p] = TRUE]
       /\ cb' = [cb EXCEPT ![p] = onRefusal]
       /\ UNCHANGED <<fill, broken>>

\* What happens to the receivers after that is not followed.
Acquiring == pc # "stopped"

InStep(p) == LET ahead == IF p = 2 THEN Drift + Batch ELSE Batch - Drift
             IN  (\A q \in Chan : cb[q] = "streaming") => ahead <= MaxDrift

\* Mutant: a refused write is not treated as a fault.
CallbackToleratesRefusal(p) ==
  /\ Acquiring /\ cb[p] = "streaming" /\ started[p] /\ InStep(p)
  /\ IF gap[p]
     THEN cb' = [cb EXCEPT ![p] = "lossy"] /\ UNCHANGED <<fill, broken, drops, lost>>
     ELSE Write(p, "streaming")
  /\ UNCHANGED <<offset, transient, started, gap, consumer>>

Callback(p) ==
  /\ Acquiring /\ cb[p] = "streaming" /\ started[p] /\ InStep(p)
  /\ IF gap[p]
     THEN cb' = [cb EXCEPT ![p] = "lossy"] /\ UNCHANGED <<fill, broken, drops, lost>>
     ELSE Write(p, "lossy")
  /\ UNCHANGED <<offset, transient, started, gap, consumer>>

\* Mutant: the fault is not reported and the process keeps running.
FailSilently(p) ==
  /\ Acquiring /\ cb[p] = "lossy"
  /\ cb' = [cb EXCEPT ![p] = "streaming"]
  /\ gap' = [gap EXCEPT ![p] = FALSE]
  /\ UNCHANGED <<tails, started, drops, lost, broken, consumer>>

\* fail(): the ready flag is cleared, and with it the flag the run loop polls.
Fail(p) ==
  /\ Acquiring /\ cb[p] = "lossy"
  /\ cb' = [cb EXCEPT ![p] = "unready"]
  /\ UNCHANGED <<tails, started, gap, drops, lost, broken, consumer>>

\* The run loop of the child ends.
Exit(p) ==
  /\ Acquiring /\ cb[p] = "unready"
  /\ cb' = [cb EXCEPT ![p] = "exited"]
  /\ UNCHANGED <<tails, started, gap, drops, lost, broken, consumer>>

\* The API loses samples or resets: the next callback will show it.
UsbLoss(p) ==
  /\ "usb" \in Faults
  /\ Acquiring /\ cb[p] = "streaming" /\ started[p] /\ ~gap[p]
  /\ gap' = [gap EXCEPT ![p] = TRUE]
  /\ lost' = [lost EXCEPT ![p] = TRUE]
  /\ UNCHANGED <<tails, started, cb, drops, broken, consumer>>

\* The child is killed, or ends on a signal; its ready flag stays set.
Crash(p) ==
  /\ "crash" \in Faults
  /\ Acquiring /\ cb[p] # "exited"
  /\ cb' = [cb EXCEPT ![p] = "exited"]
  /\ lost' = [lost EXCEPT ![p] = TRUE]
  /\ UNCHANGED <<tails, started, gap, drops, broken, consumer>>

-----------------------------------------------------------------------------
(* What main() tests.                                                      *)

Alive == \A p \in Chan : cb[p] # "exited"

Ready == \A p \in Chan : cb[p] # "unready"

\* check_alignment_health()
Healthy == /\ Alive /\ Ready
           /\ options.skip \/ \A p \in Chan : drops[p] = 0

\* A deadline passes while samples are missing.  Unless "slow" is among the
\* faults, a receiver that is streaming delivers in time.
Expired(n) == \E p \in Chan : fill[p] < n /\ (cb[p] # "streaming" \/ "slow" \in Faults)

-----------------------------------------------------------------------------
(* Steps that several places of main() share.                              *)

Stop(code) == pc' = "stopped" /\ state' = "STOPPING" /\ exit' = code

Throw == Stop(1)

Go(to) == pc' = to /\ UNCHANGED verdict

\* Both tails move by n.
Advance(n) == /\ fill' = [p \in Chan |-> fill[p] - n]
              /\ transient' = Larger(transient - n, 0)
              /\ UNCHANGED offset

\* Everything committed on one channel is discarded.
Flush(p) == /\ fill' = [fill EXCEPT ![p] = 0]
            /\ offset' = IF p = 1 THEN offset - fill[1] ELSE offset + fill[2]
            /\ UNCHANGED transient

\* wait_for_samples(n): answers true, or false (every caller throws on it) on
\* cancellation and on the deadline, or throws for a dead child.
Awaited(n) == running /\ Alive /\ Avail(n)
Missed(n)  == ~running \/ ~Alive \/ Expired(n)

-----------------------------------------------------------------------------
(* The stream gate.                                                        *)

Gate(p, at, to) ==
  /\ pc = at
  /\ started' = [started EXCEPT ![p] = TRUE]
  /\ Go(to)
  /\ UNCHANGED <<tails, cb, gap, drops, lost, broken, running, options, align,
                 calibrated, boundary, dsp, report>>

WarmUp ==
  /\ pc = "warmup"
  /\ IF Alive THEN Go("flush1") ELSE Throw
  /\ UNCHANGED <<tails, producer, running, options, align, calibrated, boundary,
                 dsp, report>>

FlushStart(p, at, to, next) ==
  /\ pc = at
  /\ Flush(p)
  /\ pc' = to /\ state' = next
  /\ UNCHANGED <<exit, producer, running, options, align, calibrated, boundary,
                 dsp, report>>

StartStreams ==
  \/ Gate(1, "gate1", "gate2")
  \/ Gate(2, "gate2", "warmup")
  \/ WarmUp
  \/ FlushStart(1, "flush1", "flush2", state)
  \/ FlushStart(2, "flush2", IF options.skip THEN "ready" ELSE "acquire1",
                IF options.skip THEN "UNALIGNED" ELSE "ALIGNING")

-----------------------------------------------------------------------------
(* StartupAlignment::acquire.                                              *)

alignRest == <<producer, running, options, calibrated, boundary, dsp, report>>

\* A new attempt discards what channel 1 holds; out of attempts, it throws.
Attempt ==
  /\ pc = "acquire1"
  /\ IF attempt = Attempts
     THEN Throw /\ UNCHANGED <<tails, attempt>>
     ELSE Flush(1) /\ attempt' = attempt + 1 /\ Go("acquire2")
  /\ UNCHANGED <<isAligned, good, lies, alignRest>>

AttemptFlush ==
  /\ pc = "acquire2"
  /\ Flush(2) /\ Go("measure")
  /\ UNCHANGED <<align, alignRest>>

\* wait_ready(): a health check, wait_for_samples, another health check.
SnapshotReady == running /\ Healthy /\ Avail(Snapshot)

AlignFails ==
  /\ pc \in {"measure", "advance", "verify", "lock"}
  /\ ~running \/ ~Healthy \/ Expired(Snapshot)
  /\ Throw
  /\ UNCHANGED <<tails, align, alignRest>>

\* What a confident measurement of two snapshots shows: their distance, or,
\* the correlation being circular, that distance less a whole snapshot.  Two
\* snapshots that do not overlap show nothing; any other lag is a lie.
Honest(lag) == \/ lag = offset
               \/ Abs(offset) < Snapshot /\ Abs(lag - offset) = Snapshot

Confident(lag) == IF Honest(lag) THEN lies' = lies
                  ELSE lies < MaxLies /\ lies' = lies + 1

\* A weak or invalid result, always possible: the next attempt.
MeasuredWeak ==
  /\ pc \in {"measure", "verify"} /\ SnapshotReady
  /\ good' = 0 /\ Go("acquire1")
  /\ UNCHANGED <<tails, isAligned, attempt, lies, alignRest>>

\* A confident candidate: the channel that is behind is advanced.  The
\* snapshot being there, the skip is never short.
Measure(lag) ==
  /\ pc = "measure" /\ SnapshotReady /\ Confident(lag)
  /\ fill' = [fill EXCEPT ![IF lag > 0 THEN 1 ELSE 2] = @ - Abs(lag)]
  /\ offset' = offset - lag
  /\ good' = 0 /\ Go("advance")
  /\ UNCHANGED <<transient, isAligned, attempt, alignRest>>

\* A confirmation looks at samples beyond those measured before.
AdvanceSnapshot ==
  /\ pc = "advance" /\ SnapshotReady
  /\ Advance(Snapshot) /\ Go("verify")
  /\ UNCHANGED <<align, alignRest>>

\* Mutant: one confirmation too few.
VerifyOneLess(lag) ==
  /\ pc = "verify" /\ SnapshotReady /\ Confident(lag)
  /\ IF lag # 0 THEN good' = 0 /\ Go("acquire1")
     ELSE /\ good' = good + 1
          /\ Go(IF good + 2 >= Confirmations THEN "lock" ELSE "advance")
  /\ UNCHANGED <<tails, isAligned, attempt, alignRest>>

\* max_residual_samples is 0: any other lag starts a new attempt.
Verify(lag) ==
  /\ pc = "verify" /\ SnapshotReady /\ Confident(lag)
  /\ IF lag # 0 THEN good' = 0 /\ Go("acquire1")
     ELSE /\ good' = good + 1
          /\ Go(IF good + 1 = Confirmations THEN "lock" ELSE "advance")
  /\ UNCHANGED <<tails, isAligned, attempt, alignRest>>

\* The last wait; the locals of acquire() leave scope.
Lock ==
  /\ pc = "lock" /\ SnapshotReady
  /\ isAligned' = TRUE
  /\ attempt' = 0 /\ good' = 0 /\ lies' = 0
  /\ Go("ready")
  /\ UNCHANGED <<tails, alignRest>>

Align == \/ Attempt \/ AttemptFlush \/ AlignFails \/ MeasuredWeak
         \/ \E lag \in Lags : Measure(lag) \/ Verify(lag)
         \/ AdvanceSnapshot \/ Lock

-----------------------------------------------------------------------------
(* The source of the observation.                                          *)

sourceRest == <<producer, running, options, align, calibrated, report>>

\* The storage pipeline starts observing here.  A session that switches its
\* source notes the overflow counts and commands the GPIO.
Source ==
  /\ pc = "source"
  /\ \/ ~Healthy /\ Throw /\ UNCHANGED ovBefore
     \/ Healthy /\ ~options.switch /\ Go("prime") /\ UNCHANGED ovBefore
     \/ Healthy /\ options.switch /\ ovBefore' = drops /\ Go("settle")
     \/ Healthy /\ options.switch /\ "gpio" \in Faults /\ ovBefore' = drops /\ Throw
  /\ UNCHANGED <<tails, boundary, primed, primeDrops, frame, cycleOk, sourceRest>>

\* The switch has settled; what the rings hold now is from before.  The two
\* counts of committed samples are taken one after the other.
Settle ==
  /\ pc = "settle"
  /\ IF Healthy
     THEN /\ transient' = Larger(fill[1], fill[2])
          /\ boundary' = fill[1]
          /\ Go("watermark")
     ELSE Throw /\ UNCHANGED <<transient, boundary>>
  /\ UNCHANGED <<fill, offset, dsp, sourceRest>>

\* Mutant: the shorter of the two is discarded.
WatermarkShorter ==
  /\ pc = "watermark"
  /\ boundary' = IF boundary < fill[2] THEN boundary ELSE fill[2]
  /\ Go("discard")
  /\ UNCHANGED <<tails, dsp, sourceRest>>

Watermark ==
  /\ pc = "watermark"
  /\ boundary' = Larger(boundary, fill[2])
  /\ Go("discard")
  /\ UNCHANGED <<tails, dsp, sourceRest>>

\* skip_pair(boundary): wait until both hold that much, then skip it on both.
Discard ==
  /\ pc = "discard"
  /\ \/ Awaited(boundary) /\ Advance(boundary) /\ Go("settled")
     \/ Missed(boundary) /\ Throw /\ UNCHANGED tails
  /\ boundary' = 0
  /\ UNCHANGED <<dsp, sourceRest>>

Settled ==
  /\ pc = "settled"
  /\ IF Healthy /\ drops = ovBefore THEN Go("prime") ELSE Throw
  /\ UNCHANGED <<tails, boundary, dsp, sourceRest>>

SelectSource == Source \/ Settle \/ Watermark \/ Discard \/ Settled

-----------------------------------------------------------------------------
(* The correlator: prime_buffers() and process_integration_cycle().        *)

dspRest == <<producer, running, options, align, boundary>>

\* The state in which main() primes for the phase calibration.
Calibrating == state = "CALIBRATING" /\ ~calibrated

\* check(): cancelled, or an overflow since the buffers were primed.
Spoiled == ~running \/ drops # primeDrops

\* A recovery primes without a health check of its own.
Prime ==
  /\ pc = "prime"
  /\ IF state = "RECOVERING" \/ Healthy
     THEN primed' = FALSE /\ primeDrops' = drops /\ Go("primeRead")
     ELSE Throw /\ UNCHANGED <<primed, primeDrops>>
  /\ UNCHANGED <<tails, frame, cycleOk, ovBefore, calibrated, report, dspRest>>

\* read_pair() of the first half window, or its exception.
PrimeRead ==
  /\ pc = "primeRead"
  /\ \/ ~Spoiled /\ Avail(Hop) /\ Advance(Hop) /\ primed' = TRUE /\ Go("primed")
     \/ (Spoiled \/ Expired(Hop)) /\ Throw /\ UNCHANGED <<tails, primed>>
  /\ UNCHANGED <<primeDrops, frame, cycleOk, ovBefore, calibrated, report, dspRest>>

\* invoke_prime_buffers() answers with the running flag.
Primed ==
  /\ pc = "primed"
  /\ CASE state = "RECOVERING" ->
            IF running THEN pc' = "loop" /\ state' = "RUNNING" /\ UNCHANGED exit
            ELSE Throw
       [] Calibrating ->
            IF running /\ Healthy THEN Go("cycle") ELSE Throw
       [] OTHER ->
            IF ~Healthy THEN Throw
            ELSE IF running THEN pc' = "loop" /\ state' = "RUNNING" /\ UNCHANGED exit
            ELSE Stop(0)
  /\ frame' = 0 /\ ovBefore' = drops
  /\ UNCHANGED <<tails, primed, primeDrops, cycleOk, calibrated, report, dspRest>>

CycleRead ==
  /\ pc = "cycle" /\ primed /\ frame < Frames
  /\ ~Spoiled /\ Avail(Hop)
  /\ Advance(Hop)
  /\ frame' = frame + 1
  /\ Go("cycle")
  /\ UNCHANGED <<primed, primeDrops, cycleOk, ovBefore, calibrated, report, dspRest>>

\* The last check passed and every output is finite.
CycleDone ==
  /\ pc = "cycle" /\ primed /\ frame = Frames /\ ~Spoiled
  /\ cycleOk' = TRUE /\ frame' = 0 /\ Go("judge")
  /\ UNCHANGED <<tails, primed, primeDrops, ovBefore, calibrated, report, dspRest>>

\* An exception of the cycle un-primes; the calibration does not catch it.
CycleThrows ==
  /\ pc = "cycle"
  /\ \/ Spoiled
     \/ frame < Frames /\ Expired(Hop)
     \/ frame = Frames /\ "dsp" \in Faults
  /\ primed' = FALSE /\ cycleOk' = FALSE /\ frame' = 0
  /\ IF Calibrating THEN Throw ELSE Go("judge")
  /\ UNCHANGED <<tails, primeDrops, ovBefore, calibrated, report, dspRest>>

Correlate == Prime \/ PrimeRead \/ Primed \/ CycleRead \/ CycleDone \/ CycleThrows

-----------------------------------------------------------------------------
(* The main line: calibration, the running loop, the recovery.             *)

mainRest == <<producer, running, options, align, boundary>>

\* Aligned, or not asked to align.
PrepareObservation ==
  /\ pc = "ready"
  /\ IF ~Healthy THEN Throw
     ELSE IF options.cal THEN pc' = "prime" /\ state' = "CALIBRATING" /\ UNCHANGED exit
     ELSE Go("source")
  /\ UNCHANGED <<tails, calibrated, dsp, report, mainRest>>

\* The phase vector is taken from a clean cycle with at least one usable bin.
Calibrate ==
  /\ pc = "judge" /\ Calibrating
  /\ \/ ~running /\ (IF Healthy THEN Stop(0) ELSE Throw) /\ UNCHANGED calibrated
     \/ running /\ drops # ovBefore /\ Throw /\ UNCHANGED calibrated
     \/ running /\ drops = ovBefore /\ "dsp" \in Faults /\ Throw /\ UNCHANGED calibrated
     \/ running /\ drops = ovBefore /\ calibrated' = TRUE /\ Go("source")
  /\ UNCHANGED <<tails, dsp, report, mainRest>>

\* Top of the running loop.
Loop ==
  /\ pc = "loop"
  /\ IF ~running THEN Stop(0) /\ UNCHANGED <<frame, ovBefore>>
     ELSE IF ~Healthy THEN Throw /\ UNCHANGED <<frame, ovBefore>>
     ELSE frame' = 0 /\ ovBefore' = drops /\ Go("cycle")
  /\ UNCHANGED <<tails, calibrated, primed, primeDrops, cycleOk, report, mainRest>>

Discarded == ~cycleOk \/ drops # ovBefore

\* Mutant: a cycle cut short does not take a frame number.
JudgeReusesNumber ==
  /\ pc = "judge" /\ state = "RUNNING"
  /\ IF ~running THEN Stop(0) /\ UNCHANGED report
     ELSE IF ~Discarded THEN Go("publish") /\ UNCHANGED report
     ELSE /\ IF ~options.skip \/ recoveries = MaxRecoveries
             THEN Throw /\ UNCHANGED recoveries
             ELSE /\ recoveries' = recoveries + 1
                  /\ pc' = "recover1" /\ state' = "RECOVERING" /\ UNCHANGED exit
          /\ UNCHANGED <<idGap, flushed>>
  /\ UNCHANGED <<tails, calibrated, dsp, mainRest>>

\* After the cycle: cancelled, discarded, or fit to be published.  A discarded
\* cycle uses up a frame number; only a session that never aligned (and hence
\* never calibrated) may recover, and only so many times.
Judge ==
  /\ pc = "judge" /\ state = "RUNNING"
  /\ IF ~running THEN Stop(0) /\ UNCHANGED report
     ELSE IF ~Discarded THEN Go("publish") /\ UNCHANGED report
     ELSE /\ idGap' = idGap + 1
          /\ IF calibrated \/ ~options.skip \/ recoveries = MaxRecoveries
             THEN Throw /\ UNCHANGED recoveries
             ELSE /\ recoveries' = recoveries + 1
                  /\ pc' = "recover1" /\ state' = "RECOVERING" /\ UNCHANGED exit
          /\ UNCHANGED flushed
  /\ UNCHANGED <<tails, calibrated, dsp, mainRest>>

Recover(p, at, to) ==
  /\ pc = at
  /\ Flush(p) /\ flushed' = TRUE
  /\ Go(to)
  /\ UNCHANGED <<recoveries, idGap, calibrated, dsp, mainRest>>

\* One more health check, then the frame goes out under the current number.
Publish ==
  /\ pc = "publish"
  /\ IF Healthy THEN idGap' = 1 /\ flushed' = FALSE /\ Go("loop")
     ELSE Throw /\ UNCHANGED <<idGap, flushed>>
  /\ UNCHANGED <<tails, recoveries, calibrated, dsp, mainRest>>

Observe == \/ PrepareObservation \/ Calibrate \/ Loop \/ Judge \/ Publish
           \/ Recover(1, "recover1", "recover2") \/ Recover(2, "recover2", "prime")

-----------------------------------------------------------------------------
\* SIGINT or SIGTERM reaches the supervisor.
Signal ==
  /\ running /\ Acquiring
  /\ running' = FALSE
  /\ UNCHANGED <<tails, producer, options, pc, align, calibrated, boundary, dsp,
                 report, verdict>>

\* The acquisition has ended: Supervisor takes over.
Ended == pc = "stopped" /\ UNCHANGED streamVars

Main == StartStreams \/ Align \/ SelectSource \/ Correlate \/ Observe

Receiver(p) == Callback(p) \/ Fail(p) \/ Exit(p)

StreamNext == \/ Main
        \/ \E p \in Chan : Receiver(p) \/ UsbLoss(p) \/ Crash(p)
        \/ Signal
        \/ Ended

StreamSpec == StreamInit /\ [][StreamNext]_streamVars

\* The scheduler runs the supervisor and the receivers' threads; faults and
\* signals need not happen.
StreamFairSpec == StreamSpec /\ WF_streamVars(Main) /\ \A p \in Chan : WF_streamVars(Receiver(p))

-----------------------------------------------------------------------------
(* Properties.                                                             *)

PCs == {"gate1", "gate2", "warmup", "flush1", "flush2", "acquire1", "acquire2",
        "measure", "advance", "verify", "lock", "ready", "source", "settle",
        "watermark", "discard", "settled", "prime", "primeRead", "primed",
        "cycle", "judge", "loop", "recover1", "recover2", "publish", "stopped"}

\* Every variable keeps its type; the rings never hold more than they can.
StreamTypeOK ==
  /\ fill \in [Chan -> 0 .. RingCapacity] /\ offset \in Int
  /\ started \in [Chan -> BOOLEAN]
  /\ cb \in [Chan -> {"streaming", "lossy", "unready", "exited"}]
  /\ gap \in [Chan -> BOOLEAN]
  /\ drops \in [Chan -> Nat] /\ primeDrops \in [Chan -> Nat] /\ ovBefore \in [Chan -> Nat]
  /\ running \in BOOLEAN
  /\ options \in [skip : BOOLEAN, cal : BOOLEAN, switch : BOOLEAN]
  /\ pc \in PCs
  /\ state \in {"STARTUP", "UNALIGNED", "ALIGNING", "CALIBRATING", "RUNNING",
                "RECOVERING", "STOPPING"}
  /\ isAligned \in BOOLEAN /\ calibrated \in BOOLEAN
  /\ attempt \in 0 .. Attempts /\ good \in 0 .. Confirmations /\ lies \in 0 .. MaxLies
  /\ boundary \in 0 .. RingCapacity /\ transient \in 0 .. RingCapacity
  /\ primed \in BOOLEAN /\ cycleOk \in BOOLEAN /\ frame \in 0 .. Frames
  /\ recoveries \in 0 .. MaxRecoveries /\ idGap \in Nat /\ flushed \in BOOLEAN
  /\ exit \in {0, 1}
  /\ lost \in [Chan -> BOOLEAN] /\ broken \in [Chan -> BOOLEAN]

\* Once the start-up alignment has locked, the next samples of the two rings
\* are of the same instant, as long as fewer measurements lied than there are
\* confirmations, and they stay so through the source switch, the calibration
\* and every integration: "exact integer k=0" (main.cpp:1094).
LockedTogether == isAligned => offset = 0

\* A ring never holds a sample from behind a loss: the callback stops at a
\* missing, reset or refused batch, so that equal distances are equal times.
NothingBehindALoss == \A p \in Chan : ~broken[p]

\* What the correlator reads after the source switch was committed after the
\* switch had settled, on both channels (main.cpp:1209).
NoTransientObserved ==
  pc \in {"primeRead", "cycle"} /\ ~Calibrating => transient = 0

\* A frame that follows a flush of the streams never has the number next to
\* that of the frame before it: a reader sees the gap.
RecoveryShows == flushed => idGap >= 2

\* A channel that has lost samples ends the acquisition.
LossStops == (\E p \in Chan : lost[p] /\ started[p]) ~> pc = "stopped"

\* Start-up comes to an end: integrations begin, or the program stops.
StartupEnds == <>(pc \in {"loop", "stopped"})

\* The recovery of a diagnostic session resumes it (architecture1.md:608-622).
RecoveryResumes == pc = "recover1" ~> (state = "RUNNING" \/ ~running)
=============================================================================
