---------------------------- MODULE CleanupClock ----------------------------
(***************************************************************************)
(* The clock that the cleanup deletes by (src/scripts/storage_maintenance. *)
(* py clock_safe(), and its use by cleanup() and run("startup")).  What is *)
(* deleted is as old as the system clock says, and that clock may be       *)
(* stepped at any time while NTP does not hold it, and come up anyhow      *)
(* after a boot.  A pass is accepted by the clock's agreement with the     *)
(* monotonic one since the last accepted pass, and by NTP.                 *)
(*                                                                         *)
(* A pass takes the time before it asks for the state of NTP.  A run       *)
(* begins some time after the pass that let it start, and its recordings   *)
(* are stamped by the clock as it was then.                                *)
(***************************************************************************)
EXTENDS Integers, FiniteSets

CONSTANTS RequireNtp,   \* cleanup_require_ntp_sync
          Retention, Threshold, MaxFuture,
                        \* days, clock_jump_threshold_sec, max_future_skew_sec
          Skews,        \* what the clock may be off by
          MaxTime, MaxBoots, MaxRecords   \* bounds

ClockAssumption ==
  /\ RequireNtp \in BOOLEAN /\ Skews \subseteq Int /\ 0 \in Skews
  /\ {Retention, Threshold, MaxFuture, MaxTime, MaxBoots, MaxRecords} \subseteq Nat

VARIABLES
  time, skew,     \* true time, and what the system clock is ahead of it
  mono, boot, ntp, \* monotonic clock, boot_id, whether NTP holds the clock
  mark,           \* cleanup_clock of the ledger
  run, anchor,    \* the run, and the skew it began with
  records,        \* artifacts: when they were recorded, and their stamp
  pass,           \* the pass in progress: what it is for and the time it took
  unseen,         \* history: how far the clock moved where no check could see it
  lost            \* history: artifacts deleted, when, and what was unseen then

world == <<time, skew, mono, boot, ntp>>
vars == <<world, mark, run, anchor, records, pass, unseen, lost>>

NoMark == <<>>
NoPass == <<>>

\* A mark and a pass also have "off", what the clock was ahead of the true
\* time when they were taken, for the history.
Init ==
  /\ time = 0 /\ skew \in Skews /\ mono = 0 /\ boot = 1 /\ ntp \in BOOLEAN /\ (ntp => skew = 0)
  /\ mark = NoMark /\ run = "off" /\ anchor = 0 /\ records = {} /\ pass = NoPass
  /\ unseen = 0 /\ lost = {}

Tick ==
  /\ time < MaxTime /\ time' = time + 1 /\ mono' = mono + 1
  /\ UNCHANGED <<skew, boot, ntp, mark, run, anchor, records, pass, unseen, lost>>

SetClock ==
  /\ ~ntp /\ skew' \in Skews
  /\ UNCHANGED <<time, mono, boot, ntp, mark, run, anchor, records, pass, unseen, lost>>

GainNtp ==
  /\ ~ntp /\ ntp' = TRUE /\ skew' = 0
  /\ UNCHANGED <<time, mono, boot, mark, run, anchor, records, pass, unseen, lost>>

LoseNtp ==
  /\ ntp /\ ntp' = FALSE
  /\ UNCHANGED <<time, skew, mono, boot, mark, run, anchor, records, pass, unseen, lost>>

Boot ==
  /\ boot < MaxBoots /\ boot' = boot + 1 /\ mono' = 0 /\ ntp' = FALSE /\ skew' \in Skews
  /\ run' = "off" /\ pass' = NoPass
  /\ UNCHANGED <<time, mark, anchor, records, unseen, lost>>

Record ==
  /\ run = "on" /\ Cardinality(records) + Cardinality(lost) < MaxRecords
  /\ records' = records \cup {[at |-> time, stamp |-> time + anchor]}
  /\ UNCHANGED <<world, mark, run, anchor, pass, unseen, lost>>

Exit == run # "off" /\ run' = "off" /\ UNCHANGED <<world, mark, anchor, records, pass, unseen, lost>>

-----------------------------------------------------------------------------
Begin(purpose) ==
  /\ pass = NoPass /\ (purpose = "startup" => run = "off")
  /\ pass' = [role |-> purpose, utc |-> time + skew, mono |-> mono, boot |-> boot, off |-> skew]
  /\ UNCHANGED <<world, mark, run, anchor, records, unseen, lost>>

Distance(a, b) == IF a < b THEN b - a ELSE a - b

Jump ==
  /\ mark # NoMark
  /\ \/ mark.boot # pass.boot
     \/ Distance(pass.utc - mark.utc, pass.mono - mark.mono) > Threshold

\* Mutant: NTP is asked only when the configuration requires it.
SafeByConfig == (RequireNtp => ntp) /\ (Jump => mark.pending)

Safe == (RequireNtp => ntp) /\ (Jump => ntp /\ mark.pending)

Expired(a) == pass.utc - a.stamp >= Retention /\ a.stamp <= pass.utc + MaxFuture

\* Past the retention it makes no difference how much more there is.
Seen(further) == IF unseen + further < Retention THEN unseen + further ELSE Retention

\* What an accepted pass did not see: without a mark and NTP how wrong the clock
\* is; of a clock that NTP vouches for, a step since it was read; and of one
\* that agrees with the mark, what is within the threshold.
Overlooked ==
  IF mark = NoMark /\ ~RequireNtp THEN Distance(pass.off, 0)
  ELSE IF mark = NoMark \/ Jump THEN Distance(pass.off, skew)
  ELSE IF Distance(pass.off, mark.off) <= Threshold THEN Distance(pass.off, mark.off)
  ELSE 0

Accept ==
  LET gone == {a \in records : Expired(a)}
  IN  /\ mark' = [utc |-> pass.utc, mono |-> pass.mono, boot |-> pass.boot, pending |-> FALSE,
                  off |-> pass.off]
      /\ records' = records \ gone
      /\ unseen' = Seen(Overlooked)
      /\ lost' = lost \cup {[at |-> a.at, deleted |-> time, unseen |-> unseen'] : a \in gone}
      /\ run' = IF pass.role = "startup" THEN "starting" ELSE run

\* A jump is put down, unless NTP was required and does not hold.
Refuse ==
  /\ mark' = IF (RequireNtp => ntp) THEN [mark EXCEPT !.pending = TRUE] ELSE mark
  /\ UNCHANGED <<run, records, unseen, lost>>

Decide ==
  /\ pass # NoPass /\ pass' = NoPass
  /\ IF Safe THEN Accept ELSE Refuse
  /\ UNCHANGED <<world, anchor>>

\* Nobody checks the clock that a run begins with.
Run ==
  /\ run = "starting" /\ run' = "on"
  /\ anchor' = skew /\ unseen' = Seen(Distance(skew, mark.off))
  /\ UNCHANGED <<world, mark, records, pass, lost>>

Next ==
  \/ Tick \/ SetClock \/ GainNtp \/ LoseNtp \/ Boot \/ Record \/ Exit
  \/ Begin("startup") \/ Begin("cleanup") \/ Decide \/ Run

Spec == Init /\ [][Next]_vars

-----------------------------------------------------------------------------
(* Properties.                                                             *)

\* By true time no recording is deleted earlier than its retention period less
\* what the clock moved, so far, where nothing checks it: within the threshold
\* from one accepted pass to the next, between the reading of the clock and that
\* of NTP, between the pass that lets a run start and its first stamp, and
\* before a first pass that does not ask for NTP.  Any other jump of the clock
\* pauses the deletion until NTP holds the clock (clock_safe(), cleanup()).
YoungAreKept == \A a \in lost : a.deleted - a.at >= Retention - a.unseen

=============================================================================
