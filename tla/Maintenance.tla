----------------------------- MODULE Maintenance -----------------------------
(***************************************************************************)
(* What stands between the program and what earlier runs left behind: the  *)
(* ledger and its marker (StorageOwner), the probes on the remote          *)
(* (StartupProbe), the clock that the cleanup deletes by (CleanupClock),   *)
(* and the workers of one program after the other (AutoMaintenance).  They *)
(* share no state; what they promise together is stated here.              *)
(***************************************************************************)
EXTENDS StorageOwner

CONSTANTS
  Ids, MaxAttempts, RemoveAfter,                            \* StartupProbe
  RequireNtp, Retention, Threshold, MaxFuture, Skews,
  MaxTime, MaxBoots, MaxRecords,                            \* CleanupClock
  Programs, MayCrash                                        \* AutoMaintenance

VARIABLES
  \* StartupProbe; pc and kills are those of StorageOwner
  rows, old, local, remote, startPc, id, attempt, orphans, todo, step, used, startKills,
  astray,
  \* CleanupClock
  time, skew, mono, boot, ntp, mark, run, anchor, records, pass, unseen, lost,
  \* AutoMaintenance
  main, worker, term, tied, role, due, helper

Probe == INSTANCE StartupProbe WITH pc <- startPc, kills <- startKills
Clock == INSTANCE CleanupClock
Workers == INSTANCE AutoMaintenance

\* What the remote holds, or may yet come to hold, the ledger still records as
\* a probe, unless a start whose status file failed repeated the copy after its
\* row was deleted (storage_maintenance.py probe() and stale_probes()).
RemoteIsRecorded == Probe!RemoteIsRecorded

\* By true time nothing is deleted earlier than its retention less what the
\* clock moved where no check looks (storage_maintenance.py clock_safe() and
\* cleanup()).
YoungAreKept == Clock!YoungAreKept

\* A program that was stopped, or whose worker failed, leaves no worker and no
\* helper behind, and two workers are never in their loops (storage_config.cpp
\* stop() and check(), storage_auto.py serve()).
WorkersAreAlone == Workers!EndsAlone /\ Workers!OneWorker
=============================================================================
