---------------------------- MODULE MCMaintenance ----------------------------
(***************************************************************************)
(* The parts of Maintenance in one run: a behaviour is one part's, and the *)
(* others stay as they begin.  The clock is checked without and with       *)
(* cleanup_require_ntp_sync.                                               *)
(***************************************************************************)
EXTENDS Maintenance, Integers, TLC

VARIABLE part

probe ==
  <<rows, old, local, remote, startPc, id, attempt, orphans, todo, step, used, startKills,
    astray>>
clock == <<time, skew, mono, boot, ntp, mark, run, anchor, records, pass, unseen, lost>>
workers == <<main, worker, term, tied, role, due, helper>>

\* A clock that may be three units behind, or one ahead: within the threshold.
Off == {-3, 0, 1}

ClockNtp == INSTANCE CleanupClock WITH RequireNtp <- TRUE

ASSUME /\ Probe!ProbeAssumption /\ Clock!ClockAssumption /\ ClockNtp!ClockAssumption
       /\ Workers!MaintenanceAssumption

PartsInit ==
  /\ part \in {"owner", "probe", "clock", "clock under NTP", "workers"}
  /\ Init /\ Probe!Init /\ Clock!Init /\ Workers!Init

PartsNext ==
  \/ part = "owner" /\ Next /\ UNCHANGED <<part, probe, clock, workers>>
  \/ part = "probe" /\ Probe!Next /\ UNCHANGED <<part, vars, clock, workers>>
  \/ part = "clock" /\ Clock!Next /\ UNCHANGED <<part, vars, probe, workers>>
  \/ part = "clock under NTP" /\ ClockNtp!Next /\ UNCHANGED <<part, vars, probe, workers>>
  \/ part = "workers" /\ Workers!Next /\ UNCHANGED <<part, vars, probe, clock>>

PartsSpec == PartsInit /\ [][PartsNext]_<<part, vars, probe, clock, workers>>

Alike == Permutations(Ids)
=============================================================================
