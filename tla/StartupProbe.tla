---------------------------- MODULE StartupProbe ----------------------------
(***************************************************************************)
(* The probe that a start sends to the remote and reads back before the    *)
(* hardware is switched on, and the cleanup of the probes that earlier     *)
(* starts left there (src/scripts/storage_maintenance.py probe(),          *)
(* stale_probes() and run("startup")).  A row of the ledger records a      *)
(* probe from before it is sent until it is known to be gone.              *)
(*                                                                         *)
(* A transfer may fail with or without its effect; the remote refuses to   *)
(* delete what it does not have.  The helper of a start that takes too     *)
(* long is killed (storage_config.cpp run_helper), and a copy it began is  *)
(* in a session of its own and goes on.  Of ages there is "old": past      *)
(* stale_probe_grace_sec, a day, which outlasts a start and a copy.        *)
(***************************************************************************)
EXTENDS Naturals, FiniteSets

CONSTANTS Ids,           \* one for each start
          MaxAttempts, RemoveAfter, \* max_attempts, remove_probe_after_success
          MaxKills

ProbeAssumption ==
  /\ MaxAttempts \in Nat \ {0} /\ MaxKills \in Nat
  /\ RemoveAfter \in BOOLEAN

VARIABLES
  rows, old,      \* table probe, and what in it is past the grace
  local, remote,  \* probe files on this disk; contents on the remote
  pc, id, attempt, \* the start
  orphans,        \* probes that the copy of a killed start may still deliver
  todo, step,     \* the sync worker: rows to do, and the step of one of them
  used, kills,
  astray          \* history: probes whose start went on to another attempt when
                  \* their row was gone

start == <<pc, id, attempt>>
sync  == <<todo, step>>
vars == <<rows, old, local, remote, start, orphans, sync, used, kills, astray>>

None == "none"
Contents == {"whole", "torn"}
Idle == [at |-> "idle", of |-> None]

Init ==
  /\ rows = {} /\ old = {} /\ local = {} /\ remote = [i \in Ids |-> None]
  /\ pc = "off" /\ id = None /\ attempt = 0
  /\ orphans = {} /\ todo = {} /\ step = Idle /\ used = {} /\ kills = 0
  /\ astray = {}

\* The local files of recorded probes go first.
Start ==
  /\ pc = "off" /\ pc' = "record" /\ attempt' = 1
  /\ local' = local \ rows
  /\ \E i \in Ids \ used : id' = i /\ used' = used \cup {i}
  /\ UNCHANGED <<rows, old, remote, orphans, sync, kills, astray>>

Record ==
  /\ pc = "record" /\ pc' = "write"
  /\ rows' = rows \cup {id}
  /\ UNCHANGED <<old, local, remote, id, attempt, orphans, sync, used, kills, astray>>

Write ==
  /\ pc = "write" /\ pc' = "copy"
  /\ local' = local \cup {id}
  /\ UNCHANGED <<rows, old, remote, id, attempt, orphans, sync, used, kills, astray>>

\* An attempt that failed: the next one, or none, and the local file goes.
Failed ==
  IF attempt = MaxAttempts
  THEN pc' = "off" /\ local' = local \ {id} /\ UNCHANGED attempt
  ELSE pc' = "copy" /\ attempt' = attempt + 1 /\ UNCHANGED local

Succeeded(place) == pc' = place /\ UNCHANGED <<attempt, local>>

Copy ==
  /\ pc = "copy"
  /\ \/ \E c \in Contents : remote' = [remote EXCEPT ![id] = c] /\ (Succeeded("verify") \/ Failed)
     \/ UNCHANGED remote /\ Failed
  /\ UNCHANGED <<rows, old, id, orphans, sync, used, kills, astray>>

Verify ==
  /\ pc = "verify"
  /\ \/ remote[id] = "whole" /\ Succeeded(IF RemoveAfter THEN "remove" ELSE "status")
     \/ Failed
  /\ UNCHANGED <<rows, old, remote, id, orphans, sync, used, kills, astray>>

\* Mutant: a failure to remove the probe is not one of the attempt.
RemoveQuietly ==
  /\ pc = "remove"
  /\ \/ remote' = [remote EXCEPT ![id] = None]
     \/ UNCHANGED remote
  /\ Succeeded("forget")
  /\ UNCHANGED <<rows, old, id, orphans, sync, used, kills, astray>>

Remove ==
  /\ pc = "remove"
  /\ \/ remote[id] # None /\ remote' = [remote EXCEPT ![id] = None] /\ (Succeeded("forget") \/ Failed)
     \/ UNCHANGED remote /\ Failed
  /\ UNCHANGED <<rows, old, id, orphans, sync, used, kills, astray>>

\* The ledger may be busy or full.
Forget ==
  /\ pc = "forget"
  /\ \/ rows' = rows \ {id} /\ old' = old \ {id} /\ Succeeded("status")
     \/ UNCHANGED <<rows, old>> /\ Failed
  /\ UNCHANGED <<remote, id, orphans, sync, used, kills, astray>>

\* The status file may be too long, or the disk full: that is a failure of the
\* attempt, and the next one copies again.
Status ==
  /\ pc = "status"
  /\ \/ /\ pc' = "running" /\ local' = local \ {id}
        /\ UNCHANGED <<attempt, astray>>
     \/ /\ Failed
        /\ astray' = IF pc' = "copy" /\ id \notin rows THEN astray \cup {id} ELSE astray
  /\ UNCHANGED <<rows, old, remote, id, orphans, sync, used, kills>>

Stop ==
  /\ pc = "running" /\ pc' = "off"
  /\ UNCHANGED <<rows, old, local, remote, id, attempt, orphans, sync, used, kills, astray>>

Kill ==
  /\ pc \notin {"off", "running"} /\ kills < MaxKills
  /\ pc' = "off" /\ kills' = kills + 1
  /\ orphans' = IF pc = "copy" THEN orphans \cup {id} ELSE orphans
  /\ UNCHANGED <<rows, old, local, remote, id, attempt, sync, used, astray>>

\* The copy of a killed start ends.
Late ==
  /\ \E i \in orphans :
       /\ orphans' = orphans \ {i}
       /\ remote' \in {[remote EXCEPT ![i] = c] : c \in Contents \cup {remote[i]}}
  /\ UNCHANGED <<rows, old, local, start, sync, used, kills, astray>>

Age ==
  /\ \E i \in (rows \ old) \ orphans :
       /\ pc \in {"off", "running"} \/ i # id
       /\ old' = old \cup {i}
  /\ UNCHANGED <<rows, local, remote, start, orphans, sync, used, kills, astray>>

-----------------------------------------------------------------------------
(* stale_probes(), at the end of every pass of the sync worker.            *)

SyncList ==
  /\ todo = {} /\ step = Idle /\ old # {}
  /\ todo' = old
  /\ UNCHANGED <<rows, old, local, remote, start, orphans, step, used, kills, astray>>

SyncRemove(i) ==
  /\ step = Idle /\ i \in todo /\ todo' = todo \ {i}
  /\ \/ /\ remote[i] # None /\ remote' = [remote EXCEPT ![i] = None]
        /\ step' \in {Idle, [at |-> "local", of |-> i]}
     \/ UNCHANGED <<remote, step>>
  /\ UNCHANGED <<rows, old, local, start, orphans, used, kills, astray>>

SyncLocal ==
  /\ step.at = "local" /\ step' = [step EXCEPT !.at = "forget"]
  /\ local' = local \ {step.of}
  /\ UNCHANGED <<rows, old, remote, start, orphans, todo, used, kills, astray>>

SyncForget ==
  /\ step.at = "forget" /\ step' = Idle
  /\ rows' = rows \ {step.of} /\ old' = old \ {step.of}
  /\ UNCHANGED <<local, remote, start, orphans, todo, used, kills, astray>>

KillSync ==
  /\ todo # {} \/ step # Idle
  /\ kills < MaxKills /\ kills' = kills + 1
  /\ todo' = {} /\ step' = Idle
  /\ UNCHANGED <<rows, old, local, remote, start, orphans, used, astray>>

StartNext ==
  \/ Record \/ Write \/ Copy \/ Verify \/ Remove \/ Forget \/ Status

Next ==
  \/ Start \/ StartNext \/ Stop \/ Kill \/ Late \/ Age
  \/ SyncList \/ (\E i \in Ids : SyncRemove(i)) \/ SyncLocal \/ SyncForget \/ KillSync

Spec == Init /\ [][Next]_vars

-----------------------------------------------------------------------------
(* Properties.                                                             *)

\* What is on the remote, or may still get there, is recorded, whichever step
\* fails or is killed, so that a later pass knows of it.  There is one exception:
\* a start that has removed its probe and deleted the row, and then cannot write
\* the status file, copies the probe again, and nothing records it a second time
\* (probe(), storage_maintenance.py:228-229).
RemoteIsRecorded ==
  \A i \in Ids : (remote[i] # None \/ i \in orphans) => i \in rows \cup astray

=============================================================================
