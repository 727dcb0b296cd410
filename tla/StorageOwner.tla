---------------------------- MODULE StorageOwner ----------------------------
(***************************************************************************)
(* Who owns the data directory: the marker in it, the ledger it names, and *)
(* the start of a run that makes the two or finds them                     *)
(* (src/scripts/storage_maintenance.py run("startup"), solar_storage/      *)
(* ledger.py).  The ledger holds the quota that was charged; a start that  *)
(* began with another ledger would charge it anew.  A start may be killed  *)
(* between two steps, and the ledger may get lost or be replaced while     *)
(* nothing runs.                                                           *)
(***************************************************************************)
EXTENDS Naturals

CONSTANTS MaxFiles, MaxKills, MaxLosses   \* bounds on what happens

ASSUME BoundsAssumption == {MaxFiles, MaxKills, MaxLosses} \subseteq Nat

VARIABLES
  ledger,   \* schema: none, an empty file, version 1; uuid, 0: none; charged
  marker,   \* "none", "empty", or "written" with the uuid it names
  files,    \* files in the data directory, the marker aside
  pc,
  written,  \* history: files written ever
  kills, losses, next   \* next uuid

vars == <<ledger, marker, files, pc, written, kills, losses, next>>

NoLedger == [schema |-> "none", uuid |-> 0, charged |-> 0]
NoMarker == [state |-> "none", uuid |-> 0]

Init ==
  /\ ledger = NoLedger /\ marker = NoMarker /\ files = 0 /\ pc = "off"
  /\ written = 0 /\ kills = 0 /\ losses = 0 /\ next = 1

Admits ==
  IF marker.state = "none"
  THEN ledger.schema # "none" \/ files = 0
  ELSE marker.state = "written" /\ ledger.schema # "none"

Start ==
  /\ pc = "off" /\ pc' = IF Admits THEN "open" ELSE "refused"
  /\ UNCHANGED <<ledger, marker, files, written, kills, losses, next>>

\* Ledger.__init__: a new file is there, empty, before it has the schema; a
\* file that was there must have it.
Open ==
  /\ pc = "open"
  /\ IF ledger.schema = "none"
     THEN ledger' = [ledger EXCEPT !.schema = "empty"] /\ pc' = "schema"
     ELSE UNCHANGED ledger /\ pc' = IF ledger.schema = "empty" THEN "refused" ELSE "identify"
  /\ UNCHANGED <<marker, files, written, kills, losses, next>>

Schema ==
  /\ pc = "schema" /\ pc' = "identify"
  /\ ledger' = [ledger EXCEPT !.schema = "v1"]
  /\ UNCHANGED <<marker, files, written, kills, losses, next>>

Identify ==
  /\ pc = "identify" /\ pc' = "match"
  /\ IF ledger.uuid = 0
     THEN ledger' = [ledger EXCEPT !.uuid = next] /\ next' = next + 1
     ELSE UNCHANGED <<ledger, next>>
  /\ UNCHANGED <<marker, files, written, kills, losses>>

\* Mutant: the marker is there, whatever it names.
MatchAny ==
  /\ pc = "match"
  /\ IF marker.state = "none"
     THEN marker' = [state |-> "empty", uuid |-> 0] /\ pc' = "mark"
     ELSE UNCHANGED marker /\ pc' = "running"
  /\ UNCHANGED <<ledger, files, written, kills, losses, next>>

Match ==
  /\ pc = "match"
  /\ IF marker.state = "none"
     THEN marker' = [state |-> "empty", uuid |-> 0] /\ pc' = "mark"
     ELSE UNCHANGED marker /\ pc' = IF marker.uuid = ledger.uuid THEN "running" ELSE "refused"
  /\ UNCHANGED <<ledger, files, written, kills, losses, next>>

Mark ==
  /\ pc = "mark" /\ pc' = "running"
  /\ marker' = [state |-> "written", uuid |-> ledger.uuid]
  /\ UNCHANGED <<ledger, files, written, kills, losses, next>>

\* The run charges the quota, then writes; the cleanup deletes, and refunds
\* nothing.
WriteFile ==
  /\ pc = "running" /\ written < MaxFiles
  /\ ledger' = [ledger EXCEPT !.charged = @ + 1]
  /\ files' = files + 1 /\ written' = written + 1
  /\ UNCHANGED <<marker, pc, kills, losses, next>>

DeleteFile ==
  /\ pc = "running" /\ files > 0 /\ files' = files - 1
  /\ UNCHANGED <<ledger, marker, pc, written, kills, losses, next>>

Stop ==
  /\ pc \in {"running", "refused"} /\ pc' = "off"
  /\ UNCHANGED <<ledger, marker, files, written, kills, losses, next>>

Kill ==
  /\ pc \in {"open", "schema", "identify", "match", "mark"} /\ kills < MaxKills
  /\ pc' = "off" /\ kills' = kills + 1
  /\ UNCHANGED <<ledger, marker, files, written, losses, next>>

\* The ledger is moved away, or the one of another directory put in its place.
Lose ==
  /\ pc = "off" /\ losses < MaxLosses /\ losses' = losses + 1
  /\ \/ ledger' = NoLedger /\ UNCHANGED next
     \/ ledger' = [schema |-> "v1", uuid |-> next, charged |-> 0] /\ next' = next + 1
  /\ UNCHANGED <<marker, files, pc, written, kills>>

Next ==
  \/ Start \/ Open \/ Schema \/ Identify \/ Match \/ Mark
  \/ WriteFile \/ DeleteFile \/ Stop \/ Kill \/ Lose

Spec == Init /\ [][Next]_vars

-----------------------------------------------------------------------------
(* Properties.                                                             *)

\* What was written is charged in the ledger of the run, whatever got lost
\* before it and wherever earlier starts were killed: the quota never resets
\* (storage_maintenance.py 265 and 266).
QuotaKept == pc = "running" => ledger.charged = written

=============================================================================
