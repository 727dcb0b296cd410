-------------------------- MODULE ArtifactLifecycle --------------------------
(***************************************************************************)
(* The life of an observation file and of its quick-look image, from       *)
(* WRITING to DELETED (src/scripts/storage_maintenance.py, generate_       *)
(* quicklook.py, solar_storage/ledger.py and ownership.py): the writer in  *)
(* the program, the cleanup worker, the sync worker and the generator it   *)
(* starts share a ledger, a directory and one lock file per artifact, and  *)
(* any of them may be killed between two steps.                            *)
(*                                                                         *)
(* A lock is held on an inode: open() and flock() are two steps, and the   *)
(* cleanup unlinks the lock file of what it deleted.  A row is listed once *)
(* per pass and read again under the lock.  Of time there is "expired";    *)
(* ages, backoffs and failing transfers are choices.  A digest is the      *)
(* content it is of: 0 none, 1 as written, 2 edited since.                 *)
(***************************************************************************)
EXTENDS Integers, Sequences, FiniteSets

CONSTANTS KeepUnverified,  \* ~delete_unuploaded_expired
          SyncEnabled, QuicklookEnabled,
          TombstoneMax,    \* tombstone_max_rows
          MaxAttempts,     \* max_attempts of a quick-look and of an upload
          MaxCrashes, MaxEdits   \* bounds on what goes wrong

LifecycleAssumption ==
  /\ {KeepUnverified, SyncEnabled, QuicklookEnabled} \subseteq BOOLEAN
  /\ {TombstoneMax, MaxAttempts, MaxCrashes, MaxEdits} \subseteq Nat

Ids == {"h5", "png"}
Procs == {"writer", "cleanup", "sync", "generator"}
Workers == {"cleanup", "sync"}

VARIABLES
  row,      \* table artifact
  upload,   \* table job, kind upload, for the one destination
  look,     \* table job, kind quicklook
  quota,    \* png_reserved, png_committed
  file, tmp,   \* contents under the final name, and whether the .tmp is there
  remote,
  inode,    \* inode of the lock file, 0: none
  held,     \* locks held
  pc, at, fd, rows,  \* of each process: place, artifact, file opened, rows listed
  verified, \* recovery: what is under the final name; sync: digest of the upload
  old,      \* whether the artifact is expired at the time of the pass
  expired, crashes, edits

ledger == <<row, upload, look, quota>>
disk   == <<file, tmp, remote>>
locks  == <<inode, held>>
local  == <<pc, at, fd, rows, verified, old>>
world  == <<expired, crashes, edits>>
vars == <<ledger, disk, locks, local, world>>

NoRow == [state |-> "none", digest |-> 0, gen |-> 0, pngCap |-> 0]
NoJob == [status |-> "none", digest |-> 0, tries |-> 0]

Init ==
  /\ row = [i \in Ids |-> NoRow] /\ upload = [i \in Ids |-> NoJob] /\ look = NoJob
  /\ quota = [reserved |-> 0, committed |-> 0]
  /\ file = [i \in Ids |-> 0] /\ tmp = [i \in Ids |-> FALSE] /\ remote = [i \in Ids |-> 0]
  /\ inode = [i \in Ids |-> 0] /\ held = {}
  /\ pc = [p \in Procs |-> IF p = "writer" THEN "start" ELSE "idle"]
  /\ at = [p \in Procs |-> "h5"] /\ fd = [p \in Procs |-> 0] /\ rows = [p \in Procs |-> <<>>]
  /\ verified = [p \in Procs |-> 0] /\ old = [p \in Workers |-> FALSE]
  /\ expired = FALSE /\ crashes = 0 /\ edits = 0

Goto(p, place) == pc' = [pc EXCEPT ![p] = place]
At(p, place) == pc[p] = place

-----------------------------------------------------------------------------
(* ownership.py: lock().                                                   *)

InUse == {inode[i] : i \in Ids} \cup {fd[p] : p \in Procs} \cup {h.inode : h \in held}
Fresh == CHOOSE n \in 1 .. Cardinality(InUse) + 1 : n \notin InUse

Open(p, i) ==
  /\ inode' = [inode EXCEPT ![i] = IF @ = 0 THEN Fresh ELSE @]
  /\ fd' = [fd EXCEPT ![p] = inode'[i]]
  /\ at' = [at EXCEPT ![p] = i]
  /\ UNCHANGED held

\* Mutant: nobody is in the way.
FreeAlways(p, mode) == TRUE

Free(p, mode) ==
  \A h \in held : h.inode = fd[p] => mode = "shared" /\ h.mode = "shared"

\* flock, without waiting: on to "place" with the lock, to "busy" without.
TryLock(p, mode, place, busy) ==
  /\ IF Free(p, mode)
     THEN held' = held \cup {[proc |-> p, inode |-> fd[p], mode |-> mode]} /\ Goto(p, place)
     ELSE held' = held /\ Goto(p, busy)
  /\ fd' = [fd EXCEPT ![p] = 0]
  /\ UNCHANGED <<ledger, disk, inode, at, rows, verified, old, world>>

Release(p) == held' = {h \in held : h.proc # p}

-----------------------------------------------------------------------------
(* The writer: storage_pipeline.cpp and storage_budget.cpp.                *)

WriterOpen ==
  /\ At("writer", "start") /\ Open("writer", "h5") /\ Goto("writer", "lock")
  /\ UNCHANGED <<ledger, disk, rows, verified, old, world>>

WriterLock == At("writer", "lock") /\ TryLock("writer", "exclusive", "reserve", "end")

\* Reserve the quota of the file and of its image.
Reserve ==
  /\ At("writer", "reserve") /\ Goto("writer", "write")
  /\ row' = [row EXCEPT !["h5"] = [state |-> "WRITING", digest |-> 0, gen |-> 0,
                                   pngCap |-> IF QuicklookEnabled THEN 1 ELSE 0]]
  /\ quota' = [quota EXCEPT !.reserved = @ + IF QuicklookEnabled THEN 1 ELSE 0]
  /\ UNCHANGED <<upload, look, disk, locks, at, fd, rows, verified, old, world>>

Write ==
  /\ At("writer", "write") /\ Goto("writer", "publish")
  /\ tmp' = [tmp EXCEPT !["h5"] = TRUE]
  /\ UNCHANGED <<ledger, file, remote, locks, at, fd, rows, verified, old, world>>

Publish ==
  /\ At("writer", "publish") /\ file["h5"] = 0 /\ Goto("writer", "ready")
  /\ file' = [file EXCEPT !["h5"] = 1] /\ tmp' = [tmp EXCEPT !["h5"] = FALSE]
  /\ UNCHANGED <<ledger, remote, locks, at, fd, rows, verified, old, world>>

\* Its own ready() leaves the digest to the first upload.
WriterReady ==
  /\ At("writer", "ready") /\ row["h5"].state = "WRITING" /\ Goto("writer", "end")
  /\ row' = [row EXCEPT !["h5"].state = "READY"]
  /\ Release("writer")
  /\ UNCHANGED <<upload, look, quota, disk, inode, at, fd, rows, verified, old, world>>

\* An exception of any of these: quarantined, under whichever name it is.
WriterFails ==
  /\ pc["writer"] \in {"write", "publish", "ready"} /\ crashes < MaxCrashes
  /\ Goto("writer", "end") /\ Release("writer") /\ crashes' = crashes + 1
  /\ row' = IF row["h5"].state = "WRITING"
            THEN [row EXCEPT !["h5"].state = "QUARANTINED", !["h5"].gen = @ + 1] ELSE row
  /\ UNCHANGED <<upload, look, quota, disk, inode, at, fd, rows, verified, old, expired, edits>>

-----------------------------------------------------------------------------
(* recover(), at the start of every pass.                                  *)

Listed(wanted) ==
  LET Part(i) == IF row[i].state \in wanted THEN <<[id |-> i, row |-> row[i]]>> ELSE <<>>
  IN  Part("h5") \o Part("png")

Begin(p) ==
  /\ At(p, "idle") /\ (p = "sync" => SyncEnabled \/ QuicklookEnabled)
  /\ rows' = [rows EXCEPT ![p] = Listed({"WRITING"})] /\ Goto(p, "recover")
  /\ UNCHANGED <<ledger, disk, locks, at, fd, verified, old, world>>

RecoverNext(p) ==
  /\ At(p, "recover")
  /\ IF rows[p] = <<>>
     THEN /\ rows' = [rows EXCEPT ![p] =
                        Listed({"WRITING", "READY", "DELETE_PENDING", "QUARANTINED"})]
          /\ old' = [old EXCEPT ![p] = expired] /\ Goto(p, "row")
          /\ UNCHANGED <<inode, held, fd, at>>
     ELSE /\ Open(p, Head(rows[p]).id) /\ Goto(p, "recover_lock")
          /\ rows' = [rows EXCEPT ![p] = Tail(@)] /\ UNCHANGED old
  /\ UNCHANGED <<ledger, disk, verified, world>>

RecoverLock(p) == At(p, "recover_lock") /\ TryLock(p, "exclusive", "recover_check", "recover")

\* Is there a final name, and what is in it?
RecoverCheck(p) ==
  /\ At(p, "recover_check") /\ Goto(p, "recover_fix")
  /\ verified' = [verified EXCEPT ![p] = file[at[p]]]
  /\ UNCHANGED <<ledger, disk, locks, at, fd, rows, old, world>>

\* Mutant: what was not published is left as it is.
RecoverPublished(p) ==
  /\ At(p, "recover_fix") /\ Goto(p, "recover") /\ Release(p)
  /\ row' = IF row[at[p]].state # "WRITING" \/ verified[p] = 0 THEN row
            ELSE [row EXCEPT ![at[p]].state = "READY", ![at[p]].digest = verified[p]]
  /\ verified' = [verified EXCEPT ![p] = 0]
  /\ UNCHANGED <<upload, look, quota, disk, inode, at, fd, rows, old, world>>

\* What has its final name may still be over its cap, malformed or unreadable.
RecoverFix(p) ==
  /\ At(p, "recover_fix") /\ Goto(p, "recover") /\ Release(p)
  /\ \E valid \in {verified[p] # 0, FALSE} :
       row' = IF row[at[p]].state # "WRITING" THEN row
              ELSE IF valid
              THEN [row EXCEPT ![at[p]].state = "READY", ![at[p]].digest = verified[p]]
              ELSE [row EXCEPT ![at[p]].state = "QUARANTINED", ![at[p]].gen = @ + 1]
  /\ verified' = [verified EXCEPT ![p] = 0]
  /\ UNCHANGED <<upload, look, quota, disk, inode, at, fd, rows, old, world>>

\* The next row of the list; after the last, the end of the pass.
NextRow(p) == rows' = [rows EXCEPT ![p] = Tail(@)] /\ Goto(p, "row")

-----------------------------------------------------------------------------
(* cleanup().                                                              *)

\* Mutant: what is expired need not be uploaded.
DueUnverified(a, orphan, known) ==
  old["cleanup"] \/ (a.row.state = "QUARANTINED" /\ orphan) \/ a.row.state = "DELETE_PENDING"

Due(a, orphan, known) ==
  /\ old["cleanup"] \/ (a.row.state = "QUARANTINED" /\ orphan) \/ a.row.state = "DELETE_PENDING"
  /\ ~(old["cleanup"] /\ KeepUnverified /\ ~known /\ a.row.state # "DELETE_PENDING")

\* identity() may fail, and then nothing is known to be uploaded.
CleanupRow(orphan, identity) ==
  LET a     == Head(rows["cleanup"])
      known == /\ identity /\ a.row.digest # 0
               /\ upload[a.id].status = "VERIFIED" /\ upload[a.id].digest = a.row.digest
  IN
  /\ At("cleanup", "row") /\ rows["cleanup"] # <<>>
  /\ IF Due(a, orphan, known)
     THEN Open("cleanup", a.id) /\ Goto("cleanup", "lock") /\ UNCHANGED rows
     ELSE NextRow("cleanup") /\ UNCHANGED <<locks, fd, at>>
  /\ UNCHANGED <<ledger, disk, verified, old, world>>

CleanupLock == At("cleanup", "lock") /\ TryLock("cleanup", "exclusive", "pend", "busy")

Busy(p) ==
  /\ At(p, "busy") /\ NextRow(p)
  /\ UNCHANGED <<ledger, disk, locks, at, fd, verified, old, world>>

\* Under the lock the row is read again; the intent is in the ledger first.
CleanupPend ==
  LET i == at["cleanup"] IN
  /\ At("cleanup", "pend")
  /\ IF row[i].state \in {"none", "DELETED"}
     THEN NextRow("cleanup") /\ Release("cleanup") /\ UNCHANGED row
     ELSE /\ Goto("cleanup", "unlink") /\ UNCHANGED <<rows, held>>
          /\ row' = IF row[i].state = "DELETE_PENDING" THEN row
                    ELSE [row EXCEPT ![i].state = "DELETE_PENDING", ![i].gen = @ + 1]
  /\ UNCHANGED <<upload, look, quota, disk, inode, at, fd, verified, old, world>>

CleanupUnlink ==
  /\ At("cleanup", "unlink") /\ Goto("cleanup", "unlink_tmp")
  /\ file' = [file EXCEPT ![at["cleanup"]] = 0]
  /\ UNCHANGED <<ledger, tmp, remote, locks, at, fd, rows, verified, old, world>>

\* Mutant: the name with .tmp is forgotten.
CleanupTmpForgotten ==
  /\ At("cleanup", "unlink_tmp") /\ Goto("cleanup", "deleted")
  /\ UNCHANGED <<ledger, disk, locks, at, fd, rows, verified, old, world>>

CleanupTmp ==
  /\ At("cleanup", "unlink_tmp") /\ Goto("cleanup", "deleted")
  /\ tmp' = [tmp EXCEPT ![at["cleanup"]] = FALSE]
  /\ UNCHANGED <<ledger, file, remote, locks, at, fd, rows, verified, old, world>>

CleanupDeleted ==
  /\ At("cleanup", "deleted") /\ Goto("cleanup", "unlock") /\ Release("cleanup")
  /\ row' = IF row[at["cleanup"]].state = "DELETE_PENDING"
            THEN [row EXCEPT ![at["cleanup"]].state = "DELETED"] ELSE row
  /\ UNCHANGED <<upload, look, quota, disk, inode, at, fd, rows, verified, old, world>>

\* The lock file goes after the lock.
CleanupUnlock ==
  /\ At("cleanup", "unlock") /\ NextRow("cleanup")
  /\ inode' = [inode EXCEPT ![at["cleanup"]] = 0]
  /\ UNCHANGED <<ledger, disk, held, at, fd, verified, old, world>>

\* Of the deleted rows the last are kept.
CleanupEnd(gone) ==
  /\ At("cleanup", "row") /\ rows["cleanup"] = <<>> /\ Goto("cleanup", "idle")
  /\ LET deleted == {i \in Ids : row[i].state = "DELETED"}
     IN  /\ gone \subseteq deleted
         /\ Cardinality(gone) = IF Cardinality(deleted) <= TombstoneMax THEN 0
                                ELSE Cardinality(deleted) - TombstoneMax
  /\ row' = [i \in Ids |-> IF i \in gone THEN NoRow ELSE row[i]]
  /\ upload' = [i \in Ids |-> IF i \in gone THEN NoJob ELSE upload[i]]
  /\ look' = IF "h5" \in gone THEN NoJob ELSE look
  /\ old' = [old EXCEPT !["cleanup"] = FALSE]
  /\ UNCHANGED <<quota, disk, locks, at, fd, rows, verified, world>>

-----------------------------------------------------------------------------
(* sync().                                                                 *)

\* Mutant: whatever became of the artifact.
CurrentAlways(a) == TRUE

\* set_job(): only for an artifact that is as it was listed.
Current(a) == row[a.id].state = "READY" /\ row[a.id].gen = a.row.gen

Job(job, status, digest) == [status |-> status, digest |-> digest, tries |-> job.tries + 1]

SetLook(a, status) ==
  /\ look' = IF Current(a) THEN Job(look, status, 0) ELSE look
  /\ UNCHANGED upload
SetUpload(a, status, digest) ==
  /\ upload' = IF Current(a) THEN [upload EXCEPT ![a.id] = Job(@, status, digest)] ELSE upload
  /\ UNCHANGED look

\* Not ready, expired, or too young.
SyncSkip(young) ==
  /\ At("sync", "row") /\ rows["sync"] # <<>>
  /\ Head(rows["sync"]).row.state # "READY" \/ old["sync"] \/ young
  /\ NextRow("sync")
  /\ UNCHANGED <<ledger, disk, locks, at, fd, verified, old, world>>

\* The generator is another process; one at a time works.
SyncRow(wait) ==
  LET a == Head(rows["sync"])
      wanted == /\ a.id = "h5" /\ QuicklookEnabled /\ ~wait
                /\ look.status # "VERIFIED" /\ look.tries < MaxAttempts
  IN
  /\ At("sync", "row") /\ rows["sync"] # <<>> /\ a.row.state = "READY" /\ ~old["sync"]
  /\ pc' = IF wanted /\ pc["generator"] = "idle"
           THEN [pc EXCEPT !["sync"] = "look", !["generator"] = "begin"]
           ELSE [pc EXCEPT !["sync"] = "job"]
  /\ UNCHANGED <<ledger, disk, locks, at, fd, rows, verified, old, world>>

Exits == {"ok", "skip", "bad"}
GeneratorGone == /\ held' = {h \in held : h.proc # "generator"}
                 /\ fd' = [fd EXCEPT !["generator"] = 0]

LookDone ==
  /\ At("sync", "look") /\ pc["generator"] \in Exits
  /\ IF pc["generator"] = "skip" THEN UNCHANGED <<look, upload>>
     ELSE SetLook(Head(rows["sync"]), IF pc["generator"] = "ok" THEN "VERIFIED" ELSE "FAILED")
  /\ pc' = [pc EXCEPT !["sync"] = "job", !["generator"] = "idle"] /\ GeneratorGone
  /\ UNCHANGED <<row, quota, disk, inode, at, rows, verified, old, world>>

\* It takes too long, and is killed.
LookTimeout ==
  /\ At("sync", "look") /\ pc["generator"] \notin Exits /\ crashes < MaxCrashes
  /\ crashes' = crashes + 1
  /\ SetLook(Head(rows["sync"]), "FAILED")
  /\ pc' = [pc EXCEPT !["sync"] = "job", !["generator"] = "idle"] /\ GeneratorGone
  /\ UNCHANGED <<row, quota, disk, inode, at, rows, verified, old, expired, edits>>

\* Verified before: looked at; else, unless it waits or was tried enough, uploaded.
SyncJob(wait) ==
  LET a == Head(rows["sync"])
      j == upload[a.id]
      done == j.status = "VERIFIED" /\ j.digest = a.row.digest
  IN
  /\ At("sync", "job")
  /\ IF ~SyncEnabled \/ (~done /\ (wait \/ j.tries >= MaxAttempts))
     THEN NextRow("sync") /\ UNCHANGED <<locks, fd, at>>
     ELSE /\ Open("sync", a.id) /\ Goto("sync", IF done THEN "check_lock" ELSE "up_lock")
          /\ UNCHANGED rows
  /\ UNCHANGED <<ledger, disk, verified, old, world>>

CheckLock == At("sync", "check_lock") /\ TryLock("sync", "shared", "check", "busy")
UploadLock == At("sync", "up_lock") /\ TryLock("sync", "shared", "up_row", "busy")

\* A verified file that changed is quarantined; one that is gone ends the pass.
Check ==
  LET a == Head(rows["sync"]) IN
  /\ At("sync", "check") /\ Release("sync")
  /\ IF file[a.id] = 0
     THEN /\ Goto("sync", "idle") /\ UNCHANGED row
          /\ rows' = [rows EXCEPT !["sync"] = <<>>] /\ old' = [old EXCEPT !["sync"] = FALSE]
     ELSE /\ NextRow("sync")
          /\ row' = IF file[a.id] # a.row.digest /\ row[a.id].state = "READY"
                    THEN [row EXCEPT ![a.id].state = "QUARANTINED", ![a.id].gen = @ + 1]
                    ELSE row
          /\ UNCHANGED old
  /\ UNCHANGED <<upload, look, quota, disk, inode, at, fd, verified, world>>

\* The row again, then the local file against it.
UploadRow ==
  LET a == Head(rows["sync"])
      now == row[a.id] IN
  /\ At("sync", "up_row")
  /\ IF now.state # "READY" \/ expired
     THEN Goto("sync", "up_end") /\ UNCHANGED <<row, rows, verified>>
     ELSE /\ row' = IF now.digest = 0 THEN [row EXCEPT ![a.id].digest = file[a.id]] ELSE row
          /\ rows' = [rows EXCEPT !["sync"] = <<[id |-> a.id, row |-> row'[a.id]]>> \o Tail(@)]
          /\ verified' = [verified EXCEPT !["sync"] = file[a.id]]
          /\ Goto("sync", IF file[a.id] = 0 \/ file[a.id] # row'[a.id].digest
                          THEN "up_fail" ELSE "copy")
  /\ UNCHANGED <<upload, look, quota, disk, locks, at, fd, old, world>>

\* A copy that fails may be there, and one that works may not.
Copy(works, stored) ==
  /\ At("sync", "copy") /\ Goto("sync", IF works THEN "verify" ELSE "up_fail")
  /\ remote' = IF stored THEN [remote EXCEPT ![at["sync"]] = file[at["sync"]]] ELSE remote
  /\ UNCHANGED <<ledger, file, tmp, locks, at, fd, rows, verified, old, world>>

Verify(works) ==
  /\ At("sync", "verify")
  /\ Goto("sync", IF works /\ remote[at["sync"]] = verified["sync"] THEN "post" ELSE "up_fail")
  /\ UNCHANGED <<ledger, disk, locks, at, fd, rows, verified, old, world>>

PostVerify ==
  /\ At("sync", "post")
  /\ IF file[at["sync"]] = verified["sync"]
     THEN /\ SetUpload(Head(rows["sync"]), "VERIFIED", verified["sync"])
          /\ Goto("sync", "up_end")
     ELSE Goto("sync", "up_fail") /\ UNCHANGED <<upload, look>>
  /\ UNCHANGED <<row, quota, disk, locks, at, fd, rows, verified, old, world>>

UploadFails ==
  /\ At("sync", "up_fail") /\ Goto("sync", "up_end")
  /\ SetUpload(Head(rows["sync"]), "FAILED", 0)
  /\ UNCHANGED <<row, quota, disk, locks, at, fd, rows, verified, old, world>>

UploadEnd ==
  /\ At("sync", "up_end") /\ NextRow("sync") /\ Release("sync")
  /\ verified' = [verified EXCEPT !["sync"] = 0]
  /\ UNCHANGED <<ledger, disk, inode, at, fd, old, world>>

SyncEnd ==
  /\ At("sync", "row") /\ rows["sync"] = <<>> /\ Goto("sync", "idle")
  /\ old' = [old EXCEPT !["sync"] = FALSE]
  /\ UNCHANGED <<ledger, disk, locks, at, fd, rows, verified, world>>

-----------------------------------------------------------------------------
(* The generator: generate_quicklook.py, with ledger.prepare_png().        *)

\* One way or the other the process ends, and its locks with it.
Exit(how) == Goto("generator", how) /\ Release("generator")

GenBegin ==
  /\ At("generator", "begin")
  /\ CASE row["h5"].state # "READY" -> Goto("generator", "bad") /\ UNCHANGED <<inode, fd, at, held>>
       [] row["h5"].state = "READY" /\ row["png"].state = "READY" ->
            /\ Goto("generator", IF file["png"] # 0 /\ file["png"] = row["png"].digest
                                 THEN "ok" ELSE "bad")
            /\ UNCHANGED <<inode, fd, at, held>>
       [] row["h5"].state = "READY" /\ row["png"].state # "READY" /\ expired ->
            Goto("generator", "ok") /\ UNCHANGED <<inode, fd, at, held>>
       [] OTHER -> Open("generator", "h5") /\ Goto("generator", "parent_lock")
  /\ UNCHANGED <<ledger, disk, rows, verified, old, world>>

GenParentLock ==
  At("generator", "parent_lock") /\ TryLock("generator", "shared", "render", "skip")

Render ==
  /\ At("generator", "render")
  /\ IF file["h5"] = 0 THEN Exit("bad") /\ UNCHANGED <<inode, fd, at>>
     ELSE Open("generator", "png") /\ Goto("generator", "png_lock")
  /\ UNCHANGED <<ledger, disk, rows, verified, old, world>>

GenLock ==
  At("generator", "png_lock") /\ TryLock("generator", "exclusive", "prepare", "skip")

\* Mutant: the row of the parent keeps the share it gave.
PrepareKeepsCap ==
  /\ At("generator", "prepare")
  /\ CASE row["h5"].state # "READY" -> Exit("bad") /\ UNCHANGED <<row, quota>>
       [] row["h5"].state = "READY" /\ row["png"].state = "READY" ->
            Exit("ok") /\ UNCHANGED <<row, quota>>
       [] row["h5"].state = "READY" /\ row["png"].state = "WRITING" ->
            Goto("generator", "temp") /\ UNCHANGED <<held, row, quota>>
       [] row["h5"].state = "READY" /\ row["png"].state = "none" /\ row["h5"].pngCap > 0 ->
            /\ row' = [row EXCEPT !["png"] = [state |-> "WRITING", digest |-> 0, gen |-> 0,
                                              pngCap |-> 0]]
            /\ quota' = [reserved |-> quota.reserved - row["h5"].pngCap,
                         committed |-> quota.committed + row["h5"].pngCap]
            /\ Goto("generator", "temp") /\ UNCHANGED held
       [] OTHER -> Exit("bad") /\ UNCHANGED <<row, quota>>
  /\ UNCHANGED <<upload, look, disk, inode, at, fd, rows, verified, old, world>>

\* The row of the image, once: the share of the parent is consumed.
Prepare ==
  /\ At("generator", "prepare")
  /\ CASE row["h5"].state # "READY" -> Exit("bad") /\ UNCHANGED <<row, quota>>
       [] row["h5"].state = "READY" /\ row["png"].state = "READY" ->
            Exit("ok") /\ UNCHANGED <<row, quota>>
       [] row["h5"].state = "READY" /\ row["png"].state = "WRITING" ->
            Goto("generator", "temp") /\ UNCHANGED <<held, row, quota>>
       [] row["h5"].state = "READY" /\ row["png"].state = "none" /\ row["h5"].pngCap > 0 ->
            /\ row' = [row EXCEPT !["png"] = [state |-> "WRITING", digest |-> 0, gen |-> 0,
                                              pngCap |-> 0],
                                  !["h5"].pngCap = 0]
            /\ quota' = [reserved |-> quota.reserved - row["h5"].pngCap,
                         committed |-> quota.committed + row["h5"].pngCap]
            /\ Goto("generator", "temp") /\ UNCHANGED held
       [] OTHER -> Exit("bad") /\ UNCHANGED <<row, quota>>
  /\ UNCHANGED <<upload, look, disk, inode, at, fd, rows, verified, old, world>>

\* O_EXCL; a temporary name left by a generator that was killed ends it.
GenTemp ==
  /\ At("generator", "temp")
  /\ IF tmp["png"] THEN Exit("bad") /\ UNCHANGED tmp
     ELSE Goto("generator", "link") /\ tmp' = [tmp EXCEPT !["png"] = TRUE] /\ UNCHANGED held
  /\ UNCHANGED <<ledger, file, remote, inode, at, fd, rows, verified, old, world>>

GenLink ==
  /\ At("generator", "link")
  /\ IF file["png"] # 0 THEN Exit("bad") /\ UNCHANGED file
     ELSE Goto("generator", "untemp") /\ file' = [file EXCEPT !["png"] = 1] /\ UNCHANGED held
  /\ UNCHANGED <<ledger, tmp, remote, inode, at, fd, rows, verified, old, world>>

GenUntemp ==
  /\ At("generator", "untemp") /\ Goto("generator", "ready")
  /\ tmp' = [tmp EXCEPT !["png"] = FALSE]
  /\ UNCHANGED <<ledger, file, remote, locks, at, fd, rows, verified, old, world>>

GenReady ==
  /\ At("generator", "ready")
  /\ IF row["png"].state = "WRITING"
     THEN Exit("ok") /\ row' = [row EXCEPT !["png"].state = "READY", !["png"].digest = 1]
     ELSE Exit("bad") /\ UNCHANGED row
  /\ UNCHANGED <<upload, look, quota, disk, inode, at, fd, rows, verified, old, world>>

\* Nobody waits for it any more.
GeneratorReaped ==
  /\ pc["generator"] \in Exits /\ ~At("sync", "look") /\ Goto("generator", "idle")
  /\ GeneratorGone
  /\ UNCHANGED <<ledger, disk, inode, at, rows, verified, old, world>>

-----------------------------------------------------------------------------
(* What happens to them.                                                   *)

Expire ==
  /\ ~expired /\ expired' = TRUE
  /\ UNCHANGED <<ledger, disk, locks, local, crashes, edits>>

\* Somebody rewrites a published file.
Edit(i) ==
  /\ file[i] = 1 /\ edits < MaxEdits /\ edits' = edits + 1
  /\ file' = [file EXCEPT ![i] = 2]
  /\ UNCHANGED <<ledger, tmp, remote, locks, local, expired, crashes>>

\* Killed: the kernel drops its descriptors.  A worker is started again; the
\* generator of a killed sync goes on.
Crash(p) ==
  /\ crashes < MaxCrashes /\ crashes' = crashes + 1
  /\ pc[p] \notin {"idle", "start", "end"} \cup Exits
  /\ Goto(p, CASE p = "writer" -> "end" [] p = "generator" -> "bad" [] OTHER -> "idle")
  /\ Release(p) /\ fd' = [fd EXCEPT ![p] = 0] /\ rows' = [rows EXCEPT ![p] = <<>>]
  /\ verified' = [verified EXCEPT ![p] = 0]
  /\ old' = [w \in Workers |-> w # p /\ old[w]]
  /\ UNCHANGED <<ledger, disk, inode, at, expired, edits>>

-----------------------------------------------------------------------------
WriterNext == WriterOpen \/ WriterLock \/ Reserve \/ Write \/ Publish \/ WriterReady

RecoverSteps(p) ==
  Begin(p) \/ RecoverNext(p) \/ RecoverLock(p) \/ RecoverCheck(p) \/ RecoverFix(p) \/ Busy(p)

CleanupNext ==
  \/ \E orphan, identity \in BOOLEAN : CleanupRow(orphan, identity)
  \/ CleanupLock \/ CleanupPend \/ CleanupUnlink \/ CleanupTmp \/ CleanupDeleted \/ CleanupUnlock
  \/ \E gone \in SUBSET Ids : CleanupEnd(gone)

SyncNext ==
  \/ \E young \in BOOLEAN : SyncSkip(young)
  \/ \E wait \in BOOLEAN : SyncRow(wait) \/ SyncJob(wait)
  \/ LookDone \/ LookTimeout \/ CheckLock \/ Check \/ UploadLock
  \/ UploadRow
  \/ \E works, stored \in BOOLEAN : Copy(works, stored)
  \/ \E works \in BOOLEAN : Verify(works)
  \/ PostVerify \/ UploadFails \/ UploadEnd \/ SyncEnd

GeneratorNext ==
  \/ GenBegin \/ GenParentLock \/ Render \/ GenLock \/ Prepare
  \/ GenTemp \/ GenLink \/ GenUntemp \/ GenReady \/ GeneratorReaped

Hazards == Expire \/ (\E i \in Ids : Edit(i)) \/ (\E p \in Procs : Crash(p)) \/ WriterFails

Next ==
  \/ WriterNext \/ CleanupNext \/ SyncNext \/ GeneratorNext
  \/ \E p \in Workers : RecoverSteps(p)
  \/ Hazards

Spec == Init /\ [][Next]_vars

\* systemd starts the workers again and again; the rest runs until it ends.
FairSpec ==
  /\ Spec
  /\ WF_vars(WriterNext) /\ WF_vars(GeneratorNext)
  /\ WF_vars(CleanupNext \/ RecoverSteps("cleanup"))
  /\ WF_vars(SyncNext \/ RecoverSteps("sync"))

-----------------------------------------------------------------------------
(* Properties.                                                             *)

States == {"none", "WRITING", "READY", "DELETE_PENDING", "QUARANTINED", "DELETED"}

\* Types; in particular no lock is held twice where one must be alone.
TypeOK ==
  /\ \A i \in Ids :
       /\ row[i].state \in States /\ row[i].digest \in 0 .. 2
       /\ upload[i].status \in {"none", "VERIFIED", "FAILED"}
       /\ {file[i], remote[i]} \subseteq 0 .. 2 /\ tmp[i] \in BOOLEAN
  /\ {quota.reserved, quota.committed} \subseteq Int
  /\ \A h, g \in held : h # g /\ h.inode = g.inode => h.mode = "shared" /\ g.mode = "shared"

\* What the ledger calls deleted, or does not know, is not in the directory,
\* under either name: cleanup, killed and raced as it may be, leaves nothing
\* that no later pass would look for.
DeletedIsGone ==
  \A i \in Ids : row[i].state \in {"none", "DELETED"} => file[i] = 0 /\ ~tmp[i]

\* While a process writes or publishes an artifact nobody recovers or deletes
\* it: its row stays WRITING, although the lock file may be unlinked and made
\* again between another's open() and flock().
LiveOwnerKeepsWriting ==
  /\ pc["writer"] \in {"write", "publish", "ready"} => row["h5"].state = "WRITING"
  /\ pc["generator"] \in {"temp", "link", "untemp", "ready"} => row["png"].state = "WRITING"

\* The share of the image is reserved once and committed at most once, and
\* there is no image that was not charged: not after a kill, a quarantine, a
\* deletion and another try of the generator.
PngChargedOnce ==
  /\ quota.reserved \in 0 .. 1 /\ quota.reserved + quota.committed <= 1
  /\ (file["png"] # 0 \/ tmp["png"]) => quota.committed = 1

\* A job that says VERIFIED speaks of what is at the destination.
VerifiedIsRemote ==
  \A i \in Ids : upload[i].status = "VERIFIED" => remote[i] = upload[i].digest

\* With deletion of unuploaded files off, no file that is READY is given up
\* unless what its row says was verified at the destination.
KeptUntilUploaded ==
  \A i \in Ids :
    row[i].state = "READY" /\ row'[i].state = "DELETE_PENDING"
      => upload[i].status = "VERIFIED" /\ upload[i].digest = row[i].digest

\* "Jobs referencing removed rows cannot transition or publish"
\* (src/scripts/storage_maintenance.py:125): a generator or an upload that ends
\* after its artifact was deleted and forgotten leaves no job behind.
JobsHaveRows ==
  \A i \in Ids : row[i].state = "none" =>
    upload[i].status = "none" /\ (i = "h5" => look.status = "none")

\* What the ledger says of the directory, of the destination and of its jobs.
LedgerIsTrue == DeletedIsGone /\ VerifiedIsRemote /\ JobsHaveRows

\* What was begun is finished: a deletion, a writing that lost its writer.
PendingEnds ==
  \A i \in Ids : row[i].state \in {"DELETE_PENDING", "WRITING"} ~>
                   row[i].state \notin {"DELETE_PENDING", "WRITING"}

\* What expires goes, if it need not be uploaded.
ExpiredIsDeleted ==
  (expired /\ ~KeepUnverified) ~> (\A i \in Ids : file[i] = 0)

=============================================================================
