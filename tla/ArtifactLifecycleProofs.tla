------------------------ MODULE ArtifactLifecycleProofs ------------------------
(***************************************************************************)
(* ArtifactLifecycle for any choice of its constants: whoever is killed    *)
(* when, nobody recovers or deletes what another process writes, the image *)
(* is charged once, and what the ledger says is so.                        *)
(*                                                                         *)
(* A lock is on an inode, and the cleanup unlinks lock files: two          *)
(* processes may each hold "the" lock of one artifact.  SameInode says     *)
(* that they do not as long as the artifact is not gone (Gone), and being  *)
(* gone is for ever (GoneForEver).                                         *)
(***************************************************************************)
EXTENDS ArtifactLifecycle, FiniteSetTheorems, SequenceTheorems, TLAPS

Row == [state : States, digest : 0 .. 2, gen : Nat, pngCap : {0, 1}]
JobRow == [status : {"none", "VERIFIED", "FAILED"}, digest : 0 .. 2, tries : Nat]
Entry == [id : Ids, row : Row]
Lock == [proc : Procs, inode : Nat, mode : {"shared", "exclusive"}]
Locked == {h.inode : h \in held}

TypeInv ==
  /\ row \in [Ids -> Row] /\ upload \in [Ids -> JobRow] /\ look \in JobRow
  /\ quota \in [reserved : Int, committed : Int]
  /\ file \in [Ids -> 0 .. 2] /\ tmp \in [Ids -> BOOLEAN] /\ remote \in [Ids -> 0 .. 2]
  /\ inode \in [Ids -> Nat] /\ held \subseteq Lock /\ IsFiniteSet(Locked)
  /\ DOMAIN pc = Procs /\ at \in [Procs -> Ids] /\ fd \in [Procs -> Nat]
  /\ rows \in [Procs -> Seq(Entry)] /\ verified \in [Procs -> 0 .. 2]
  /\ old \in [Workers -> BOOLEAN] /\ expired \in BOOLEAN /\ crashes \in Nat /\ edits \in Nat

S(i) == row[i].state
Cap == row["h5"].pngCap

\* The writer has had its turn to reserve.
Begun == pc["writer"] \notin {"start", "lock", "reserve"}

\* There will be no such artifact any more.
Gone(i) ==
  \/ S(i) \in {"DELETE_PENDING", "DELETED"}
  \/ S(i) = "none" /\ Begun /\ (i = "png" => Cap = 0)

Past(i) == Gone(i) \/ S(i) \in {"READY", "QUARANTINED"}

\* Where a process has opened a lock file, and where it has the lock for itself.
Opening == {"lock", "recover_lock", "check_lock", "up_lock", "parent_lock", "png_lock"}
Exclusive == {"reserve", "write", "publish", "ready", "recover_check", "recover_fix", "pend",
              "unlink", "unlink_tmp", "deleted", "prepare", "temp", "link", "untemp"}

\* No lock is held twice where one must be alone.
OneOwner ==
  \A h, g \in held : h # g /\ h.inode = g.inode => h.mode = "shared" /\ g.mode = "shared"

\* The artifact that each process is at, and the entry of its list.
WriterSeat == at["writer"] = "h5"

GeneratorSeat ==
  /\ pc["generator"] \in {"parent_lock", "render"} => at["generator"] = "h5"
  /\ pc["generator"] \in {"png_lock", "prepare", "temp", "link", "untemp", "ready"} =>
       at["generator"] = "png"

CleanupSeat ==
  pc["cleanup"] \in {"lock", "busy", "pend", "unlink", "unlink_tmp", "deleted", "unlock"} =>
    rows["cleanup"] # <<>>

SyncSeat ==
  /\ pc["sync"] \in {"look", "job", "check_lock", "check", "up_lock", "up_row", "copy", "verify",
                     "post", "up_fail", "up_end", "busy"} => rows["sync"] # <<>>
  /\ pc["sync"] \in {"look", "job", "check_lock", "check", "up_lock", "up_row", "copy", "verify",
                     "post", "up_fail"} => Head(rows["sync"]).row.state = "READY"
  /\ pc["sync"] \in {"check_lock", "check", "up_lock", "up_row", "copy", "verify", "post",
                     "up_fail"} => at["sync"] = Head(rows["sync"]).id
  /\ pc["sync"] = "look" => Head(rows["sync"]).id = "h5"

Seats == WriterSeat /\ GeneratorSeat /\ CleanupSeat /\ SyncSeat

\* Before its first row the ledger is empty.
Unbegun ==
  ~Begun => /\ \A i \in Ids : S(i) = "none"
            /\ Cap = 0 /\ quota.reserved = 0 /\ quota.committed = 0

\* The share of the image is with its parent, then with the image.
Charged ==
  /\ Cap <= quota.reserved /\ quota.committed >= 0 /\ quota.reserved + quota.committed <= 1
  /\ S("png") # "none" => Cap = 0 /\ quota.committed = 1
  /\ file["png"] # 0 \/ tmp["png"] => quota.committed = 1

\* What is being deleted is gone in the ledger first.
Pending ==
  pc["cleanup"] \in {"unlink", "unlink_tmp", "deleted", "unlock"} => Gone(at["cleanup"])

\* As long as an artifact is not gone, whoever opened its lock file has the
\* one that there is, and whoever locked it has it locked.
SameInode ==
  \A p \in Procs : ~Gone(at[p]) =>
    /\ pc[p] \in Opening => fd[p] = inode[at[p]] /\ fd[p] # 0
    /\ pc[p] \in Exclusive =>
         /\ inode[at[p]] # 0
         /\ [proc |-> p, inode |-> inode[at[p]], mode |-> "exclusive"] \in held

\* The cleanup on its way from one name to the other.
Unlinked ==
  /\ pc["cleanup"] \in {"unlink_tmp", "deleted"} => file[at["cleanup"]] = 0
  /\ pc["cleanup"] = "deleted" => ~tmp[at["cleanup"]]

\* There are jobs only of what was ready, and a verified one is of the row.
Jobs ==
  \A i \in Ids :
    /\ S(i) \in {"none", "WRITING"} => upload[i].status = "none"
    /\ upload[i].status = "VERIFIED" => upload[i].digest = row[i].digest

LooksHaveRows == S("h5") = "none" => look.status = "none"

\* What was listed: as long as there is a row, that of a digest that was known
\* then, and no entry is of an earlier life.
Stands(p, e) ==
  /\ e.row.state \in {"READY", "QUARANTINED", "DELETE_PENDING"} => Past(e.id)
  /\ e.row.state \in {"QUARANTINED", "DELETE_PENDING"} => S(e.id) # "READY"
  /\ e.row.state = "WRITING" => e.row.digest = 0
  /\ e.row.state = "READY" /\ S(e.id) # "none" =>
       e.row.digest = row[e.id].digest \/ (p = "cleanup" /\ e.row.digest = 0)

Entries(p) ==
  /\ \A n \in DOMAIN rows[p] : Stands(p, rows[p][n])
  /\ \A m, n \in DOMAIN rows[p] : m # n => rows[p][m].id # rows[p][n].id

\* An upload in progress: there was none, and what it found is what it sends.
Uploading ==
  LET i == at["sync"] IN
  /\ pc["sync"] \in {"up_lock", "up_row", "copy", "verify", "post", "up_fail"} =>
       upload[i].status # "VERIFIED"
  /\ pc["sync"] \in {"copy", "verify", "post"} =>
       verified["sync"] = Head(rows["sync"]).row.digest
  /\ pc["sync"] = "post" => remote[i] = verified["sync"]

\* What the cleanup is about to give up, if it must have been uploaded.
Condemned ==
  LET i == at["cleanup"] IN
  KeepUnverified /\ pc["cleanup"] \in {"lock", "pend"} =>
    Past(i) /\ (S(i) = "READY" => upload[i].status = "VERIFIED")

WritingHasNoDigest == \A i \in Ids : S(i) \in {"none", "WRITING"} => row[i].digest = 0

IInv ==
  /\ TypeInv /\ OneOwner /\ Seats /\ Unbegun /\ Charged /\ Pending /\ SameInode
  /\ LiveOwnerKeepsWriting /\ DeletedIsGone /\ Unlinked /\ Jobs /\ LooksHaveRows
  /\ VerifiedIsRemote /\ (\A p \in Workers : Entries(p)) /\ Uploading /\ Condemned
  /\ WritingHasNoDigest
-----------------------------------------------------------------------------
(* Types.                                                                  *)

\* There is an inode that is not in use.
LEMMA FreshIsNew ==
  ASSUME TypeInv
  PROVE  Fresh \in Nat \ {0}
PROOF
<1>1. IsFiniteSet({inode[i] : i \in Ids})
  <2> DEFINE a == {inode["h5"]}
             b == {inode["png"]}
  <2>1. {inode[i] : i \in Ids} = a \cup b BY DEF Ids
  <2>2. IsFiniteSet(a) /\ IsFiniteSet(b) BY FS_Singleton
  <2> HIDE DEF a, b
  <2>3. IsFiniteSet(a \cup b) BY <2>2, FS_Union
  <2> QED BY <2>1, <2>3
<1>2. IsFiniteSet({fd[p] : p \in Procs})
  <2> DEFINE a == {fd["writer"]}
             b == {fd["cleanup"]}
             c == {fd["sync"]}
             d == {fd["generator"]}
  <2>1. {fd[p] : p \in Procs} = (a \cup b) \cup (c \cup d) BY DEF Procs
  <2>2. IsFiniteSet(a) /\ IsFiniteSet(b) /\ IsFiniteSet(c) /\ IsFiniteSet(d) BY FS_Singleton
  <2> HIDE DEF a, b, c, d
  <2>3. IsFiniteSet(a \cup b) /\ IsFiniteSet(c \cup d) BY <2>2, FS_Union
  <2>4. IsFiniteSet((a \cup b) \cup (c \cup d)) BY <2>3, FS_Union
  <2> QED BY <2>1, <2>4
<1>3. IsFiniteSet(InUse)
  <2>1. IsFiniteSet({h.inode : h \in held}) BY DEF TypeInv, Locked
  <2>2. IsFiniteSet({inode[i] : i \in Ids} \cup {fd[p] : p \in Procs}) BY <1>1, <1>2, FS_Union
  <2>3. IsFiniteSet(({inode[i] : i \in Ids} \cup {fd[p] : p \in Procs}) \cup {h.inode : h \in held})
    BY <2>1, <2>2, FS_Union
  <2> QED BY <2>3 DEF InUse
<1> DEFINE k == Cardinality(InUse)
<1>4. k \in Nat BY <1>3, FS_CardinalityType
<1>5. \E n \in 1 .. k + 1 : n \notin InUse
  <2>1. SUFFICES ASSUME 1 .. k + 1 \subseteq InUse PROVE FALSE OBVIOUS
  <2>2. Cardinality(1 .. k + 1) = k + 1 BY <1>4, FS_Interval
  <2>3. Cardinality(1 .. k + 1) <= k BY <1>3, <2>1, FS_Subset
  <2> QED BY <1>4, <2>2, <2>3
<1>6. Fresh \in 1 .. k + 1 BY <1>5 DEF Fresh
<1> QED BY <1>4, <1>6

\* What a listing has in it: each artifact once at most, as its row is.
LEMMA ListedRows ==
  ASSUME TypeInv, NEW wanted
  PROVE  /\ Listed(wanted) \in Seq(Entry)
         /\ \A n \in DOMAIN Listed(wanted) :
              /\ Listed(wanted)[n].id \in Ids
              /\ Listed(wanted)[n].row = row[Listed(wanted)[n].id]
              /\ Listed(wanted)[n].row.state \in wanted
         /\ \A m, n \in DOMAIN Listed(wanted) :
              m # n => Listed(wanted)[m].id # Listed(wanted)[n].id
PROOF
<1> DEFINE h == [id |-> "h5", row |-> row["h5"]]
           g == [id |-> "png", row |-> row["png"]]
<1>1. h \in Entry /\ g \in Entry BY DEF TypeInv, Entry, Ids
<1>2. h.id = "h5" /\ g.id = "png" /\ h.row = row["h5"] /\ g.row = row["png"] OBVIOUS
<1> HIDE DEF h, g
<1>3. \/ Listed(wanted) = <<>> \o <<>>
      \/ Listed(wanted) = <<h>> \o <<>> /\ row["h5"].state \in wanted
      \/ Listed(wanted) = <<>> \o <<g>> /\ row["png"].state \in wanted
      \/ Listed(wanted) = <<h>> \o <<g>> /\ {row["h5"].state, row["png"].state} \subseteq wanted
  BY DEF Listed, h, g
<1>4. \/ Listed(wanted) = <<>>
      \/ Listed(wanted) = <<h>> /\ row["h5"].state \in wanted
      \/ Listed(wanted) = <<g>> /\ row["png"].state \in wanted
      \/ Listed(wanted) = <<h, g>> /\ {row["h5"].state, row["png"].state} \subseteq wanted
  <2>0. <<h>> \in Seq(Entry) /\ <<g>> \in Seq(Entry) BY <1>1
  <2>1. <<>> \o <<>> = <<>> OBVIOUS
  <2>2. <<h>> \o <<>> = <<h>> BY <2>0, ConcatEmptySeq
  <2>3. <<>> \o <<g>> = <<g>> BY <2>0, ConcatEmptySeq
  <2>4. <<h>> \o <<g>> = <<h, g>>
    <3> DEFINE s == <<h>> \o <<g>>
               t == <<h, g>>
    <3>1. s \in Seq(Entry) /\ t \in Seq(Entry) BY <1>1, <2>0
    <3>2. Len(s) = 2 /\ s[1] = h /\ s[2] = g BY <2>0, ConcatProperties
    <3>3. Len(t) = 2 /\ t[1] = h /\ t[2] = g OBVIOUS
    <3> HIDE DEF s, t
    <3>4. \A i \in 1 .. Len(s) : s[i] = t[i] BY <3>2, <3>3
    <3>5. Len(s) = Len(t) BY <3>2, <3>3
    <3>6. s = t BY <3>1, <3>4, <3>5, SeqEqual
    <3> QED BY <3>6 DEF s, t
  <2> QED BY <1>3, <2>1, <2>2, <2>3, <2>4, Zenon
<1>5. CASE Listed(wanted) = <<>> BY <1>5
<1>6. CASE Listed(wanted) = <<h>> /\ row["h5"].state \in wanted BY <1>1, <1>2, <1>6 DEF Ids
<1>7. CASE Listed(wanted) = <<g>> /\ row["png"].state \in wanted BY <1>1, <1>2, <1>7 DEF Ids
<1>8. CASE Listed(wanted) = <<h, g>> /\ {row["h5"].state, row["png"].state} \subseteq wanted
  BY <1>1, <1>2, <1>8 DEF Ids
<1> QED BY <1>4, <1>5, <1>6, <1>7, <1>8

-----------------------------------------------------------------------------
(* Which steps change what.                                                *)

MovesRow ==
  \/ Reserve \/ WriterReady \/ WriterFails \/ CleanupPend \/ CleanupDeleted \/ Check \/ UploadRow
  \/ Prepare \/ GenReady
  \/ \E p \in Workers : RecoverFix(p)
  \/ \E gone \in SUBSET Ids : CleanupEnd(gone)

MovesJobs ==
  \/ LookDone \/ LookTimeout \/ PostVerify \/ UploadFails
  \/ \E gone \in SUBSET Ids : CleanupEnd(gone)

MovesDisk ==
  \/ Write \/ Publish \/ CleanupUnlink \/ CleanupTmp \/ GenTemp \/ GenLink \/ GenUntemp
  \/ \E works, stored \in BOOLEAN : Copy(works, stored)
  \/ \E i \in Ids : Edit(i)

LEMMA RowMovers ==
  ASSUME Next
  PROVE  UNCHANGED row \/ MovesRow
PROOF
<1>1. CASE WriterNext
  BY <1>1 DEF WriterNext, WriterOpen, WriterLock, TryLock, Write, Publish, MovesRow, ledger
<1>2. CASE \E p \in Workers : RecoverSteps(p)
  BY <1>2 DEF RecoverSteps, Begin, RecoverNext, RecoverLock, TryLock, RecoverCheck, Busy,
    MovesRow, ledger
<1>3. CASE CleanupNext
  BY <1>3 DEF CleanupNext, CleanupRow, CleanupLock, TryLock, CleanupUnlink, CleanupTmp,
    CleanupUnlock, MovesRow, ledger
<1>4. CASE SyncNext
  BY <1>4 DEF SyncNext, SyncSkip, SyncRow, SyncJob, LookDone, LookTimeout, CheckLock, UploadLock,
    TryLock, Copy, Verify, PostVerify, UploadFails, UploadEnd, SyncEnd, MovesRow, ledger
<1>5. CASE GeneratorNext
  BY <1>5 DEF GeneratorNext, GenBegin, GenParentLock, Render, GenLock, TryLock, GenTemp, GenLink,
    GenUntemp, GeneratorReaped, MovesRow, ledger
<1>6. CASE Hazards
  BY <1>6 DEF Hazards, Expire, Edit, Crash, MovesRow, ledger
<1> QED BY <1>1, <1>2, <1>3, <1>4, <1>5, <1>6 DEF Next

LEMMA JobMovers ==
  ASSUME Next
  PROVE  UNCHANGED <<upload, look>> \/ MovesJobs
PROOF
<1>1. CASE WriterNext
  BY <1>1 DEF WriterNext, WriterOpen, WriterLock, TryLock, Reserve, Write, Publish, WriterReady,
    MovesJobs, ledger
<1>2. CASE \E p \in Workers : RecoverSteps(p)
  BY <1>2 DEF RecoverSteps, Begin, RecoverNext, RecoverLock, TryLock, RecoverCheck, RecoverFix, Busy,
    MovesJobs, ledger
<1>3. CASE CleanupNext
  <2>1. CASE CleanupPend BY <2>1 DEF CleanupPend, MovesJobs, ledger
  <2>2. CASE CleanupDeleted BY <2>2 DEF CleanupDeleted, MovesJobs, ledger
  <2> QED BY <1>3, <2>1, <2>2 DEF CleanupNext, CleanupRow, CleanupLock, TryLock, CleanupUnlink,
        CleanupTmp, CleanupUnlock, MovesJobs, ledger
<1>4. CASE SyncNext
  <2>1. CASE Check BY <2>1 DEF Check, MovesJobs, ledger
  <2>2. CASE UploadRow BY <2>2 DEF UploadRow, MovesJobs, ledger
  <2> QED BY <1>4, <2>1, <2>2 DEF SyncNext, SyncSkip, SyncRow, SyncJob, CheckLock, UploadLock,
        TryLock, Copy, Verify, UploadEnd, SyncEnd, MovesJobs, ledger
<1>5. CASE GeneratorNext
  BY <1>5 DEF GeneratorNext, GenBegin, GenParentLock, Render, GenLock, TryLock, Prepare, GenTemp,
    GenLink, GenUntemp, GenReady, GeneratorReaped, MovesJobs, ledger
<1>6. CASE Hazards
  BY <1>6 DEF Hazards, Expire, Edit, Crash, WriterFails, MovesJobs, ledger
<1> QED BY <1>1, <1>2, <1>3, <1>4, <1>5, <1>6 DEF Next

LEMMA QuotaMovers ==
  ASSUME Next
  PROVE  UNCHANGED quota \/ Reserve \/ Prepare
PROOF
<1>1. CASE WriterNext
  BY <1>1 DEF WriterNext, WriterOpen, WriterLock, TryLock, Write, Publish, WriterReady, ledger
<1>2. CASE \E p \in Workers : RecoverSteps(p)
  BY <1>2 DEF RecoverSteps, Begin, RecoverNext, RecoverLock, TryLock, RecoverCheck, RecoverFix, Busy,
    ledger
<1>3. CASE CleanupNext
  <2>1. CASE CleanupPend BY <2>1 DEF CleanupPend, ledger
  <2>2. CASE CleanupDeleted BY <2>2 DEF CleanupDeleted, ledger
  <2>3. CASE \E gone \in SUBSET Ids : CleanupEnd(gone) BY <2>3 DEF CleanupEnd, ledger
  <2> QED BY <1>3, <2>1, <2>2, <2>3 DEF CleanupNext, CleanupRow, CleanupLock, TryLock,
        CleanupUnlink, CleanupTmp, CleanupUnlock, ledger
<1>4. CASE SyncNext
  <2>1. CASE Check BY <2>1 DEF Check, ledger
  <2>2. CASE UploadRow BY <2>2 DEF UploadRow, ledger
  <2>3. CASE LookDone BY <2>3 DEF LookDone, ledger
  <2>4. CASE LookTimeout BY <2>4 DEF LookTimeout, ledger
  <2>5. CASE PostVerify BY <2>5 DEF PostVerify, ledger
  <2>6. CASE UploadFails BY <2>6 DEF UploadFails, ledger
  <2> QED BY <1>4, <2>1, <2>2, <2>3, <2>4, <2>5, <2>6 DEF SyncNext, SyncSkip, SyncRow, SyncJob,
        CheckLock, UploadLock, TryLock, Copy, Verify, UploadEnd, SyncEnd, ledger
<1>5. CASE GeneratorNext
  BY <1>5 DEF GeneratorNext, GenBegin, GenParentLock, Render, GenLock, TryLock, GenTemp,
    GenLink, GenUntemp, GenReady, GeneratorReaped, ledger
<1>6. CASE Hazards
  BY <1>6 DEF Hazards, Expire, Edit, Crash, WriterFails, ledger
<1> QED BY <1>1, <1>2, <1>3, <1>4, <1>5, <1>6 DEF Next

LEMMA DiskMovers ==
  ASSUME Next
  PROVE  UNCHANGED disk \/ MovesDisk
PROOF
<1>1. CASE WriterNext
  BY <1>1 DEF WriterNext, WriterOpen, WriterLock, TryLock, Reserve, WriterReady, MovesDisk, disk
<1>2. CASE \E p \in Workers : RecoverSteps(p)
  BY <1>2 DEF RecoverSteps, Begin, RecoverNext, RecoverLock, TryLock, RecoverCheck, RecoverFix, Busy,
    MovesDisk, disk
<1>3. CASE CleanupNext
  <2>1. CASE CleanupPend BY <2>1 DEF CleanupPend, disk
  <2>2. CASE CleanupDeleted BY <2>2 DEF CleanupDeleted, disk
  <2>3. CASE \E gone \in SUBSET Ids : CleanupEnd(gone) BY <2>3 DEF CleanupEnd, disk
  <2> QED BY <1>3, <2>1, <2>2, <2>3 DEF CleanupNext, CleanupRow, CleanupLock, TryLock,
        CleanupUnlock, MovesDisk, disk
<1>4. CASE SyncNext
  <2>1. CASE Check BY <2>1 DEF Check, disk
  <2>2. CASE UploadRow BY <2>2 DEF UploadRow, disk
  <2>3. CASE LookDone BY <2>3 DEF LookDone, disk
  <2>4. CASE LookTimeout BY <2>4 DEF LookTimeout, disk
  <2>5. CASE PostVerify BY <2>5 DEF PostVerify, disk
  <2>6. CASE UploadFails BY <2>6 DEF UploadFails, disk
  <2> QED BY <1>4, <2>1, <2>2, <2>3, <2>4, <2>5, <2>6 DEF SyncNext, SyncSkip, SyncRow, SyncJob,
        CheckLock, UploadLock, TryLock, Verify, UploadEnd, SyncEnd, MovesDisk, disk
<1>5. CASE GeneratorNext
  BY <1>5 DEF GeneratorNext, GenBegin, GenParentLock, Render, GenLock, TryLock, Prepare, GenReady,
    GeneratorReaped, MovesDisk, disk
<1>6. CASE Hazards
  BY <1>6 DEF Hazards, Expire, Crash, WriterFails, MovesDisk, disk
<1> QED BY <1>1, <1>2, <1>3, <1>4, <1>5, <1>6 DEF Next

-----------------------------------------------------------------------------
(* Every step keeps the types.                                             *)

LEMMA RowTyped ==
  ASSUME TypeInv, Seats, Next
  PROVE  row' \in [Ids -> Row]
PROOF
<1>0. /\ row \in [Ids -> Row] /\ at \in [Procs -> Ids] /\ file \in [Ids -> 0 .. 2]
      /\ verified \in [Procs -> 0 .. 2] /\ {"writer", "cleanup", "sync", "generator"} = Procs
      /\ Workers \subseteq Procs
  BY DEF TypeInv, Procs, Workers
<1>1. ASSUME NEW i \in Ids, NEW r \in Row PROVE [row EXCEPT ![i] = r] \in [Ids -> Row]
  BY <1>0, <1>1
<1>2. ASSUME NEW i \in Ids, NEW s \in States PROVE [row[i] EXCEPT !.state = s] \in Row
  BY <1>0, <1>2 DEF Row
<1>3. ASSUME NEW i \in Ids, NEW s \in States
      PROVE  [row[i] EXCEPT !.state = s, !.gen = row[i].gen + 1] \in Row
  <2> DEFINE g == row[i].gen + 1
  <2>1. g \in Nat BY <1>0, <1>3 DEF Row
  <2> HIDE DEF g
  <2>2. [row[i] EXCEPT !.state = s, !.gen = g] \in Row
    <3>1. row[i] \in Row BY <1>0, <1>3
    <3> QED BY <1>3, <2>1, <3>1 DEF Row
  <2> QED BY <2>2 DEF g
<1>4. ASSUME NEW i \in Ids, NEW s \in States, NEW d \in 0 .. 2
      PROVE  [row[i] EXCEPT !.state = s, !.digest = d] \in Row
  BY <1>0, <1>4 DEF Row
<1>5. CASE UNCHANGED row BY <1>0, <1>5
<1>6. CASE Reserve
  <2> DEFINE r == [state |-> "WRITING", digest |-> 0, gen |-> 0,
                   pngCap |-> IF QuicklookEnabled THEN 1 ELSE 0]
  <2>1. r \in Row BY DEF Row, States
  <2>2. row' = [row EXCEPT !["h5"] = r] BY <1>6 DEF Reserve
  <2> HIDE DEF r
  <2> QED BY <1>0, <2>1, <2>2 DEF Ids
<1>7. CASE WriterReady
  <2>1. row' = [row EXCEPT !["h5"] = [row["h5"] EXCEPT !.state = "READY"]]
    BY <1>7 DEF WriterReady
  <2> QED BY <1>1, <1>2, <2>1 DEF Ids, States
<1>8. CASE WriterFails
  <2>1. \/ row' = row
        \/ row' = [row EXCEPT !["h5"] = [row["h5"] EXCEPT !.state = "QUARANTINED",
                                                         !.gen = row["h5"].gen + 1]]
    BY <1>0, <1>8 DEF WriterFails, Ids
  <2> QED BY <1>0, <1>1, <1>3, <2>1 DEF Ids, States
<1>9. ASSUME NEW p \in Workers, RecoverFix(p) PROVE row' \in [Ids -> Row]
  <2> DEFINE i == at[p]
  <2>1. i \in Ids /\ verified[p] \in 0 .. 2 BY <1>0, <1>9
  <2>2. \/ row' = row
        \/ row' = [row EXCEPT ![i] = [row[i] EXCEPT !.state = "READY", !.digest = verified[p]]]
        \/ row' = [row EXCEPT ![i] = [row[i] EXCEPT !.state = "QUARANTINED", !.gen = row[i].gen + 1]]
    BY <1>9 DEF RecoverFix
  <2> HIDE DEF i
  <2>3. "READY" \in States /\ "QUARANTINED" \in States BY DEF States
  <2>4. [row[i] EXCEPT !.state = "READY", !.digest = verified[p]] \in Row
    BY <1>4, <2>1, <2>3, Zenon
  <2>5. [row[i] EXCEPT !.state = "QUARANTINED", !.gen = row[i].gen + 1] \in Row
    BY <1>3, <2>1, <2>3, Zenon
  <2> QED BY <1>0, <1>1, <2>1, <2>2, <2>4, <2>5
<1>10. CASE CleanupPend
  <2> DEFINE i == at["cleanup"]
  <2>1. i \in Ids BY <1>0
  <2>2. \/ row' = row
        \/ row' = [row EXCEPT ![i] = [row[i] EXCEPT !.state = "DELETE_PENDING", !.gen = row[i].gen + 1]]
    BY <1>10 DEF CleanupPend
  <2> HIDE DEF i
  <2> QED BY <1>0, <1>1, <1>3, <2>1, <2>2 DEF States
<1>11. CASE CleanupDeleted
  <2> DEFINE i == at["cleanup"]
  <2>1. i \in Ids BY <1>0
  <2>2. \/ row' = row
        \/ row' = [row EXCEPT ![i] = [row[i] EXCEPT !.state = "DELETED"]]
    BY <1>11 DEF CleanupDeleted
  <2> HIDE DEF i
  <2> QED BY <1>0, <1>1, <1>2, <2>1, <2>2 DEF States
<1>12. ASSUME NEW gone \in SUBSET Ids, CleanupEnd(gone) PROVE row' \in [Ids -> Row]
  <2>1. row' = [i \in Ids |-> IF i \in gone THEN NoRow ELSE row[i]] BY <1>12 DEF CleanupEnd
  <2>2. NoRow \in Row BY DEF NoRow, Row, States
  <2> QED BY <1>0, <2>1, <2>2
<1>13. CASE Check
  <2> DEFINE i == Head(rows["sync"]).id
  <2>1. i \in Ids BY <1>13 DEF Check, Seats, SyncSeat, At, TypeInv, Entry, Procs
  <2>2. \/ row' = row
        \/ row' = [row EXCEPT ![i] = [row[i] EXCEPT !.state = "QUARANTINED", !.gen = row[i].gen + 1]]
    BY <1>13 DEF Check
  <2> HIDE DEF i
  <2> QED BY <1>0, <1>1, <1>3, <2>1, <2>2 DEF States
<1>14. CASE UploadRow
  <2> DEFINE i == Head(rows["sync"]).id
  <2>1. i \in Ids BY <1>14 DEF UploadRow, Seats, SyncSeat, At, TypeInv, Entry, Procs
  <2>2. \/ row' = row
        \/ row' = [row EXCEPT ![i] = [row[i] EXCEPT !.digest = file[i]]]
    BY <1>14 DEF UploadRow
  <2> HIDE DEF i
  <2>3. [row[i] EXCEPT !.digest = file[i]] \in Row BY <1>0, <2>1 DEF Row
  <2> QED BY <1>0, <1>1, <2>1, <2>2, <2>3
<1>15. CASE Prepare
  <2> DEFINE r == [state |-> "WRITING", digest |-> 0, gen |-> 0, pngCap |-> 0]
             q == [row["h5"] EXCEPT !.pngCap = 0]
             row1 == [row EXCEPT !["png"] = r]
  <2>1. r \in Row /\ q \in Row BY <1>0 DEF Row, States, Ids
  <2>2. row' = row \/ row' = [row EXCEPT !["png"] = r, !["h5"].pngCap = 0] BY <1>15 DEF Prepare
  <2>3. [row EXCEPT !["png"] = r, !["h5"].pngCap = 0] = [row1 EXCEPT !["h5"] = q] BY <1>0 DEF Ids
  <2> HIDE DEF r, q
  <2> QED BY <1>0, <1>1, <2>1, <2>2, <2>3 DEF Ids
<1>16. CASE GenReady
  <2>1. \/ row' = row
        \/ row' = [row EXCEPT !["png"] = [row["png"] EXCEPT !.state = "READY", !.digest = 1]]
    BY <1>16 DEF GenReady
  <2> QED BY <1>0, <1>1, <1>4, <2>1 DEF Ids, States
<1> QED BY RowMovers, <1>5, <1>6, <1>7, <1>8, <1>9, <1>10, <1>11, <1>12, <1>13, <1>14, <1>15, <1>16
    DEF MovesRow

LEMMA JobsTyped ==
  ASSUME TypeInv, Seats, Next
  PROVE  upload' \in [Ids -> JobRow] /\ look' \in JobRow
PROOF
<1>0. /\ upload \in [Ids -> JobRow] /\ look \in JobRow
      /\ rows["sync"] \in Seq(Entry) /\ verified["sync"] \in 0 .. 2
  BY DEF TypeInv, Procs
<1>1. ASSUME NEW j \in JobRow, NEW s \in {"VERIFIED", "FAILED"}, NEW d \in 0 .. 2
      PROVE  Job(j, s, d) \in JobRow
  BY <1>1 DEF Job, JobRow
<1>2. ASSUME NEW a, NEW s \in {"VERIFIED", "FAILED"}, SetLook(a, s)
      PROVE  upload' \in [Ids -> JobRow] /\ look' \in JobRow
  <2>1. Job(look, s, 0) \in JobRow BY <1>0, <1>1
  <2> QED BY <1>0, <1>2, <2>1 DEF SetLook
<1>3. ASSUME NEW a, NEW s \in {"VERIFIED", "FAILED"}, NEW d \in 0 .. 2, a.id \in Ids,
             SetUpload(a, s, d)
      PROVE  upload' \in [Ids -> JobRow] /\ look' \in JobRow
  <2>1. Job(upload[a.id], s, d) \in JobRow BY <1>0, <1>1, <1>3
  <2> QED BY <1>0, <1>3, <2>1 DEF SetUpload
<1>4. CASE UNCHANGED <<upload, look>> BY <1>0, <1>4
<1>5. CASE LookDone
  <2>1. \/ UNCHANGED <<upload, look>>
        \/ SetLook(Head(rows["sync"]), "VERIFIED")
        \/ SetLook(Head(rows["sync"]), "FAILED")
    BY <1>5 DEF LookDone
  <2> QED BY <1>2, <1>4, <2>1
<1>6. CASE LookTimeout
  <2>1. SetLook(Head(rows["sync"]), "FAILED") BY <1>6 DEF LookTimeout
  <2> QED BY <1>2, <2>1
<1>7. CASE PostVerify
  <2>1. rows["sync"] # <<>> BY <1>7 DEF PostVerify, Seats, SyncSeat, At
  <2>2. Head(rows["sync"]).id \in Ids
    <3>1. Head(rows["sync"]) \in Entry BY <1>0, <2>1
    <3> QED BY <3>1 DEF Entry
  <2>3. \/ UNCHANGED <<upload, look>>
        \/ SetUpload(Head(rows["sync"]), "VERIFIED", verified["sync"])
    BY <1>7 DEF PostVerify
  <2> QED BY <1>0, <1>3, <1>4, <2>2, <2>3, Zenon
<1>8. CASE UploadFails
  <2>1. rows["sync"] # <<>> BY <1>8 DEF UploadFails, Seats, SyncSeat, At
  <2>2. Head(rows["sync"]).id \in Ids
    <3>1. Head(rows["sync"]) \in Entry BY <1>0, <2>1
    <3> QED BY <3>1 DEF Entry
  <2>3. SetUpload(Head(rows["sync"]), "FAILED", 0) BY <1>8 DEF UploadFails
  <2>4. 0 \in 0 .. 2 OBVIOUS
  <2> QED BY <1>3, <2>2, <2>3, <2>4, Zenon
<1>9. ASSUME NEW gone \in SUBSET Ids, CleanupEnd(gone)
      PROVE  upload' \in [Ids -> JobRow] /\ look' \in JobRow
  <2>1. NoJob \in JobRow BY DEF NoJob, JobRow
  <2> QED BY <1>0, <1>9, <2>1 DEF CleanupEnd
<1> QED BY JobMovers, <1>4, <1>5, <1>6, <1>7, <1>8, <1>9 DEF MovesJobs

LEMMA QuotaTyped ==
  ASSUME TypeInv, Next
  PROVE  quota' \in [reserved : Int, committed : Int]
PROOF
<1>0. quota \in [reserved : Int, committed : Int] /\ row["h5"].pngCap \in Int
  BY DEF TypeInv, Ids, Row
<1>1. CASE UNCHANGED quota BY <1>0, <1>1
<1>2. CASE Reserve BY <1>0, <1>2 DEF Reserve
<1>3. CASE Prepare
  <2>1. \/ UNCHANGED quota
        \/ quota' = [reserved |-> quota.reserved - row["h5"].pngCap,
                     committed |-> quota.committed + row["h5"].pngCap]
    BY <1>3 DEF Prepare
  <2> QED BY <1>0, <2>1
<1> QED BY QuotaMovers, <1>1, <1>2, <1>3

LEMMA DiskTyped ==
  ASSUME TypeInv, Next
  PROVE  file' \in [Ids -> 0 .. 2] /\ tmp' \in [Ids -> BOOLEAN] /\ remote' \in [Ids -> 0 .. 2]
PROOF
<1>0. /\ file \in [Ids -> 0 .. 2] /\ tmp \in [Ids -> BOOLEAN] /\ remote \in [Ids -> 0 .. 2]
      /\ at["cleanup"] \in Ids /\ at["sync"] \in Ids
  BY DEF TypeInv, Procs
<1>1. CASE UNCHANGED disk BY <1>0, <1>1 DEF disk
<1>2. CASE Write BY <1>0, <1>2 DEF Write
<1>3. CASE Publish
  <2>1. file' = [file EXCEPT !["h5"] = 1] BY <1>3 DEF Publish
  <2>2. file' \in [Ids -> 0 .. 2] BY <1>0, <2>1 DEF Ids
  <2> QED BY <1>0, <1>3, <2>2 DEF Publish
<1>4. CASE CleanupUnlink BY <1>0, <1>4 DEF CleanupUnlink
<1>5. CASE CleanupTmp BY <1>0, <1>5 DEF CleanupTmp
<1>6. CASE GenTemp BY <1>0, <1>6 DEF GenTemp
<1>7. CASE GenLink BY <1>0, <1>7 DEF GenLink
<1>8. CASE GenUntemp BY <1>0, <1>8 DEF GenUntemp
<1>9. CASE \E works, stored \in BOOLEAN : Copy(works, stored) BY <1>0, <1>9 DEF Copy
<1>10. CASE \E i \in Ids : Edit(i) BY <1>0, <1>10 DEF Edit
<1> QED BY DiskMovers, <1>1, <1>2, <1>3, <1>4, <1>5, <1>6, <1>7, <1>8, <1>9, <1>10 DEF MovesDisk

-----------------------------------------------------------------------------
(* What a step does with the locks, one process at a time.                 *)

Opens(p) == \E i \in Ids : Open(p, i)

Takes(p, mode) ==
  /\ Free(p, mode) /\ held' = held \cup {[proc |-> p, inode |-> fd[p], mode |-> mode]}
  /\ fd' = [fd EXCEPT ![p] = 0] /\ UNCHANGED <<inode, at>>

LetsGo(p) ==
  /\ Release(p) \/ UNCHANGED held
  /\ fd' = [fd EXCEPT ![p] = 0] \/ UNCHANGED fd
  /\ UNCHANGED <<inode, at>>

Unlinks ==
  /\ At("cleanup", "unlock") /\ inode' = [inode EXCEPT ![at["cleanup"]] = 0]
  /\ UNCHANGED <<held, fd, at>>

LockStep ==
  \/ UNCHANGED <<inode, held, fd, at>> \/ Unlinks
  \/ \E p \in Procs :
       Opens(p) \/ LetsGo(p) \/ (\E mode \in {"shared", "exclusive"} : Takes(p, mode))

LEMMA LockSteps ==
  ASSUME TypeInv, Seats, Next
  PROVE  LockStep
PROOF
<1>0. /\ "writer" \in Procs /\ "cleanup" \in Procs /\ "sync" \in Procs /\ "generator" \in Procs
      /\ Workers \subseteq Procs /\ "h5" \in Ids /\ "png" \in Ids
  BY DEF Procs, Workers, Ids
<1>1. ASSUME NEW p \in Procs, NEW i \in Ids, Open(p, i) PROVE LockStep
  BY <1>1 DEF LockStep, Opens
<1>2. ASSUME NEW p \in Procs, NEW mode \in {"shared", "exclusive"}, NEW place, NEW busy,
             TryLock(p, mode, place, busy)
      PROVE  LockStep
  BY <1>2 DEF LockStep, TryLock, Takes, LetsGo
<1>3. ASSUME NEW p \in Procs, LetsGo(p) PROVE LockStep BY <1>3 DEF LockStep
<1>4. ASSUME UNCHANGED <<inode, held, fd, at>> PROVE LockStep BY <1>4 DEF LockStep
<1>5. ASSUME NEW p \in Procs, rows[p] # <<>> PROVE Head(rows[p]).id \in Ids
  <2>1. Head(rows[p]) \in Entry BY <1>5 DEF TypeInv
  <2> QED BY <2>1 DEF Entry
<1>6. CASE WriterNext
  <2>1. CASE WriterOpen BY <1>0, <1>1, <2>1 DEF WriterOpen
  <2>2. CASE WriterLock BY <1>0, <1>2, <2>2 DEF WriterLock
  <2>3. CASE Reserve BY <1>4, <2>3 DEF Reserve, locks
  <2>4. CASE Write BY <1>4, <2>4 DEF Write, locks
  <2>5. CASE Publish BY <1>4, <2>5 DEF Publish, locks
  <2>6. CASE WriterReady BY <1>0, <1>3, <2>6 DEF WriterReady, LetsGo
  <2> QED BY <1>6, <2>1, <2>2, <2>3, <2>4, <2>5, <2>6 DEF WriterNext
<1>7. ASSUME NEW p \in Workers, RecoverSteps(p) PROVE LockStep
  <2>1. CASE RecoverNext(p)
    <3>1. CASE rows[p] = <<>> BY <1>4, <2>1, <3>1 DEF RecoverNext
    <3>2. CASE rows[p] # <<>> BY <1>0, <1>1, <1>5, <2>1, <3>2 DEF RecoverNext
    <3> QED BY <3>1, <3>2
  <2>2. CASE RecoverLock(p) BY <1>0, <1>2, <2>2 DEF RecoverLock
  <2>3. CASE RecoverFix(p) BY <1>0, <1>3, <2>3 DEF RecoverFix, LetsGo
  <2>4. CASE Begin(p) BY <1>4, <2>4 DEF Begin, locks
  <2>5. CASE RecoverCheck(p) BY <1>4, <2>5 DEF RecoverCheck, locks
  <2>6. CASE Busy(p) BY <1>4, <2>6 DEF Busy, locks
  <2> QED BY <1>7, <2>1, <2>2, <2>3, <2>4, <2>5, <2>6 DEF RecoverSteps
<1>8. CASE CleanupNext
  <2>1. ASSUME NEW orphan \in BOOLEAN, NEW identity \in BOOLEAN, CleanupRow(orphan, identity)
        PROVE  LockStep
    <3>1. rows["cleanup"] # <<>> BY <2>1 DEF CleanupRow
    <3>2. Open("cleanup", Head(rows["cleanup"]).id) \/ UNCHANGED <<inode, held, fd, at>>
      BY <2>1 DEF CleanupRow, locks
    <3> QED BY <1>0, <1>1, <1>4, <1>5, <3>1, <3>2
  <2>2. CASE CleanupLock BY <1>0, <1>2, <2>2 DEF CleanupLock
  <2>3. CASE CleanupPend
    <3>1. (Release("cleanup") \/ UNCHANGED held) /\ UNCHANGED <<inode, fd, at>>
      BY <2>3 DEF CleanupPend
    <3> QED BY <1>0, <1>3, <3>1 DEF LetsGo
  <2>4. CASE CleanupUnlink BY <1>4, <2>4 DEF CleanupUnlink, locks
  <2>5. CASE CleanupTmp BY <1>4, <2>5 DEF CleanupTmp, locks
  <2>6. CASE CleanupDeleted BY <1>0, <1>3, <2>6 DEF CleanupDeleted, LetsGo
  <2>7. CASE CleanupUnlock BY <2>7 DEF CleanupUnlock, LockStep, Unlinks
  <2>8. ASSUME NEW gone \in SUBSET Ids, CleanupEnd(gone) PROVE LockStep
    BY <1>4, <2>8 DEF CleanupEnd, locks
  <2> QED BY <1>8, <2>1, <2>2, <2>3, <2>4, <2>5, <2>6, <2>7, <2>8 DEF CleanupNext
<1>9. CASE SyncNext
  <2>1. ASSUME NEW young \in BOOLEAN, SyncSkip(young) PROVE LockStep
    BY <1>4, <2>1 DEF SyncSkip, locks
  <2>2. ASSUME NEW wait \in BOOLEAN, SyncRow(wait) PROVE LockStep
    BY <1>4, <2>2 DEF SyncRow, locks
  <2>3. ASSUME NEW wait \in BOOLEAN, SyncJob(wait) PROVE LockStep
    <3>1. rows["sync"] # <<>> BY <2>3 DEF SyncJob, Seats, SyncSeat, At
    <3>2. Open("sync", Head(rows["sync"]).id) \/ UNCHANGED <<inode, held, fd, at>>
      BY <2>3 DEF SyncJob, locks
    <3> QED BY <1>0, <1>1, <1>4, <1>5, <3>1, <3>2
  <2>4. CASE LookDone BY <1>0, <1>3, <2>4 DEF LookDone, GeneratorGone, LetsGo, Release
  <2>5. CASE LookTimeout BY <1>0, <1>3, <2>5 DEF LookTimeout, GeneratorGone, LetsGo, Release
  <2>6. CASE CheckLock BY <1>0, <1>2, <2>6 DEF CheckLock
  <2>7. CASE UploadLock BY <1>0, <1>2, <2>7 DEF UploadLock
  <2>8. CASE Check
    <3>1. Release("sync") /\ UNCHANGED <<inode, fd, at>> BY <2>8 DEF Check
    <3> QED BY <1>0, <1>3, <3>1 DEF LetsGo
  <2>9. CASE UploadRow BY <1>4, <2>9 DEF UploadRow, locks
  <2>10. ASSUME NEW works \in BOOLEAN, NEW stored \in BOOLEAN, Copy(works, stored) PROVE LockStep
    BY <1>4, <2>10 DEF Copy, locks
  <2>11. ASSUME NEW works \in BOOLEAN, Verify(works) PROVE LockStep
    BY <1>4, <2>11 DEF Verify, locks
  <2>12. CASE PostVerify BY <1>4, <2>12 DEF PostVerify, locks
  <2>13. CASE UploadFails BY <1>4, <2>13 DEF UploadFails, locks
  <2>14. CASE UploadEnd BY <1>0, <1>3, <2>14 DEF UploadEnd, LetsGo
  <2>15. CASE SyncEnd BY <1>4, <2>15 DEF SyncEnd, locks
  <2> QED BY <1>9, <2>1, <2>2, <2>3, <2>4, <2>5, <2>6, <2>7, <2>8, <2>9, <2>10, <2>11, <2>12, <2>13,
             <2>14, <2>15 DEF SyncNext
<1>10. CASE GeneratorNext
  <2>1. CASE GenBegin
    <3>1. Open("generator", "h5") \/ UNCHANGED <<inode, held, fd, at>> BY <2>1 DEF GenBegin
    <3> QED BY <1>0, <1>1, <1>4, <3>1
  <2>2. CASE GenParentLock BY <1>0, <1>2, <2>2 DEF GenParentLock
  <2>3. CASE Render
    <3>1. Open("generator", "png") \/ (Release("generator") /\ UNCHANGED <<inode, fd, at>>)
      BY <2>3 DEF Render, Exit
    <3> QED BY <1>0, <1>1, <1>3, <3>1 DEF LetsGo
  <2>4. CASE GenLock BY <1>0, <1>2, <2>4 DEF GenLock
  <2>5. CASE Prepare
    <3>1. (Release("generator") \/ UNCHANGED held) /\ UNCHANGED <<inode, fd, at>>
      BY <2>5 DEF Prepare, Exit
    <3> QED BY <1>0, <1>3, <3>1 DEF LetsGo
  <2>6. CASE GenTemp BY <1>0, <1>3, <2>6 DEF GenTemp, Exit, LetsGo
  <2>7. CASE GenLink BY <1>0, <1>3, <2>7 DEF GenLink, Exit, LetsGo
  <2>8. CASE GenUntemp BY <1>4, <2>8 DEF GenUntemp, locks
  <2>9. CASE GenReady BY <1>0, <1>3, <2>9 DEF GenReady, Exit, LetsGo
  <2>10. CASE GeneratorReaped
    BY <1>0, <1>3, <2>10 DEF GeneratorReaped, GeneratorGone, LetsGo, Release
  <2> QED BY <1>10, <2>1, <2>2, <2>3, <2>4, <2>5, <2>6, <2>7, <2>8, <2>9, <2>10 DEF GeneratorNext
<1>11. CASE Hazards
  <2>1. CASE Expire BY <1>4, <2>1 DEF Expire, locks, local
  <2>2. ASSUME NEW i \in Ids, Edit(i) PROVE LockStep BY <1>4, <2>2 DEF Edit, locks, local
  <2>3. ASSUME NEW p \in Procs, Crash(p) PROVE LockStep BY <1>3, <2>3 DEF Crash, LetsGo
  <2>4. CASE WriterFails BY <1>0, <1>3, <2>4 DEF WriterFails, LetsGo
  <2> QED BY <1>11, <2>1, <2>2, <2>3, <2>4 DEF Hazards
<1> QED BY <1>6, <1>7, <1>8, <1>9, <1>10, <1>11 DEF Next

LEMMA LocksTyped ==
  ASSUME TypeInv, Seats, Next
  PROVE  /\ inode' \in [Ids -> Nat] /\ fd' \in [Procs -> Nat] /\ at' \in [Procs -> Ids]
         /\ held' \subseteq Lock /\ IsFiniteSet(Locked')
PROOF
<1>0. /\ inode \in [Ids -> Nat] /\ fd \in [Procs -> Nat] /\ at \in [Procs -> Ids]
      /\ held \subseteq Lock /\ IsFiniteSet(Locked)
  BY DEF TypeInv
<1>1. CASE UNCHANGED <<inode, held, fd, at>> BY <1>0, <1>1 DEF Locked
<1>2. CASE Unlinks BY <1>0, <1>2 DEF Unlinks, Locked
<1>3. ASSUME NEW p \in Procs, Opens(p) PROVE UNCHANGED held /\ inode' \in [Ids -> Nat]
                                            /\ fd' \in [Procs -> Nat] /\ at' \in [Procs -> Ids]
  <2>1. PICK i \in Ids : Open(p, i) BY <1>3 DEF Opens
  <2>2. Fresh \in Nat BY FreshIsNew
  <2>3. inode' \in [Ids -> Nat] BY <1>0, <2>1, <2>2 DEF Open
  <2> QED BY <1>0, <2>1, <2>3 DEF Open
<1>4. ASSUME NEW p \in Procs, LetsGo(p)
      PROVE  /\ inode' \in [Ids -> Nat] /\ fd' \in [Procs -> Nat] /\ at' \in [Procs -> Ids]
             /\ held' \subseteq held
  BY <1>0, <1>4 DEF LetsGo, Release
<1>5. ASSUME held' \subseteq held PROVE held' \subseteq Lock /\ IsFiniteSet(Locked')
  <2>1. Locked' \subseteq Locked BY <1>5 DEF Locked
  <2> QED BY <1>0, <1>5, <2>1, FS_Subset
<1>6. ASSUME NEW p \in Procs, NEW mode \in {"shared", "exclusive"}, Takes(p, mode)
      PROVE  /\ inode' \in [Ids -> Nat] /\ fd' \in [Procs -> Nat] /\ at' \in [Procs -> Ids]
             /\ held' \subseteq Lock /\ IsFiniteSet(Locked')
  <2> DEFINE l == [proc |-> p, inode |-> fd[p], mode |-> mode]
  <2>1. l \in Lock /\ l.inode = fd[p] BY <1>0 DEF Lock
  <2>2. held' = held \cup {l} BY <1>6 DEF Takes
  <2> HIDE DEF l
  <2>3. Locked' = Locked \cup {fd[p]} BY <2>1, <2>2 DEF Locked
  <2>4. IsFiniteSet(Locked') BY <1>0, <2>3, FS_AddElement
  <2> QED BY <1>0, <1>6, <2>1, <2>2, <2>4 DEF Takes
<1> QED BY LockSteps, <1>0, <1>1, <1>2, <1>3, <1>4, <1>5, <1>6 DEF LockStep

-----------------------------------------------------------------------------
(* Whose step it is: nobody else moves.                                    *)

Same(q) ==
  /\ pc'[q] = pc[q] /\ at'[q] = at[q] /\ fd'[q] = fd[q]
  /\ rows'[q] = rows[q] /\ verified'[q] = verified[q]
  /\ \A h \in held : h.proc = q => h \in held'

Others(p) == \A q \in Procs \ {p} : Same(q)

\* The generator is started and reaped by the sync worker.
Steps(q) ==
  \/ q = "writer" /\ (WriterNext \/ WriterFails)
  \/ q \in Workers /\ RecoverSteps(q)
  \/ q = "cleanup" /\ CleanupNext
  \/ q = "sync" /\ SyncNext
  \/ q = "generator" /\ (GeneratorNext \/ pc'[q] \in {"begin", "idle"})
  \/ Crash(q)

LEMMA WhoMoves ==
  ASSUME TypeInv, Next
  PROVE  \A q \in Procs : Same(q) \/ Steps(q)
PROOF
<1>0. /\ DOMAIN pc = Procs /\ at \in [Procs -> Ids] /\ fd \in [Procs -> Nat]
      /\ rows \in [Procs -> Seq(Entry)] /\ verified \in [Procs -> 0 .. 2]
      /\ Procs = {"writer", "cleanup", "sync", "generator"} /\ Workers = {"cleanup", "sync"}
  BY DEF TypeInv, Procs, Workers
<1>1. ASSUME WriterNext PROVE Others("writer")
  <2>1. CASE WriterOpen BY <1>0, <2>1 DEF WriterOpen, Open, Goto, Others, Same
  <2>2. CASE WriterLock BY <1>0, <2>2 DEF WriterLock, TryLock, Goto, Others, Same
  <2>3. CASE Reserve BY <1>0, <2>3 DEF Reserve, Goto, locks, Others, Same
  <2>4. CASE Write BY <1>0, <2>4 DEF Write, Goto, locks, Others, Same
  <2>5. CASE Publish BY <1>0, <2>5 DEF Publish, Goto, locks, Others, Same
  <2>6. CASE WriterReady BY <1>0, <2>6 DEF WriterReady, Release, Goto, Others, Same
  <2> QED BY <1>1, <2>1, <2>2, <2>3, <2>4, <2>5, <2>6 DEF WriterNext
<1>2. ASSUME NEW p \in Workers, RecoverSteps(p) PROVE Others(p)
  <2>1. CASE Begin(p) BY <1>0, <2>1 DEF Begin, Goto, locks, Others, Same
  <2>2. CASE RecoverNext(p) BY <1>0, <2>2 DEF RecoverNext, Open, Goto, Others, Same
  <2>3. CASE RecoverLock(p) BY <1>0, <2>3 DEF RecoverLock, TryLock, Goto, Others, Same
  <2>4. CASE RecoverCheck(p) BY <1>0, <2>4 DEF RecoverCheck, Goto, locks, Others, Same
  <2>5. CASE RecoverFix(p) BY <1>0, <2>5 DEF RecoverFix, Release, Goto, Others, Same
  <2>6. CASE Busy(p) BY <1>0, <2>6 DEF Busy, NextRow, Goto, locks, Others, Same
  <2> QED BY <1>2, <2>1, <2>2, <2>3, <2>4, <2>5, <2>6 DEF RecoverSteps
<1>3. ASSUME CleanupNext PROVE Others("cleanup")
  <2>1. CASE \E orphan, identity \in BOOLEAN : CleanupRow(orphan, identity)
    <3>1. /\ UNCHANGED <<held, verified>>
          /\ \/ /\ UNCHANGED rows /\ Goto("cleanup", "lock")
                /\ fd' = [fd EXCEPT !["cleanup"] = fd'["cleanup"]]
                /\ at' = [at EXCEPT !["cleanup"] = at'["cleanup"]]
             \/ NextRow("cleanup") /\ UNCHANGED <<fd, at>>
      BY <1>0, <2>1, Zenon DEF CleanupRow, Open, locks
    <3> QED BY <1>0, <3>1 DEF Goto, NextRow, Others, Same
  <2>2. CASE CleanupLock BY <1>0, <2>2 DEF CleanupLock, TryLock, Goto, Others, Same
  <2>3. CASE CleanupPend BY <1>0, <2>3 DEF CleanupPend, Release, Goto, NextRow, Others, Same
  <2>4. CASE CleanupUnlink BY <1>0, <2>4 DEF CleanupUnlink, Goto, locks, Others, Same
  <2>5. CASE CleanupTmp BY <1>0, <2>5 DEF CleanupTmp, Goto, locks, Others, Same
  <2>6. CASE CleanupDeleted BY <1>0, <2>6 DEF CleanupDeleted, Release, Goto, Others, Same
  <2>7. CASE CleanupUnlock BY <1>0, <2>7 DEF CleanupUnlock, NextRow, Goto, Others, Same
  <2>8. CASE \E gone \in SUBSET Ids : CleanupEnd(gone) BY <1>0, <2>8 DEF CleanupEnd, Goto, locks,
       Others, Same
  <2> QED BY <1>3, <2>1, <2>2, <2>3, <2>4, <2>5, <2>6, <2>7, <2>8 DEF CleanupNext
<1>4. ASSUME SyncNext PROVE \A q \in Procs : Same(q) \/ Steps(q)
  <2> SUFFICES /\ \A q \in {"writer", "cleanup"} : Same(q)
               /\ Same("generator") \/ pc'["generator"] \in {"begin", "idle"}
    BY <1>0, <1>4 DEF Steps
  <2>1. CASE \E young \in BOOLEAN : SyncSkip(young) BY <1>0, <2>1 DEF SyncSkip, NextRow, Goto,
       locks, Same
  <2>2. CASE \E wait \in BOOLEAN : SyncRow(wait)
    <3>1. /\ UNCHANGED <<locks, at, fd, rows, verified>>
          /\ \/ pc' = [pc EXCEPT !["sync"] = "look", !["generator"] = "begin"]
             \/ pc' = [pc EXCEPT !["sync"] = "job"]
      BY <2>2 DEF SyncRow
    <3> QED BY <1>0, <3>1 DEF locks, Same
  <2>3. CASE \E wait \in BOOLEAN : SyncJob(wait) BY <1>0, <2>3 DEF SyncJob, Open, Goto, NextRow,
       locks, Same
  <2>4. CASE LookDone BY <1>0, <2>4 DEF LookDone, GeneratorGone, Same
  <2>5. CASE LookTimeout BY <1>0, <2>5 DEF LookTimeout, GeneratorGone, Same
  <2>6. CASE CheckLock BY <1>0, <2>6 DEF CheckLock, TryLock, Goto, Same
  <2>7. CASE Check BY <1>0, <2>7 DEF Check, Release, Goto, NextRow, Same
  <2>8. CASE UploadLock BY <1>0, <2>8 DEF UploadLock, TryLock, Goto, Same
  <2>9. CASE UploadRow BY <1>0, <2>9 DEF UploadRow, Goto, locks, Same
  <2>10. CASE \E works, stored \in BOOLEAN : Copy(works, stored) BY <1>0, <2>10 DEF Copy, Goto,
       locks, Same
  <2>11. CASE \E works \in BOOLEAN : Verify(works) BY <1>0, <2>11 DEF Verify, Goto, locks, Same
  <2>12. CASE PostVerify BY <1>0, <2>12 DEF PostVerify, Goto, locks, Same
  <2>13. CASE UploadFails BY <1>0, <2>13 DEF UploadFails, Goto, locks, Same
  <2>14. CASE UploadEnd BY <1>0, <2>14 DEF UploadEnd, Release, NextRow, Goto, Same
  <2>15. CASE SyncEnd BY <1>0, <2>15 DEF SyncEnd, Goto, locks, Same
  <2> QED BY <1>4, <2>1, <2>2, <2>3, <2>4, <2>5, <2>6, <2>7, <2>8, <2>9, <2>10, <2>11, <2>12, <2>13,
       <2>14, <2>15 DEF SyncNext
<1>5. ASSUME GeneratorNext PROVE Others("generator")
  <2>1. CASE GenBegin BY <1>0, <2>1 DEF GenBegin, Open, Goto, Others, Same
  <2>2. CASE GenParentLock BY <1>0, <2>2 DEF GenParentLock, TryLock, Goto, Others, Same
  <2>3. CASE Render BY <1>0, <2>3 DEF Render, Open, Goto, Exit, Release, Others, Same
  <2>4. CASE GenLock BY <1>0, <2>4 DEF GenLock, TryLock, Goto, Others, Same
  <2>5. CASE Prepare BY <1>0, <2>5 DEF Prepare, Goto, Exit, Release, Others, Same
  <2>6. CASE GenTemp BY <1>0, <2>6 DEF GenTemp, Goto, Exit, Release, Others, Same
  <2>7. CASE GenLink BY <1>0, <2>7 DEF GenLink, Goto, Exit, Release, Others, Same
  <2>8. CASE GenUntemp BY <1>0, <2>8 DEF GenUntemp, Goto, locks, Others, Same
  <2>9. CASE GenReady BY <1>0, <2>9 DEF GenReady, Exit, Release, Goto, Others, Same
  <2>10. CASE GeneratorReaped BY <1>0, <2>10 DEF GeneratorReaped, Goto, GeneratorGone, Others, Same
  <2> QED BY <1>5, <2>1, <2>2, <2>3, <2>4, <2>5, <2>6, <2>7, <2>8, <2>9, <2>10 DEF GeneratorNext
<1>6. CASE Hazards
  <2>1. ASSUME NEW p \in Procs, Crash(p) PROVE Others(p)
    BY <1>0, <2>1 DEF Crash, Goto, Release, Others, Same
  <2>2. CASE WriterFails
    <3>1. Others("writer") BY <1>0, <2>2 DEF WriterFails, Goto, Release, Others, Same
    <3> QED BY <1>0, <2>2, <3>1 DEF Others, Steps
  <2>3. CASE Expire BY <2>3 DEF Expire, locks, local, Same
  <2>4. CASE \E i \in Ids : Edit(i) BY <2>4 DEF Edit, locks, local, Same
  <2> QED BY <1>6, <2>1, <2>2, <2>3, <2>4 DEF Hazards, Others, Steps
<1> QED BY <1>0, <1>1, <1>2, <1>3, <1>4, <1>5, <1>6 DEF Next, Others, Steps

\* What is local to the processes, and the bounds.
LocalTypes ==
  /\ DOMAIN pc = Procs /\ rows \in [Procs -> Seq(Entry)] /\ verified \in [Procs -> 0 .. 2]
  /\ old \in [Workers -> BOOLEAN] /\ expired \in BOOLEAN /\ crashes \in Nat /\ edits \in Nat

LEMMA LocalsTyped ==
  ASSUME TypeInv, Seats, Next
  PROVE  LocalTypes'
PROOF
<1>0. LocalTypes BY DEF TypeInv, LocalTypes
<1>1. /\ "writer" \in Procs /\ "cleanup" \in Procs /\ "sync" \in Procs /\ "generator" \in Procs
      /\ Workers \subseteq Procs /\ \A p \in Procs : at[p] \in Ids
      /\ file \in [Ids -> 0 .. 2]
  BY DEF TypeInv, Procs, Workers
<1>2. ASSUME NEW p \in Procs, NEW s \in Seq(Entry)
      PROVE  [rows EXCEPT ![p] = s] \in [Procs -> Seq(Entry)]
  BY <1>0, <1>2 DEF LocalTypes
<1>3. ASSUME NEW p \in Procs, rows[p] # <<>>, NextRow(p)
      PROVE  rows' \in [Procs -> Seq(Entry)] /\ DOMAIN pc' = Procs
  <2>1. Tail(rows[p]) \in Seq(Entry) BY <1>0, <1>3 DEF LocalTypes
  <2>2. rows' = [rows EXCEPT ![p] = Tail(rows[p])] BY <1>3 DEF NextRow
  <2> QED BY <1>0, <1>2, <1>3, <2>1, <2>2 DEF NextRow, Goto, LocalTypes
<1>4. \A wanted : Listed(wanted) \in Seq(Entry) BY ListedRows
<1>5. ASSUME UNCHANGED local, UNCHANGED world PROVE LocalTypes'
  BY <1>0, <1>5 DEF local, world, LocalTypes
<1>6. CASE WriterNext
  <2>1. CASE WriterOpen BY <1>0, <1>1, <2>1 DEF WriterOpen, Open, Goto, world, LocalTypes
  <2>2. CASE WriterLock BY <1>0, <1>1, <2>2 DEF WriterLock, TryLock, Goto, world, LocalTypes
  <2>3. CASE Reserve BY <1>0, <1>1, <2>3 DEF Reserve, Goto, world, LocalTypes
  <2>4. CASE Write BY <1>0, <1>1, <2>4 DEF Write, Goto, world, LocalTypes
  <2>5. CASE Publish BY <1>0, <1>1, <2>5 DEF Publish, Goto, world, LocalTypes
  <2>6. CASE WriterReady BY <1>0, <1>1, <2>6 DEF WriterReady, Release, Goto, world, LocalTypes
  <2> QED BY <1>6, <2>1, <2>2, <2>3, <2>4, <2>5, <2>6 DEF WriterNext
<1>7. ASSUME NEW p \in Workers, RecoverSteps(p) PROVE LocalTypes'
  <2>1. CASE Begin(p) BY <1>0, <1>1, <1>2, <1>4, <2>1 DEF Begin, Goto, world, LocalTypes
  <2>2. CASE RecoverNext(p)
    <3>1. CASE rows[p] = <<>>
      <4>1. /\ \E s \in Seq(Entry) : rows' = [rows EXCEPT ![p] = s]
            /\ old' = [old EXCEPT ![p] = expired] /\ Goto(p, "row") /\ UNCHANGED <<verified, world>>
        BY <1>4, <2>2, <3>1 DEF RecoverNext
      <4>2. rows' \in [Procs -> Seq(Entry)] BY <1>1, <1>2, <4>1
      <4> QED BY <1>0, <4>1, <4>2 DEF Goto, world, LocalTypes
    <3>2. CASE rows[p] # <<>>
      <4>1. Tail(rows[p]) \in Seq(Entry) BY <1>0, <1>1, <3>2 DEF LocalTypes
      <4>2. rows' = [rows EXCEPT ![p] = Tail(rows[p])] BY <2>2, <3>2 DEF RecoverNext
      <4>3. rows' \in [Procs -> Seq(Entry)] BY <1>1, <1>2, <4>1, <4>2
      <4> QED BY <1>0, <1>1, <2>2, <3>2, <4>3 DEF RecoverNext, Goto, world, LocalTypes
    <3> QED BY <3>1, <3>2
  <2>3. CASE RecoverLock(p) BY <1>0, <1>1, <2>3 DEF RecoverLock, TryLock, Goto, world, LocalTypes
  <2>4. CASE RecoverCheck(p) BY <1>0, <1>1, <2>4 DEF RecoverCheck, Goto, world, LocalTypes
  <2>5. CASE RecoverFix(p) BY <1>0, <1>1, <2>5 DEF RecoverFix, Release, Goto, world, LocalTypes
  <2>6. CASE Busy(p)
    <3>1. rows[p] # <<>> BY <2>6, <1>1 DEF Busy, Seats, SyncSeat, CleanupSeat, At, Workers
    <3> QED BY <1>0, <1>1, <1>3, <2>6, <3>1 DEF Busy, Goto, world, LocalTypes
  <2> QED BY <1>7, <2>1, <2>2, <2>3, <2>4, <2>5, <2>6 DEF RecoverSteps
<1>8. CASE CleanupNext
  <2>1. CASE \E orphan, identity \in BOOLEAN : CleanupRow(orphan, identity)
    <3>1. rows["cleanup"] # <<>> BY <2>1, <1>1 DEF CleanupRow, Seats, CleanupSeat, At, Workers
    <3> QED BY <1>0, <1>1, <1>3, <2>1, <3>1 DEF CleanupRow, Open, Goto, world, LocalTypes
  <2>2. CASE CleanupLock BY <1>0, <1>1, <2>2 DEF CleanupLock, TryLock, Goto, world, LocalTypes
  <2>3. CASE CleanupPend
    <3>1. rows["cleanup"] # <<>> BY <2>3, <1>1 DEF CleanupPend, Seats, CleanupSeat, At, Workers
    <3> QED BY <1>0, <1>1, <1>3, <2>3, <3>1 DEF CleanupPend, Release, Goto, world, LocalTypes
  <2>4. CASE CleanupUnlink BY <1>0, <1>1, <2>4 DEF CleanupUnlink, Goto, world, LocalTypes
  <2>5. CASE CleanupTmp BY <1>0, <1>1, <2>5 DEF CleanupTmp, Goto, world, LocalTypes
  <2>6. CASE CleanupDeleted BY <1>0, <1>1, <2>6 DEF CleanupDeleted, Release, Goto, world, LocalTypes
  <2>7. CASE CleanupUnlock
    <3>1. rows["cleanup"] # <<>> BY <2>7, <1>1 DEF CleanupUnlock, Seats, CleanupSeat, At, Workers
    <3> QED BY <1>0, <1>1, <1>3, <2>7, <3>1 DEF CleanupUnlock, Goto, world, LocalTypes
  <2>8. CASE \E gone \in SUBSET Ids : CleanupEnd(gone) BY <1>0, <1>1, <2>8 DEF CleanupEnd, Goto,
       world, LocalTypes
  <2> QED BY <1>8, <2>1, <2>2, <2>3, <2>4, <2>5, <2>6, <2>7, <2>8 DEF CleanupNext
<1>9. CASE SyncNext
  <2>1. CASE \E young \in BOOLEAN : SyncSkip(young)
    <3>1. rows["sync"] # <<>> BY <2>1, <1>1 DEF SyncSkip, Seats, SyncSeat, At, Workers
    <3> QED BY <1>0, <1>1, <1>3, <2>1, <3>1 DEF SyncSkip, Goto, world, LocalTypes
  <2>2. CASE \E wait \in BOOLEAN : SyncRow(wait) BY <1>0, <1>1, <2>2 DEF SyncRow, world, LocalTypes
  <2>3. CASE \E wait \in BOOLEAN : SyncJob(wait)
    <3>1. rows["sync"] # <<>> BY <2>3, <1>1 DEF SyncJob, Seats, SyncSeat, At, Workers
    <3> QED BY <1>0, <1>1, <1>3, <2>3, <3>1 DEF SyncJob, Open, Goto, world, LocalTypes
  <2>4. CASE LookDone BY <1>0, <1>1, <2>4 DEF LookDone, GeneratorGone, world, LocalTypes
  <2>5. CASE LookTimeout BY <1>0, <1>1, <2>5 DEF LookTimeout, GeneratorGone, LocalTypes
  <2>6. CASE CheckLock BY <1>0, <1>1, <2>6 DEF CheckLock, TryLock, Goto, world, LocalTypes
  <2>7. CASE Check
    <3>1. rows["sync"] # <<>> BY <2>7, <1>1 DEF Check, Seats, SyncSeat, At, Workers
    <3>2. CASE file[Head(rows["sync"]).id] = 0
      <4>1. /\ rows' = [rows EXCEPT !["sync"] = <<>>] /\ old' = [old EXCEPT !["sync"] = FALSE]
            /\ Goto("sync", "idle") /\ UNCHANGED <<verified, world>>
        BY <2>7, <3>2 DEF Check
      <4>2. <<>> \in Seq(Entry) OBVIOUS
      <4>3. rows' \in [Procs -> Seq(Entry)] BY <1>1, <1>2, <4>1, <4>2
      <4> QED BY <1>0, <4>1, <4>3 DEF Goto, world, LocalTypes
    <3>3. CASE file[Head(rows["sync"]).id] # 0
      <4>1. NextRow("sync") /\ UNCHANGED <<old, verified, world>> BY <2>7, <3>3 DEF Check
      <4>2. rows' \in [Procs -> Seq(Entry)] /\ DOMAIN pc' = Procs BY <1>1, <1>3, <3>1, <4>1
      <4> QED BY <1>0, <4>1, <4>2 DEF world, LocalTypes
    <3> QED BY <3>2, <3>3
  <2>8. CASE UploadLock BY <1>0, <1>1, <2>8 DEF UploadLock, TryLock, Goto, world, LocalTypes
  <2>9. CASE UploadRow
    <3> DEFINE i == Head(rows["sync"]).id
               e == [id |-> i, row |-> row'[i]]
    <3>1. rows["sync"] # <<>> BY <2>9 DEF UploadRow, Seats, SyncSeat, At
    <3>2. Head(rows["sync"]) \in Entry /\ Tail(rows["sync"]) \in Seq(Entry)
      BY <1>0, <1>1, <3>1 DEF LocalTypes
    <3>3. i \in Ids BY <3>2 DEF Entry
    <3>4. row'[i] \in Row BY RowTyped, <3>3
    <3>5. e \in Entry BY <3>3, <3>4 DEF Entry
    <3>6. \/ UNCHANGED <<rows, verified>>
          \/ /\ rows' = [rows EXCEPT !["sync"] = <<e>> \o Tail(rows["sync"])]
             /\ verified' = [verified EXCEPT !["sync"] = file[i]]
      BY <2>9 DEF UploadRow
    <3>7. \E place \in {"up_end", "up_fail", "copy"} : pc' = [pc EXCEPT !["sync"] = place]
      BY <2>9 DEF UploadRow, Goto
    <3> HIDE DEF i, e
    <3>8. <<e>> \o Tail(rows["sync"]) \in Seq(Entry) BY <3>2, <3>5
    <3>9. rows' \in [Procs -> Seq(Entry)] BY <1>0, <1>1, <1>2, <3>6, <3>8 DEF LocalTypes
    <3>10. verified' \in [Procs -> 0 .. 2] BY <1>0, <1>1, <3>3, <3>6 DEF LocalTypes
    <3>11. UNCHANGED <<old, world>> BY <2>9 DEF UploadRow
    <3> QED BY <1>0, <3>7, <3>9, <3>10, <3>11 DEF world, LocalTypes
  <2>10. CASE \E works, stored \in BOOLEAN : Copy(works, stored) BY <1>0, <1>1, <2>10 DEF Copy,
       Goto, world, LocalTypes
  <2>11. CASE \E works \in BOOLEAN : Verify(works) BY <1>0, <1>1, <2>11 DEF Verify, Goto, world,
       LocalTypes
  <2>12. CASE PostVerify BY <1>0, <1>1, <2>12 DEF PostVerify, Goto, world, LocalTypes
  <2>13. CASE UploadFails BY <1>0, <1>1, <2>13 DEF UploadFails, Goto, world, LocalTypes
  <2>14. CASE UploadEnd
    <3>1. rows["sync"] # <<>> BY <2>14, <1>1 DEF UploadEnd, Seats, SyncSeat, At, Workers
    <3> QED BY <1>0, <1>1, <1>3, <2>14, <3>1 DEF UploadEnd, Release, Goto, world, LocalTypes
  <2>15. CASE SyncEnd BY <1>0, <1>1, <2>15 DEF SyncEnd, Goto, world, LocalTypes
  <2> QED BY <1>9, <2>1, <2>2, <2>3, <2>4, <2>5, <2>6, <2>7, <2>8, <2>9, <2>10, <2>11, <2>12, <2>13,
       <2>14, <2>15 DEF SyncNext
<1>10. CASE GeneratorNext
  <2>1. CASE GenBegin BY <1>0, <1>1, <2>1 DEF GenBegin, Open, Goto, world, LocalTypes
  <2>2. CASE GenParentLock BY <1>0, <1>1, <2>2 DEF GenParentLock, TryLock, Goto, world, LocalTypes
  <2>3. CASE Render BY <1>0, <1>1, <2>3 DEF Render, Open, Goto, Exit, Release, world, LocalTypes
  <2>4. CASE GenLock BY <1>0, <1>1, <2>4 DEF GenLock, TryLock, Goto, world, LocalTypes
  <2>5. CASE Prepare BY <1>0, <1>1, <2>5 DEF Prepare, Goto, Exit, Release, world, LocalTypes
  <2>6. CASE GenTemp BY <1>0, <1>1, <2>6 DEF GenTemp, Goto, Exit, Release, world, LocalTypes
  <2>7. CASE GenLink BY <1>0, <1>1, <2>7 DEF GenLink, Goto, Exit, Release, world, LocalTypes
  <2>8. CASE GenUntemp BY <1>0, <1>1, <2>8 DEF GenUntemp, Goto, world, LocalTypes
  <2>9. CASE GenReady BY <1>0, <1>1, <2>9 DEF GenReady, Exit, Release, Goto, world, LocalTypes
  <2>10. CASE GeneratorReaped BY <1>0, <1>1, <2>10 DEF GeneratorReaped, Goto, GeneratorGone, world,
       LocalTypes
  <2> QED BY <1>10, <2>1, <2>2, <2>3, <2>4, <2>5, <2>6, <2>7, <2>8, <2>9, <2>10 DEF GeneratorNext
<1>11. CASE Hazards
  <2>1. CASE Expire BY <1>0, <1>1, <2>1 DEF Expire, local, LocalTypes
  <2>2. CASE \E i \in Ids : Edit(i) BY <1>0, <1>1, <2>2 DEF Edit, local, LocalTypes
  <2>3. CASE \E p \in Procs : Crash(p) BY <1>0, <1>1, <1>2, <2>3 DEF Crash, Release, Goto,
       LocalTypes
  <2>4. CASE WriterFails BY <1>0, <1>1, <2>4 DEF WriterFails, Release, Goto, LocalTypes
  <2> QED BY <1>11, <2>1, <2>2, <2>3, <2>4 DEF Hazards
<1> QED BY <1>6, <1>7, <1>8, <1>9, <1>10, <1>11 DEF Next

LEMMA TypeStep ==
  ASSUME TypeInv, Seats, Next
  PROVE  TypeInv'
PROOF
BY RowTyped, JobsTyped, QuotaTyped, DiskTyped, LocksTyped, LocalsTyped DEF TypeInv, LocalTypes

-----------------------------------------------------------------------------
(* What becomes of the rows.                                               *)

Only(i) == \A j \in Ids : j # i => row'[j] = row[j]

\* The row becomes ready or is quarantined when its writing has ended, is
\* quarantined later, given up, deleted and forgotten.
Ends(i) ==
  /\ Only(i) /\ S(i) = "WRITING" /\ row'[i].state \in {"READY", "QUARANTINED"}
  /\ row'[i].pngCap = row[i].pngCap

Turns(i, from, to) ==
  /\ Only(i) /\ S(i) \in from /\ row'[i].state = to
  /\ row'[i].digest = row[i].digest /\ row'[i].pngCap = row[i].pngCap

Forgets == \A i \in Ids : row'[i] = row[i] \/ (S(i) = "DELETED" /\ row'[i] = NoRow)

\* The first upload computes the digest.
Digests(i) ==
  /\ Only(i) /\ S(i) = "READY" /\ row'[i].state = "READY" /\ row'[i].pngCap = row[i].pngCap
  /\ row[i].digest = 0 /\ row'[i].digest = file[i]

\* The row of a file with a share for the image, and that of the image.
Reserves ==
  /\ Only("h5") /\ row'["h5"].state = "WRITING" /\ row'["h5"].digest = 0 /\ Cap' \in {0, 1}
  /\ quota'.reserved = quota.reserved + Cap' /\ quota'.committed = quota.committed

Prepares ==
  /\ S("h5") = "READY" /\ S("png") = "none" /\ Cap > 0
  /\ row'["h5"].state = "READY" /\ row'["h5"].digest = row["h5"].digest /\ Cap' = 0
  /\ row'["png"].state = "WRITING" /\ row'["png"].digest = 0
  /\ quota'.reserved = quota.reserved - Cap /\ quota'.committed = quota.committed + Cap

RowStep ==
  \/ UNCHANGED row
  \/ Reserve /\ Reserves
  \/ (WriterReady \/ WriterFails) /\ Ends("h5")
  \/ \E p \in Workers : RecoverFix(p) /\ Ends(at[p])
  \/ GenReady /\ Ends("png")
  \/ Check /\ Turns(at["sync"], {"READY"}, "QUARANTINED")
  \/ CleanupPend /\ Turns(at["cleanup"], States \ {"none", "DELETED"}, "DELETE_PENDING")
  \/ CleanupDeleted /\ Turns(at["cleanup"], {"DELETE_PENDING"}, "DELETED")
  \/ (\E gone \in SUBSET Ids : CleanupEnd(gone)) /\ Forgets
  \/ UploadRow /\ Digests(at["sync"])
  \/ Prepare /\ Prepares

LEMMA ReserveDoes ==
  ASSUME TypeInv, Reserve
  PROVE  Reserves
PROOF
<1> DEFINE r == [state |-> "WRITING", digest |-> 0, gen |-> 0,
                 pngCap |-> IF QuicklookEnabled THEN 1 ELSE 0]
<1>0. row \in [Ids -> Row] /\ quota \in [reserved : Int, committed : Int] /\ "h5" \in Ids
  BY DEF TypeInv, Ids
<1>1. /\ row' = [row EXCEPT !["h5"] = r]
      /\ quota' = [quota EXCEPT !.reserved = quota.reserved + r.pngCap]
  BY DEF Reserve
<1>2. r.state = "WRITING" /\ r.digest = 0 /\ r.pngCap \in {0, 1} OBVIOUS
<1> HIDE DEF r
<1>3. row'["h5"] = r /\ Only("h5") BY <1>0, <1>1 DEF Only
<1>4. row'["h5"].state = "WRITING" /\ row'["h5"].digest = 0 /\ Cap' \in {0, 1} /\ Cap' = r.pngCap
  BY <1>2, <1>3 DEF S, Cap
<1>5. quota'.reserved = quota.reserved + r.pngCap /\ quota'.committed = quota.committed
  BY <1>0, <1>1
<1> QED BY <1>3, <1>4, <1>5 DEF Reserves

LEMMA PrepareDoes ==
  ASSUME TypeInv, Prepare
  PROVE  UNCHANGED <<row, quota>> \/ Prepares
PROOF
<1> DEFINE r == [state |-> "WRITING", digest |-> 0, gen |-> 0, pngCap |-> 0]
<1>0. /\ row \in [Ids -> Row] /\ "h5" \in Ids /\ "png" \in Ids /\ "h5" # "png"
      /\ row["h5"] \in Row
  BY DEF TypeInv, Ids
<1>1. \/ UNCHANGED <<row, quota>>
      \/ /\ S("h5") = "READY" /\ S("png") = "none" /\ row["h5"].pngCap > 0
         /\ row' = [row EXCEPT !["png"] = r, !["h5"].pngCap = 0]
         /\ quota' = [reserved |-> quota.reserved - row["h5"].pngCap,
                      committed |-> quota.committed + row["h5"].pngCap]
  BY DEF Prepare, S
<1>2. r.state = "WRITING" /\ r.digest = 0 OBVIOUS
<1> HIDE DEF r
<1>3. ASSUME row' = [row EXCEPT !["png"] = r, !["h5"].pngCap = 0]
      PROVE  /\ row'["png"] = r /\ row'["h5"].state = S("h5") /\ Cap' = 0
             /\ row'["h5"].digest = row["h5"].digest
  BY <1>0, <1>3 DEF S, Cap, Row
<1> QED BY <1>1, <1>2, <1>3 DEF Prepares, S, Cap

LEMMA RowSteps ==
  ASSUME TypeInv, Seats, Next
  PROVE  RowStep
PROOF
<1>0. /\ row \in [Ids -> Row] /\ quota \in [reserved : Int, committed : Int]
      /\ \A p \in Procs : at[p] \in Ids
      /\ "h5" \in Ids /\ "png" \in Ids /\ "h5" # "png"
      /\ "writer" \in Procs /\ "cleanup" \in Procs /\ "sync" \in Procs /\ Workers \subseteq Procs
  BY DEF TypeInv, Ids, Procs, Workers
<1>1. \A i \in Ids : row[i] \in Row /\ S(i) \in States BY <1>0 DEF Row, S
<1>2. ASSUME NEW i \in Ids, NEW s, row' = [row EXCEPT ![i].state = s]
      PROVE  /\ Only(i) /\ row'[i].state = s
             /\ row'[i].digest = row[i].digest /\ row'[i].pngCap = row[i].pngCap
  BY <1>0, <1>1, <1>2 DEF Only, S, Row
<1>3. CASE UNCHANGED row BY <1>3 DEF RowStep
<1>4. CASE Reserve BY ReserveDoes, <1>4 DEF RowStep
<1>5. CASE WriterReady
  <2>1. row' = [row EXCEPT !["h5"].state = "READY"] /\ S("h5") = "WRITING"
    BY <1>5 DEF WriterReady, S
  <2>2. Ends("h5") BY <1>0, <1>2, <2>1 DEF Ends
  <2> QED BY <1>5, <2>2 DEF RowStep
<1>6. ASSUME NEW i \in Ids, NEW s, row' = [row EXCEPT ![i].state = s, ![i].gen = @ + 1]
      PROVE  /\ Only(i) /\ row'[i].state = s
             /\ row'[i].digest = row[i].digest /\ row'[i].pngCap = row[i].pngCap
  BY <1>0, <1>1, <1>6 DEF Only, S, Row
<1>7. ASSUME NEW i \in Ids, NEW s, NEW d, row' = [row EXCEPT ![i].state = s, ![i].digest = d]
      PROVE  Only(i) /\ row'[i].state = s /\ row'[i].pngCap = row[i].pngCap
  BY <1>0, <1>1, <1>7 DEF Only, S, Row
<1>8. CASE WriterFails
  <2>1. \/ UNCHANGED row
        \/ /\ S("h5") = "WRITING"
           /\ row' = [row EXCEPT !["h5"].state = "QUARANTINED", !["h5"].gen = @ + 1]
    BY <1>8 DEF WriterFails, S
  <2>2. UNCHANGED row \/ Ends("h5") BY <1>0, <1>6, <2>1 DEF Ends
  <2> QED BY <1>8, <2>2 DEF RowStep
<1>9. ASSUME NEW p \in Workers, RecoverFix(p) PROVE RowStep
  <2> DEFINE i == at[p]
  <2>1. i \in Ids BY <1>0, <1>9
  <2>2. \/ UNCHANGED row
        \/ /\ S(i) = "WRITING"
           /\ \/ row' = [row EXCEPT ![i].state = "READY", ![i].digest = verified[p]]
              \/ row' = [row EXCEPT ![i].state = "QUARANTINED", ![i].gen = @ + 1]
    BY <1>9 DEF RecoverFix, S
  <2> HIDE DEF i
  <2>3. UNCHANGED row \/ Ends(i) BY <1>6, <1>7, <2>1, <2>2, SMTT(30) DEF Ends
  <2>4. UNCHANGED row \/ Ends(at[p])
    BY <2>3, Zenon DEF i
  <2> QED BY <1>9, <2>4, Zenon DEF RowStep
<1>10. CASE GenReady
  <2>1. \/ UNCHANGED row
        \/ /\ S("png") = "WRITING"
           /\ row' = [row EXCEPT !["png"].state = "READY", !["png"].digest = 1]
    BY <1>10 DEF GenReady, S
  <2>2. UNCHANGED row \/ Ends("png") BY <1>0, <1>7, <2>1 DEF Ends
  <2> QED BY <1>10, <2>2 DEF RowStep
<1>11. CASE Check
  <2> DEFINE i == at["sync"]
  <2>1. i \in Ids BY <1>0
  <2>2. i = Head(rows["sync"]).id BY <1>11 DEF Check, Seats, SyncSeat, At
  <2>3. \/ UNCHANGED row
        \/ /\ S(i) = "READY"
           /\ row' = [row EXCEPT ![i].state = "QUARANTINED", ![i].gen = @ + 1]
    BY <1>11, <2>2 DEF Check, S
  <2> HIDE DEF i
  <2>4. UNCHANGED row \/ Turns(i, {"READY"}, "QUARANTINED") BY <1>6, <2>1, <2>3 DEF Turns
  <2> QED BY <1>11, <2>4 DEF RowStep, i
<1>12. CASE CleanupPend
  <2> DEFINE i == at["cleanup"]
  <2>1. i \in Ids BY <1>0
  <2>2. \/ UNCHANGED row
        \/ /\ S(i) \notin {"none", "DELETED"}
           /\ row' = [row EXCEPT ![i].state = "DELETE_PENDING", ![i].gen = @ + 1]
    BY <1>12 DEF CleanupPend, S
  <2> HIDE DEF i
  <2>3. UNCHANGED row \/ Turns(i, States \ {"none", "DELETED"}, "DELETE_PENDING")
    BY <1>1, <1>6, <2>1, <2>2 DEF Turns
  <2> QED BY <1>12, <2>3 DEF RowStep, i
<1>13. CASE CleanupDeleted
  <2> DEFINE i == at["cleanup"]
  <2>1. i \in Ids BY <1>0
  <2>2. \/ UNCHANGED row
        \/ S(i) = "DELETE_PENDING" /\ row' = [row EXCEPT ![i].state = "DELETED"]
    BY <1>13 DEF CleanupDeleted, S
  <2> HIDE DEF i
  <2>3. UNCHANGED row \/ Turns(i, {"DELETE_PENDING"}, "DELETED")
    BY <1>2, <2>1, <2>2 DEF Turns
  <2> QED BY <1>13, <2>3 DEF RowStep, i
<1>14. ASSUME NEW gone \in SUBSET Ids, CleanupEnd(gone) PROVE RowStep
  <2>1. /\ gone \subseteq {i \in Ids : row[i].state = "DELETED"}
        /\ row' = [i \in Ids |-> IF i \in gone THEN NoRow ELSE row[i]]
    BY <1>14 DEF CleanupEnd
  <2>2. Forgets BY <1>0, <2>1 DEF Forgets, S
  <2> QED BY <1>14, <2>2 DEF RowStep
<1>15. CASE UploadRow
  <2> DEFINE i == at["sync"]
  <2>1. i \in Ids BY <1>0
  <2>2. i = Head(rows["sync"]).id BY <1>15 DEF UploadRow, Seats, SyncSeat, At
  <2>3. \/ UNCHANGED row
        \/ /\ S(i) = "READY" /\ row[i].digest = 0
           /\ row' = [row EXCEPT ![i].digest = file[i]]
    BY <1>15, <2>2 DEF UploadRow, S
  <2> HIDE DEF i
  <2>4. ASSUME row' = [row EXCEPT ![i].digest = file[i]]
        PROVE  /\ Only(i) /\ row'[i].state = S(i)
               /\ row'[i].digest = file[i] /\ row'[i].pngCap = row[i].pngCap
    BY <1>0, <1>1, <2>1, <2>4 DEF Only, S, Row
  <2>5. UNCHANGED row \/ Digests(i) BY <2>1, <2>3, <2>4 DEF Digests
  <2> QED BY <1>15, <2>5 DEF RowStep, i
<1>16. CASE Prepare BY PrepareDoes, <1>16 DEF RowStep
<1> QED BY RowMovers, <1>3, <1>4, <1>5, <1>8, <1>9, <1>10, <1>11, <1>12, <1>13, <1>14, <1>15, <1>16
    DEF MovesRow

-----------------------------------------------------------------------------
(* Everybody keeps the artifact it is at.                                  *)

LEMMA WriterSeatStep ==
  ASSUME TypeInv, Seats, Next
  PROVE  WriterSeat'
PROOF
<1>0. /\ "writer" \in Procs /\ at \in [Procs -> Ids] /\ at["writer"] = "h5"
      /\ "writer" \notin Workers
  BY DEF TypeInv, Procs, Workers, Seats, WriterSeat
<1>1. CASE Same("writer") BY <1>0, <1>1 DEF Same, WriterSeat
<1>2. CASE Crash("writer") BY <1>0, <1>2 DEF Crash, WriterSeat
<1>3. CASE WriterFails BY <1>0, <1>3 DEF WriterFails, WriterSeat
<1>4. CASE WriterNext
  BY <1>0, <1>4 DEF WriterNext, WriterOpen, Open, WriterLock, TryLock, Reserve, Write, Publish,
    WriterReady, WriterSeat
<1> QED BY WhoMoves, <1>0, <1>1, <1>2, <1>3, <1>4 DEF Steps

LEMMA GeneratorSeatStep ==
  ASSUME TypeInv, Seats, Next
  PROVE  GeneratorSeat'
PROOF
<1>0. /\ "generator" \in Procs /\ at \in [Procs -> Ids] /\ DOMAIN pc = Procs /\ GeneratorSeat
      /\ "generator" \notin Workers
  BY DEF TypeInv, Procs, Workers, Seats, GeneratorSeat
<1>1. CASE Same("generator") BY <1>0, <1>1 DEF Same, GeneratorSeat
<1>2. CASE Crash("generator")
  <2>1. pc'["generator"] = "bad" BY <1>0, <1>2 DEF Crash, Goto
  <2> QED BY <2>1 DEF GeneratorSeat
<1>3. CASE pc'["generator"] \in {"begin", "idle"} BY <1>3 DEF GeneratorSeat
<1>4. CASE GeneratorNext
  <2>1. CASE GenBegin
    <3>1. \/ pc'["generator"] \in {"ok", "bad"}
          \/ pc'["generator"] = "parent_lock" /\ at'["generator"] = "h5"
      BY <1>0, <2>1 DEF GenBegin, Goto, Open
    <3> QED BY <3>1 DEF GeneratorSeat
  <2>2. CASE GenParentLock
    BY <1>0, <2>2 DEF GenParentLock, TryLock, Goto, At, GeneratorSeat
  <2>3. CASE Render BY <1>0, <2>3 DEF Render, Exit, Open, Goto, GeneratorSeat
  <2>4. CASE GenLock BY <1>0, <2>4 DEF GenLock, TryLock, Goto, At, GeneratorSeat
  <2>5. CASE Prepare
    <3>1. /\ pc["generator"] = "prepare" /\ UNCHANGED at
          /\ pc'["generator"] \in {"ok", "bad", "temp"}
      BY <1>0, <2>5 DEF Prepare, Exit, Goto, At
    <3> QED BY <1>0, <3>1 DEF GeneratorSeat
  <2>6. CASE GenTemp BY <1>0, <2>6 DEF GenTemp, Exit, Goto, At, GeneratorSeat
  <2>7. CASE GenLink BY <1>0, <2>7 DEF GenLink, Exit, Goto, At, GeneratorSeat
  <2>8. CASE GenUntemp BY <1>0, <2>8 DEF GenUntemp, locks, Goto, At, GeneratorSeat
  <2>9. CASE GenReady BY <1>0, <2>9 DEF GenReady, Exit, Goto, At, GeneratorSeat
  <2>10. CASE GeneratorReaped BY <1>0, <2>10 DEF GeneratorReaped, Goto, GeneratorSeat
  <2> QED BY <1>4, <2>1, <2>2, <2>3, <2>4, <2>5, <2>6, <2>7, <2>8, <2>9, <2>10 DEF GeneratorNext
<1> QED BY WhoMoves, <1>0, <1>1, <1>2, <1>3, <1>4 DEF Steps

\* Where the recovery leaves a worker.
LEMMA RecoverGoes ==
  ASSUME TypeInv, NEW p \in Workers, RecoverSteps(p)
  PROVE  pc'[p] \in {"recover", "row", "recover_lock", "recover_check", "recover_fix"}
PROOF
<1>0. p \in Procs /\ DOMAIN pc = Procs BY DEF TypeInv, Procs, Workers
<1> QED BY <1>0 DEF RecoverSteps, Begin, RecoverNext, RecoverLock, TryLock, RecoverCheck, RecoverFix,
  Busy, NextRow, Goto

LEMMA CleanupSeatStep ==
  ASSUME TypeInv, Seats, Next
  PROVE  CleanupSeat'
PROOF
<1>0. /\ "cleanup" \in Workers /\ Workers \subseteq Procs /\ DOMAIN pc = Procs /\ CleanupSeat
      /\ "cleanup" \in Procs
  BY DEF TypeInv, Procs, Workers, Seats, CleanupSeat
<1>1. CASE Same("cleanup") BY <1>0, <1>1 DEF Same, CleanupSeat
<1>2. CASE Crash("cleanup")
  <2>1. pc'["cleanup"] = "idle" BY <1>0, <1>2 DEF Crash, Goto
  <2> QED BY <2>1 DEF CleanupSeat
<1>3. CASE RecoverSteps("cleanup") BY RecoverGoes, <1>0, <1>3 DEF CleanupSeat
<1>4. CASE CleanupNext
  <2>1. CASE \E orphan, identity \in BOOLEAN : CleanupRow(orphan, identity)
    <3>1. rows["cleanup"] # <<>> /\ (UNCHANGED rows \/ NextRow("cleanup"))
      BY <2>1 DEF CleanupRow
    <3>2. UNCHANGED rows \/ pc'["cleanup"] = "row" BY <1>0, <3>1 DEF NextRow, Goto
    <3> QED BY <3>1, <3>2 DEF CleanupSeat
  <2>2. CASE CleanupLock BY <1>0, <2>2 DEF CleanupLock, TryLock, Goto, At, CleanupSeat
  <2>3. CASE CleanupPend
    <3>1. pc["cleanup"] = "pend" /\ (UNCHANGED rows \/ NextRow("cleanup"))
      BY <2>3 DEF CleanupPend, At
    <3>2. UNCHANGED rows \/ pc'["cleanup"] = "row" BY <1>0, <3>1 DEF NextRow, Goto
    <3> QED BY <1>0, <3>1, <3>2 DEF CleanupSeat
  <2>4. CASE CleanupUnlink BY <1>0, <2>4 DEF CleanupUnlink, Goto, At, CleanupSeat
  <2>5. CASE CleanupTmp BY <1>0, <2>5 DEF CleanupTmp, Goto, At, CleanupSeat
  <2>6. CASE CleanupDeleted
    <3>1. pc["cleanup"] = "deleted" /\ UNCHANGED rows BY <2>6 DEF CleanupDeleted, At
    <3> QED BY <1>0, <3>1 DEF CleanupSeat
  <2>7. CASE CleanupUnlock BY <1>0, <2>7 DEF CleanupUnlock, NextRow, Goto, CleanupSeat
  <2>8. CASE \E gone \in SUBSET Ids : CleanupEnd(gone)
    <3>1. pc'["cleanup"] = "idle" BY <1>0, <2>8 DEF CleanupEnd, Goto
    <3> QED BY <3>1 DEF CleanupSeat
  <2> QED BY <1>4, <2>1, <2>2, <2>3, <2>4, <2>5, <2>6, <2>7, <2>8 DEF CleanupNext
<1> QED BY WhoMoves, <1>0, <1>1, <1>2, <1>3, <1>4 DEF Steps

LEMMA SyncSeatStep ==
  ASSUME TypeInv, Seats, Next
  PROVE  SyncSeat'
PROOF
<1>0. /\ "sync" \in Workers /\ Workers \subseteq Procs /\ DOMAIN pc = Procs /\ SyncSeat
      /\ "sync" \in Procs /\ at \in [Procs -> Ids] /\ rows \in [Procs -> Seq(Entry)]
  BY DEF TypeInv, Procs, Workers, Seats, SyncSeat
<1>1. CASE Same("sync") BY <1>0, <1>1 DEF Same, SyncSeat
<1>2. CASE Crash("sync")
  <2>1. pc'["sync"] = "idle" BY <1>0, <1>2 DEF Crash, Goto
  <2> QED BY <2>1 DEF SyncSeat
<1>3. CASE RecoverSteps("sync") BY RecoverGoes, <1>0, <1>3 DEF SyncSeat
<1>4. CASE SyncNext
  <2>0. ASSUME NextRow("sync") PROVE SyncSeat'
    BY <1>0, <2>0 DEF NextRow, Goto, SyncSeat
  <2>1. CASE \E young \in BOOLEAN : SyncSkip(young) BY <2>0, <2>1 DEF SyncSkip
  <2>2. CASE \E wait \in BOOLEAN : SyncRow(wait)
    <3>1. /\ UNCHANGED <<rows, at>> /\ rows["sync"] # <<>>
          /\ Head(rows["sync"]).row.state = "READY"
      BY <2>2 DEF SyncRow
    <3>2. \/ pc'["sync"] = "look" /\ Head(rows["sync"]).id = "h5"
          \/ pc'["sync"] = "job"
      BY <1>0, <2>2 DEF SyncRow, Procs
    <3> QED BY <3>1, <3>2 DEF SyncSeat
  <2>3. CASE \E wait \in BOOLEAN : SyncJob(wait)
    <3>1. CASE NextRow("sync") BY <2>0, <3>1
    <3>2. CASE ~NextRow("sync")
      <4>1. /\ pc["sync"] = "job" /\ UNCHANGED rows /\ Open("sync", Head(rows["sync"]).id)
            /\ Goto("sync", "check_lock") \/ Goto("sync", "up_lock")
        BY <2>3, <3>2 DEF SyncJob, At
      <4>2. pc'["sync"] \in {"check_lock", "up_lock"} BY <1>0, <4>1 DEF Goto
      <4>3. at'["sync"] = Head(rows["sync"]).id BY <1>0, <4>1 DEF Open
      <4> QED BY <1>0, <4>1, <4>2, <4>3 DEF SyncSeat
    <3> QED BY <3>1, <3>2
  <2>4. CASE LookDone
    <3>1. pc["sync"] = "look" /\ pc'["sync"] = "job" /\ UNCHANGED <<rows, at>>
      BY <1>0, <2>4 DEF LookDone, At, Procs
    <3> QED BY <1>0, <3>1 DEF SyncSeat
  <2>5. CASE LookTimeout
    <3>1. pc["sync"] = "look" /\ pc'["sync"] = "job" /\ UNCHANGED <<rows, at>>
      BY <1>0, <2>5 DEF LookTimeout, At, Procs
    <3> QED BY <1>0, <3>1 DEF SyncSeat
  <2>6. CASE CheckLock BY <1>0, <2>6 DEF CheckLock, TryLock, Goto, At, SyncSeat
  <2>7. CASE UploadLock BY <1>0, <2>7 DEF UploadLock, TryLock, Goto, At, SyncSeat
  <2>8. CASE Check
    <3>1. Goto("sync", "idle") \/ NextRow("sync") BY <2>8 DEF Check
    <3> QED BY <1>0, <2>0, <3>1 DEF Goto, SyncSeat
  <2>9. CASE UploadRow
    <3> DEFINE i == Head(rows["sync"]).id
               e == [id |-> i, row |-> row'[i]]
    <3>1. pc["sync"] = "up_row" /\ UNCHANGED at BY <2>9 DEF UploadRow, At
    <3>2. CASE row[i].state # "READY" \/ expired
      <4>1. pc'["sync"] = "up_end" /\ UNCHANGED rows BY <1>0, <2>9, <3>2 DEF UploadRow, Goto
      <4> QED BY <1>0, <3>1, <4>1 DEF SyncSeat
    <3>3. CASE row[i].state = "READY" /\ ~expired
      <4>1. /\ pc'["sync"] \in {"up_fail", "copy"}
            /\ rows' = [rows EXCEPT !["sync"] = <<e>> \o Tail(rows["sync"])]
            /\ UNCHANGED row \/ row' = [row EXCEPT ![i].digest = file[i]]
        BY <1>0, <2>9, <3>3 DEF UploadRow, Goto
      <4>2. Head(rows["sync"]) \in Entry /\ Tail(rows["sync"]) \in Seq(Entry)
        BY <1>0, <3>1 DEF SyncSeat
      <4>3. i \in Ids BY <4>2 DEF Entry
      <4>4. at["sync"] = i BY <1>0, <3>1 DEF SyncSeat
      <4> HIDE DEF i
      <4>5. row'[i] \in Row BY RowTyped, <4>3
      <4>6. row'[i].state = "READY" BY <3>3, <4>1, <4>3 DEF TypeInv, Row
      <4>7. e \in Entry /\ e.id = i /\ e.row.state = "READY" BY <4>3, <4>5, <4>6 DEF Entry
      <4> HIDE DEF e
      <4>8. <<e>> \in Seq(Entry) /\ Len(<<e>>) = 1 /\ <<e>>[1] = e BY <4>7
      <4>9. <<e>> \o Tail(rows["sync"]) \in Seq(Entry) /\ Len(<<e>> \o Tail(rows["sync"])) >= 1
            /\ (<<e>> \o Tail(rows["sync"]))[1] = e
        BY <4>2, <4>8, ConcatProperties, LenProperties
      <4>10. rows'["sync"] \in Seq(Entry) /\ Len(rows'["sync"]) >= 1 /\ rows'["sync"][1] = e
        BY <1>0, <4>1, <4>9
      <4>11. rows'["sync"] # <<>> /\ Head(rows'["sync"]) = e BY <4>10
      <4> QED BY <3>1, <4>1, <4>4, <4>7, <4>11 DEF SyncSeat
    <3> QED BY <3>2, <3>3
  <2>10. CASE \E works, stored \in BOOLEAN : Copy(works, stored)
    BY <1>0, <2>10 DEF Copy, Goto, At, SyncSeat
  <2>11. CASE \E works \in BOOLEAN : Verify(works) BY <1>0, <2>11 DEF Verify, Goto, At, SyncSeat
  <2>12. CASE PostVerify
    <3>1. pc["sync"] = "post" /\ pc'["sync"] \in {"up_end", "up_fail"} /\ UNCHANGED <<rows, at>>
      BY <1>0, <2>12 DEF PostVerify, Goto, At
    <3> QED BY <1>0, <3>1 DEF SyncSeat
  <2>13. CASE UploadFails
    <3>1. pc["sync"] = "up_fail" /\ pc'["sync"] = "up_end" /\ UNCHANGED rows
      BY <1>0, <2>13 DEF UploadFails, Goto, At
    <3> QED BY <1>0, <3>1 DEF SyncSeat
  <2>14. CASE UploadEnd BY <2>0, <2>14 DEF UploadEnd
  <2>15. CASE SyncEnd BY <1>0, <2>15 DEF SyncEnd, Goto, SyncSeat
  <2> QED BY <1>4, <2>1, <2>2, <2>3, <2>4, <2>5, <2>6, <2>7, <2>8, <2>9, <2>10, <2>11, <2>12, <2>13,
             <2>14, <2>15 DEF SyncNext
<1> QED BY WhoMoves, <1>0, <1>1, <1>2, <1>3, <1>4 DEF Steps

LEMMA SeatsStep ==
  ASSUME TypeInv, Seats, Next
  PROVE  Seats'
BY WriterSeatStep, GeneratorSeatStep, CleanupSeatStep, SyncSeatStep DEF Seats

-----------------------------------------------------------------------------
(* Being gone is for ever.                                                 *)

LEMMA BegunStays ==
  ASSUME TypeInv, Next, Begun
  PROVE  Begun'
PROOF
<1>0. "writer" \in Procs /\ "writer" \notin Workers /\ DOMAIN pc = Procs
  BY DEF TypeInv, Procs, Workers
<1>1. CASE Same("writer") BY <1>1 DEF Same, Begun
<1>2. CASE Crash("writer") \/ WriterFails BY <1>0, <1>2 DEF Crash, WriterFails, Goto, Begun
<1>3. CASE WriterNext
  BY <1>0, <1>3 DEF WriterNext, WriterOpen, WriterLock, Reserve, Write, Publish, WriterReady, Goto,
    At, Begun
<1> QED BY WhoMoves, <1>0, <1>1, <1>2, <1>3 DEF Steps

LEMMA GoneStays ==
  ASSUME TypeInv, Seats, Unbegun, Charged, Next, NEW i \in Ids
  PROVE  /\ Gone(i) => Gone(i)'
         /\ Past(i) => Past(i)'
PROOF
<1>0. /\ "h5" \in Ids /\ "png" \in Ids /\ i \in {"h5", "png"}
      /\ S("png") # "none" => Cap = 0
      /\ NoRow.state = "none" /\ NoRow.pngCap = 0
  BY DEF Ids, Charged, NoRow
<1>1. Begun => Begun' BY BegunStays
<1>2. CASE UNCHANGED row BY <1>1, <1>2 DEF Gone, Past, S, Cap
<1>3. CASE Reserve
  <2>1. ~Begun BY <1>3 DEF Reserve, At, Begun
  <2>2. ~Gone(i) /\ ~Past(i) BY <2>1 DEF Unbegun, Gone, Past
  <2> QED BY <2>2
<1>4. CASE Ends("h5") BY <1>0, <1>1, <1>4 DEF Ends, Only, Gone, Past, S, Cap
<1>5. ASSUME NEW p \in Workers, Ends(at[p]) PROVE (Gone(i) => Gone(i)') /\ (Past(i) => Past(i)')
  BY <1>0, <1>1, <1>5 DEF Ends, Only, Gone, Past, S, Cap
<1>6. CASE Ends("png") BY <1>0, <1>1, <1>6 DEF Ends, Only, Gone, Past, S, Cap
<1>7. ASSUME NEW j, NEW from, NEW to \in {"QUARANTINED", "DELETE_PENDING", "DELETED"}, Turns(j, from, to),
             to = "QUARANTINED" => from = {"READY"},
             to = "DELETE_PENDING" => "none" \notin from /\ "DELETED" \notin from
      PROVE (Gone(i) => Gone(i)') /\ (Past(i) => Past(i)')
  BY <1>0, <1>1, <1>7 DEF Turns, Only, Gone, Past, S, Cap
<1>8. CASE Forgets
  <2>1. S(i) = "DELETED" => Begun BY <1>0 DEF Unbegun, Ids
  <2>2. Cap' = Cap \/ Cap' = 0 BY <1>0, <1>8 DEF Forgets, Cap
  <2>3. S("png") \in {"none", "DELETED"} => Cap = 0 \/ S("png") = "none" BY <1>0
  <2>4. row'[i] = row[i] \/ (S(i) = "DELETED" /\ row'[i].state = "none")
    BY <1>0, <1>8 DEF Forgets, Ids
  <2> QED BY <1>0, <1>1, <2>1, <2>2, <2>3, <2>4 DEF Gone, Past, S
<1>9. CASE Digests(at["sync"]) BY <1>0, <1>1, <1>9 DEF Digests, Only, Gone, Past, S, Cap
<1>10. CASE Prepares BY <1>0, <1>1, <1>10 DEF Prepares, Gone, Past, S, Cap
<1> QED BY RowSteps, <1>2, <1>3, <1>4, <1>5, <1>6, <1>7, <1>8, <1>9, <1>10 DEF RowStep, States

-----------------------------------------------------------------------------
(* Who has a lock.                                                         *)

LEMMA OneOwnerStep ==
  ASSUME TypeInv, Seats, OneOwner, Next
  PROVE  OneOwner'
PROOF
<1>1. ASSUME held' \subseteq held PROVE OneOwner' BY <1>1 DEF OneOwner
<1>2. ASSUME NEW p \in Procs, NEW mode \in {"shared", "exclusive"}, Takes(p, mode) PROVE OneOwner'
  <2> DEFINE l == [proc |-> p, inode |-> fd[p], mode |-> mode]
  <2>1. held' = held \cup {l} BY <1>2 DEF Takes
  <2>2. l.inode = fd[p] /\ l.mode = mode OBVIOUS
  <2>3. \A h \in held : h.inode = fd[p] => mode = "shared" /\ h.mode = "shared"
    BY <1>2 DEF Takes, Free
  <2> HIDE DEF l
  <2> QED BY <2>1, <2>2, <2>3 DEF OneOwner
<1>3. ASSUME NEW p \in Procs, Opens(p) PROVE held' \subseteq held BY <1>3 DEF Opens, Open
<1>4. ASSUME NEW p \in Procs, LetsGo(p) PROVE held' \subseteq held BY <1>4 DEF LetsGo, Release
<1> QED BY LockSteps, <1>1, <1>2, <1>3, <1>4 DEF LockStep, Unlinks

\* The lock file stays as long as the artifact is not gone.
LEMMA InodeStays ==
  ASSUME TypeInv, Seats, Unbegun, Charged, Pending, Next, NEW i \in Ids, ~Gone(i)'
  PROVE  ~Gone(i) /\ (inode[i] # 0 => inode'[i] = inode[i])
PROOF
<1>1. ~Gone(i) BY GoneStays
<1>2. inode \in [Ids -> Nat] BY DEF TypeInv
<1>3. CASE Unlinks
  <2>1. Gone(at["cleanup"]) /\ inode' = [inode EXCEPT ![at["cleanup"]] = 0]
    BY <1>3 DEF Unlinks, At, Pending
  <2> QED BY <1>1, <1>2, <2>1
<1>4. ASSUME NEW p \in Procs, Opens(p) PROVE inode[i] # 0 => inode'[i] = inode[i]
  BY <1>2, <1>4 DEF Opens, Open
<1> QED BY LockSteps, <1>1, <1>3, <1>4 DEF LockStep, LetsGo, Takes

\* The steps of a process, as far as its lock goes.
Without(p) == pc'[p] \notin Opening \cup Exclusive

Opened(p) == pc'[p] \in Opening /\ fd'[p] = inode'[at'[p]] /\ fd'[p] # 0

Locks(p) ==
  /\ pc[p] \in Opening /\ pc'[p] \in Exclusive /\ UNCHANGED <<inode, at>>
  /\ [proc |-> p, inode |-> fd[p], mode |-> "exclusive"] \in held'

Keeps(p) == pc[p] \in Exclusive /\ pc'[p] \in Exclusive /\ UNCHANGED locks /\ UNCHANGED at

OwnLock(p) == Without(p) \/ Opened(p) \/ Locks(p) \/ Keeps(p)

LEMMA OpenedFresh ==
  ASSUME TypeInv, NEW p \in Procs, NEW i \in Ids, Open(p, i), pc'[p] \in Opening
  PROVE  Opened(p)
PROOF
<1>1. inode \in [Ids -> Nat] /\ fd \in [Procs -> Nat] /\ at \in [Procs -> Ids] BY DEF TypeInv
<1>2. Fresh # 0 BY FreshIsNew
<1>3. inode'[i] # 0 BY <1>1, <1>2 DEF Open
<1>4. fd'[p] = inode'[i] /\ at'[p] = i BY <1>1 DEF Open
<1> QED BY <1>3, <1>4 DEF Opened

LEMMA LocksOf ==
  ASSUME TypeInv, NEW p \in Procs, NEW place, NEW busy, TryLock(p, "exclusive", place, busy),
         pc[p] \in Opening, place \in Exclusive, busy \notin Opening \cup Exclusive
  PROVE  OwnLock(p)
PROOF
<1>1. DOMAIN pc = Procs BY DEF TypeInv
<1>2. CASE Free(p, "exclusive")
  <2>1. /\ held' = held \cup {[proc |-> p, inode |-> fd[p], mode |-> "exclusive"]}
        /\ UNCHANGED <<inode, at>> /\ Goto(p, place)
    BY <1>2 DEF TryLock
  <2>2. pc'[p] = place BY <1>1, <2>1 DEF Goto
  <2> QED BY <2>1, <2>2 DEF Locks, OwnLock
<1>3. CASE ~Free(p, "exclusive")
  <2>1. pc'[p] = busy BY <1>1, <1>3 DEF TryLock, Goto
  <2> QED BY <2>1 DEF Without, OwnLock
<1> QED BY <1>2, <1>3

LEMMA HeadId ==
  ASSUME TypeInv, NEW p \in Procs, rows[p] # <<>>
  PROVE  /\ Head(rows[p]) \in Entry /\ Head(rows[p]).id \in Ids /\ Head(rows[p]) = rows[p][1]
         /\ 1 \in DOMAIN rows[p] /\ rows[p] \in Seq(Entry)
PROOF
<1>1. rows[p] \in Seq(Entry) BY DEF TypeInv
<1>2. Head(rows[p]) \in Entry BY <1>1
<1>3. Head(rows[p]).id \in Ids BY <1>2 DEF Entry
<1> QED BY <1>1, <1>2, <1>3

LEMMA WriterOwn ==
  ASSUME TypeInv, Seats, WriterNext
  PROVE  OwnLock("writer")
PROOF
<1>0. "writer" \in Procs /\ DOMAIN pc = Procs BY DEF TypeInv, Procs, Workers
<1>1. CASE WriterOpen
  <2>1. \/ pc'["writer"] \in {"end"}
        \/ Open("writer", "h5") /\ pc'["writer"] \in {"lock"}
    BY <1>0, <1>1 DEF WriterOpen, Goto
  <2>2. "h5" \in Ids BY DEF Ids
  <2> QED BY <1>0, <2>1, <2>2, OpenedFresh DEF Without, Opening, Exclusive, OwnLock
<1>2. CASE WriterLock
  <2>1. pc["writer"] \in Opening /\ TryLock("writer", "exclusive", "reserve", "end")
    BY <1>2 DEF WriterLock, At, Opening
  <2>2. "reserve" \in Exclusive /\ "end" \notin Opening \cup Exclusive BY DEF Opening, Exclusive
  <2> QED BY <1>0, <2>1, <2>2, LocksOf
<1>3. CASE Reserve BY <1>0, <1>3 DEF Reserve, Goto, At, locks, Keeps, Opening, Exclusive, OwnLock
<1>4. CASE Write BY <1>0, <1>4 DEF Write, Goto, At, locks, Keeps, Opening, Exclusive, OwnLock
<1>5. CASE Publish BY <1>0, <1>5 DEF Publish, Goto, At, locks, Keeps, Opening, Exclusive, OwnLock
<1>6. CASE WriterReady BY <1>0, <1>6 DEF WriterReady, Goto, At, Without, Opening, Exclusive, OwnLock
<1> QED BY <1>1, <1>2, <1>3, <1>4, <1>5, <1>6 DEF WriterNext

LEMMA RecoverOwn ==
  ASSUME TypeInv, Seats, NEW p \in Workers, RecoverSteps(p)
  PROVE  OwnLock(p)
PROOF
<1>0. p \in Procs /\ DOMAIN pc = Procs BY DEF TypeInv, Procs, Workers
<1>1. CASE Begin(p) BY <1>0, <1>1 DEF Begin, Goto, At, Without, Opening, Exclusive, OwnLock
<1>2. CASE RecoverNext(p)
  <2>1. \/ pc'[p] = "row"
        \/ /\ rows[p] # <<>> /\ Open(p, Head(rows[p]).id) /\ pc'[p] = "recover_lock"
    BY <1>0, <1>2 DEF RecoverNext, Goto
  <2>2. rows[p] # <<>> => Head(rows[p]).id \in Ids BY <1>0, HeadId
  <2> QED BY <1>0, <2>1, <2>2, OpenedFresh DEF Without, Opening, Exclusive, OwnLock
<1>3. CASE RecoverLock(p)
  <2>1. pc[p] \in Opening /\ TryLock(p, "exclusive", "recover_check", "recover")
    BY <1>3 DEF RecoverLock, At, Opening
  <2>2. "recover_check" \in Exclusive /\ "recover" \notin Opening \cup Exclusive BY DEF Opening, Exclusive
  <2> QED BY <1>0, <2>1, <2>2, LocksOf
<1>4. CASE RecoverCheck(p) BY <1>0, <1>4 DEF RecoverCheck, Goto, At, locks, Keeps, Opening, Exclusive, OwnLock
<1>5. CASE RecoverFix(p) BY <1>0, <1>5 DEF RecoverFix, Goto, At, Without, Opening, Exclusive, OwnLock
<1>6. CASE Busy(p) BY <1>0, <1>6 DEF Busy, NextRow, Goto, At, Without, Opening, Exclusive, OwnLock
<1> QED BY <1>1, <1>2, <1>3, <1>4, <1>5, <1>6 DEF RecoverSteps

LEMMA CleanupOwn ==
  ASSUME TypeInv, Seats, CleanupNext
  PROVE  OwnLock("cleanup")
PROOF
<1>0. "cleanup" \in Procs /\ DOMAIN pc = Procs BY DEF TypeInv, Procs, Workers
<1>1. CASE \E orphan, identity \in BOOLEAN : CleanupRow(orphan, identity)
  <2>1. /\ rows["cleanup"] # <<>>
        /\ \/ pc'["cleanup"] = "row"
           \/ Open("cleanup", Head(rows["cleanup"]).id) /\ pc'["cleanup"] = "lock"
    BY <1>0, <1>1 DEF CleanupRow, NextRow, Goto
  <2>2. Head(rows["cleanup"]).id \in Ids BY <1>0, <2>1, HeadId
  <2> QED BY <1>0, <2>1, <2>2, OpenedFresh DEF Without, Opening, Exclusive, OwnLock
<1>2. CASE CleanupLock
  <2>1. pc["cleanup"] \in Opening /\ TryLock("cleanup", "exclusive", "pend", "busy")
    BY <1>2 DEF CleanupLock, At, Opening
  <2>2. "pend" \in Exclusive /\ "busy" \notin Opening \cup Exclusive BY DEF Opening, Exclusive
  <2> QED BY <1>0, <2>1, <2>2, LocksOf
<1>3. CASE CleanupPend
  <2>1. \/ pc'["cleanup"] \in {"row"}
        \/ pc["cleanup"] \in Exclusive /\ pc'["cleanup"] = "unlink" /\ UNCHANGED <<locks, at>>
    BY <1>0, <1>3 DEF CleanupPend, NextRow, Goto, At, Exclusive, locks
  <2> QED BY <2>1 DEF Keeps, Without, Opening, Exclusive, OwnLock
<1>4. CASE CleanupUnlink BY <1>0, <1>4 DEF CleanupUnlink, Goto, At, locks, Keeps, Opening, Exclusive, OwnLock
<1>5. CASE CleanupTmp BY <1>0, <1>5 DEF CleanupTmp, Goto, At, locks, Keeps, Opening, Exclusive, OwnLock
<1>6. CASE CleanupDeleted BY <1>0, <1>6 DEF CleanupDeleted, Goto, At, Without, Opening, Exclusive, OwnLock
<1>7. CASE CleanupUnlock BY <1>0, <1>7 DEF CleanupUnlock, NextRow, Goto, At, Without, Opening, Exclusive, OwnLock
<1>8. CASE \E gone \in SUBSET Ids : CleanupEnd(gone) BY <1>0, <1>8 DEF CleanupEnd, Goto, At, Without, Opening, Exclusive, OwnLock
<1> QED BY <1>1, <1>2, <1>3, <1>4, <1>5, <1>6, <1>7, <1>8 DEF CleanupNext

LEMMA SyncOwn ==
  ASSUME TypeInv, Seats, SyncNext
  PROVE  OwnLock("sync")
PROOF
<1>0. "sync" \in Procs /\ DOMAIN pc = Procs BY DEF TypeInv, Procs, Workers
<1>1. CASE \E young \in BOOLEAN : SyncSkip(young) BY <1>0, <1>1 DEF SyncSkip, NextRow, Goto, At, Without, Opening, Exclusive, OwnLock
<1>2. CASE \E wait \in BOOLEAN : SyncRow(wait)
  <2>1. pc'["sync"] \in {"look", "job"} BY <1>0, <1>2 DEF SyncRow, Procs, Goto
  <2> QED BY <2>1 DEF Without, Opening, Exclusive, OwnLock
<1>3. CASE \E wait \in BOOLEAN : SyncJob(wait)
  <2>1. /\ rows["sync"] # <<>>
        /\ \/ pc'["sync"] = "row"
           \/ /\ Open("sync", Head(rows["sync"]).id)
              /\ pc'["sync"] \in {"check_lock", "up_lock"}
    BY <1>0, <1>3 DEF SyncJob, NextRow, Goto, At, Seats, SyncSeat
  <2>2. Head(rows["sync"]).id \in Ids BY <1>0, <2>1, HeadId
  <2> QED BY <1>0, <2>1, <2>2, OpenedFresh DEF Without, Opening, Exclusive, OwnLock
<1>4. CASE LookDone
  <2>1. pc'["sync"] \in {"job"} BY <1>0, <1>4 DEF LookDone, Procs, Goto
  <2> QED BY <2>1 DEF Without, Opening, Exclusive, OwnLock
<1>5. CASE LookTimeout
  <2>1. pc'["sync"] \in {"job"} BY <1>0, <1>5 DEF LookTimeout, Procs, Goto
  <2> QED BY <2>1 DEF Without, Opening, Exclusive, OwnLock
<1>6. CASE CheckLock
  <2>1. pc'["sync"] \in {"check", "busy"} BY <1>0, <1>6 DEF CheckLock, TryLock, Goto
  <2> QED BY <2>1 DEF Without, Opening, Exclusive, OwnLock
<1>7. CASE UploadLock
  <2>1. pc'["sync"] \in {"up_row", "busy"} BY <1>0, <1>7 DEF UploadLock, TryLock, Goto
  <2> QED BY <2>1 DEF Without, Opening, Exclusive, OwnLock
<1>8. CASE Check
  <2>1. pc'["sync"] \in {"idle", "row"} BY <1>0, <1>8 DEF Check, NextRow, Goto
  <2> QED BY <2>1 DEF Without, Opening, Exclusive, OwnLock
<1>9. CASE UploadRow
  <2>1. pc'["sync"] \in {"up_end", "up_fail", "copy"} BY <1>0, <1>9 DEF UploadRow, Goto
  <2> QED BY <2>1 DEF Without, Opening, Exclusive, OwnLock
<1>10. CASE \E works, stored \in BOOLEAN : Copy(works, stored)
  <2>1. pc'["sync"] \in {"verify", "up_fail"} BY <1>0, <1>10 DEF Copy, Goto
  <2> QED BY <2>1 DEF Without, Opening, Exclusive, OwnLock
<1>11. CASE \E works \in BOOLEAN : Verify(works)
  <2>1. pc'["sync"] \in {"post", "up_fail"} BY <1>0, <1>11 DEF Verify, Goto
  <2> QED BY <2>1 DEF Without, Opening, Exclusive, OwnLock
<1>12. CASE PostVerify
  <2>1. pc'["sync"] \in {"up_end", "up_fail"} BY <1>0, <1>12 DEF PostVerify, Goto
  <2> QED BY <2>1 DEF Without, Opening, Exclusive, OwnLock
<1>13. CASE UploadFails
  <2>1. pc'["sync"] \in {"up_end"} BY <1>0, <1>13 DEF UploadFails, Goto
  <2> QED BY <2>1 DEF Without, Opening, Exclusive, OwnLock
<1>14. CASE UploadEnd BY <1>0, <1>14 DEF UploadEnd, NextRow, Goto, At, Without, Opening, Exclusive, OwnLock
<1>15. CASE SyncEnd BY <1>0, <1>15 DEF SyncEnd, Goto, At, Without, Opening, Exclusive, OwnLock
<1> QED BY <1>1, <1>2, <1>3, <1>4, <1>5, <1>6, <1>7, <1>8, <1>9, <1>10, <1>11, <1>12, <1>13, <1>14, <1>15 DEF SyncNext

LEMMA GeneratorOwn ==
  ASSUME TypeInv, Seats, GeneratorNext
  PROVE  OwnLock("generator")
PROOF
<1>0. "generator" \in Procs /\ DOMAIN pc = Procs BY DEF TypeInv, Procs, Workers
<1>1. CASE GenBegin
  <2>1. \/ pc'["generator"] \in {"ok", "bad"}
        \/ Open("generator", "h5") /\ pc'["generator"] \in {"parent_lock"}
    BY <1>0, <1>1 DEF GenBegin, Goto
  <2>2. "h5" \in Ids BY DEF Ids
  <2> QED BY <1>0, <2>1, <2>2, OpenedFresh DEF Without, Opening, Exclusive, OwnLock
<1>2. CASE GenParentLock
  <2>1. pc'["generator"] \in {"render", "skip"} BY <1>0, <1>2 DEF GenParentLock, TryLock, Goto
  <2> QED BY <2>1 DEF Without, Opening, Exclusive, OwnLock
<1>3. CASE Render
  <2>1. \/ pc'["generator"] \in {"bad"}
        \/ Open("generator", "png") /\ pc'["generator"] \in {"png_lock"}
    BY <1>0, <1>3 DEF Render, Exit, Goto
  <2>2. "png" \in Ids BY DEF Ids
  <2> QED BY <1>0, <2>1, <2>2, OpenedFresh DEF Without, Opening, Exclusive, OwnLock
<1>4. CASE GenLock
  <2>1. pc["generator"] \in Opening /\ TryLock("generator", "exclusive", "prepare", "skip")
    BY <1>4 DEF GenLock, At, Opening
  <2>2. "prepare" \in Exclusive /\ "skip" \notin Opening \cup Exclusive BY DEF Opening, Exclusive
  <2> QED BY <1>0, <2>1, <2>2, LocksOf
<1>5. CASE Prepare
  <2>1. \/ pc'["generator"] \in {"ok", "bad"}
        \/ pc["generator"] \in Exclusive /\ pc'["generator"] = "temp" /\ UNCHANGED <<locks, at>>
    BY <1>0, <1>5 DEF Prepare, Exit, Goto, At, Exclusive, locks
  <2> QED BY <2>1 DEF Keeps, Without, Opening, Exclusive, OwnLock
<1>6. CASE GenTemp
  <2>1. \/ pc'["generator"] \in {"bad"}
        \/ pc["generator"] \in Exclusive /\ pc'["generator"] = "link" /\ UNCHANGED <<locks, at>>
    BY <1>0, <1>6 DEF GenTemp, Exit, Goto, At, Exclusive, locks
  <2> QED BY <2>1 DEF Keeps, Without, Opening, Exclusive, OwnLock
<1>7. CASE GenLink
  <2>1. \/ pc'["generator"] \in {"bad"}
        \/ pc["generator"] \in Exclusive /\ pc'["generator"] = "untemp" /\ UNCHANGED <<locks, at>>
    BY <1>0, <1>7 DEF GenLink, Exit, Goto, At, Exclusive, locks
  <2> QED BY <2>1 DEF Keeps, Without, Opening, Exclusive, OwnLock
<1>8. CASE GenUntemp BY <1>0, <1>8 DEF GenUntemp, Goto, At, locks, Keeps, Opening, Exclusive, OwnLock
<1>9. CASE GenReady BY <1>0, <1>9 DEF GenReady, Exit, Goto, At, Without, Opening, Exclusive, OwnLock
<1>10. CASE GeneratorReaped BY <1>0, <1>10 DEF GeneratorReaped, Goto, At, Without, Opening, Exclusive, OwnLock
<1> QED BY <1>1, <1>2, <1>3, <1>4, <1>5, <1>6, <1>7, <1>8, <1>9, <1>10 DEF GeneratorNext

LEMMA OwnLockSteps ==
  ASSUME TypeInv, Seats, Next, NEW p \in Procs, ~Same(p)
  PROVE  OwnLock(p)
PROOF
<1>0. DOMAIN pc = Procs BY DEF TypeInv
<1>1. CASE p = "writer" /\ WriterFails
  <2>1. pc'[p] = "end" BY <1>0, <1>1 DEF WriterFails, Goto
  <2> QED BY <2>1 DEF Without, Opening, Exclusive, OwnLock
<1>2. CASE Crash(p)
  <2>1. pc'[p] \in {"end", "bad", "idle"} BY <1>0, <1>2 DEF Crash, Goto
  <2> QED BY <2>1 DEF Without, Opening, Exclusive, OwnLock
<1>3. CASE pc'[p] \in {"begin", "idle"} BY <1>3 DEF Without, Opening, Exclusive, OwnLock
<1> QED BY WhoMoves, WriterOwn, RecoverOwn, CleanupOwn, SyncOwn, GeneratorOwn, <1>1, <1>2, <1>3
    DEF Steps

LEMMA SameInodeStep ==
  ASSUME TypeInv, Seats, Unbegun, Charged, Pending, SameInode, Next
  PROVE  SameInode'
PROOF
<1> SUFFICES ASSUME NEW p \in Procs, ~Gone(at[p])'
             PROVE  /\ pc'[p] \in Opening => fd'[p] = inode'[at'[p]] /\ fd'[p] # 0
                    /\ pc'[p] \in Exclusive =>
                         /\ inode'[at'[p]] # 0
                         /\ [proc |-> p, inode |-> inode'[at'[p]], mode |-> "exclusive"] \in held'
  BY DEF SameInode
<1>0. at'[p] \in Ids /\ Opening \cap Exclusive = {} BY LocksTyped DEF Opening, Exclusive
<1>1. /\ ~Gone(at'[p])
      /\ inode[at'[p]] # 0 => inode'[at'[p]] = inode[at'[p]]
  <2>1. PICK i \in Ids : i = at'[p] BY <1>0
  <2>2. ~(Gone(i)') BY <2>1 DEF Gone, S, Begun, Cap
  <2>3. ~Gone(i) /\ (inode[i] # 0 => inode'[i] = inode[i]) BY <2>2, InodeStays
  <2> QED BY <2>1, <2>3
<1>2. at'[p] = at[p] => /\ pc[p] \in Opening => fd[p] = inode[at[p]] /\ fd[p] # 0
                        /\ pc[p] \in Exclusive =>
                             /\ inode[at[p]] # 0
                             /\ [proc |-> p, inode |-> inode[at[p]], mode |-> "exclusive"] \in held
  BY <1>1 DEF SameInode
<1>3. CASE Same(p) BY <1>1, <1>2, <1>3 DEF Same
<1>4. CASE Without(p) BY <1>4 DEF Without
<1>5. CASE Opened(p) BY <1>0, <1>5 DEF Opened
<1>6. CASE Locks(p) BY <1>0, <1>2, <1>6 DEF Locks
<1>7. CASE Keeps(p) BY <1>0, <1>2, <1>7 DEF Keeps, locks
<1> QED BY OwnLockSteps, <1>3, <1>4, <1>5, <1>6, <1>7 DEF OwnLock

\* Two processes that are each alone with one artifact are one process.
LEMMA Sole ==
  ASSUME OneOwner, SameInode, NEW p \in Procs, NEW q \in Procs, at[p] = at[q], ~Gone(at[p]),
         pc[p] \in Exclusive, pc[q] \in Exclusive
  PROVE  p = q
PROOF
<1> DEFINE h == [proc |-> p, inode |-> inode[at[p]], mode |-> "exclusive"]
           g == [proc |-> q, inode |-> inode[at[p]], mode |-> "exclusive"]
<1>1. h \in held /\ g \in held BY DEF SameInode
<1>2. /\ h.inode = g.inode /\ h.mode = "exclusive" /\ h.proc = p /\ g.proc = q OBVIOUS
<1> HIDE DEF h, g
<1>3. h = g BY <1>1, <1>2 DEF OneOwner
<1> QED BY <1>2, <1>3

-----------------------------------------------------------------------------
(* Who writes is left alone.                                               *)

\* Nobody else ends a writing, or gives it up, while its process has the lock.
LEMMA WritingStays ==
  ASSUME TypeInv, Seats, OneOwner, SameInode, Next, NEW q \in Procs, Same(q), pc[q] \in Exclusive,
         S(at[q]) = "WRITING", q \in {"writer", "generator"},
         at[q] = IF q = "writer" THEN "h5" ELSE "png",
         q = "writer" => pc[q] \in {"write", "publish", "ready"}
  PROVE  row'[at[q]].state = "WRITING"
PROOF
<1> DEFINE i == at[q]
<1>0. /\ i \in Ids /\ "h5" \in Ids /\ "png" \in Ids /\ DOMAIN pc = Procs /\ Workers \subseteq Procs
      /\ Workers \cap {"writer", "generator"} = {}
      /\ "cleanup" \in Procs /\ "writer" \in Procs /\ "generator" \in Procs
  BY DEF TypeInv, Ids, Procs, Workers
<1>1. ~Gone(i) BY DEF Gone
<1>2. CASE UNCHANGED row BY <1>2 DEF S
<1>3. CASE Reserve
  <2>1. pc["writer"] = "reserve" /\ pc'["writer"] = "write" BY <1>0, <1>3 DEF Reserve, At, Goto
  <2>2. q # "writer" BY <2>1 DEF Same
  <2>3. Only("h5") \/ UNCHANGED row BY <1>3, RowSteps DEF RowStep, Reserve, Reserves, Only
  <2> QED BY <1>0, <2>2, <1>3 DEF Reserve, S, TypeInv
<1>4. CASE (WriterReady \/ WriterFails) /\ Ends("h5")
  <2>1. pc["writer"] # "end" /\ pc'["writer"] = "end"
    BY <1>0, <1>4 DEF WriterReady, WriterFails, At, Goto
  <2>2. q # "writer" BY <2>1 DEF Same
  <2> QED BY <1>0, <2>2, <1>4 DEF Ends, Only, S
<1>5. ASSUME NEW p \in Workers, RecoverFix(p), Ends(at[p]) PROVE row'[i].state = "WRITING"
  <2>1. pc[p] = "recover_fix" BY <1>5 DEF RecoverFix, At
  <2>2. at[p] # i BY <1>0, <1>1, <2>1, Sole DEF Exclusive
  <2> QED BY <1>0, <1>5, <2>2 DEF Ends, Only, S
<1>6. CASE GenReady /\ Ends("png")
  <2>1. pc["generator"] = "ready" /\ pc'["generator"] # "ready"
    BY <1>0, <1>6 DEF GenReady, Exit, At, Goto
  <2>2. q # "generator" BY <2>1 DEF Same
  <2> QED BY <1>0, <2>2, <1>6 DEF Ends, Only, S
<1>7. CASE Turns(at["sync"], {"READY"}, "QUARANTINED") BY <1>0, <1>7 DEF Turns, Only, S
<1>8. CASE CleanupPend /\ Turns(at["cleanup"], States \ {"none", "DELETED"}, "DELETE_PENDING")
  <2>1. pc["cleanup"] = "pend" BY <1>8 DEF CleanupPend, At
  <2>2. at["cleanup"] # i BY <1>0, <1>1, <2>1, Sole DEF Exclusive
  <2> QED BY <1>0, <1>8, <2>2 DEF Turns, Only, S
<1>9. CASE Turns(at["cleanup"], {"DELETE_PENDING"}, "DELETED") BY <1>0, <1>9 DEF Turns, Only, S
<1>10. CASE Forgets BY <1>0, <1>10 DEF Forgets, S
<1>11. CASE Digests(at["sync"]) BY <1>0, <1>11 DEF Digests, Only, S
<1>12. CASE Prepares BY <1>0, <1>12 DEF Prepares, S
<1> QED BY RowSteps, <1>2, <1>3, <1>4, <1>5, <1>6, <1>7, <1>8, <1>9, <1>10, <1>11, <1>12 DEF RowStep

\* The writer's own steps.
LEMMA WriterWrites ==
  ASSUME TypeInv, LiveOwnerKeepsWriting, WriterNext \/ WriterFails \/ Crash("writer"),
         pc'["writer"] \in {"write", "publish", "ready"}
  PROVE  row'["h5"].state = "WRITING"
PROOF
<1>0. "writer" \in Procs /\ DOMAIN pc = Procs /\ "h5" \in Ids /\ row \in [Ids -> Row]
  BY DEF TypeInv, Ids, Procs
<1>1. CASE Reserve BY <1>0, <1>1 DEF Reserve
<1>2. CASE Write \/ Publish
  BY <1>0, <1>2 DEF Write, Publish, At, ledger, LiveOwnerKeepsWriting
<1>3. CASE WriterOpen \/ WriterLock
  BY <1>0, <1>3 DEF WriterOpen, WriterLock, TryLock, Goto
<1>4. CASE WriterReady \/ WriterFails \/ Crash("writer")
  BY <1>0, <1>4 DEF WriterReady, WriterFails, Crash, Goto
<1> QED BY <1>1, <1>2, <1>3, <1>4 DEF WriterNext

\* Those of the generator.
LEMMA GeneratorWrites ==
  ASSUME TypeInv, LiveOwnerKeepsWriting,
         GeneratorNext \/ Crash("generator") \/ pc'["generator"] \in {"begin", "idle"},
         pc'["generator"] \in {"temp", "link", "untemp", "ready"}
  PROVE  row'["png"].state = "WRITING"
PROOF
<1>0. /\ "generator" \in Procs /\ DOMAIN pc = Procs /\ "png" \in Ids /\ "h5" \in Ids
      /\ row \in [Ids -> Row] /\ "h5" # "png"
  BY DEF TypeInv, Ids, Procs
<1>1. CASE Prepare
  <2> DEFINE r == [state |-> "WRITING", digest |-> 0, gen |-> 0, pngCap |-> 0]
  <2>1. \/ pc'["generator"] \in {"ok", "bad"}
        \/ row["png"].state = "WRITING" /\ UNCHANGED row
        \/ row' = [row EXCEPT !["png"] = r, !["h5"].pngCap = 0]
    BY <1>0, <1>1 DEF Prepare, Exit, Goto
  <2>2. r.state = "WRITING" OBVIOUS
  <2> HIDE DEF r
  <2> QED BY <1>0, <2>1, <2>2
<1>2. CASE GenTemp \/ GenLink \/ GenUntemp
  BY <1>0, <1>2 DEF GenTemp, GenLink, GenUntemp, At, ledger, LiveOwnerKeepsWriting
<1>3. CASE GenBegin
  <2>1. pc'["generator"] \in {"ok", "bad", "parent_lock"} BY <1>0, <1>3 DEF GenBegin, Goto
  <2> QED BY <2>1
<1>4. CASE GenParentLock \/ GenLock BY <1>0, <1>4 DEF GenParentLock, GenLock, TryLock, Goto
<1>5. CASE Render BY <1>0, <1>5 DEF Render, Exit, Goto
<1>6. CASE GenReady \/ GeneratorReaped BY <1>0, <1>6 DEF GenReady, GeneratorReaped, Exit, Goto
<1>7. CASE Crash("generator") BY <1>0, <1>7 DEF Crash, Goto
<1> QED BY <1>1, <1>2, <1>3, <1>4, <1>5, <1>6, <1>7 DEF GeneratorNext

LEMMA LiveOwnerStep ==
  ASSUME TypeInv, Seats, OneOwner, SameInode, LiveOwnerKeepsWriting, Next
  PROVE  LiveOwnerKeepsWriting'
PROOF
<1>0. /\ "writer" \in Procs /\ "generator" \in Procs
      /\ "writer" \notin Workers /\ "generator" \notin Workers
  BY DEF Procs, Workers
<1>1. ASSUME pc'["writer"] \in {"write", "publish", "ready"} PROVE row'["h5"].state = "WRITING"
  <2>1. CASE Same("writer")
    <3>1. pc["writer"] \in {"write", "publish", "ready"} BY <1>1, <2>1 DEF Same
    <3>2. at["writer"] = "h5" /\ S("h5") = "WRITING" /\ pc["writer"] \in Exclusive
      BY <3>1 DEF Seats, WriterSeat, LiveOwnerKeepsWriting, S, Exclusive
    <3> QED BY <1>0, <2>1, <3>1, <3>2, WritingStays
  <2>2. CASE Steps("writer") BY <1>0, <1>1, <2>2, WriterWrites DEF Steps
  <2> QED BY <1>0, <2>1, <2>2, WhoMoves
<1>2. ASSUME pc'["generator"] \in {"temp", "link", "untemp", "ready"}
      PROVE  row'["png"].state = "WRITING"
  <2>1. CASE Same("generator")
    <3>1. pc["generator"] \in {"temp", "link", "untemp", "ready"} BY <1>2, <2>1 DEF Same
    <3>2. at["generator"] = "png" /\ S("png") = "WRITING" /\ pc["generator"] \in Exclusive
      BY <3>1 DEF Seats, GeneratorSeat, LiveOwnerKeepsWriting, S, Exclusive
    <3> QED BY <1>0, <2>1, <3>1, <3>2, WritingStays
  <2>2. CASE Steps("generator") BY <1>0, <1>2, <2>2, GeneratorWrites DEF Steps
  <2> QED BY <1>0, <2>1, <2>2, WhoMoves
<1> QED BY <1>1, <1>2 DEF LiveOwnerKeepsWriting

-----------------------------------------------------------------------------
(* What is given up is gone.                                               *)

LEMMA PendingStep ==
  ASSUME TypeInv, Seats, Unbegun, Charged, Pending, Next
  PROVE  Pending'
PROOF
<1> SUFFICES ASSUME pc'["cleanup"] \in {"unlink", "unlink_tmp", "deleted", "unlock"}
             PROVE  Gone(at["cleanup"])'
  BY DEF Pending
<1>0. /\ "cleanup" \in Procs /\ "cleanup" \in Workers /\ DOMAIN pc = Procs
      /\ at["cleanup"] \in Ids /\ row \in [Ids -> Row]
  BY DEF TypeInv, Procs, Workers
<1>1. ASSUME at'["cleanup"] = at["cleanup"], Gone(at["cleanup"]) PROVE Gone(at["cleanup"])'
  <2>1. PICK i \in Ids : i = at["cleanup"] BY <1>0
  <2>2. Gone(i)' BY <1>1, <2>1, GoneStays
  <2> QED BY <1>1, <2>1, <2>2 DEF Gone, S, Begun, Cap
<1>2. CASE Same("cleanup") BY <1>1, <1>2 DEF Same, Pending
<1>3. CASE Crash("cleanup") BY <1>0, <1>3 DEF Crash, Goto
<1>4. CASE RecoverSteps("cleanup") BY <1>0, <1>4, RecoverGoes
<1>5. CASE CleanupPend
  <2> DEFINE i == at["cleanup"]
  <2>1. \/ pc'["cleanup"] = "row"
        \/ /\ UNCHANGED at
           /\ \/ row[i].state = "DELETE_PENDING" /\ UNCHANGED row
              \/ row' = [row EXCEPT ![i].state = "DELETE_PENDING", ![i].gen = @ + 1]
    BY <1>0, <1>5 DEF CleanupPend, NextRow, Goto
  <2>2. i \in Ids BY <1>0
  <2> HIDE DEF i
  <2>3. row[i] \in Row BY <1>0, <2>2
  <2>4. ASSUME row' = [row EXCEPT ![i].state = "DELETE_PENDING", ![i].gen = @ + 1]
        PROVE  row'[i].state = "DELETE_PENDING"
    BY <1>0, <2>2, <2>3, <2>4 DEF Row
  <2>5. UNCHANGED at /\ row'[i].state = "DELETE_PENDING" BY <2>1, <2>4
  <2> QED BY <2>5 DEF Gone, S, i
<1>6. CASE CleanupUnlink \/ CleanupTmp \/ CleanupDeleted
  BY <1>1, <1>6 DEF CleanupUnlink, CleanupTmp, CleanupDeleted, At, Pending
<1>7. CASE CleanupLock BY <1>0, <1>7 DEF CleanupLock, TryLock, Goto
<1>8. CASE CleanupUnlock BY <1>0, <1>8 DEF CleanupUnlock, NextRow, Goto
<1>9. CASE \E orphan, identity \in BOOLEAN : CleanupRow(orphan, identity)
  <2>1. pc'["cleanup"] \in {"lock", "row"} BY <1>0, <1>9 DEF CleanupRow, NextRow, Goto
  <2> QED BY <2>1
<1>10. CASE \E gone \in SUBSET Ids : CleanupEnd(gone) BY <1>0, <1>10 DEF CleanupEnd, Goto
<1> QED BY WhoMoves, <1>0, <1>2, <1>3, <1>4, <1>5, <1>6, <1>7, <1>8, <1>9, <1>10
    DEF Steps, CleanupNext

\* What changes the quota.
LEMMA QuotaSteps ==
  ASSUME TypeInv, Next
  PROVE  UNCHANGED quota \/ (Reserve /\ Reserves) \/ Prepares
BY QuotaMovers, ReserveDoes, PrepareDoes

LEMMA UnbegunStep ==
  ASSUME TypeInv, Seats, Unbegun, Next
  PROVE  Unbegun'
PROOF
<1> SUFFICES ASSUME ~Begun'
             PROVE  /\ \A i \in Ids : row'[i].state = "none"
                    /\ Cap' = 0 /\ quota'.reserved = 0 /\ quota'.committed = 0
  BY DEF Unbegun, S
<1>1. /\ \A i \in Ids : S(i) = "none"
      /\ Cap = 0 /\ quota.reserved = 0 /\ quota.committed = 0
  BY BegunStays DEF Unbegun
<1>2. /\ "writer" \in Procs /\ DOMAIN pc = Procs /\ "h5" \in Ids /\ "png" \in Ids
      /\ \A p \in Procs : at[p] \in Ids
      /\ Workers \subseteq Procs /\ "cleanup" \in Procs /\ "sync" \in Procs
  BY DEF TypeInv, Ids, Procs, Workers
<1>3. ~Reserve BY <1>2 DEF Reserve, Goto, Begun
<1>4. ~Prepares BY <1>1, <1>2 DEF Prepares
<1>5. UNCHANGED quota BY <1>3, <1>4, QuotaSteps
<1>6. \A i \in Ids : row'[i] = row[i]
  <2>1. CASE UNCHANGED row BY <2>1
  <2>2. CASE Forgets BY <1>1, <2>2 DEF Forgets
  <2>3. \A i \in Ids : ~Ends(i) /\ ~Digests(i) BY <1>1 DEF Ends, Digests
  <2>4. \A i \in Ids : /\ ~Turns(i, {"READY"}, "QUARANTINED")
                       /\ ~Turns(i, States \ {"none", "DELETED"}, "DELETE_PENDING")
                       /\ ~Turns(i, {"DELETE_PENDING"}, "DELETED")
    BY <1>1 DEF Turns
  <2> QED BY RowSteps, <1>2, <1>3, <1>4, <2>1, <2>2, <2>3, <2>4 DEF RowStep
<1> QED BY <1>1, <1>2, <1>5, <1>6 DEF S, Cap

-----------------------------------------------------------------------------
(* What is in the directory.                                               *)

Writes(i) ==
  \/ i = "h5" /\ pc["writer"] \in {"write", "publish", "ready"}
  \/ i = "png" /\ pc["generator"] \in {"temp", "link", "untemp", "ready"}

\* Only who writes an artifact makes its files.
LEMMA DiskGrows ==
  ASSUME TypeInv, Next, NEW i \in Ids
  PROVE  /\ file'[i] # 0 => file[i] # 0 \/ Writes(i)
         /\ tmp'[i] => tmp[i] \/ Writes(i)
PROOF
<1>0. /\ file \in [Ids -> 0 .. 2] /\ tmp \in [Ids -> BOOLEAN] /\ Ids = {"h5", "png"}
  BY DEF TypeInv, Ids
<1>1. CASE UNCHANGED disk BY <1>1 DEF disk
<1>2. CASE Write BY <1>0, <1>2 DEF Write, At, Writes
<1>3. CASE Publish BY <1>0, <1>3 DEF Publish, At, Writes
<1>4. CASE CleanupUnlink BY <1>0, <1>4 DEF CleanupUnlink
<1>5. CASE CleanupTmp BY <1>0, <1>5 DEF CleanupTmp
<1>6. CASE GenTemp BY <1>0, <1>6 DEF GenTemp, At, Writes
<1>7. CASE GenLink BY <1>0, <1>7 DEF GenLink, At, Writes
<1>8. CASE GenUntemp BY <1>0, <1>8 DEF GenUntemp
<1>9. CASE \E works, stored \in BOOLEAN : Copy(works, stored) BY <1>9 DEF Copy
<1>10. CASE \E j \in Ids : Edit(j) BY <1>0, <1>10 DEF Edit
<1> QED BY DiskMovers, <1>1, <1>2, <1>3, <1>4, <1>5, <1>6, <1>7, <1>8, <1>9, <1>10 DEF MovesDisk

\* Nothing is made of what is gone, of what was not begun, of what is there.
LEMMA NothingMade ==
  ASSUME TypeInv, LiveOwnerKeepsWriting, Next, NEW i \in Ids, S(i) # "WRITING"
  PROVE  /\ file[i] = 0 => file'[i] = 0
         /\ ~tmp[i] => ~tmp'[i]
PROOF
<1>1. ~Writes(i) BY DEF Writes, LiveOwnerKeepsWriting, S
<1> QED BY <1>1, DiskGrows

LEMMA UnlinkedStep ==
  ASSUME TypeInv, Pending, Unlinked, LiveOwnerKeepsWriting, Next
  PROVE  Unlinked'
PROOF
<1>0. /\ "cleanup" \in Procs /\ "cleanup" \in Workers /\ DOMAIN pc = Procs
      /\ at["cleanup"] \in Ids /\ file \in [Ids -> 0 .. 2] /\ tmp \in [Ids -> BOOLEAN]
  BY DEF TypeInv, Procs, Workers
<1>1. CASE Same("cleanup")
  <2>1. CASE pc["cleanup"] \in {"unlink_tmp", "deleted"}
    <3>1. S(at["cleanup"]) # "WRITING" BY <2>1 DEF Pending, Gone
    <3>2. /\ file[at["cleanup"]] = 0 => file'[at["cleanup"]] = 0
          /\ ~tmp[at["cleanup"]] => ~tmp'[at["cleanup"]]
      BY <1>0, <3>1, NothingMade
    <3> QED BY <1>1, <3>2 DEF Same, Unlinked
  <2>2. CASE pc["cleanup"] \notin {"unlink_tmp", "deleted"} BY <1>1, <2>2 DEF Same, Unlinked
  <2> QED BY <2>1, <2>2
<1>2. CASE CleanupUnlink BY <1>0, <1>2 DEF CleanupUnlink, locks, Goto, Unlinked
<1>3. CASE CleanupTmp BY <1>0, <1>3 DEF CleanupTmp, locks, At, Goto, Unlinked
<1>4. CASE Crash("cleanup") BY <1>0, <1>4 DEF Crash, Goto, Unlinked
<1>5. CASE RecoverSteps("cleanup") BY <1>0, <1>5, RecoverGoes DEF Unlinked
<1>6. CASE CleanupPend
  <2>1. pc'["cleanup"] \in {"row", "unlink"} BY <1>0, <1>6 DEF CleanupPend, NextRow, Goto
  <2> QED BY <2>1 DEF Unlinked
<1>7. CASE CleanupDeleted \/ CleanupUnlock
  <2>1. pc'["cleanup"] \in {"row", "unlock"}
    BY <1>0, <1>7 DEF CleanupDeleted, CleanupUnlock, NextRow, Goto
  <2> QED BY <2>1 DEF Unlinked
<1>8. CASE CleanupLock BY <1>0, <1>8 DEF CleanupLock, TryLock, Goto, Unlinked
<1>9. CASE \E orphan, identity \in BOOLEAN : CleanupRow(orphan, identity)
  <2>1. pc'["cleanup"] \in {"lock", "row"} BY <1>0, <1>9 DEF CleanupRow, NextRow, Goto
  <2> QED BY <2>1 DEF Unlinked
<1>10. CASE \E gone \in SUBSET Ids : CleanupEnd(gone)
  <2>1. pc'["cleanup"] = "idle" BY <1>0, <1>10 DEF CleanupEnd, Goto
  <2> QED BY <2>1 DEF Unlinked
<1> QED BY WhoMoves, <1>0, <1>1, <1>2, <1>3, <1>4, <1>5, <1>6, <1>7, <1>8, <1>9, <1>10
    DEF Steps, CleanupNext

\* A row goes back to nothing only from DELETED, and is DELETED only by the
\* cleanup that unlinked both names.
LEMMA DeletedIsGoneStep ==
  ASSUME TypeInv, Seats, Unlinked, LiveOwnerKeepsWriting, DeletedIsGone, Next
  PROVE  DeletedIsGone'
PROOF
<1> SUFFICES ASSUME NEW i \in Ids, row'[i].state \in {"none", "DELETED"}
             PROVE  file'[i] = 0 /\ ~tmp'[i]
  BY DEF DeletedIsGone
<1>0. /\ "h5" \in Ids /\ "png" \in Ids /\ \A p \in Procs : at[p] \in Ids
      /\ "cleanup" \in Procs /\ "sync" \in Procs /\ Workers \subseteq Procs /\ Ids = {"h5", "png"}
  BY DEF TypeInv, Ids, Procs, Workers
<1>1. CASE S(i) \in {"none", "DELETED"}
  <2>1. file[i] = 0 /\ ~tmp[i] BY <1>1 DEF DeletedIsGone, S
  <2> QED BY <1>1, <2>1, NothingMade
<1>2. CASE S(i) \notin {"none", "DELETED"}
  <2>1. row'[i].state # S(i) BY <1>2
  <2>2. ~UNCHANGED row BY <2>1 DEF S
  <2>3. ~Reserves BY <2>1 DEF Reserves, Only, S
  <2>4. \A j \in Ids : ~Ends(j) BY <2>1 DEF Ends, Only, S
  <2>5. ~Forgets BY <1>2, <2>1 DEF Forgets, S
  <2>6. \A j \in Ids : ~Digests(j) BY <2>1 DEF Digests, Only, S
  <2>7. ~Prepares BY <1>0, <2>1 DEF Prepares, S
  <2>8. \A j \in Ids : /\ ~Turns(j, {"READY"}, "QUARANTINED")
                       /\ ~Turns(j, States \ {"none", "DELETED"}, "DELETE_PENDING")
    BY <2>1 DEF Turns, Only, S
  <2>9. CleanupDeleted /\ Turns(at["cleanup"], {"DELETE_PENDING"}, "DELETED")
    BY RowSteps, <1>0, <2>2, <2>3, <2>4, <2>5, <2>6, <2>7, <2>8 DEF RowStep
  <2>10. i = at["cleanup"] BY <2>1, <2>9 DEF Turns, Only, S
  <2> QED BY <2>9, <2>10 DEF CleanupDeleted, At, disk, Unlinked
<1> QED BY <1>1, <1>2

-----------------------------------------------------------------------------
(* The share of the image.                                                 *)

LEMMA ChargedStep ==
  ASSUME TypeInv, Seats, Unbegun, Charged, LiveOwnerKeepsWriting, Next
  PROVE  Charged'
PROOF
<1>0. /\ "h5" \in Ids /\ "png" \in Ids /\ "h5" # "png" /\ Ids = {"h5", "png"}
      /\ \A p \in Procs : at[p] \in Ids
      /\ "cleanup" \in Procs /\ "sync" \in Procs /\ Workers \subseteq Procs
      /\ Cap \in {0, 1} /\ quota.reserved \in Int /\ quota.committed \in Int
      /\ NoRow.state = "none" /\ NoRow.pngCap = 0
  BY DEF TypeInv, Ids, Procs, Workers, Cap, Row, NoRow
<1>1. quota'.committed >= quota.committed /\ quota'.committed \in Int
  BY QuotaSteps, <1>0 DEF Reserves, Prepares
<1>2. quota'.reserved + quota'.committed <= 1 /\ quota'.committed >= 0
  <2>1. CASE UNCHANGED quota BY <2>1 DEF Charged
  <2>2. CASE Reserve /\ Reserves
    <3>1. ~Begun BY <2>2 DEF Reserve, At, Begun
    <3> QED BY <1>0, <2>2, <3>1 DEF Unbegun, Reserves
  <2>3. CASE Prepares BY <1>0, <2>3 DEF Prepares, Charged
  <2> QED BY QuotaSteps, <2>1, <2>2, <2>3
<1>3. file'["png"] # 0 \/ tmp'["png"] => quota'.committed = 1
  <2>1. ASSUME file'["png"] # 0 \/ tmp'["png"] PROVE quota.committed = 1
    <3>1. CASE S("png") = "WRITING" BY <3>1 DEF Charged
    <3>2. CASE S("png") # "WRITING"
      <4>1. file["png"] # 0 \/ tmp["png"] BY <1>0, <2>1, <3>2, NothingMade
      <4> QED BY <4>1 DEF Charged
    <3> QED BY <3>1, <3>2
  <2>2. quota'.reserved \in Int /\ quota'.reserved >= 0
    <3>1. quota.reserved >= Cap BY DEF Charged
    <3> QED BY QuotaSteps, <1>0, <3>1 DEF Reserves, Prepares
  <2> QED BY <1>0, <1>1, <1>2, <2>1, <2>2
<1>4. /\ Cap' <= quota'.reserved
      /\ row'["png"].state # "none" => Cap' = 0 /\ quota'.committed = 1
  <2>1. CASE Reserve /\ Reserves
    <3>1. ~Begun BY <2>1 DEF Reserve, At, Begun
    <3> QED BY <1>0, <2>1, <3>1 DEF Unbegun, Reserves, Only, S
  <2>2. CASE Prepares BY <1>0, <2>2 DEF Prepares, Charged
  <2>3. CASE UNCHANGED quota /\ ~Prepares /\ ~(Reserve /\ Reserves)
    <3> SUFFICES /\ Cap' = Cap \/ Cap' = 0
                 /\ row'["png"].state # "none" => S("png") # "none"
      BY <1>0, <2>3 DEF Charged
    <3>1. CASE UNCHANGED row BY <3>1 DEF S, Cap
    <3>2. ASSUME NEW j \in Ids, Ends(j) PROVE Cap' = Cap /\ (row'["png"].state # "none" => S("png") # "none")
      BY <1>0, <3>2 DEF Ends, Only, S, Cap
    <3>3. ASSUME NEW j \in Ids, NEW from, NEW to, Turns(j, from, to), "none" \notin from
          PROVE  Cap' = Cap /\ (row'["png"].state # "none" => S("png") # "none")
      BY <1>0, <3>3 DEF Turns, Only, S, Cap
    <3>4. CASE Forgets
      <4>1. Cap' = Cap \/ Cap' = 0 BY <1>0, <3>4 DEF Forgets, Cap
      <4>2. row'["png"].state # "none" => S("png") # "none" BY <1>0, <3>4 DEF Forgets, S
      <4> QED BY <4>1, <4>2
    <3>5. ASSUME NEW j \in Ids, Digests(j) PROVE Cap' = Cap /\ (row'["png"].state # "none" => S("png") # "none")
      BY <1>0, <3>5 DEF Digests, Only, S, Cap
    <3> QED BY RowSteps, <1>0, <2>3, <3>1, <3>2, <3>3, <3>4, <3>5 DEF RowStep
  <2> QED BY QuotaSteps, <2>1, <2>2, <2>3
<1> QED BY <1>2, <1>3, <1>4 DEF Charged, S

-----------------------------------------------------------------------------
(* What becomes of the jobs.                                               *)

\* A row and its jobs are forgotten together.
LEMMA ForgetsJobs ==
  ASSUME TypeInv, NEW gone \in SUBSET Ids, CleanupEnd(gone), NEW i \in Ids
  PROVE  \/ /\ row'[i] = row[i] /\ upload'[i] = upload[i]
            /\ i = "h5" => look' = look
         \/ /\ S(i) = "DELETED" /\ row'[i].state = "none" /\ row'[i].digest = 0
            /\ upload'[i].status = "none"
            /\ i = "h5" => look'.status = "none"
PROOF
<1>1. row \in [Ids -> Row] /\ upload \in [Ids -> JobRow] BY DEF TypeInv
<1>2. /\ gone \subseteq {j \in Ids : row[j].state = "DELETED"}
      /\ row' = [j \in Ids |-> IF j \in gone THEN NoRow ELSE row[j]]
      /\ upload' = [j \in Ids |-> IF j \in gone THEN NoJob ELSE upload[j]]
      /\ look' = IF "h5" \in gone THEN NoJob ELSE look
  BY DEF CleanupEnd
<1>3. NoRow.state = "none" /\ NoRow.digest = 0 /\ NoJob.status = "none" BY DEF NoRow, NoJob
<1>4. CASE i \in gone
  <2>1. row'[i] = NoRow /\ upload'[i] = NoJob /\ S(i) = "DELETED" /\ (i = "h5" => look' = NoJob)
    BY <1>2, <1>4 DEF S
  <2> QED BY <1>3, <2>1
<1>5. CASE i \notin gone BY <1>2, <1>5
<1> QED BY <1>4, <1>5

OnlyJob(i) == \A j \in Ids : j # i => upload'[j] = upload[j]

Verifies ==
  LET i == at["sync"] IN
  /\ At("sync", "post") /\ UNCHANGED row /\ S(i) = "READY"
  /\ upload'[i].status = "VERIFIED" /\ upload'[i].digest = verified["sync"] /\ OnlyJob(i)

Fails ==
  LET i == at["sync"] IN
  /\ At("sync", "up_fail") /\ UNCHANGED row /\ S(i) = "READY"
  /\ upload'[i].status = "FAILED" /\ OnlyJob(i)

LEMMA UploadSteps ==
  ASSUME TypeInv, Seats, Next
  PROVE  \/ UNCHANGED upload /\ ~(\E gone \in SUBSET Ids : CleanupEnd(gone))
         \/ PostVerify /\ Verifies
         \/ UploadFails /\ Fails
         \/ \E gone \in SUBSET Ids : CleanupEnd(gone)
PROOF
<1> DEFINE i == Head(rows["sync"]).id
<1>0. /\ upload \in [Ids -> JobRow] /\ "sync" \in Procs /\ at["sync"] \in Ids
  BY DEF TypeInv, Procs
<1>1. ASSUME NEW s, NEW d, SetUpload(Head(rows["sync"]), s, d), at["sync"] = i
      PROVE  \/ UNCHANGED upload
             \/ /\ S(i) = "READY" /\ upload'[i].status = s /\ upload'[i].digest = d /\ OnlyJob(i)
  <2> DEFINE j == Job(upload[i], s, d)
  <2>1. UNCHANGED upload \/ (S(i) = "READY" /\ upload' = [upload EXCEPT ![i] = j])
    BY <1>1 DEF SetUpload, Current, S
  <2>2. j.status = s /\ j.digest = d BY DEF Job
  <2>3. i \in Ids BY <1>0, <1>1
  <2> HIDE DEF i, j
  <2> QED BY <1>0, <2>1, <2>2, <2>3 DEF OnlyJob
<1>2. CASE PostVerify
  <2>1. /\ At("sync", "post") /\ UNCHANGED row
        /\ UNCHANGED upload \/ SetUpload(Head(rows["sync"]), "VERIFIED", verified["sync"])
    BY <1>2 DEF PostVerify
  <2>2. at["sync"] = i BY <2>1 DEF At, Seats, SyncSeat
  <2>3. UNCHANGED upload \/ Verifies BY <1>1, <2>1, <2>2 DEF Verifies
  <2> QED BY <1>2, <2>3
<1>3. CASE UploadFails
  <2>1. /\ At("sync", "up_fail") /\ UNCHANGED row
        /\ SetUpload(Head(rows["sync"]), "FAILED", 0)
    BY <1>3 DEF UploadFails
  <2>2. at["sync"] = i BY <2>1 DEF At, Seats, SyncSeat
  <2>3. UNCHANGED upload \/ Fails BY <1>1, <2>1, <2>2 DEF Fails
  <2> QED BY <1>3, <2>3
<1>4. CASE LookDone \/ LookTimeout
  <2>1. UNCHANGED upload BY <1>4 DEF LookDone, LookTimeout, SetLook
  <2> QED BY <2>1
<1> QED BY JobMovers, <1>2, <1>3, <1>4 DEF MovesJobs

LEMMA LookSteps ==
  ASSUME TypeInv, Seats, Next
  PROVE  \/ UNCHANGED look \/ (UNCHANGED row /\ S("h5") = "READY")
         \/ \E gone \in SUBSET Ids : CleanupEnd(gone)
PROOF
<1>1. CASE LookDone \/ LookTimeout
  <2>1. Head(rows["sync"]).id = "h5" BY <1>1 DEF LookDone, LookTimeout, At, Seats, SyncSeat
  <2>2. UNCHANGED row BY <1>1 DEF LookDone, LookTimeout
  <2>3. UNCHANGED look \/ Current(Head(rows["sync"]))
    BY <1>1 DEF LookDone, LookTimeout, SetLook
  <2> QED BY <2>1, <2>2, <2>3 DEF Current, S
<1>2. CASE PostVerify BY <1>2 DEF PostVerify, SetUpload
<1>3. CASE UploadFails BY <1>3 DEF UploadFails, SetUpload
<1> QED BY JobMovers, <1>1, <1>2, <1>3 DEF MovesJobs

\* A row that comes to have neither a digest nor jobs had none, and a digest
\* that is there stays.
LEMMA RowMoves ==
  ASSUME TypeInv, Seats, Unbegun, Next, NEW i \in Ids, ~(\E gone \in SUBSET Ids : CleanupEnd(gone))
  PROVE  /\ row'[i].state \in {"none", "WRITING"} => S(i) \in {"none", "WRITING"}
         /\ row'[i].state = "none" => S(i) = "none"
         /\ \/ row'[i].digest = row[i].digest \/ S(i) \in {"none", "WRITING"}
            \/ UploadRow /\ i = at["sync"] /\ row[i].digest = 0 /\ S(i) = "READY"
PROOF
<1>0. /\ "h5" \in Ids /\ "png" \in Ids /\ "h5" # "png" /\ Ids = {"h5", "png"}
      /\ \A p \in Procs : at[p] \in Ids
      /\ "cleanup" \in Procs /\ "sync" \in Procs /\ Workers \subseteq Procs
  BY DEF TypeInv, Ids, Procs, Workers
<1>1. CASE UNCHANGED row BY <1>1 DEF S
<1>2. CASE Reserve /\ Reserves
  <2>1. ~Begun BY <1>2 DEF Reserve, At, Begun
  <2> QED BY <1>0, <1>2, <2>1 DEF Unbegun, Reserves, Only, S
<1>3. ASSUME NEW j \in Ids, Ends(j)
      PROVE  /\ row'[i].state \in {"none", "WRITING"} => S(i) \in {"none", "WRITING"}
             /\ row'[i].state = "none" => S(i) = "none"
             /\ row'[i].digest = row[i].digest \/ S(i) \in {"none", "WRITING"}
  BY <1>3 DEF Ends, Only, S
<1>4. ASSUME NEW j \in Ids, NEW from, NEW to \in {"QUARANTINED", "DELETE_PENDING", "DELETED"},
             Turns(j, from, to)
      PROVE  /\ row'[i].state \in {"none", "WRITING"} => S(i) \in {"none", "WRITING"}
             /\ row'[i].state = "none" => S(i) = "none"
             /\ row'[i].digest = row[i].digest
  BY <1>4 DEF Turns, Only, S
<1>5. CASE UploadRow /\ Digests(at["sync"]) BY <1>5 DEF Digests, Only, S
<1>6. CASE Prepares BY <1>0, <1>6 DEF Prepares, S
<1> QED BY RowSteps, <1>0, <1>1, <1>2, <1>3, <1>4, <1>5, <1>6 DEF RowStep

LEMMA WritingHasNoDigestStep ==
  ASSUME TypeInv, Seats, Unbegun, WritingHasNoDigest, Next
  PROVE  WritingHasNoDigest'
PROOF
<1> SUFFICES ASSUME NEW i \in Ids, row'[i].state \in {"none", "WRITING"}
             PROVE  row'[i].digest = 0
  BY DEF WritingHasNoDigest, S
<1>0. "h5" \in Ids /\ "png" \in Ids /\ Ids = {"h5", "png"} BY DEF Ids
<1>1. CASE \E gone \in SUBSET Ids : CleanupEnd(gone)
  BY ForgetsJobs, <1>1 DEF WritingHasNoDigest, S
<1>2. CASE ~(\E gone \in SUBSET Ids : CleanupEnd(gone))
  <2>1. S(i) \in {"none", "WRITING"} /\ row[i].digest = 0
    BY RowMoves, <1>2 DEF WritingHasNoDigest
  <2>2. CASE UNCHANGED row BY <2>1, <2>2
  <2>3. CASE Reserves BY <1>0, <2>1, <2>3 DEF Reserves, Only
  <2>4. ASSUME NEW j, Ends(j) PROVE row'[i].digest = 0 BY <2>1, <2>4 DEF Ends, Only
  <2>5. ASSUME NEW j, NEW from, NEW to, Turns(j, from, to) PROVE row'[i].digest = 0
    BY <2>1, <2>5 DEF Turns, Only
  <2>6. CASE Digests(at["sync"]) BY <2>1, <2>6 DEF Digests, Only
  <2>7. CASE Prepares BY <1>0, <2>1, <2>7 DEF Prepares
  <2> QED BY RowSteps, <1>2, <2>2, <2>3, <2>4, <2>5, <2>6, <2>7 DEF RowStep
<1> QED BY <1>1, <1>2

LEMMA LooksHaveRowsStep ==
  ASSUME TypeInv, Seats, Unbegun, LooksHaveRows, Next
  PROVE  LooksHaveRows'
PROOF
<1>0. "h5" \in Ids BY DEF Ids
<1>1. CASE \E gone \in SUBSET Ids : CleanupEnd(gone)
  BY ForgetsJobs, <1>0, <1>1 DEF LooksHaveRows, S
<1>2. CASE ~(\E gone \in SUBSET Ids : CleanupEnd(gone))
  <2>1. row'["h5"].state = "none" => S("h5") = "none" BY RowMoves, <1>0, <1>2
  <2>2. UNCHANGED look \/ row'["h5"].state = "READY" BY LookSteps, <1>2 DEF S
  <2> QED BY <2>1, <2>2 DEF LooksHaveRows, S
<1> QED BY <1>1, <1>2

\* What an entry of the sync worker's list that was ready says of the digest.
LEMMA HeadStands ==
  ASSUME TypeInv, Seats, Entries("sync"),
         pc["sync"] \in {"check_lock", "check", "up_lock", "up_row", "copy", "verify", "post",
                         "up_fail"}
  PROVE  /\ Past(at["sync"])
         /\ S(at["sync"]) # "none" => Head(rows["sync"]).row.digest = row[at["sync"]].digest
PROOF
<1>0. "sync" \in Procs /\ rows["sync"] # <<>> /\ Head(rows["sync"]).row.state = "READY"
      /\ Head(rows["sync"]).id = at["sync"]
  BY DEF Seats, SyncSeat, Procs
<1>1. 1 \in DOMAIN rows["sync"] /\ Head(rows["sync"]) = rows["sync"][1] BY HeadId, <1>0
<1>2. Stands("sync", Head(rows["sync"])) BY <1>1 DEF Entries
<1> QED BY <1>0, <1>2 DEF Stands

LEMMA JobsStep ==
  ASSUME TypeInv, Seats, Unbegun, Jobs, Entries("sync"), Uploading, Next
  PROVE  Jobs'
PROOF
<1> SUFFICES ASSUME NEW i \in Ids
             PROVE  /\ row'[i].state \in {"none", "WRITING"} => upload'[i].status = "none"
                    /\ upload'[i].status = "VERIFIED" => upload'[i].digest = row'[i].digest
  BY DEF Jobs, S
<1>0. /\ S(i) \in {"none", "WRITING"} => upload[i].status = "none"
      /\ upload[i].status = "VERIFIED" => upload[i].digest = row[i].digest
  BY DEF Jobs
<1>1. CASE \E gone \in SUBSET Ids : CleanupEnd(gone) BY ForgetsJobs, <1>0, <1>1 DEF S
<1>2. CASE PostVerify /\ Verifies
  <2>1. CASE i = at["sync"]
    <3>1. pc["sync"] = "post" /\ S(i) = "READY" BY <1>2, <2>1 DEF Verifies, At
    <3>2. verified["sync"] = Head(rows["sync"]).row.digest BY <3>1 DEF Uploading
    <3>3. Head(rows["sync"]).row.digest = row[i].digest BY <2>1, <3>1, HeadStands
    <3> QED BY <1>2, <2>1, <3>2, <3>3 DEF Verifies, S
  <2>2. CASE i # at["sync"] BY <1>0, <1>2, <2>2 DEF Verifies, OnlyJob, S
  <2> QED BY <2>1, <2>2
<1>3. CASE UploadFails /\ Fails
  <2>1. CASE i = at["sync"] BY <1>3, <2>1 DEF Fails, S
  <2>2. CASE i # at["sync"] BY <1>0, <1>3, <2>2 DEF Fails, OnlyJob, S
  <2> QED BY <2>1, <2>2
<1>4. CASE UNCHANGED upload /\ ~(\E gone \in SUBSET Ids : CleanupEnd(gone))
  <2>1. row'[i].state \in {"none", "WRITING"} => upload[i].status = "none" BY RowMoves, <1>0, <1>4
  <2>2. ASSUME upload[i].status = "VERIFIED" PROVE row'[i].digest = row[i].digest
    <3>1. S(i) \notin {"none", "WRITING"} BY <1>0, <2>2
    <3>2. ~(UploadRow /\ i = at["sync"]) BY <2>2 DEF UploadRow, At, Uploading
    <3> QED BY RowMoves, <1>4, <3>1, <3>2
  <2> QED BY <1>0, <1>4, <2>1, <2>2
<1> QED BY UploadSteps, <1>1, <1>2, <1>3, <1>4

LEMMA CopyOnly ==
  ASSUME TypeInv, Next
  PROVE  \/ UNCHANGED remote
         \/ /\ pc["sync"] = "copy" /\ \A j \in Ids \ {at["sync"]} : remote'[j] = remote[j]
            /\ pc'["sync"] \in {"verify", "up_fail"} /\ UNCHANGED upload
PROOF
<1>0. "sync" \in Procs /\ DOMAIN pc = Procs /\ remote \in [Ids -> 0 .. 2] BY DEF TypeInv, Procs
<1>1. CASE \E works, stored \in BOOLEAN : Copy(works, stored)
  <2>1. PICK works, stored \in BOOLEAN : Copy(works, stored) BY <1>1
  <2>2. pc["sync"] = "copy" /\ pc'["sync"] \in {"verify", "up_fail"} /\ UNCHANGED upload
    BY <1>0, <2>1 DEF Copy, At, Goto, ledger
  <2>3. \A j \in Ids \ {at["sync"]} : remote'[j] = remote[j] BY <1>0, <2>1 DEF Copy
  <2> QED BY <2>2, <2>3
<1>2. CASE Write \/ Publish \/ CleanupUnlink \/ CleanupTmp
  BY <1>2 DEF Write, Publish, CleanupUnlink, CleanupTmp
<1>3. CASE GenTemp \/ GenLink \/ GenUntemp BY <1>3 DEF GenTemp, GenLink, GenUntemp
<1>4. CASE \E i \in Ids : Edit(i) BY <1>4 DEF Edit
<1>5. CASE UNCHANGED disk BY <1>5 DEF disk
<1> QED BY DiskMovers, <1>1, <1>2, <1>3, <1>4, <1>5 DEF MovesDisk

LEMMA VerifiedIsRemoteStep ==
  ASSUME TypeInv, Seats, Uploading, VerifiedIsRemote, Next
  PROVE  VerifiedIsRemote'
PROOF
<1> SUFFICES ASSUME NEW i \in Ids, upload'[i].status = "VERIFIED"
             PROVE  remote'[i] = upload'[i].digest
  BY DEF VerifiedIsRemote
<1>0. "sync" \in Procs /\ upload[i].status = "VERIFIED" => remote[i] = upload[i].digest
  BY DEF VerifiedIsRemote, Procs
<1>1. CASE \E gone \in SUBSET Ids : CleanupEnd(gone)
  <2>1. UNCHANGED remote BY <1>1 DEF CleanupEnd, disk
  <2> QED BY ForgetsJobs, <1>0, <1>1, <2>1 DEF VerifiedIsRemote
<1>2. CASE PostVerify /\ Verifies
  <2>1. UNCHANGED remote /\ pc["sync"] = "post" BY <1>2 DEF PostVerify, disk, At
  <2>2. CASE i = at["sync"] BY <1>2, <2>1, <2>2 DEF Verifies, Uploading
  <2>3. CASE i # at["sync"] BY <1>2, <2>1, <2>3 DEF Verifies, OnlyJob, VerifiedIsRemote
  <2> QED BY <2>2, <2>3
<1>3. CASE UploadFails /\ Fails
  <2>1. UNCHANGED remote BY <1>3 DEF UploadFails, disk
  <2>2. i # at["sync"] BY <1>3 DEF Fails
  <2> QED BY <1>3, <2>1, <2>2 DEF Fails, OnlyJob, VerifiedIsRemote
<1>4. CASE UNCHANGED upload
  <2>1. upload[i].status = "VERIFIED" BY <1>4
  <2>2. pc["sync"] = "copy" => i # at["sync"] BY <2>1 DEF Uploading
  <2>3. remote'[i] = remote[i] BY CopyOnly, <2>2
  <2> QED BY <1>4, <2>1, <2>3 DEF VerifiedIsRemote
<1> QED BY UploadSteps, <1>1, <1>2, <1>3, <1>4

-----------------------------------------------------------------------------
(* What was listed.                                                        *)

LEMMA StandsStay ==
  ASSUME TypeInv, Seats, Unbegun, Charged, Next, NEW p, NEW e \in Entry, Stands(p, e),
         UploadRow => p # "sync" \/ e.id # at["sync"], p \in Workers
  PROVE  Stands(p, e)'
PROOF
<1> DEFINE i == e.id
<1>0. i \in Ids /\ (p # "sync" => p = "cleanup") BY DEF Entry, Workers
<1>1. Past(i) => Past(i)' BY <1>0, GoneStays
<1> HIDE DEF i
<1>2. e.row.state \in {"QUARANTINED", "DELETE_PENDING"} => row'[i].state # "READY"
  <2>1. SUFFICES ASSUME Past(i), S(i) # "READY", row'[i].state = "READY" PROVE FALSE
    BY DEF Stands, i
  <2>2. S(i) # "WRITING" BY <2>1 DEF Past, Gone
  <2>3. ~Reserves BY <1>0, <2>1, <2>2 DEF Reserves, Only, S
  <2>4. \A j : ~Ends(j) /\ ~Digests(j) BY <1>0, <2>1, <2>2 DEF Ends, Digests, Only, S
  <2>5. ~UNCHANGED row BY <2>1 DEF S
  <2>6. ~Forgets BY <1>0, <2>1 DEF Forgets, S, NoRow
  <2>7. ~Prepares BY <1>0, <2>1 DEF Prepares, S, Ids
  <2>8. /\ ~Turns(at["sync"], {"READY"}, "QUARANTINED")
        /\ ~Turns(at["cleanup"], States \ {"none", "DELETED"}, "DELETE_PENDING")
        /\ ~Turns(at["cleanup"], {"DELETE_PENDING"}, "DELETED")
    BY <1>0, <2>1 DEF Turns, Only, S
  <2> QED BY RowSteps, <2>3, <2>4, <2>5, <2>6, <2>7, <2>8 DEF RowStep
<1>3. ASSUME e.row.state = "READY", row'[i].state # "none"
      PROVE  e.row.digest = row'[i].digest \/ (p = "cleanup" /\ e.row.digest = 0)
  <2>1. Past(i) BY <1>3 DEF Stands, i
  <2>2. ~(\E gone \in SUBSET Ids : CleanupEnd(gone)) \/ row'[i] = row[i]
    BY ForgetsJobs, <1>0, <1>3
  <2>3. S(i) # "none"
    <3>1. SUFFICES ASSUME S(i) = "none" PROVE FALSE OBVIOUS
    <3>2. Gone(i) BY <2>1, <3>1 DEF Past
    <3>3. Gone(i)' BY <1>0, <3>2, GoneStays
    <3>4. row'[i].state \in {"DELETE_PENDING", "DELETED"} BY <1>3, <3>3 DEF Gone, S
    <3>5. row'[i] # row[i] BY <3>1, <3>4 DEF S
    <3>6. row'[i].state \notin {"none", "WRITING"} BY <3>4
    <3>7. ~Reserves /\ ~Forgets BY <3>1, <3>5, <3>6, <1>0 DEF Reserves, Forgets, Only, S, NoRow
    <3>8. \A j : ~Ends(j) /\ ~Digests(j) BY <1>0, <3>1, <3>5 DEF Ends, Digests, Only, S
    <3>9. ~Prepares BY <1>0, <3>1, <3>6 DEF Prepares, S, Ids
    <3>10. /\ ~Turns(at["sync"], {"READY"}, "QUARANTINED")
           /\ ~Turns(at["cleanup"], States \ {"none", "DELETED"}, "DELETE_PENDING")
           /\ ~Turns(at["cleanup"], {"DELETE_PENDING"}, "DELETED")
      BY <1>0, <3>1, <3>5 DEF Turns, Only, S
    <3> QED BY RowSteps, <3>5, <3>7, <3>8, <3>9, <3>10 DEF RowStep
  <2>4. e.row.digest = row[i].digest \/ (p = "cleanup" /\ e.row.digest = 0)
    BY <1>3, <2>3 DEF Stands, i
  <2>5. S(i) # "WRITING" BY <2>1 DEF Past, Gone
  <2>6. CASE UploadRow /\ i = at["sync"] /\ row[i].digest = 0
    <3>1. p = "cleanup" BY <1>0, <2>6 DEF i
    <3> QED BY <2>4, <2>6, <3>1
  <2> QED BY RowMoves, <1>0, <2>2, <2>3, <2>4, <2>5, <2>6
<1> QED BY <1>0, <1>1, <1>2, <1>3 DEF Stands, Past, S, i

\* What is listed stands.
LEMMA ListedStands ==
  ASSUME TypeInv, WritingHasNoDigest, NEW p, NEW wanted, NEW n \in DOMAIN Listed(wanted)
  PROVE  Listed(wanted)[n] \in Entry /\ Stands(p, Listed(wanted)[n])
PROOF
<1> DEFINE e == Listed(wanted)[n]
<1>1. e \in Entry /\ e.id \in Ids /\ e.row = row[e.id] BY ListedRows
<1> HIDE DEF e
<1>2. e.row.state = "WRITING" => e.row.digest = 0 BY <1>1 DEF WritingHasNoDigest, S
<1>3. e.row.state \in {"READY", "QUARANTINED", "DELETE_PENDING"} => Past(e.id)
  BY <1>1 DEF Past, Gone, S
<1>4. Stands(p, e) BY <1>1, <1>2, <1>3 DEF Stands, S
<1> QED BY <1>1, <1>4 DEF e

\* What a step does to the list of a worker.
Replaced(p) ==
  /\ p = "sync" /\ UploadRow /\ rows[p] # <<>> /\ Head(rows[p]).id = at[p]
  /\ row'[at[p]].state = "READY"
  /\ rows'[p] = <<[id |-> at[p], row |-> row'[at[p]]]>> \o Tail(rows[p])

ListStep(p) ==
  \/ rows'[p] = rows[p] /\ ~(p = "sync" /\ UploadRow /\ ~UNCHANGED row)
  \/ rows[p] # <<>> /\ rows'[p] = Tail(rows[p]) /\ ~(p = "sync" /\ UploadRow)
  \/ rows'[p] = <<>> /\ ~(p = "sync" /\ UploadRow)
  \/ (\E wanted : rows'[p] = Listed(wanted)) /\ UNCHANGED row
  \/ Replaced(p)

LEMMA ReplacedHead ==
  ASSUME TypeInv, Seats, UploadRow
  PROVE  Replaced("sync") \/ UNCHANGED <<row, rows>>
PROOF
<1> DEFINE i == Head(rows["sync"]).id
           e == [id |-> i, row |-> row'[i]]
<1>0. /\ "sync" \in Procs /\ rows \in [Procs -> Seq(Entry)] /\ row \in [Ids -> Row]
      /\ at["sync"] \in Ids
  BY DEF TypeInv, Procs
<1>1. pc["sync"] = "up_row" BY DEF UploadRow, At
<1>2. rows["sync"] # <<>> /\ at["sync"] = i BY <1>1 DEF Seats, SyncSeat
<1>3. CASE row[i].state # "READY" \/ expired BY <1>3 DEF UploadRow
<1>4. CASE row[i].state = "READY" /\ ~expired
  <2>1. /\ rows' = [rows EXCEPT !["sync"] = <<e>> \o Tail(rows["sync"])]
        /\ UNCHANGED row \/ row' = [row EXCEPT ![i].digest = file[i]]
    BY <1>4 DEF UploadRow
  <2>2. rows'["sync"] = <<e>> \o Tail(rows["sync"]) BY <1>0, <2>1
  <2>3. i \in Ids BY <1>0, <1>2
  <2>4. row[i] \in Row BY <1>0, <2>3
  <2> HIDE DEF i
  <2>5. row'[i].state = "READY" BY <1>0, <1>4, <2>1, <2>3, <2>4 DEF Row
  <2> QED BY <1>2, <2>2, <2>5 DEF Replaced, i
<1> QED BY <1>3, <1>4

LEMMA ListSteps ==
  ASSUME TypeInv, Seats, Next, NEW p \in Workers
  PROVE  ListStep(p)
PROOF
<1>0. /\ p \in Procs /\ DOMAIN pc = Procs /\ rows \in [Procs -> Seq(Entry)]
      /\ "cleanup" \in Procs /\ "sync" \in Procs
      /\ p \in {"cleanup", "sync"} /\ p # "writer" /\ p # "generator"
  BY DEF TypeInv, Procs, Workers
<1>1. p = "sync" /\ UploadRow => ListStep(p) BY ReplacedHead DEF ListStep
<1> SUFFICES ASSUME ~(p = "sync" /\ UploadRow) PROVE ListStep(p) BY <1>1
<1>2. CASE Same(p) BY <1>2 DEF Same, ListStep
<1>3. CASE UNCHANGED rows BY <1>3 DEF ListStep
<1>4. ASSUME NextRow(p), rows[p] # <<>> PROVE ListStep(p) BY <1>0, <1>4 DEF NextRow, ListStep
<1>5. ASSUME rows' = [rows EXCEPT ![p] = <<>>] PROVE ListStep(p) BY <1>0, <1>5 DEF ListStep
<1>6. CASE Crash(p) BY <1>5, <1>6 DEF Crash
<1>7. CASE RecoverSteps(p)
  <2>1. CASE Begin(p)
    <3>1. rows'[p] = Listed({"WRITING"}) /\ UNCHANGED row BY <1>0, <2>1 DEF Begin, ledger
    <3> QED BY <3>1 DEF ListStep
  <2>2. CASE RecoverNext(p)
    <3>1. CASE rows[p] = <<>>
      <4>1. rows'[p] = Listed({"WRITING", "READY", "DELETE_PENDING", "QUARANTINED"})
            /\ UNCHANGED row
        BY <1>0, <2>2, <3>1 DEF RecoverNext, ledger
      <4> QED BY <4>1 DEF ListStep
    <3>2. CASE rows[p] # <<>>
      <4>1. rows'[p] = Tail(rows[p]) BY <1>0, <2>2, <3>2 DEF RecoverNext
      <4> QED BY <3>2, <4>1 DEF ListStep
    <3> QED BY <3>1, <3>2
  <2>3. CASE RecoverLock(p) \/ RecoverCheck(p) \/ RecoverFix(p)
    BY <1>3, <2>3 DEF RecoverLock, TryLock, RecoverCheck, RecoverFix
  <2>4. CASE Busy(p)
    <3>1. rows[p] # <<>> BY <1>0, <2>4 DEF Busy, At, Seats, CleanupSeat, SyncSeat
    <3> QED BY <1>4, <2>4, <3>1 DEF Busy
  <2> QED BY <1>7, <2>1, <2>2, <2>3, <2>4 DEF RecoverSteps
<1>8. CASE p = "cleanup" /\ CleanupNext
  <2>1. CASE \E orphan, identity \in BOOLEAN : CleanupRow(orphan, identity)
    BY <1>3, <1>4, <1>8, <2>1 DEF CleanupRow
  <2>2. CASE CleanupPend
    <3>1. rows[p] # <<>> BY <1>8, <2>2 DEF CleanupPend, At, Seats, CleanupSeat
    <3> QED BY <1>3, <1>4, <1>8, <2>2, <3>1 DEF CleanupPend
  <2>3. CASE CleanupUnlock
    <3>1. rows[p] # <<>> BY <1>8, <2>3 DEF CleanupUnlock, At, Seats, CleanupSeat
    <3> QED BY <1>4, <1>8, <2>3, <3>1 DEF CleanupUnlock
  <2>4. CASE CleanupLock BY <1>3, <2>4 DEF CleanupLock, TryLock
  <2>5. CASE CleanupUnlink \/ CleanupTmp \/ CleanupDeleted
    BY <1>3, <2>5 DEF CleanupUnlink, CleanupTmp, CleanupDeleted
  <2>6. CASE \E gone \in SUBSET Ids : CleanupEnd(gone) BY <1>3, <2>6 DEF CleanupEnd
  <2> QED BY <1>8, <2>1, <2>2, <2>3, <2>4, <2>5, <2>6 DEF CleanupNext
<1>9. CASE p = "sync" /\ SyncNext
  <2>1. CASE \E young \in BOOLEAN : SyncSkip(young) BY <1>4, <1>9, <2>1 DEF SyncSkip
  <2>2. CASE \E wait \in BOOLEAN : SyncJob(wait)
    <3>1. rows[p] # <<>> BY <1>9, <2>2 DEF SyncJob, At, Seats, SyncSeat
    <3> QED BY <1>3, <1>4, <1>9, <2>2, <3>1 DEF SyncJob
  <2>3. CASE Check
    <3>1. rows[p] # <<>> BY <1>9, <2>3 DEF Check, At, Seats, SyncSeat
    <3> QED BY <1>4, <1>5, <1>9, <2>3, <3>1 DEF Check
  <2>4. CASE UploadEnd
    <3>1. rows[p] # <<>> BY <1>9, <2>4 DEF UploadEnd, At, Seats, SyncSeat
    <3> QED BY <1>4, <1>9, <2>4, <3>1 DEF UploadEnd
  <2>5. CASE LookDone \/ LookTimeout \/ PostVerify \/ UploadFails \/ SyncEnd
    BY <1>3, <2>5 DEF LookDone, LookTimeout, PostVerify, UploadFails, SyncEnd
  <2>6. CASE CheckLock \/ UploadLock BY <1>3, <2>6 DEF CheckLock, UploadLock, TryLock
  <2>7. CASE \E wait \in BOOLEAN : SyncRow(wait) BY <1>3, <2>7 DEF SyncRow
  <2>8. CASE \E works, stored \in BOOLEAN : Copy(works, stored) BY <1>3, <2>8 DEF Copy
  <2>9. CASE \E works \in BOOLEAN : Verify(works) BY <1>3, <2>9 DEF Verify
  <2> QED BY <1>9, <2>1, <2>2, <2>3, <2>4, <2>5, <2>6, <2>7, <2>8, <2>9 DEF SyncNext
<1> QED BY WhoMoves, <1>0, <1>2, <1>6, <1>7, <1>8, <1>9 DEF Steps

LEMMA EntriesStep ==
  ASSUME TypeInv, Seats, Unbegun, Charged, WritingHasNoDigest, Next, NEW p \in Workers, Entries(p)
  PROVE  Entries(p)'
PROOF
<1> SUFFICES /\ \A n \in DOMAIN rows'[p] : \A e : e = rows'[p][n] => Stands(p, e)'
             /\ \A m, n \in DOMAIN rows'[p] : m # n => rows'[p][m].id # rows'[p][n].id
  BY DEF Entries, Stands, Past, Gone, S, Begun, Cap
<1>0. /\ p \in Procs /\ rows[p] \in Seq(Entry) /\ \A n \in DOMAIN rows[p] : rows[p][n] \in Entry
  BY DEF TypeInv, Procs, Workers
<1>00. /\ \A n \in DOMAIN rows[p] : Stands(p, rows[p][n])
      /\ \A m, n \in DOMAIN rows[p] : m # n => rows[p][m].id # rows[p][n].id
  BY DEF Entries
<1>1. ASSUME NEW e, Stands(p, e), e \in Entry, UploadRow => p # "sync" \/ e.id # at["sync"] \/ UNCHANGED row
      PROVE  Stands(p, e)'
  <2>1. CASE UNCHANGED row
    <3>1. e.id \in Ids BY <1>1 DEF Entry
    <3>2. Past(e.id) => Past(e.id)' BY <3>1, GoneStays
    <3> QED BY <1>1, <2>1, <3>2 DEF Stands, S
  <2>2. CASE ~UNCHANGED row BY <1>1, <2>2, StandsStay
  <2> QED BY <2>1, <2>2
<1>2. CASE rows'[p] = rows[p] /\ ~(p = "sync" /\ UploadRow /\ ~UNCHANGED row)
  BY <1>0, <1>00, <1>1, <1>2
<1>3. CASE rows[p] # <<>> /\ rows'[p] = Tail(rows[p]) /\ ~(p = "sync" /\ UploadRow)
  <2>1. /\ DOMAIN rows'[p] = 1 .. Len(rows[p]) - 1
        /\ \A n \in DOMAIN rows'[p] : rows'[p][n] = rows[p][n + 1] /\ n + 1 \in DOMAIN rows[p]
    BY <1>0, <1>3
  <2>2. \A m, n \in DOMAIN rows'[p] : m # n => m + 1 # n + 1 BY <2>1
  <2>3. \A m, n \in DOMAIN rows'[p] : m # n => rows'[p][m].id # rows'[p][n].id
    BY <1>00, <2>1, <2>2
  <2>4. ASSUME NEW n \in DOMAIN rows'[p], NEW e, e = rows'[p][n] PROVE Stands(p, e)'
    <3>1. n + 1 \in DOMAIN rows[p] /\ e = rows[p][n + 1] BY <2>1, <2>4
    <3>2. e \in Entry /\ Stands(p, e) BY <1>0, <1>00, <3>1
    <3> QED BY <1>1, <1>3, <3>2
  <2> QED BY <2>3, <2>4
<1>4. CASE rows'[p] = <<>> BY <1>4
<1>5. CASE (\E wanted : rows'[p] = Listed(wanted)) /\ UNCHANGED row
  <2>1. PICK wanted : rows'[p] = Listed(wanted) BY <1>5
  <2>2. \A m, n \in DOMAIN rows'[p] : m # n => rows'[p][m].id # rows'[p][n].id
    BY <2>1, ListedRows
  <2>3. \A n \in DOMAIN rows'[p] : rows'[p][n] \in Entry /\ Stands(p, rows'[p][n])
    BY <2>1, ListedStands
  <2>4. ASSUME NEW n \in DOMAIN rows'[p], NEW e, e = rows'[p][n] PROVE Stands(p, e)'
    <3>1. e \in Entry /\ Stands(p, e) BY <2>3, <2>4
    <3> QED BY <1>1, <1>5, <3>1
  <2> QED BY <2>2, <2>4
<1>6. CASE Replaced(p)
  <2> DEFINE i == at[p]
             e == [id |-> i, row |-> row'[i]]
  <2>1. i \in Ids /\ e.id = i /\ e.row = row'[i] /\ e.row.state = "READY"
    BY <1>0, <1>6 DEF Replaced, TypeInv
  <2>2. e \in Entry BY <2>1, RowTyped DEF Entry
  <2>3. Head(rows[p]).id = i /\ Head(rows[p]) = rows[p][1] /\ rows[p] # <<>>
    BY <1>0, <1>6 DEF Replaced
  <2>4. rows'[p] = <<e>> \o Tail(rows[p]) BY <1>6 DEF Replaced
  <2> HIDE DEF i, e
  <2>5. <<e>> \in Seq(Entry) /\ Len(<<e>>) = 1 /\ <<e>>[1] = e BY <2>2
  <2>6. /\ Tail(rows[p]) \in Seq(Entry) /\ Len(Tail(rows[p])) = Len(rows[p]) - 1
        /\ Len(rows[p]) \in Nat \ {0} /\ DOMAIN rows[p] = 1 .. Len(rows[p])
        /\ \A n \in 1 .. Len(rows[p]) - 1 : Tail(rows[p])[n] = rows[p][n + 1]
    BY <1>0, <2>3
  <2>7. /\ DOMAIN rows'[p] = 1 .. Len(rows[p]) /\ rows'[p][1] = e
        /\ \A n \in 2 .. Len(rows[p]) : rows'[p][n] = rows[p][n]
    <3> DEFINE s == <<e>>
               t == Tail(rows[p])
    <3>1. /\ s \o t \in Seq(Entry) /\ Len(s \o t) = Len(s) + Len(t)
          /\ \A n \in 1 .. Len(s) + Len(t) : (s \o t)[n] = IF n <= Len(s) THEN s[n] ELSE t[n - Len(s)]
      BY <2>5, <2>6, ConcatProperties
    <3> HIDE DEF s, t
    <3>2. Len(s) = 1 /\ s[1] = e /\ Len(t) = Len(rows[p]) - 1 BY <2>5, <2>6 DEF s, t
    <3>3. \A n \in 1 .. Len(rows[p]) - 1 : t[n] = rows[p][n + 1] BY <2>6 DEF t
    <3>4. \A n \in 2 .. Len(rows[p]) : n - 1 \in 1 .. Len(rows[p]) - 1 /\ n - 1 + 1 = n BY <2>6
    <3>5. rows'[p] = s \o t BY <2>4 DEF s, t
    <3>6. DOMAIN (s \o t) = 1 .. Len(rows[p]) BY <2>6, <3>1, <3>2
    <3>7. (s \o t)[1] = e BY <2>6, <3>1, <3>2
    <3>8. \A n \in 2 .. Len(rows[p]) : (s \o t)[n] = rows[p][n]
      BY <2>6, <3>1, <3>2, <3>3, <3>4
    <3> QED BY <3>5, <3>6, <3>7, <3>8
  <2>8. \A n \in DOMAIN rows'[p] : rows'[p][n].id = rows[p][n].id
    BY <2>1, <2>3, <2>6, <2>7
  <2>9. ASSUME NEW f, f = e PROVE Stands(p, f)'
    <3>1. f.id = i /\ f.row = row'[i] /\ f.row.state = "READY" BY <2>1, <2>9
    <3> QED BY <3>1 DEF Stands, Past, S
  <2>10. ASSUME NEW n \in 2 .. Len(rows[p]), NEW f, f = rows'[p][n] PROVE Stands(p, f)'
    <3>1. n \in DOMAIN rows[p] /\ 1 \in DOMAIN rows[p] /\ n # 1 BY <2>6
    <3>2. f = rows[p][n] BY <2>7, <2>10
    <3>3. f.id # i BY <1>00, <2>3, <3>1, <3>2
    <3>4. Stands(p, f) /\ f \in Entry BY <1>0, <1>00, <3>1, <3>2
    <3>5. p # "sync" \/ f.id # at["sync"] BY <3>3 DEF i
    <3> QED BY <1>1, <3>4, <3>5
  <2>11. \A n \in DOMAIN rows'[p] : n = 1 \/ n \in 2 .. Len(rows[p]) BY <2>6, <2>7
  <2>12. \A n \in DOMAIN rows'[p] : \A f : f = rows'[p][n] => Stands(p, f)'
    BY <2>7, <2>9, <2>10, <2>11
  <2>13. \A m, n \in DOMAIN rows'[p] : m # n => rows'[p][m].id # rows'[p][n].id
    BY <1>00, <2>6, <2>7, <2>8
  <2> QED BY <2>12, <2>13
<1> QED BY ListSteps, <1>2, <1>3, <1>4, <1>5, <1>6 DEF ListStep

-----------------------------------------------------------------------------
(* What is uploaded, and what is given up.                                 *)

\* Only a verification makes a job VERIFIED.
LEMMA VerifiedOnlyAt ==
  ASSUME TypeInv, Seats, Next, NEW i \in Ids, ~PostVerify, upload'[i].status = "VERIFIED"
  PROVE  upload[i].status = "VERIFIED"
PROOF
<1>1. CASE \E gone \in SUBSET Ids : CleanupEnd(gone) BY ForgetsJobs, <1>1
<1>2. CASE UploadFails /\ Fails BY <1>2 DEF Fails, OnlyJob
<1>3. CASE UNCHANGED upload BY <1>3
<1> QED BY UploadSteps, <1>1, <1>2, <1>3

LEMMA UploadingStep ==
  ASSUME TypeInv, Seats, Jobs, Entries("sync"), Uploading, Next
  PROVE  Uploading'
PROOF
<1> DEFINE Sending == {"up_lock", "up_row", "copy", "verify", "post", "up_fail"}
<1>0. /\ "sync" \in Procs /\ "sync" \in Workers /\ DOMAIN pc = Procs /\ at \in [Procs -> Ids]
      /\ at["sync"] \in Ids /\ rows \in [Procs -> Seq(Entry)] /\ verified \in [Procs -> 0 .. 2]
  BY DEF TypeInv, Procs, Workers
<1>1. ASSUME pc'["sync"] \notin Sending PROVE Uploading' BY <1>1 DEF Uploading
<1>2. ASSUME at'["sync"] = at["sync"], pc["sync"] \in Sending, ~PostVerify
      PROVE  upload'[at'["sync"]].status # "VERIFIED"
  <2>1. upload[at["sync"]].status # "VERIFIED" BY <1>2 DEF Uploading
  <2> QED BY <1>0, <1>2, <2>1, VerifiedOnlyAt
<1>3. CASE Same("sync")
  <2>1. ~PostVerify
    <3>1. PostVerify => pc["sync"] = "post" /\ pc'["sync"] \in {"up_end", "up_fail"}
      BY <1>0 DEF PostVerify, At, Goto
    <3> QED BY <1>3, <3>1 DEF Same
  <2>2. pc["sync"] # "copy" => UNCHANGED remote BY CopyOnly
  <2> QED BY <1>1, <1>2, <1>3, <2>1, <2>2 DEF Same, Uploading
<1>4. CASE Crash("sync")
  <2>1. pc'["sync"] = "idle" BY <1>0, <1>4 DEF Crash, Goto
  <2> QED BY <1>1, <2>1
<1>5. CASE RecoverSteps("sync")
  <2>1. pc'["sync"] \notin Sending BY <1>0, <1>5, RecoverGoes
  <2> QED BY <1>1, <2>1
<1>6. CASE SyncNext
  <2>1. CASE \E wait \in BOOLEAN : SyncJob(wait)
    <3> DEFINE a == Head(rows["sync"])
    <3>1. /\ pc["sync"] = "job" /\ UNCHANGED upload
          /\ \/ pc'["sync"] \in {"row", "check_lock"}
             \/ /\ Open("sync", a.id) /\ pc'["sync"] = "up_lock"
                /\ ~(upload[a.id].status = "VERIFIED" /\ upload[a.id].digest = a.row.digest)
      BY <1>0, <2>1 DEF SyncJob, NextRow, Goto, At, ledger
    <3>2. rows["sync"] # <<>> /\ a.row.state = "READY" BY <3>1 DEF Seats, SyncSeat
    <3>3. a.id \in Ids /\ a = rows["sync"][1] /\ 1 \in DOMAIN rows["sync"] BY <1>0, <3>2, HeadId
    <3>4. Stands("sync", a) BY <3>3 DEF Entries
    <3> HIDE DEF a
    <3>5. CASE pc'["sync"] = "up_lock"
      <4>1. at'["sync"] = a.id BY <1>0, <3>1, <3>5 DEF Open
      <4>2. upload[a.id].status # "VERIFIED"
        <5>1. SUFFICES ASSUME upload[a.id].status = "VERIFIED" PROVE FALSE OBVIOUS
        <5>2. S(a.id) # "none" /\ upload[a.id].digest = row[a.id].digest
          BY <3>3, <5>1 DEF Jobs
        <5>3. a.row.digest = row[a.id].digest BY <3>2, <3>4, <5>2 DEF Stands
        <5> QED BY <3>1, <3>5, <5>1, <5>2, <5>3
      <4> QED BY <3>1, <3>5, <4>1, <4>2 DEF Uploading
    <3> QED BY <1>1, <3>1, <3>5
  <2>2. CASE UploadLock
    <3>1. pc["sync"] = "up_lock" /\ pc'["sync"] \in {"up_row", "busy"} /\ UNCHANGED <<at, upload>>
      BY <1>0, <2>2 DEF UploadLock, TryLock, At, Goto, ledger
    <3> QED BY <3>1 DEF Uploading
  <2>3. CASE UploadRow
    <3>1. pc["sync"] = "up_row" /\ UNCHANGED <<at, upload>> BY <2>3 DEF UploadRow, At
    <3>2. pc'["sync"] \in {"up_end", "up_fail", "copy"} BY <1>0, <2>3 DEF UploadRow, Goto
    <3>3. ASSUME pc'["sync"] = "copy"
          PROVE  verified'["sync"] = Head(rows'["sync"]).row.digest
      <4> DEFINE i == Head(rows["sync"]).id
                 e == [id |-> i, row |-> row'[i]]
      <4>1. /\ verified' = [verified EXCEPT !["sync"] = file[i]] /\ file[i] = row'[i].digest
            /\ rows' = [rows EXCEPT !["sync"] = <<e>> \o Tail(rows["sync"])]
        BY <1>0, <2>3, <3>3 DEF UploadRow, Goto
      <4>2. rows["sync"] # <<>> BY <3>1 DEF Seats, SyncSeat
      <4>3. i \in Ids /\ Tail(rows["sync"]) \in Seq(Entry) BY <1>0, <4>2, HeadId
      <4>4. row'[i] \in Row BY <4>3, RowTyped
      <4>5. e \in Entry /\ e.row = row'[i] BY <4>3, <4>4 DEF Entry
      <4> HIDE DEF e
      <4>6. <<e>> \in Seq(Entry) /\ Len(<<e>>) = 1 /\ <<e>>[1] = e BY <4>5
      <4>7. <<e>> \o Tail(rows["sync"]) \in Seq(Entry) /\ Len(<<e>> \o Tail(rows["sync"])) >= 1
            /\ (<<e>> \o Tail(rows["sync"]))[1] = e
        BY <4>3, <4>6, ConcatProperties, LenProperties
      <4>8. rows'["sync"] \in Seq(Entry) /\ Len(rows'["sync"]) >= 1 /\ rows'["sync"][1] = e
        BY <1>0, <4>1, <4>7
      <4>9. Head(rows'["sync"]) = e BY <4>8
      <4>10. verified'["sync"] = file[i] BY <1>0, <4>1
      <4> QED BY <4>1, <4>5, <4>9, <4>10
    <3> QED BY <3>1, <3>2, <3>3 DEF Uploading
  <2>4. CASE \E works, stored \in BOOLEAN : Copy(works, stored)
    <3>1. /\ pc["sync"] = "copy" /\ pc'["sync"] \in {"verify", "up_fail"}
          /\ UNCHANGED <<at, upload, rows, verified>>
      BY <1>0, <2>4 DEF Copy, At, Goto, ledger
    <3> QED BY <3>1 DEF Uploading
  <2>5. CASE \E works \in BOOLEAN : Verify(works)
    <3>1. /\ pc["sync"] = "verify" /\ pc'["sync"] \in {"post", "up_fail"}
          /\ UNCHANGED <<at, upload, rows, verified, remote>>
          /\ pc'["sync"] = "post" => remote[at["sync"]] = verified["sync"]
      BY <1>0, <2>5 DEF Verify, At, Goto, ledger, disk
    <3> QED BY <3>1 DEF Uploading
  <2>6. CASE PostVerify
    <3>1. /\ pc["sync"] = "post" /\ UNCHANGED at
          /\ pc'["sync"] = "up_end" \/ (pc'["sync"] = "up_fail" /\ UNCHANGED upload)
      BY <1>0, <2>6 DEF PostVerify, At, Goto
    <3> QED BY <3>1 DEF Uploading
  <2>7. CASE UploadFails \/ UploadEnd \/ SyncEnd
    <3>1. pc'["sync"] \in {"up_end", "row", "idle"}
      BY <1>0, <2>7 DEF UploadFails, UploadEnd, SyncEnd, NextRow, Goto
    <3> QED BY <1>1, <3>1
  <2>8. CASE LookDone \/ LookTimeout
    <3>1. pc'["sync"] = "job" BY <1>0, <2>8 DEF LookDone, LookTimeout, Procs
    <3> QED BY <1>1, <3>1
  <2>9. CASE Check
    <3>1. pc'["sync"] \in {"row", "idle"} BY <1>0, <2>9 DEF Check, NextRow, Goto
    <3> QED BY <1>1, <3>1
  <2>10. CASE CheckLock
    <3>1. pc'["sync"] \in {"check", "busy"} BY <1>0, <2>10 DEF CheckLock, TryLock, Goto
    <3> QED BY <1>1, <3>1
  <2>11. CASE \E young \in BOOLEAN : SyncSkip(young)
    <3>1. pc'["sync"] = "row" BY <1>0, <2>11 DEF SyncSkip, NextRow, Goto
    <3> QED BY <1>1, <3>1
  <2>12. CASE \E wait \in BOOLEAN : SyncRow(wait)
    <3>1. pc'["sync"] \in {"look", "job"} BY <1>0, <2>12 DEF SyncRow, Procs
    <3> QED BY <1>1, <3>1
  <2> QED BY <1>6, <2>1, <2>2, <2>3, <2>4, <2>5, <2>6, <2>7, <2>8, <2>9, <2>10, <2>11, <2>12
      DEF SyncNext
<1> QED BY WhoMoves, <1>0, <1>3, <1>4, <1>5, <1>6 DEF Steps

\* What was due stays so until the cleanup has given it up.
LEMMA DueStays ==
  ASSUME TypeInv, Seats, Unbegun, Charged, Uploading, Next, NEW i \in Ids, Past(i),
         S(i) = "READY" => upload[i].status = "VERIFIED"
  PROVE  Past(i)' /\ (row'[i].state = "READY" => upload'[i].status = "VERIFIED")
PROOF
<1>1. Past(i)' BY GoneStays
<1>2. ASSUME row'[i].state = "READY" PROVE S(i) = "READY"
  <2>1. SUFFICES ASSUME S(i) # "READY" PROVE FALSE OBVIOUS
  <2>2. S(i) # "WRITING" BY DEF Past, Gone
  <2>3. ~Reserves BY <1>2, <2>1, <2>2 DEF Reserves, Only, S
  <2>4. \A j : ~Ends(j) /\ ~Digests(j) BY <1>2, <2>1, <2>2 DEF Ends, Digests, Only, S
  <2>5. ~UNCHANGED row BY <1>2, <2>1 DEF S
  <2>6. ~Forgets BY <1>2, <2>1 DEF Forgets, S, NoRow
  <2>7. ~Prepares BY <1>2, <2>1 DEF Prepares, S, Ids
  <2>8. /\ ~Turns(at["sync"], {"READY"}, "QUARANTINED")
        /\ ~Turns(at["cleanup"], States \ {"none", "DELETED"}, "DELETE_PENDING")
        /\ ~Turns(at["cleanup"], {"DELETE_PENDING"}, "DELETED")
    BY <1>2, <2>1 DEF Turns, Only, S
  <2> QED BY RowSteps, <2>3, <2>4, <2>5, <2>6, <2>7, <2>8 DEF RowStep
<1>3. ASSUME row'[i].state = "READY" PROVE upload'[i].status = "VERIFIED"
  <2>1. upload[i].status = "VERIFIED" /\ S(i) = "READY" BY <1>2, <1>3
  <2>2. CASE \E gone \in SUBSET Ids : CleanupEnd(gone)
    BY ForgetsJobs, <2>1, <2>2
  <2>3. CASE PostVerify /\ Verifies BY <2>1, <2>3 DEF Verifies, OnlyJob
  <2>4. CASE UploadFails /\ Fails
    <3>1. i # at["sync"] BY <2>1, <2>4 DEF Fails, At, Uploading
    <3> QED BY <2>1, <2>4, <3>1 DEF Fails, OnlyJob
  <2>5. CASE UNCHANGED upload BY <2>1, <2>5
  <2> QED BY UploadSteps, <2>2, <2>3, <2>4, <2>5
<1> QED BY <1>1, <1>3

\* What the cleanup finds due, if it must have been uploaded, was.
LEMMA DueWas ==
  ASSUME TypeInv, Seats, Jobs, Entries("cleanup"), KeepUnverified, rows["cleanup"] # <<>>,
         NEW orphan \in BOOLEAN, NEW identity \in BOOLEAN, CleanupRow(orphan, identity),
         Open("cleanup", Head(rows["cleanup"]).id), pc'["cleanup"] = "lock"
  PROVE  LET i == Head(rows["cleanup"]).id
         IN  Past(i) /\ (S(i) = "READY" => upload[i].status = "VERIFIED")
PROOF
<1> DEFINE a == Head(rows["cleanup"])
           i == a.id
           known == /\ identity /\ a.row.digest # 0
                    /\ upload[a.id].status = "VERIFIED" /\ upload[a.id].digest = a.row.digest
<1>0. "cleanup" \in Procs /\ DOMAIN pc = Procs BY DEF TypeInv, Procs
<1>1. a = rows["cleanup"][1] /\ 1 \in DOMAIN rows["cleanup"] /\ i \in Ids /\ a \in Entry
  BY <1>0, HeadId
<1>2. Stands("cleanup", a) BY <1>1 DEF Entries
<1>3. Due(a, orphan, known) BY <1>0 DEF CleanupRow, NextRow, Goto
<1>4. known => upload[i].status = "VERIFIED" OBVIOUS
<1>5. upload[i].status = "VERIFIED" => S(i) \notin {"none", "WRITING"} BY <1>1 DEF Jobs
<1>6. S(i) \in States BY <1>1 DEF TypeInv, Row, S
<1>7. upload[i].status = "VERIFIED" => Past(i) BY <1>5, <1>6 DEF States, Past, Gone
<1> SUFFICES Past(i) /\ (S(i) = "READY" => upload[i].status = "VERIFIED") OBVIOUS
<1> HIDE DEF a, known
<1>8. CASE a.row.state = "DELETE_PENDING" BY <1>2, <1>8 DEF Stands
<1>9. CASE known BY <1>4, <1>7, <1>9
<1>10. CASE ~known /\ a.row.state # "DELETE_PENDING"
  <2>1. a.row.state = "QUARANTINED" BY <1>3, <1>10 DEF Due
  <2> QED BY <1>2, <2>1 DEF Stands
<1> QED BY <1>8, <1>9, <1>10

LEMMA CondemnedStep ==
  ASSUME TypeInv, Seats, Unbegun, Charged, Jobs, Entries("cleanup"), Uploading, Condemned, Next
  PROVE  Condemned'
PROOF
<1> SUFFICES ASSUME KeepUnverified, pc'["cleanup"] \in {"lock", "pend"}
             PROVE  \E i \in Ids : /\ i = at'["cleanup"] /\ Past(i)'
                                   /\ row'[i].state = "READY" => upload'[i].status = "VERIFIED"
  BY DEF Condemned, Past, Gone, S, Begun, Cap
<1>0. /\ "cleanup" \in Procs /\ "cleanup" \in Workers /\ DOMAIN pc = Procs
      /\ at \in [Procs -> Ids] /\ at["cleanup"] \in Ids
  BY DEF TypeInv, Procs, Workers
<1>1. ASSUME pc["cleanup"] \in {"lock", "pend"}, at'["cleanup"] = at["cleanup"]
      PROVE  \E i \in Ids : /\ i = at'["cleanup"] /\ Past(i)'
                            /\ row'[i].state = "READY" => upload'[i].status = "VERIFIED"
  <2>1. PICK i \in Ids : i = at["cleanup"] BY <1>0
  <2>2. Past(i) /\ (S(i) = "READY" => upload[i].status = "VERIFIED")
    BY <1>1, <2>1 DEF Condemned
  <2> QED BY <1>1, <2>1, <2>2, DueStays
<1>2. CASE Same("cleanup") BY <1>1, <1>2 DEF Same
<1>3. CASE Crash("cleanup") BY <1>0, <1>3 DEF Crash, Goto
<1>4. CASE RecoverSteps("cleanup") BY <1>0, <1>4, RecoverGoes
<1>5. CASE CleanupLock
  <2>1. pc["cleanup"] = "lock" /\ UNCHANGED at BY <1>5 DEF CleanupLock, TryLock, At
  <2> QED BY <1>1, <2>1
<1>6. CASE \E orphan, identity \in BOOLEAN : CleanupRow(orphan, identity)
  <2>1. PICK orphan, identity \in BOOLEAN : CleanupRow(orphan, identity) BY <1>6
  <2>2. /\ rows["cleanup"] # <<>> /\ Open("cleanup", Head(rows["cleanup"]).id)
        /\ pc'["cleanup"] = "lock"
    BY <1>0, <2>1 DEF CleanupRow, NextRow, Goto
  <2>3. PICK i \in Ids : i = Head(rows["cleanup"]).id BY <1>0, <2>2, HeadId
  <2>4. Past(i) /\ (S(i) = "READY" => upload[i].status = "VERIFIED")
    BY <2>1, <2>2, <2>3, DueWas
  <2>5. at'["cleanup"] = i BY <1>0, <2>2, <2>3 DEF Open
  <2> QED BY <2>4, <2>5, DueStays
<1>7. CASE CleanupPend
  <2>1. pc'["cleanup"] \in {"row", "unlink"} BY <1>0, <1>7 DEF CleanupPend, NextRow, Goto
  <2> QED BY <2>1
<1>8. CASE CleanupUnlink \/ CleanupTmp \/ CleanupDeleted \/ CleanupUnlock
  <2>1. pc'["cleanup"] \in {"unlink_tmp", "deleted", "unlock", "row"}
    BY <1>0, <1>8 DEF CleanupUnlink, CleanupTmp, CleanupDeleted, CleanupUnlock, NextRow, Goto
  <2> QED BY <2>1
<1>9. CASE \E gone \in SUBSET Ids : CleanupEnd(gone)
  <2>1. pc'["cleanup"] = "idle" BY <1>0, <1>9 DEF CleanupEnd, Goto
  <2> QED BY <2>1
<1> QED BY WhoMoves, <1>0, <1>2, <1>3, <1>4, <1>5, <1>6, <1>7, <1>8, <1>9 DEF Steps, CleanupNext

-----------------------------------------------------------------------------
(* The invariant.                                                          *)

LEMMA InitIInv ==
  ASSUME Init
  PROVE  IInv
PROOF
<1>0. /\ \A i \in Ids : /\ row[i] = NoRow /\ upload[i] = NoJob /\ file[i] = 0 /\ tmp[i] = FALSE
                        /\ remote[i] = 0
      /\ look = NoJob /\ held = {} /\ quota.reserved = 0 /\ quota.committed = 0
      /\ \A p \in Procs : /\ pc[p] = IF p = "writer" THEN "start" ELSE "idle"
                          /\ at[p] = "h5" /\ rows[p] = <<>>
      /\ Procs = {"writer", "cleanup", "sync", "generator"} /\ Workers = {"cleanup", "sync"}
      /\ Ids = {"h5", "png"}
  BY DEF Init, Procs, Workers, Ids
<1>1. /\ NoRow \in Row /\ NoRow.state = "none" /\ NoRow.digest = 0 /\ NoRow.pngCap = 0
      /\ NoJob \in JobRow /\ NoJob.status = "none"
  BY DEF NoRow, NoJob, Row, JobRow, States
<1>2. TypeInv
  <2>1. <<>> \in Seq(Entry) OBVIOUS
  <2>2. Locked = {} BY <1>0 DEF Locked
  <2>3. IsFiniteSet(Locked) BY <2>2, FS_EmptySet
  <2>4. /\ row \in [Ids -> Row] /\ upload \in [Ids -> JobRow] /\ look \in JobRow
        /\ quota \in [reserved : Int, committed : Int]
    BY <1>1 DEF Init
  <2>5. /\ file \in [Ids -> 0 .. 2] /\ tmp \in [Ids -> BOOLEAN] /\ remote \in [Ids -> 0 .. 2]
        /\ inode \in [Ids -> Nat] /\ held \subseteq Lock
    BY DEF Init
  <2>6. DOMAIN pc = Procs BY DEF Init
  <2>7. at \in [Procs -> Ids] /\ fd \in [Procs -> Nat] /\ verified \in [Procs -> 0 .. 2]
    BY DEF Init, Ids
  <2>8. rows \in [Procs -> Seq(Entry)] BY <2>1 DEF Init
  <2>9. /\ old \in [Workers -> BOOLEAN] /\ expired \in BOOLEAN /\ crashes \in Nat /\ edits \in Nat
    BY DEF Init
  <2> QED BY <2>3, <2>4, <2>5, <2>6, <2>7, <2>8, <2>9 DEF TypeInv
<1>3. OneOwner BY <1>0 DEF OneOwner
<1>4. Seats BY <1>0 DEF Seats, WriterSeat, GeneratorSeat, CleanupSeat, SyncSeat
<1>5. Unbegun /\ Charged BY <1>0, <1>1 DEF Unbegun, Charged, S, Cap
<1>6. Pending /\ SameInode /\ Unlinked /\ Uploading /\ Condemned
  <2>1. \A p \in Procs : pc[p] \in {"start", "idle"} BY <1>0
  <2> QED BY <1>0, <2>1 DEF Pending, SameInode, Unlinked, Uploading, Condemned, Opening, Exclusive
<1>7. LiveOwnerKeepsWriting BY <1>0 DEF LiveOwnerKeepsWriting
<1>8. DeletedIsGone /\ VerifiedIsRemote /\ Jobs /\ LooksHaveRows /\ WritingHasNoDigest
  BY <1>0, <1>1 DEF DeletedIsGone, VerifiedIsRemote, Jobs, LooksHaveRows, WritingHasNoDigest, S
<1>9. \A p \in Workers : Entries(p)
  <2>1. ASSUME NEW p \in Workers PROVE rows[p] = <<>> BY <1>0
  <2> QED BY <2>1 DEF Entries
<1> QED BY <1>2, <1>3, <1>4, <1>5, <1>6, <1>7, <1>8, <1>9 DEF IInv

LEMMA StutterIInv ==
  ASSUME IInv, UNCHANGED vars
  PROVE  IInv'
PROOF
<1>0. /\ row' = row /\ upload' = upload /\ look' = look /\ quota' = quota
      /\ file' = file /\ tmp' = tmp /\ remote' = remote /\ inode' = inode /\ held' = held
      /\ pc' = pc /\ at' = at /\ fd' = fd /\ rows' = rows /\ verified' = verified /\ old' = old
      /\ expired' = expired /\ crashes' = crashes /\ edits' = edits
  BY DEF vars, ledger, disk, locks, local, world
<1>1. TypeInv' BY <1>0 DEF IInv, TypeInv, Locked
<1>2. OneOwner' BY <1>0 DEF IInv, OneOwner
<1>3. Seats' BY <1>0 DEF IInv, Seats, WriterSeat, GeneratorSeat, CleanupSeat, SyncSeat
<1>4. Unbegun' /\ Charged' BY <1>0 DEF IInv, Unbegun, Begun, Charged, Cap, S
<1>5. Pending' /\ SameInode' BY <1>0 DEF IInv, Pending, SameInode, Gone, Begun, Cap, S
<1>6. LiveOwnerKeepsWriting' /\ DeletedIsGone' /\ VerifiedIsRemote'
  BY <1>0 DEF IInv, LiveOwnerKeepsWriting, DeletedIsGone, VerifiedIsRemote
<1>7. Unlinked' /\ Jobs' /\ LooksHaveRows' /\ WritingHasNoDigest'
  BY <1>0 DEF IInv, Unlinked, Jobs, LooksHaveRows, WritingHasNoDigest, S
<1>8. \A p \in Workers : Entries(p)'
  <2>1. \A p \in Workers : Entries(p)
    BY DEF IInv
  <2>2. ASSUME NEW p, NEW e PROVE Stands(p, e)' <=> Stands(p, e)
    BY <1>0 DEF Stands, Past, Gone, Begun, Cap, S
  <2> QED
    BY <1>0, <2>1, <2>2 DEF Entries
<1>9. Uploading' BY <1>0 DEF IInv, Uploading
<1>10. Condemned' BY <1>0 DEF IInv, Condemned, Past, Gone, Begun, Cap, S
<1> QED BY <1>1, <1>2, <1>3, <1>4, <1>5, <1>6, <1>7, <1>8, <1>9, <1>10 DEF IInv

LEMMA NextIInv ==
  ASSUME IInv, Next
  PROVE  IInv'
PROOF
<1>0. /\ TypeInv /\ OneOwner /\ Seats /\ Unbegun /\ Charged /\ Pending /\ SameInode
      /\ LiveOwnerKeepsWriting /\ DeletedIsGone /\ Unlinked /\ Jobs /\ LooksHaveRows
      /\ VerifiedIsRemote /\ (\A p \in Workers : Entries(p)) /\ Uploading /\ Condemned
      /\ WritingHasNoDigest
  BY DEF IInv
<1>1. Entries("cleanup") /\ Entries("sync") BY <1>0 DEF Workers
<1>2. TypeInv' /\ Seats' /\ OneOwner' BY <1>0, TypeStep, SeatsStep, OneOwnerStep
<1>3. Unbegun' /\ Charged' BY <1>0, UnbegunStep, ChargedStep
<1>4. Pending' /\ SameInode' BY <1>0, PendingStep, SameInodeStep
<1>5. LiveOwnerKeepsWriting' BY <1>0, LiveOwnerStep
<1>6. Unlinked' /\ DeletedIsGone' BY <1>0, UnlinkedStep, DeletedIsGoneStep
<1>7. LooksHaveRows' /\ WritingHasNoDigest' BY <1>0, LooksHaveRowsStep, WritingHasNoDigestStep
<1>8. Jobs' BY <1>0, <1>1, JobsStep
<1>9. VerifiedIsRemote' BY <1>0, VerifiedIsRemoteStep
<1>10. \A p \in Workers : Entries(p)' BY <1>0, EntriesStep
<1>11. Uploading' BY <1>0, <1>1, UploadingStep
<1>12. Condemned' BY <1>0, <1>1, CondemnedStep
<1> QED BY <1>2, <1>3, <1>4, <1>5, <1>6, <1>7, <1>8, <1>9, <1>10, <1>11, <1>12 DEF IInv

LEMMA IInvAlways == Spec => []IInv
PROOF
<1>1. Init => IInv BY InitIInv
<1>2. IInv /\ [Next]_vars => IInv' BY NextIInv, StutterIInv
<1> QED BY <1>1, <1>2, PTL DEF Spec

\* Types, as the runs check them.
THEOREM LifecycleTypes == Spec => []TypeOK
PROOF
<1>1. ASSUME IInv PROVE TypeOK
  <2>1. TypeInv /\ OneOwner BY <1>1 DEF IInv
  <2>2. \A i \in Ids : /\ row[i].state \in States /\ row[i].digest \in 0 .. 2
                       /\ upload[i].status \in {"none", "VERIFIED", "FAILED"}
    BY <2>1 DEF TypeInv, Row, JobRow
  <2>3. \A i \in Ids : {file[i], remote[i]} \subseteq 0 .. 2 /\ tmp[i] \in BOOLEAN
    BY <2>1 DEF TypeInv
  <2>4. {quota.reserved, quota.committed} \subseteq Int BY <2>1 DEF TypeInv
  <2> QED BY <2>1, <2>2, <2>3, <2>4 DEF TypeOK, OneOwner
<1> QED BY <1>1, IInvAlways, PTL

\* While a process writes or publishes an artifact nobody recovers or deletes
\* it, whoever is killed and although lock files are unlinked and made again.
THEOREM LiveOwner == Spec => []LiveOwnerKeepsWriting
PROOF
<1>1. IInv => LiveOwnerKeepsWriting BY DEF IInv
<1> QED BY <1>1, IInvAlways, PTL

\* The share of the image is reserved once and committed at most once, and
\* there is no image that was not charged.
THEOREM ChargedOnce == Spec => []PngChargedOnce
PROOF
<1>1. ASSUME IInv PROVE PngChargedOnce
  <2>1. Cap \in {0, 1} /\ quota.reserved \in Int /\ quota.committed \in Int
    BY <1>1 DEF IInv, TypeInv, Row, Cap, Ids
  <2>2. Charged BY <1>1 DEF IInv
  <2> QED BY <2>1, <2>2 DEF Charged, PngChargedOnce
<1> QED BY <1>1, IInvAlways, PTL

\* What the ledger says of the directory, of the destination and of its jobs
\* is so.
THEOREM LedgerTrue == Spec => []LedgerIsTrue
PROOF
<1>1. ASSUME IInv PROVE LedgerIsTrue
  <2>1. DeletedIsGone /\ VerifiedIsRemote BY <1>1 DEF IInv
  <2>2. JobsHaveRows BY <1>1 DEF IInv, Jobs, LooksHaveRows, JobsHaveRows, S
  <2> QED BY <2>1, <2>2 DEF LedgerIsTrue
<1> QED BY <1>1, IInvAlways, PTL

\* With deletion of unuploaded files off, no file that is ready is given up
\* unless what its row says was verified at the destination: the cleanup asks
\* before it has the lock, and nothing that happens until then makes it wrong.
THEOREM KeptUntilUploadedAlways == Spec => [][KeepUnverified => KeptUntilUploaded]_vars
PROOF
<1>1. ASSUME IInv, Next, KeepUnverified PROVE KeptUntilUploaded
  <2>0. TypeInv /\ Seats /\ Jobs /\ Condemned BY <1>1 DEF IInv
  <2> SUFFICES ASSUME NEW i \in Ids, S(i) = "READY", row'[i].state = "DELETE_PENDING"
               PROVE  upload[i].status = "VERIFIED" /\ upload[i].digest = row[i].digest
    BY DEF KeptUntilUploaded, S
  <2>1. ~UNCHANGED row BY DEF S
  <2>2. ~Reserves /\ ~Prepares BY <2>0 DEF Reserves, Prepares, Only, S, Ids
  <2>3. \A j : ~Ends(j) /\ ~Digests(j) BY DEF Ends, Digests, Only, S
  <2>4. ~Forgets BY DEF Forgets, S
  <2>5. /\ ~Turns(at["sync"], {"READY"}, "QUARANTINED")
        /\ ~Turns(at["cleanup"], {"DELETE_PENDING"}, "DELETED")
    BY DEF Turns, Only, S
  <2>6. /\ CleanupPend
        /\ Turns(at["cleanup"], States \ {"none", "DELETED"}, "DELETE_PENDING")
    BY RowSteps, <1>1, <2>0, <2>1, <2>2, <2>3, <2>4, <2>5 DEF RowStep
  <2>7. i = at["cleanup"] BY <2>6 DEF Turns, Only, S
  <2>8. upload[i].status = "VERIFIED" BY <1>1, <2>0, <2>6, <2>7 DEF CleanupPend, At, Condemned
  <2> QED BY <2>0, <2>8 DEF Jobs
<1>2. IInv /\ [Next]_vars => [KeepUnverified => KeptUntilUploaded]_vars BY <1>1
<1> QED BY <1>2, IInvAlways, PTL DEF Spec

\* Gone is for ever: what is being deleted, or was, never comes back, whoever
\* is killed, recovers or uploads.
THEOREM GoneForEver == Spec => [][\A i \in Ids : Gone(i) => Gone(i)']_vars
PROOF
<1>1. ASSUME IInv, Next PROVE \A i \in Ids : Gone(i) => Gone(i)' BY <1>1, GoneStays DEF IInv
<1>2. IInv /\ [Next]_vars => [\A i \in Ids : Gone(i) => Gone(i)']_vars BY <1>1
<1> QED BY <1>2, IInvAlways, PTL DEF Spec
=============================================================================
