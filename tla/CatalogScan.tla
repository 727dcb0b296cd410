---------------------------- MODULE CatalogScan ----------------------------
(***************************************************************************)
(* The catalog of the H5 mode (Catalog.__init__() of                       *)
(* src/viewer/offline_h5.py): the chosen files are read one by one, in the *)
(* order they were chosen, records that are in several files are kept once *)
(* and all are laid on one axis of time.                                   *)
(*                                                                         *)
(* Samples and microseconds are counted in one unit.  The checks of a      *)
(* file's own layout stand for one that is malformed.                      *)
(***************************************************************************)
EXTENDS Integers, FiniteSets, Sequences, SequencesExt

CONSTANTS Files,        \* what the files hold, by name
          MaxChosen,    \* bound on the files that are chosen, 512
          MAX_RECORDS,
          Hop,          \* hop_samples
          Slack         \* 1000 us

CatalogAssumption ==
  /\ {MaxChosen, MAX_RECORDS, Hop, Slack} \subseteq Nat \ {0}
  /\ \A name \in DOMAIN Files :
       /\ IsFiniteSet(ToSet(Files[name].records)) /\ IsInjective(Files[name].records)
       /\ \A r \in ToSet(Files[name].records) :
            {r.start, r.end, r.from, r.to, r.stamp} \subseteq Int

VARIABLES
  chosen,   \* paths
  at,       \* files that were read
  found,    \* records so far, and the file each was read from
  result    \* how the scan ended, and the catalog

scanVars == <<chosen, at, found, result>>

Running == [end |-> "running", axis |-> <<>>, breaks |-> <<>>]
Ended(how) == [Running EXCEPT !.end = how]

File(i) == Files[chosen[i]]

Key(name, r) == <<Files[name].session, r.start, r.end>>
\* The records of a file; no two are alike, for their stamps increase.
Held(name) == {[file |-> name, rec |-> r] : r \in ToSet(Files[name].records)}

SameKey(a, b) == Key(a.file, a.rec) = Key(b.file, b.rec)

\* Mutant: a duplicate is known by its key.
NoConflict(new) == FALSE

\* A record that was read before, with other metadata or another spectrum.
Conflict(new) ==
  \E a \in new, b \in found \cup new :
    /\ a # b /\ SameKey(a, b)
    /\ Files[a.file].signature # Files[b.file].signature \/ a.rec # b.rec

Fail(how) == result' = Ended(how) /\ UNCHANGED <<chosen, at, found>>

Taken(new) == found \cup {a \in new : ~\E b \in found : SameKey(a, b)}

ReadFile ==
  /\ result = Running /\ at < Len(chosen)
  /\ LET name == chosen[at + 1]
         file == Files[name]
         new  == Held(name)
     IN  \/ file.malformed /\ Fail("malformed")
         \/ /\ ~file.malformed
            /\ file.grid # File(1).grid
            /\ Fail("grid")
         \/ /\ ~file.malformed /\ file.grid = File(1).grid
            /\ Cardinality(new) + Cardinality(found) > MAX_RECORDS
            /\ Fail("limit")
         \/ /\ ~file.malformed /\ file.grid = File(1).grid
            /\ Cardinality(new) + Cardinality(found) <= MAX_RECORDS
            /\ IF Conflict(new) THEN Fail("conflict")
               ELSE /\ found' = Taken(new)
                    /\ at' = at + 1
                    /\ UNCHANGED <<chosen, result>>

CancelScan == result = Running /\ Fail("cancelled")

Signature(a) == Files[a.file].signature

Contiguous(a, b) == b.rec.start = a.rec.end - Hop
GapBetween(a, b) == b.rec.from - a.rec.to

Overlap(a, b) ==
  Signature(a) = Signature(b) /\ ~Contiguous(a, b) /\ GapBetween(a, b) < -Slack

Break(a, b) ==
  \/ Signature(a) # Signature(b)
  \/ ~Contiguous(a, b)
  \/ GapBetween(a, b) > Slack
  \/ b.rec.flagged

\* sort() of records whose stamps differ: one comes after all that have a lower stamp.
Axis(recs) ==
  LET before(a) == {b \in recs : b.rec.stamp < a.rec.stamp}
  IN  [i \in 1 .. Cardinality(recs) |-> CHOOSE a \in recs : Cardinality(before(a)) = i - 1]

Pairs(axis) == {<<axis[i], axis[i + 1]>> : i \in 1..(Len(axis) - 1)}

FinishScan ==
  /\ result = Running /\ at = Len(chosen)
  /\ LET axis == Axis(found)
     IN  IF found = {} THEN Fail("empty")
         ELSE IF \E a, b \in found : a # b /\ a.rec.stamp = b.rec.stamp THEN Fail("stamps")
         ELSE IF \E p \in Pairs(axis) : Overlap(p[1], p[2]) THEN Fail("overlap")
         ELSE /\ result' = [end |-> "catalog", axis |-> axis,
                            breaks |-> [i \in 1..Len(axis) |->
                                          i = 1 \/ Break(axis[i - 1], axis[i])]]
              /\ UNCHANGED <<chosen, at, found>>

ScanInit ==
  /\ chosen \in {s \in SeqOf(DOMAIN Files, MaxChosen) : s # <<>> /\ IsInjective(s)}
  /\ at = 0 /\ found = {} /\ result = Running

Scanned == result # Running /\ UNCHANGED scanVars

ScanNext == ReadFile \/ CancelScan \/ FinishScan \/ Scanned

ScanSpec == ScanInit /\ [][ScanNext]_scanVars

-----------------------------------------------------------------------------
(* Properties.                                                             *)

AllHeld == UNION {Held(n) : n \in ToSet(chosen)}

Distinct(held) == {<<Key(a.file, a.rec), a.rec>> : a \in held}

\* A catalog is of the set of the files, whatever their order: each record
\* that is in some file is in it once, with the spectrum that all of them give,
\* in the order of time.  (Catalog.__init__)
CatalogIsWhole ==
  result.end = "catalog" =>
    /\ Distinct(AllHeld) = Distinct(ToSet(result.axis))
    /\ Len(result.axis) = Cardinality({Key(a.file, a.rec) : a \in AllHeld})
    /\ \A i, j \in 1 .. Len(result.axis) :
         i < j => result.axis[i].rec.stamp < result.axis[j].rec.stamp

\* Two records with no other between them, whatever files hold them.
Neighbours(a, b) ==
  /\ a.rec.stamp < b.rec.stamp
  /\ ~\E c \in AllHeld : a.rec.stamp < c.rec.stamp /\ c.rec.stamp < b.rec.stamp

\* What the set of the chosen files is refused for.  The limit is of all their
\* records together, those that are in several files counted for each.
Reason(how) ==
  \/ how = "malformed" /\ \E n \in ToSet(chosen) : Files[n].malformed
  \/ how = "grid" /\ \E m, n \in ToSet(chosen) : Files[m].grid # Files[n].grid
  \/ how = "limit" /\ Cardinality(AllHeld) > MAX_RECORDS
  \/ how = "conflict" /\ \E a, b \in AllHeld : SameKey(a, b) /\ <<Signature(a), a.rec>> # <<Signature(b), b.rec>>
  \/ how = "empty" /\ AllHeld = {}
  \/ how = "stamps" /\ \E a, b \in AllHeld : ~SameKey(a, b) /\ a.rec.stamp = b.rec.stamp
  \/ how = "overlap" /\ \E a, b \in AllHeld : Neighbours(a, b) /\ Overlap(a, b)

Refusals == {"malformed", "grid", "limit", "conflict", "empty", "stamps", "overlap"}

\* A selection is refused only for what its files hold, whatever their order.
RefusedForTheSet == result.end \in Refusals => Reason(result.end)

\* A selection that could be refused has no catalog in any order, but for the
\* limit: the duplicates of a file count while it is read and not after
\* (offline_h5.py:86), so that one order is refused where another gives a catalog.
AcceptedForTheSet ==
  result.end = "catalog" =>
    Len(result.axis) <= MAX_RECORDS /\ \A how \in Refusals \ {"limit"} : ~Reason(how)

\* What is drawn as one stretch is samples that follow each other, of one
\* session and one calibration, less the hop two integrations share.
StretchesAreWhole ==
  \A i, j \in 1..Len(result.axis) :
    i <= j /\ (\A k \in (i + 1)..j : ~result.breaks[k]) =>
      LET a == result.axis[i]
          b == result.axis[j]
          between == FoldLeft(LAMBDA sum, k : sum + (k.rec.end - k.rec.start), 0,
                              SubSeq(result.axis, i, j))
      IN  Signature(a) = Signature(b) /\ b.rec.end - a.rec.start = between - (j - i) * Hop

\* A catalog is of the set of the chosen files, whatever their order, and so is
\* what they are refused for; whether they are refused may depend on the order
\* only when their records are more than MAX_RECORDS with the duplicates counted
\* and not more without.  A stretch without a break is samples that follow each
\* other.  (Catalog.__init__)
CatalogIsOfTheSet ==
  CatalogIsWhole /\ RefusedForTheSet /\ AcceptedForTheSet /\ StretchesAreWhole

=============================================================================
