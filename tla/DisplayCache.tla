---------------------------- MODULE DisplayCache ----------------------------
(***************************************************************************)
(* The directory of cached display results that all H5 viewers of a user   *)
(* share (src/viewer/h5_cache.py), and the medians kept in it               *)
(* (background() of src/viewer/rolling_background.py).  Nothing locks it:  *)
(* each system call is a step, and any of them may fail.                   *)
(*                                                                         *)
(* A file is the key its content was computed for, whether all of it was   *)
(* written, and when it was last used.  Every file is of one size.         *)
(***************************************************************************)
EXTENDS Integers, FiniteSets, Sequences, SequencesExt

CONSTANTS Viewers,     \* the processes
          Keys,        \* fingerprints of what is displayed, and of medians
          Medians,     \* those of medians
          BUDGET,      \* files that may stay, 512 MB
          MaxClock,    \* bound on the writes and the reads
          MaxCrashes   \* bound on the viewers that are killed

CacheAssumption ==
  /\ Medians \subseteq Keys
  /\ {BUDGET, MaxClock, MaxCrashes} \subseteq Nat /\ IsFiniteSet(Viewers)

VARIABLES
  cache,     \* the *.npz files: key -> file
  job,       \* what each viewer is at
  orphaned,  \* *.tmp files of killed viewers: those of today, and older ones
  clock,
  crashes,
  excess,    \* history: files put in the cache since a pass that ended began
  since      \* history: the same, of each pass

cacheVars == <<cache, job, orphaned, clock, crashes, excess, since>>

NoFile == [key |-> "none", whole |-> FALSE, used |-> 0]
NoJob == [at |-> "idle", key |-> "none", tmp |-> NoFile, file |-> NoFile, list |-> <<>>, total |-> 0]

Cached == {k \in Keys : cache[k] # NoFile}

CacheInit ==
  /\ cache = [k \in Keys |-> NoFile]
  /\ job = [p \in Viewers |-> NoJob]
  /\ orphaned = [today |-> 0, older |-> 0]
  /\ clock = 0 /\ crashes = 0 /\ excess = 0
  /\ since = [p \in Viewers |-> 0]

Directory == <<cache, orphaned, clock, crashes, excess, since>>

-----------------------------------------------------------------------------
(* write(): a file of its own, put in place whole, then old files go.      *)

BeginWrite(p) ==
  \E k \in Keys :
    /\ job[p] = NoJob
    /\ job' = [job EXCEPT ![p] = [NoJob EXCEPT !.at = "saving", !.key = k, !.tmp.key = k]]
    /\ UNCHANGED Directory

Save(p) ==
  /\ job[p].at = "saving" /\ clock < MaxClock
  /\ clock' = clock + 1
  /\ job' = [job EXCEPT ![p].at = "saved", ![p].tmp.whole = TRUE, ![p].tmp.used = clock + 1]
  /\ UNCHANGED <<cache, orphaned, crashes, excess, since>>

\* The end of write() on every path: its file does not stay (finally).
End(p) == job' = [job EXCEPT ![p] = NoJob]

\* The result was computed for a display that is not wanted any more.
CancelWrite(p) ==
  /\ job[p].at = "saved" /\ job[p].key \notin Medians
  /\ End(p)
  /\ UNCHANGED Directory

Replace(p) ==
  /\ job[p].at = "saved"
  /\ cache' = [cache EXCEPT ![job[p].key] = job[p].tmp]
  /\ job' = [job EXCEPT ![p].at = "placed", ![p].tmp = NoFile]
  /\ excess' = excess + 1
  /\ since' = [q \in Viewers |-> IF job[q].at \in {"listed", "evicting"} THEN since[q] + 1 ELSE 0]
  /\ UNCHANGED <<orphaned, clock, crashes>>

ListFiles(p) ==
  /\ job[p].at = "placed"
  /\ \E l \in SetToSeqs(Cached) :
       /\ \A i, j \in 1..Len(l) : i < j => cache[l[i]].used <= cache[l[j]].used
       /\ job' = [job EXCEPT ![p].at = "listed", ![p].list = l]
  /\ since' = [since EXCEPT ![p] = 0]
  /\ UNCHANGED <<cache, orphaned, clock, crashes, excess>>

Gone(p) == ToSet(job[p].list) \ Cached # {}

Sum(p) ==
  /\ job[p].at = "listed"
  /\ IF Gone(p) THEN End(p)
     ELSE job' = [job EXCEPT ![p].at = "evicting", ![p].total = Len(job[p].list)]
  /\ UNCHANGED Directory

\* The oldest of the list goes; another viewer may have taken it away, which
\* ends the pass.
Evict(p) ==
  /\ job[p].at = "evicting" /\ job[p].list # <<>> /\ job[p].total > BUDGET
  /\ LET k == Head(job[p].list)
     IN  IF cache[k] = NoFile THEN End(p) /\ UNCHANGED cache
         ELSE /\ cache' = [cache EXCEPT ![k] = NoFile]
              /\ job' = [job EXCEPT ![p].list = Tail(@), ![p].total = @ - 1]
  /\ UNCHANGED <<orphaned, clock, crashes, excess, since>>

EndPass(p) ==
  /\ job[p].at = "evicting" /\ (job[p].list = <<>> \/ job[p].total <= BUDGET)
  /\ job' = [job EXCEPT ![p] = IF job[p].key \in Medians THEN NoJob
                               ELSE [job[p] EXCEPT !.at = "cleaning"]]
  /\ excess' = Min({excess, since[p]})
  /\ UNCHANGED <<cache, orphaned, clock, crashes, since>>

\* Files of killed viewers go when they are a day old; the stat of one that
\* a running viewer puts in place meanwhile ends the pass.
Clean(p) ==
  /\ job[p].at = "cleaning"
  /\ End(p)
  /\ \/ orphaned' = [orphaned EXCEPT !.older = 0]
     \/ (\E q \in Viewers \ {p} : job[q].tmp # NoFile) /\ UNCHANGED orphaned
  /\ UNCHANGED <<cache, clock, crashes, excess, since>>

\* A call of write() fails.
Fails(p) == job[p].at \in {"saving", "saved", "placed", "listed", "evicting", "cleaning"}
            /\ End(p) /\ UNCHANGED Directory

-----------------------------------------------------------------------------
(* read(), and the first part of background().                             *)

OpenFile(p) ==
  \E k \in Cached :
    /\ job[p] = NoJob
    /\ job' = [job EXCEPT ![p] = [NoJob EXCEPT !.at = "opened", !.key = k, !.file = cache[k]]]
    /\ UNCHANGED Directory

\* The sizes in it are read from the file that has the name now.
CheckSize(p) ==
  /\ job[p].at = "opened"
  /\ IF cache[job[p].key].whole THEN job' = [job EXCEPT ![p].at = "checked"] ELSE End(p)
  /\ UNCHANGED Directory

\* Mutant: the size that was checked vouches for the fields.
FieldsTrusted(p) ==
  /\ job[p].at = "checked"
  /\ job' = [job EXCEPT ![p].at = "loaded"]
  /\ UNCHANGED Directory

\* The fields of the file that was opened; one that is cut short has none.
\* Medians are opened anew after the check.
Fields(p) ==
  /\ job[p].at = "checked"
  /\ LET file == IF job[p].key \in Medians THEN cache[job[p].key] ELSE job[p].file
     IN  IF file.whole THEN job' = [job EXCEPT ![p].at = "loaded", ![p].file = file] ELSE End(p)
  /\ UNCHANGED Directory

\* A file that is used is made young; when it is gone its data is not used.
Use(p) ==
  /\ job[p].at = "loaded" /\ clock < MaxClock
  /\ IF cache[job[p].key] = NoFile THEN End(p) /\ UNCHANGED <<cache, clock>>
     ELSE /\ cache' = [cache EXCEPT ![job[p].key].used = clock + 1]
          /\ clock' = clock + 1
          /\ job' = [job EXCEPT ![p].at = "hit"]
  /\ UNCHANGED <<orphaned, crashes, excess, since>>

Show(p) == job[p].at = "hit" /\ End(p) /\ UNCHANGED Directory

-----------------------------------------------------------------------------
(* A viewer is killed, the host stops, a day goes by.                      *)

KillViewer(p) ==
  /\ crashes < MaxCrashes /\ job[p] # NoJob
  /\ crashes' = crashes + 1
  /\ End(p)
  /\ orphaned' = IF job[p].tmp = NoFile THEN orphaned ELSE [orphaned EXCEPT !.today = @ + 1]
  /\ UNCHANGED <<cache, clock, excess, since>>

\* What was written last had not reached the disk when the host stopped.
HostStops ==
  /\ crashes < MaxCrashes
  /\ crashes' = crashes + 1
  /\ \E k \in Cached : cache' = [cache EXCEPT ![k].whole = FALSE]
  /\ orphaned' = [orphaned EXCEPT !.today = @ + Cardinality({p \in Viewers : job[p].tmp # NoFile})]
  /\ job' = [p \in Viewers |-> NoJob]
  /\ UNCHANGED <<clock, excess, since>>

DayPasses ==
  /\ orphaned.today > 0
  /\ orphaned' = [today |-> 0, older |-> orphaned.today + orphaned.older]
  /\ UNCHANGED <<cache, job, clock, crashes, excess, since>>

Write(p) ==
  \/ BeginWrite(p) \/ Save(p) \/ CancelWrite(p) \/ Replace(p)
  \/ ListFiles(p) \/ Sum(p) \/ Evict(p) \/ EndPass(p) \/ Clean(p) \/ Fails(p)

Read(p) == OpenFile(p) \/ CheckSize(p) \/ Fields(p) \/ Use(p) \/ Show(p)

CacheNext == (\E p \in Viewers : Write(p) \/ Read(p) \/ KillViewer(p)) \/ HostStops \/ DayPasses

CacheSpec == CacheInit /\ [][CacheNext]_cacheVars

-----------------------------------------------------------------------------
(* Properties.                                                             *)

\* What a viewer shows from the cache was computed for what it wants to show,
\* and all of it ("complete H5 display results ... independent complete files").
HitsAreWhole ==
  \A p \in Viewers : job[p].at = "hit" => job[p].file.whole /\ job[p].file.key = job[p].key

\* A file the cache has is whole, unless the host stopped.
CacheIsWhole == crashes = 0 => \A k \in Cached : cache[k].whole

\* The files stay within the budget, but for those that were put in place
\* since the last pass that got to its end began.
WithinBudget == Cardinality(Cached) <= BUDGET + excess

\* The only files that stay behind are those of viewers that were killed.
OrphansAreOfTheKilled == orphaned.today + orphaned.older <= crashes * Cardinality(Viewers)

\* What a viewer takes from the shared directory was made for what it wants to
\* show, and whole; the directory stays within its budget and only the killed
\* leave files behind (h5_cache.py write(), read()).
ResultsAreWhole == HitsAreWhole /\ CacheIsWhole /\ WithinBudget /\ OrphansAreOfTheKilled
=============================================================================
