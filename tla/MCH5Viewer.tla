----------------------------- MODULE MCH5Viewer -----------------------------
(***************************************************************************)
(* Saved observations in the viewer: the rolling median of a range         *)
(* (RollingTiles), the reader of it (ArchiveLoad), the requests of the     *)
(* display and a measurement on it (H5Source), the catalog of the          *)
(* chosen files (CatalogScan) and the directory of results that viewers    *)
(* share (DisplayCache).  A behaviour is one part's, and the others stay   *)
(* as they begin.                                                          *)
(***************************************************************************)
EXTENDS CatalogScan, RollingTiles, DisplayCache, TLC

VARIABLES
  part,
  h, acts, drift, measured    \* H5Source

medians == <<value, config, work>>
display == <<h, acts, drift, measured>>
catalog == <<chosen, at, found, result>>

Archive == INSTANCE ArchiveLoad WITH CacheLimit <- 3, Groups <- {2}, MaxMeshes <- 3, Valid <- {TRUE}
Short == INSTANCE ArchiveLoad WITH Count <- 3, CacheLimit <- 2, Groups <- {2}, MaxMeshes <- 2

Display == INSTANCE H5Source WITH
  Records <- {1, 2}, Catalogs <- {1, 2}, Ranges <- {{}, {1, 2}, {1}}, Windows <- {{}, {1, 2}, {1}},
  Freqs <- {1, 2}, Quantities <- {1}, Configs <- {"off", "a"}, Block <- 1, Rows <- 1, MaxViews <- 1,
  MaxActs <- 5, Breaks <- {}

Drift == INSTANCE H5Source WITH
  Records <- {1, 2, 3}, Catalogs <- {1, 2}, Ranges <- {{1, 2, 3}, {2, 3}},
  Windows <- {{1, 2, 3}, {3}}, Freqs <- {1}, Quantities <- {1}, Configs <- {"off", "a"},
  Block <- 1, Rows <- 3, MaxViews <- 1, MaxActs <- 5, Breaks <- {1, 3}

-----------------------------------------------------------------------------
(* Ten files: of one session, with duplicates, a conflict, gaps and an     *)
(* overlap; of another; of other grids and layouts.                        *)

Rec(start, offset, data) ==
  [start |-> start, end |-> start + 4, from |-> start + offset, to |-> start + 4 + offset,
   stamp |-> start + 2 + offset, flagged |-> FALSE, data |-> data]

Of(session, rows) ==
  [session |-> session, signature |-> session, grid |-> 1, malformed |-> FALSE, records |-> rows]

TenFiles ==
  [a |-> Of(1, <<Rec(0, 0, 1), Rec(3, 0, 1)>>),
   b |-> Of(1, <<Rec(3, 0, 1), [Rec(6, 0, 1) EXCEPT !.flagged = TRUE]>>),
   conflicting |-> Of(1, <<Rec(3, 0, 2)>>),
   later |-> Of(1, <<Rec(9, 0, 1), Rec(20, 0, 1)>>),
   skipped |-> Of(1, <<Rec(8, -2, 1)>>),
   between |-> Of(1, <<Rec(1, 0, 1)>>),
   restart |-> Of(2, <<Rec(0, 40, 1)>>),
   across |-> Of(2, <<Rec(0, 0, 1)>>),
   other |-> [Of(1, <<Rec(30, 0, 1)>>) EXCEPT !.grid = 2],
   broken |-> [Of(1, <<>>) EXCEPT !.malformed = TRUE]]

ASSUME /\ Archive!ArchiveAssumption /\ Short!ArchiveAssumption /\ Display!H5Assumption /\ Drift!H5Assumption
       /\ CatalogAssumption /\ CacheAssumption

TwoWindows == {[window |-> 3, centered |-> FALSE, min |-> 1],
               [window |-> 6, centered |-> TRUE, min |-> 2]}

Alike == Permutations(Viewers)

-----------------------------------------------------------------------------
\* The first catalog and the first selection stand for a part that is not run.
OneRecord == [entry |-> 1, row |-> 0, start |-> 0, end |-> 4, brk |-> TRUE, ok |-> TRUE]
NoMedians == /\ value = [k \in 1 .. Count |-> Min(Numbers)] /\ config \in {c \in Windows : c.window = 3}
             /\ work = NoWork
NoTiles ==
  /\ records = [k \in 1 .. Count |-> OneRecord] /\ blocks = <<>> /\ load = Idle
  /\ NoMedians

H5Init ==
  /\ \/ part = "tiles" /\ TilesInit
     \/ part = "archive" /\ Archive!Init /\ NoMedians
     \/ part = "short" /\ Short!Init /\ NoMedians
     \/ part \in {"display", "drift", "scan", "results"} /\ NoTiles
  /\ Display!Init /\ CacheInit
  /\ IF part = "scan" THEN ScanInit
     ELSE chosen = <<"a">> /\ at = 0 /\ found = {} /\ result = Running

H5Next ==
  \/ part = "tiles" /\ TilesNext /\ UNCHANGED <<part, display, catalog, cacheVars>>
  \/ part = "archive" /\ Archive!Next /\ UNCHANGED <<part, medians, display, catalog, cacheVars>>
  \/ part = "short" /\ Short!Next /\ UNCHANGED <<part, medians, display, catalog, cacheVars>>
  \/ part = "display" /\ Display!Asked /\ UNCHANGED <<part, tileVars, catalog, cacheVars>>
  \/ part = "drift" /\ Drift!Next /\ UNCHANGED <<part, tileVars, catalog, cacheVars>>
  \/ part = "scan" /\ ScanNext /\ UNCHANGED <<part, tileVars, display, cacheVars>>
  \/ part = "results" /\ CacheNext /\ UNCHANGED <<part, tileVars, display, catalog>>

H5Spec == H5Init /\ [][H5Next]_<<part, tileVars, display, catalog, cacheVars>>

-----------------------------------------------------------------------------
\* A tile holds every valid record that is drawn in it, once, whatever files,
\* blocks and runs it was read in; what is selected and traced is of the same
\* records, and the cache of blocks stays bounded (offline_h5.py _load(),
\* read_block(), select_traces()).
RangeIsWhole ==
  /\ part = "archive" => /\ Archive!TilesAreGroups /\ Archive!TracesInPlace /\ Archive!SelectionAgrees
                         /\ Archive!RecordsAreFound /\ Archive!CacheIsBounded
  /\ part = "short" => /\ Short!TilesAreGroups /\ Short!TracesInPlace /\ Short!SelectionAgrees
                       /\ Short!RecordsAreFound /\ Short!CacheIsBounded

\* However the sorted window came to where it is, a median is the one of its
\* window, its buffer is wide enough, and every tile is the mean of the
\* residuals drawn in it (rolling_median.py _h5_residuals(),
\* rolling_background.py _kernel()).
MediansAreTrue ==
  part = "tiles" => WorkOK /\ MediansAreExact /\ BufferFits /\ TilesAreMeans

\* When the source is quiet, what is on the display is what was asked for last:
\* views and cached views are of the data that is loaded, the view is of what is
\* visible, the spectrum is of the chosen record and the settings are those of
\* now, unless the request was given up, refused, not read, or passed over by a
\* posted call (Post: viewer_h5.py:179-183 and the guard of load()).  What was
\* cancelled is dropped.  A drift is measured within one segment, but for cells
\* of displays that begin in different ones (MeasuredInPlace).  (viewer_h5.py
\* H5Source)
ShownIsChosen ==
  /\ [](/\ part = "display" => /\ Display!ViewsAreOfTheData /\ Display!ViewIsVisible
                               /\ Display!SpectrumIsChosen /\ Display!SettingsAreApplied
        /\ part = "drift" => Drift!MeasuredInPlace)
  /\ [][part = "display" => Display!CancelledIsDropped]_<<part, tileVars, display, catalog, cacheVars>>
=============================================================================
