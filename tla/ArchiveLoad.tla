---------------------------- MODULE ArchiveLoad ----------------------------
(***************************************************************************)
(* The reader of saved observations (src/viewer/offline_h5.py): a time     *)
(* range of the catalog is read in runs of consecutive rows of a file that *)
(* lie in one block, through a bounded cache of blocks, and its records    *)
(* are added up in tiles of the waterfall, in segments without a break.    *)
(*                                                                         *)
(* A record is where it is stored, when it was taken, whether a break      *)
(* comes before it and whether its spectra are valid.  A sum is the set of *)
(* the records in it.  Two records that follow each other overlap by one   *)
(* unit of time, as Welch integrations share a hop.                        *)
(***************************************************************************)
EXTENDS Integers, Sequences, FiniteSets, SequencesExt

CONSTANTS Count,        \* records of the catalog
          Block,        \* rows of a block, 128
          CacheLimit,   \* rows of all cached blocks, 64 MiB
          Groups,       \* display groups
          Valid,        \* whether a record may be invalid
          MaxMeshes     \* 200

ASSUME ArchiveAssumption ==
  /\ {Count, Block, CacheLimit, MaxMeshes} \subseteq Nat \ {0}
  /\ Groups \subseteq Nat \ {0} /\ Valid \subseteq BOOLEAN

VARIABLES
  records,   \* Catalog.records, with what the entries hold of them
  blocks,    \* Catalog._blocks, the least recently used first
  load       \* the locals of _load()

archiveVars == <<records, blocks, load>>

\* The next record: after the last of its file, the first or second of a new
\* file, or of a file that was left because another one had its records.
Places(c) ==
  LET n == Len(c)
      entries == {c[i].entry : i \in 1 .. n}
      latest(e) == CHOOSE i \in 1 .. n : c[i].entry = e /\ \A k \in i + 1 .. n : c[k].entry # e
  IN  {<<e, c[latest(e)].row + n - latest(e) + 1>> : e \in entries}
      \cup {<<Cardinality(entries) + 1, row>> : row \in 0 .. 1}

\* A segment may go on in the next file.
After(r, place, brk, ok) ==
  [entry |-> place[1], row |-> place[2],
   start |-> IF brk THEN r.end + 2 ELSE r.end - 1,
   end |-> IF brk THEN r.end + 6 ELSE r.end + 3, brk |-> brk, ok |-> ok]

RECURSIVE CatalogsOf(_)
CatalogsOf(n) ==
  IF n = 1
  THEN {<<[entry |-> 1, row |-> 0, start |-> 0, end |-> 4, brk |-> TRUE, ok |-> ok]>> : ok \in Valid}
  ELSE UNION {{Append(c, After(Last(c), place, brk, ok)) :
                 place \in Places(c), brk \in BOOLEAN, ok \in Valid} : c \in CatalogsOf(n - 1)}

Time(r) == r.start + (r.end - r.start) \div 2
RowsOf(entry) == {records[i].row : i \in {k \in 1 .. Count : records[k].entry = entry}}

\* The stored rows of a block: fewer at the end of a file.
BlockSize(key) ==
  LET last == CHOOSE row \in RowsOf(key.entry) : \A other \in RowsOf(key.entry) : other <= row
  IN  IF last - key.first + 1 < Block THEN last - key.first + 1 ELSE Block

RECURSIVE Bytes(_)
Bytes(keys) == IF keys = <<>> THEN 0 ELSE BlockSize(Head(keys)) + Bytes(Tail(keys))

RECURSIVE Evicted(_, _)
Evicted(cache, size) ==
  IF cache # <<>> /\ Bytes(cache) + size > CacheLimit THEN Evicted(Tail(cache), size) ELSE cache

\* read_block().
Fetched(cache, key) ==
  IF Contains(cache, key) THEN Append(Remove(cache, key), key)
  ELSE LET rest == Evicted(cache, BlockSize(key))
       IN  IF BlockSize(key) <= CacheLimit THEN Append(rest, key) ELSE rest

-----------------------------------------------------------------------------
(* Tiles.  t is [first, last, of, n], a tile that is not finished.         *)

NoTile == [first |-> 0, last |-> 0, of |-> {}, n |-> 0]

FinishTile(s) ==
  IF s.tile.n = 0 THEN s
  ELSE [s EXCEPT !.tiles = Append(@, [first |-> s.tile.first, last |-> s.tile.last, of |-> s.tile.of]),
                 !.tile = NoTile]

\* A mesh is its edges in time, and a sum for each tile.
FinishSegment(s) ==
  LET t == FinishTile(s) IN
  IF t.tiles = <<>> THEN t
  ELSE [t EXCEPT !.meshes = Append(@, [edges |-> [k \in 1 .. Len(t.tiles) + 1 |->
                                                    IF k <= Len(t.tiles) THEN t.tiles[k].first
                                                    ELSE Last(t.tiles).last],
                                       sums |-> [k \in DOMAIN t.tiles |-> t.tiles[k].of]]),
                 !.tiles = <<>>]

\* breaks: of the catalog, and before the first of the range.
BreakBefore(s, k) == k = s.lo \/ records[k].brk

\* Mutant: a tile reaches over a break.
TakeOverBreak(s, j, stop) ==
  IF stop - j < s.group - s.tile.n THEN stop - j ELSE s.group - s.tile.n

\* As many of the run as the tile may hold and as come before a break.
Take(s, j, stop) ==
  LET most == IF stop - j < s.group - s.tile.n THEN stop - j ELSE s.group - s.tile.n
      cut == {k \in j + 1 .. j + most - 1 : BreakBefore(s, k)}
  IN  IF cut = {} THEN most ELSE (CHOOSE k \in cut : \A other \in cut : k <= other) - j

Added(tile, j, take) ==
  [first |-> IF tile.n = 0 THEN records[j].start ELSE tile.first,
   last |-> records[j + take - 1].end,
   of |-> tile.of \cup {k \in j .. j + take - 1 : records[k].ok}, n |-> tile.n + take]

TooMany(s) == Len(s.meshes) >= MaxMeshes

\* The inner loop, over the records j .. stop - 1 of a run.
RECURSIVE AddRun(_, _, _)
AddRun(s, j, stop) ==
  IF j >= stop \/ s.state = "failed" THEN s
  ELSE LET begun == IF BreakBefore(s, j) THEN FinishSegment(s) ELSE s
           take == Take(begun, j, stop)
           added == [begun EXCEPT !.tile = Added(@, j, take)]
       IN  IF BreakBefore(s, j) /\ TooMany(begun)
           THEN [begun EXCEPT !.state = "failed"]
           ELSE AddRun(IF added.tile.n >= s.group THEN FinishTile(added) ELSE added, j + take, stop)

\* The end of the run that begins at pos: consecutive rows of one block.
RunEnd(s) ==
  CHOOSE stop \in s.pos + 1 .. s.hi + 1 :
    /\ \A k \in s.pos + 1 .. stop - 1 : /\ records[k].entry = records[s.pos].entry
                                        /\ records[k].row = records[s.pos].row + k - s.pos
    /\ \/ stop = s.hi + 1
       \/ stop = s.pos + Block - (records[s.pos].row % Block)
       \/ records[stop].entry # records[s.pos].entry
       \/ records[stop].row # records[s.pos].row + stop - s.pos

\* select_traces(): its runs are as long as a block, wherever they begin.
SelectEnd(lo, hi, pos) ==
  CHOOSE stop \in pos + 1 .. hi + 1 :
    /\ \A k \in pos + 1 .. stop - 1 : /\ records[k].entry = records[pos].entry
                                      /\ records[k].row = records[pos].row + k - pos
    /\ \/ stop = hi + 1 \/ stop = pos + Block
       \/ records[stop].entry # records[pos].entry \/ records[stop].row # records[pos].row + stop - pos

RECURSIVE Selected(_, _, _)
Selected(lo, hi, pos) ==
  IF pos > hi THEN <<>>
  ELSE LET r == records[pos]
           stop == SelectEnd(lo, hi, pos)
       IN  [k \in 1 .. stop - pos |->
              IF records[pos + k - 1].ok THEN <<r.entry, r.row + k - 1>> ELSE <<>>]
           \o Selected(lo, hi, stop)

-----------------------------------------------------------------------------
Idle == [state |-> "idle", lo |-> 1, hi |-> 0, pos |-> 1, group |-> 1, traces |-> <<>>,
         tile |-> NoTile, tiles |-> <<>>, meshes |-> <<>>]

Init == records \in CatalogsOf(Count) /\ blocks = <<>> /\ load = Idle

\* _load(), of the records whose time is in a range.
Begin(lo, hi, group) ==
  /\ load.state # "reading"
  /\ load' = [Idle EXCEPT !.state = "reading", !.lo = lo, !.hi = hi, !.pos = lo, !.group = group]
  /\ UNCHANGED <<records, blocks>>

\* One run: its rows are cut out of the block that holds them.
ReadRun ==
  LET stop == RunEnd(load)
      r == records[load.pos]
      key == [entry |-> r.entry, first |-> (r.row \div Block) * Block]
      rows == [k \in 1 .. stop - load.pos |->
                 IF records[load.pos + k - 1].ok THEN <<r.entry, key.first + (r.row - key.first) + k - 1>>
                 ELSE <<>>]
      next == [AddRun(load, load.pos, stop) EXCEPT !.pos = stop, !.traces = @ \o rows]
  IN  /\ load.state = "reading" /\ load.pos <= load.hi
      /\ blocks' = Fetched(blocks, key)
      /\ load' = next
      /\ UNCHANGED records

Finish ==
  /\ load.state = "reading" /\ load.pos > load.hi
  /\ load' = [FinishSegment(load) EXCEPT !.state = "done"]
  /\ UNCHANGED <<records, blocks>>

\* Asked to stop, or a file has changed: nothing is returned, and what was
\* cached of a file that changed is forgotten.
Cancel == /\ load.state = "reading" /\ load' = [load EXCEPT !.state = "failed"]
          /\ UNCHANGED <<records, blocks>>
Changed == /\ load.state = "reading" /\ load' = [load EXCEPT !.state = "failed"]
           /\ blocks' = <<>> /\ UNCHANGED records

Next ==
  \/ \E lo \in 1 .. Count : \E hi \in lo .. Count, group \in Groups : Begin(lo, hi, group)
  \/ ReadRun \/ Finish \/ Cancel \/ Changed

Spec == Init /\ [][Next]_archiveVars

-----------------------------------------------------------------------------
(* Properties.                                                             *)

TypeOK ==
  /\ load.state \in {"idle", "reading", "done", "failed"}
  /\ load.pos \in 1 .. Count + 1 /\ (load.tile.n < load.group \/ load.state = "failed")
  /\ Len(load.meshes) <= MaxMeshes

\* The tiles that the loaded range must have: of each segment, every group of
\* records from its begin on.  Files, blocks and runs do not show.
SegmentStarts(lo, hi) == {k \in lo .. hi : k = lo \/ records[k].brk}
SegmentEnd(lo, hi, a) ==
  CHOOSE b \in a .. hi : /\ \A k \in a + 1 .. b : ~records[k].brk
                         /\ (b = hi \/ records[b + 1].brk)
TilesOf(a, b, group) ==
  [n \in 1 .. (b - a) \div group + 1 |->
     (a + (n - 1) * group) .. (IF a + n * group - 1 < b THEN a + n * group - 1 ELSE b)]
MeshOf(a, b, group) ==
  LET tiles == TilesOf(a, b, group) IN
  [edges |-> [n \in 1 .. Len(tiles) + 1 |->
                IF n <= Len(tiles) THEN records[a + (n - 1) * group].start ELSE records[b].end],
   sums |-> [n \in DOMAIN tiles |-> {k \in tiles[n] : records[k].ok}]]
MeshesOf(lo, hi, group) ==
  LET starts == SetToSortSeq(SegmentStarts(lo, hi), <)
  IN  [n \in DOMAIN starts |-> MeshOf(starts[n], SegmentEnd(lo, hi, starts[n]), group)]

TilesAreGroups ==
  load.state = "done" => load.meshes = MeshesOf(load.lo, load.hi, load.group)

\* What is drawn of a record over time is read from its own place, and
\* nothing is drawn of one that is not valid.
TracesInPlace ==
  load.state \in {"reading", "done"} =>
    \A k \in DOMAIN load.traces :
      LET r == records[load.lo + k - 1]
      IN  load.traces[k] = IF r.ok THEN <<r.entry, r.row>> ELSE <<>>

\* Another frequency is selected without the waterfalls: what is drawn of it
\* is of the same records as before.
SelectionAgrees ==
  load.state = "done" => Selected(load.lo, load.hi, load.lo) = load.traces

\* A record's middle is in the support of the tile it was added to: there the
\* rolling median, the readout and the drift measurement look for it.
RecordsAreFound ==
  load.state = "done" =>
    \A m \in DOMAIN load.meshes : \A n \in DOMAIN load.meshes[m].sums :
      \A k \in load.meshes[m].sums[n] :
        /\ load.meshes[m].edges[n] <= Time(records[k])
        /\ Time(records[k]) < load.meshes[m].edges[n + 1]

\* The cache of blocks is bounded, and a block is in it once.
CacheIsBounded ==
  /\ Bytes(blocks) <= CacheLimit
  /\ \A i, j \in DOMAIN blocks : blocks[i] = blocks[j] => i = j
=============================================================================
