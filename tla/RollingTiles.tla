---------------------------- MODULE RollingTiles ----------------------------
(***************************************************************************)
(* The rolling median of saved observations: _h5_residuals() and LogMean   *)
(* of src/viewer/rolling_median.py over the incremental medians of         *)
(* src/viewer/rolling_background.py.  A view is a range of the loaded      *)
(* records; medians are made in chunks of records, over windows that reach *)
(* out of the view and the chunk, and the residuals are averaged in the    *)
(* tiles of two waterfalls.                                                *)
(*                                                                         *)
(* One frequency bin with small numbers; medians and residuals are         *)
(* doubled to be integers.  A mean is the sequence of what is in it.       *)
(***************************************************************************)
EXTENDS ArchiveLoad, FiniteSetsExt

CONSTANTS Numbers,   \* values of a valid record
          Windows,   \* [window, centered, min]
          Chunk      \* OUTPUT_CHUNK

ASSUME TilesAssumption ==
  /\ Numbers \subseteq Int /\ Chunk \in Nat \ {0}
  /\ Windows \subseteq [window : Nat \ {0}, centered : BOOLEAN, min : Nat \ {0}]

VARIABLES
  value,    \* of each record
  config,   \* RollingConfig
  work      \* the locals of _h5_residuals()

tileVars == <<archiveVars, value, config, work>>

-----------------------------------------------------------------------------
(* window_bounds(): [lo, hi) of a record of the loaded range 1 .. Count.   *)

Segment(i) ==
  LET a == CHOOSE a \in SegmentStarts(1, Count) :
             a <= i /\ \A k \in a + 1 .. i : k \notin SegmentStarts(1, Count)
  IN  a .. SegmentEnd(1, Count, a)

Bounds(i) ==
  LET before == IF config.centered THEN config.window \div 2 ELSE config.window
      after == IF config.centered THEN config.window \div 2 ELSE 0
      w == {k \in Segment(i) : /\ Time(records[i]) - before <= Time(records[k])
                               /\ Time(records[k]) <= Time(records[i]) + after}
  IN  [lo |-> Min(w), hi |-> Max(w) + 1]

-----------------------------------------------------------------------------
(* _kernel(): one sorted window slides over the records.                   *)

Finite(k) == records[k].ok

\* Binary search: where a value is, or goes.
Position(ordered, v) == 1 + Cardinality({i \in DOMAIN ordered : ordered[i] < v})

Deleted(ordered, k) ==
  IF Finite(k) THEN RemoveAt(ordered, Position(ordered, value[k])) ELSE ordered
Inserted(ordered, k) ==
  IF Finite(k) THEN InsertAt(ordered, Position(ordered, value[k]), value[k]) ELSE ordered

Upto(a, b) == [i \in 1 .. (IF b > a THEN b - a ELSE 0) |-> a + i - 1]

\* Mutant: a jump to another segment leaves the rest of the window.
SlideWithoutJump(s, w) ==
  LET left == IF w.lo >= s.hi THEN s.ordered ELSE FoldLeft(Deleted, s.ordered, Upto(s.lo, w.lo))
      ordered == FoldLeft(Inserted, left, Upto(Max({s.hi, w.lo}), w.hi))
  IN  [lo |-> w.lo, hi |-> w.hi, ordered |-> ordered, most |-> Max({s.most, Len(ordered)})]

\* The window moves to w: what leaves, then what enters.
Slide(s, w) ==
  LET left == FoldLeft(Deleted, s.ordered, Upto(s.lo, Min({w.lo, s.hi})))
      ordered == FoldLeft(Inserted, left, Upto(Max({s.hi, w.lo}), w.hi))
  IN  [lo |-> w.lo, hi |-> w.hi, ordered |-> ordered, most |-> Max({s.most, Len(ordered)})]

\* Twice the median; 0 of nothing, where the count tells.
Middle(ordered) ==
  LET n == Len(ordered) IN
  IF n = 0 THEN 0
  ELSE IF n % 2 = 1 THEN 2 * ordered[n \div 2 + 1] ELSE ordered[n \div 2] + ordered[n \div 2 + 1]

\* background(), of the records first .. stop - 1.
Background(first, stop) ==
  LET w == Bounds(first)
      begin == [lo |-> w.lo, hi |-> w.hi, most |-> 0,
                ordered |-> FoldLeft(Inserted, <<>>, Upto(w.lo, w.hi))]
      step(acc, i) == LET s == Slide(acc.s, Bounds(i))
                      IN  [s |-> s, out |-> Append(acc.out, [median |-> Middle(s.ordered),
                                                             count |-> Len(s.ordered)])]
      all == FoldLeft(step, [s |-> begin, out |-> <<>>], Upto(first, stop))
  IN  [out |-> all.out, most |-> all.s.most]

\* The columns of the buffer that ordered is in.
Width(first, stop) == Max({Bounds(i).hi - Bounds(i).lo : i \in first .. stop - 1})

-----------------------------------------------------------------------------
(* _h5_residuals().                                                        *)

None == <<0, 0>>
NoWork == [state |-> "idle", lo |-> 1, hi |-> 1, j |-> 1, first |-> 0, medians |-> <<>>, most |-> 0,
           segment |-> 1, groups |-> <<1, 1>>, current |-> <<None, None>>,
           acc |-> <<<<>>, <<>>>>, out |-> <<{}, {}>>]

Meshes(w, which) == MeshesOf(w.lo, w.hi, w.groups[which])

\* One file: which file a record is in does not matter here.
RECURSIVE OneFile(_)
OneFile(n) ==
  IF n = 1
  THEN {<<[entry |-> 1, row |-> 0, start |-> 0, end |-> 4, brk |-> TRUE, ok |-> ok]>> : ok \in Valid}
  ELSE UNION {{Append(c, After(Last(c), <<1, n - 1>>, brk, ok)) : brk \in BOOLEAN, ok \in Valid} :
                c \in OneFile(n - 1)}

TilesInit ==
  /\ records \in OneFile(Count) /\ blocks = <<>> /\ load = Idle
  /\ \E f \in [1 .. Count -> Numbers] :
       value = [k \in 1 .. Count |-> IF records[k].ok THEN f[k] ELSE Min(Numbers)]
  /\ config \in Windows
  /\ work = NoWork

Start(lo, hi, fast, deep) ==
  /\ work.state = "idle"
  /\ work' = [NoWork EXCEPT !.state = "running", !.lo = lo, !.hi = hi, !.j = lo, !.groups = <<fast, deep>>]
  /\ UNCHANGED <<archiveVars, value, config>>

\* flush(): the tile that was filled is put out.
Flushed(w, which) ==
  IF w.current[which] = None THEN w.out[which]
  ELSE w.out[which] \cup {[at |-> w.current[which], of |-> w.acc[which]]}

\* A residual that is added to the tile of its time.
Accumulated(w, which, segment, residual) ==
  LET edges == Meshes(w, which)[segment].edges
      at == <<segment, Cardinality({n \in DOMAIN edges : edges[n] <= Time(records[w.j])})>>
      fresh == at # w.current[which]
  IN  [at |-> at, out |-> IF fresh THEN Flushed(w, which) ELSE w.out[which],
       acc |-> (IF fresh THEN <<>> ELSE w.acc[which]) \o residual,
       found |-> at[2] \in 1 .. Len(edges) - 1]

\* The chunk of the record that is at hand, made when it is another one.
ChunkOf(j) == ((j - 1) \div Chunk) * Chunk + 1
ChunkEnd(first) == Min({first + Chunk, Count + 1})

Residual(m, j) ==
  IF m.count >= config.min /\ Finite(j) THEN <<2 * value[j] - m.median>> ELSE <<>>

SegmentOf(w) == IF w.j # w.lo /\ records[w.j].brk THEN w.segment + 1 ELSE w.segment

Step ==
  LET first == ChunkOf(work.j)
      made == IF first # work.first THEN Background(first, ChunkEnd(first))
              ELSE [out |-> work.medians, most |-> work.most]
      segment == SegmentOf(work)
      residual == Residual(made.out[work.j - first + 1], work.j)
      to == [which \in 1 .. 2 |-> Accumulated(work, which, segment, residual)]
  IN  /\ work.state = "running" /\ work.j <= work.hi
      /\ work' = [work EXCEPT !.first = first, !.medians = made.out, !.most = made.most,
                              !.segment = segment, !.j = @ + 1,
                              !.state = IF \A which \in 1 .. 2 : to[which].found THEN @ ELSE "failed",
                              !.current = [which \in 1 .. 2 |-> to[which].at],
                              !.acc = [which \in 1 .. 2 |-> to[which].acc],
                              !.out = [which \in 1 .. 2 |-> to[which].out]]
      /\ UNCHANGED <<archiveVars, value, config>>

Conclude ==
  /\ work.state = "running" /\ work.j > work.hi
  /\ work' = [work EXCEPT !.state = "done", !.out = [which \in 1 .. 2 |-> Flushed(work, which)]]
  /\ UNCHANGED <<archiveVars, value, config>>

TilesNext ==
  \/ \E lo \in 1 .. Count : \E hi \in lo .. Count, fast, deep \in Groups :
       fast <= deep /\ Start(lo, hi, fast, deep)
  \/ Step \/ Conclude

-----------------------------------------------------------------------------
(* Properties.                                                             *)

\* Every record is in the support of a tile, and no tile is put out twice.
WorkOK ==
  /\ work.state # "failed"
  /\ \A which \in 1 .. 2 : \A x, y \in work.out[which] : x.at = y.at => x = y

\* The medians of a chunk are those of the windows, however the window came
\* to where it is: over records that enter and leave, equal values, records
\* without a value and breaks.
MedianOf(w) ==
  LET valid == {k \in w : Finite(k)}
      order == SetToSortSeq(valid, LAMBDA a, b : value[a] < value[b] \/ (value[a] = value[b] /\ a < b))
  IN  [median |-> Middle([i \in DOMAIN order |-> value[order[i]]]), count |-> Cardinality(valid)]

MediansAreExact ==
  \A n \in DOMAIN work.medians :
    LET b == Bounds(work.first + n - 1)
    IN  work.medians[n] = MedianOf(b.lo .. b.hi - 1)

\* The sorted window never outgrows the buffer it is in, of the widest window
\* of the chunk: the compiled loop does not look.
BufferFits ==
  work.medians # <<>> => work.most <= Width(work.first, ChunkEnd(work.first))

\* A tile of either waterfall is the mean of the residuals of the valid
\* records it was drawn for, each against the window around it in all that
\* was loaded, and there is one for every tile.
TilesAreMeans ==
  work.state = "done" =>
    \A which \in 1 .. 2 :
      work.out[which] =
        UNION {{[at |-> <<m, n>>,
                 of |-> FlattenSeq([k \in 1 .. Cardinality(Meshes(work, which)[m].sums[n]) |->
                          LET r == SetToSortSeq(Meshes(work, which)[m].sums[n], <)[k]
                              b == Bounds(r)
                          IN  Residual(MedianOf(b.lo .. b.hi - 1), r)])] :
                  n \in DOMAIN Meshes(work, which)[m].sums} : m \in DOMAIN Meshes(work, which)}
=============================================================================
