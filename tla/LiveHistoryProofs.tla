-------------------------- MODULE LiveHistoryProofs --------------------------
(***************************************************************************)
(* The history of the live viewer and its display (LiveHistory), for any   *)
(* lengths of the rows, the groups and what is displayed.                  *)
(*                                                                         *)
(* HistoryInv: the rows are numbered without a gap up to the frame that    *)
(* was sent last, the trace is their end, the groups follow one another    *)
(* and are whole, and the display is a state that the history had. Every   *)
(* push extends the rows by holes and a row (Extends), from which follows  *)
(* where a frame that stays is displayed (Steady).                         *)
(***************************************************************************)
EXTENDS LiveHistory, SequenceTheorems, WellFoundedInduction, TLAPS

-----------------------------------------------------------------------------
(* The history of the live viewer.                                         *)

FrameRec == [s : Nat, id : Nat, t : Nat]
IsFrame(f) == f \in FrameRec /\ f.s > 0 /\ f.id > 0 /\ f.t > 0

\* The rows are numbered up to the last of them, top, without a gap, and in time.
Numbered(rows, top) ==
  /\ rows \in Seq(FrameRec) /\ Len(rows) <= Capacity
  /\ IF rows = <<>> THEN top = Gap ELSE IsFrame(top) /\ rows[Len(rows)] = top
  /\ \A i \in 1 .. Len(rows) : rows[i] # Gap =>
       IsFrame(rows[i]) /\ rows[i].s = top.s /\ rows[i].id = top.id - (Len(rows) - i)
  /\ \A i, j \in 1 .. Len(rows) : i < j /\ rows[i] # Gap /\ rows[j] # Gap => rows[i].t < rows[j].t
  /\ \A i \in 1 .. Len(rows) - 1 :
       rows[i] # Gap /\ rows[i + 1] # Gap => rows[i + 1].t - rows[i].t \in {2, 5}

SampleRec == [frame : FrameRec, bin : Bins]

\* The trace is the end of the rows, of this bin.
Sampled(trace, rows, b) ==
  /\ trace \in Seq(SampleRec) /\ Len(trace) <= Len(rows)
  /\ \A i \in 1 .. Len(trace) :
       trace[i].frame = rows[Len(rows) - Len(trace) + i] /\ trace[i].bin = b

ModelOk(m, at) ==
  /\ m \in [session : Nat, last : Nat, rows : Seq(FrameRec), trace : Seq(SampleRec), bin : Bins]
  /\ m.session = at.s /\ m.last = at.id
  /\ Numbered(m.rows, at) /\ Sampled(m.trace, m.rows, m.bin)

-----------------------------------------------------------------------------
LEMMA GapIs == Gap \in FrameRec /\ Gap.s = 0 /\ Gap.id = 0 /\ Gap.t = 0 /\ ~IsFrame(Gap)
BY DEF Gap, FrameRec, IsFrame

\* The end of a sequence.
IsEnd(r, q, n, T) ==
  /\ r \in Seq(T) /\ Len(r) = IF Len(q) <= n THEN Len(q) ELSE n
  /\ \A i \in 1 .. Len(r) : r[i] = q[Len(q) - Len(r) + i]

LEMMA KeepIs ==
  ASSUME NEW T, NEW q \in Seq(T), NEW n \in Nat \ {0}
  PROVE  IsEnd(Keep(q, n), q, n, T)
<1>1. Len(q) \in Nat
  OBVIOUS
<1> DEFINE r == Keep(q, n)
           m == IF Len(q) <= n THEN 1 ELSE Len(q) - n + 1
<1>2. m \in Int /\ m >= 1 /\ Greater(1, Len(q) - n + 1) = m
  BY <1>1 DEF Greater
<1>3. r = SubSeq(q, m, Len(q))
  BY <1>2 DEF Keep
<1>4. \A i \in m .. Len(q) : q[i] \in T
  BY <1>1, <1>2
<1> HIDE DEF r, m
<1>5. /\ r \in Seq(T)
      /\ Len(r) = IF m <= Len(q) THEN Len(q) - m + 1 ELSE 0
      /\ \A i \in 1 .. Len(q) - m + 1 : r[i] = q[m + i - 1]
  BY <1>1, <1>2, <1>3, <1>4, SubSeqProperties
<1>6. m <= Len(q) + 1 /\ Len(q) - m + 1 = IF Len(q) <= n THEN Len(q) ELSE n
  BY <1>1 DEF m
<1>8. Len(r) = Len(q) - m + 1
  BY <1>1, <1>2, <1>5, <1>6
<1>7. ASSUME NEW i \in 1 .. Len(r) PROVE r[i] = q[Len(q) - Len(r) + i]
  <2>1. i \in 1 .. Len(q) - m + 1 /\ m + i - 1 = Len(q) - Len(r) + i
    BY <1>1, <1>2, <1>8
  <2> QED
    BY <2>1, <1>5
<1> QED
  BY <1>5, <1>6, <1>7, <1>8 DEF r, IsEnd

\* r: the sequence q without its first d, h times g and x.
Extends(r, q, d, h, g, x) ==
  /\ d \in Nat /\ Len(r) + d = Len(q) + h + 1
  /\ Len(r) > 0 /\ Len(r) <= Capacity /\ (d = 0 \/ Len(r) = Capacity)
  /\ \A i \in 1 .. Len(r) :
       /\ i + d <= Len(q) => r[i] = q[i + d]
       /\ i + d > Len(q) /\ i < Len(r) => r[i] = g
  /\ r[Len(r)] = x

LEMMA Extended ==
  ASSUME HistoryAssumption, NEW T, NEW q \in Seq(T), NEW h \in Nat, NEW g \in T, NEW x \in T
  PROVE  LET r == Keep(q \o Append([k \in 1 .. h |-> g], x), Capacity)
         IN  r \in Seq(T) /\ \E d \in Nat : Extends(r, q, d, h, g, x)
<1> DEFINE holes == [k \in 1 .. h |-> g]
           full == q \o Append(holes, x)
           r == Keep(full, Capacity)
<1>1. holes \in Seq(T) /\ Len(holes) = h /\ \A k \in 1 .. h : holes[k] = g
  OBVIOUS
<1> HIDE DEF holes
<1>2. /\ Append(holes, x) \in Seq(T) /\ Len(Append(holes, x)) = h + 1
      /\ \A k \in 1 .. h : Append(holes, x)[k] = g
      /\ Append(holes, x)[h + 1] = x
  BY <1>1
<1>3. /\ full \in Seq(T) /\ Len(full) = Len(q) + h + 1 /\ Len(q) \in Nat
      /\ \A k \in 1 .. Len(full) :
           full[k] = IF k <= Len(q) THEN q[k] ELSE IF k < Len(q) + h + 1 THEN g ELSE x
  BY <1>2
<1> HIDE DEF full
<1>4. Capacity \in Nat \ {0}
  BY DEF HistoryAssumption
<1>5. /\ r \in Seq(T) /\ Len(r) = IF Len(full) <= Capacity THEN Len(full) ELSE Capacity
      /\ \A i \in 1 .. Len(r) : r[i] = full[Len(full) - Len(r) + i]
  <2>1. IsEnd(r, full, Capacity, T)
    BY <1>3, <1>4, KeepIs
  <2> HIDE DEF r
  <2> QED
    BY <2>1 DEF IsEnd
<1> HIDE DEF r
<1> DEFINE d == Len(full) - Len(r)
<1>6. Extends(r, q, d, h, g, x)
  <2>1. /\ d \in Nat /\ Len(r) \in Nat /\ Len(r) + d = Len(q) + h + 1 /\ Len(r) > 0
        /\ Len(r) <= Capacity /\ (d = 0 \/ Len(r) = Capacity) /\ Len(full) = Len(r) + d
    BY <1>3, <1>4, <1>5
  <2>2. \A i \in 1 .. Len(r) : r[i] = full[i + d]
    <3> SUFFICES ASSUME NEW i \in 1 .. Len(r) PROVE r[i] = full[i + d]
      OBVIOUS
    <3>1. i + d = Len(full) - Len(r) + i
      BY <2>1, <1>3
    <3> QED
      BY <3>1, <1>5
  <2> HIDE DEF d
  <2>3. ASSUME NEW i \in 1 .. Len(r)
        PROVE  /\ i + d <= Len(q) => r[i] = q[i + d]
               /\ i + d > Len(q) /\ i < Len(r) => r[i] = g
               /\ i = Len(r) => r[i] = x
    <3>1. i + d \in 1 .. Len(full) /\ r[i] = full[i + d]
      BY <2>1, <2>2
    <3> QED
      BY <3>1, <2>1, <1>3
  <2> QED
    BY <2>1, <2>3 DEF Extends
<1> QED
  <2>1. d \in Nat
    BY <1>6 DEF Extends
  <2> QED
    BY <1>5, <1>6, <2>1 DEF r, full, holes

-----------------------------------------------------------------------------
\* A frame that may come after one that came.
Coming(at, f) ==
  /\ IsFrame(f) /\ f.t > at.t
  /\ \/ /\ f.s = at.s /\ f.id > at.id /\ IsFrame(at)
        /\ f.id = at.id + 1 => f.t - at.t \in {2, 5}
     \/ f.s > at.s

LEMMA AfterIs ==
  ASSUME HistoryAssumption, NEW at, at = Gap \/ IsFrame(at), NEW f \in After(at)
  PROVE  Coming(at, f)
<1>1. at.s \in Nat /\ at.id \in Nat /\ at.t \in Nat /\ (at.s # 0 => IsFrame(at))
  BY GapIs DEF IsFrame, FrameRec
<1>2. CASE f = [s |-> at.s + 1, id |-> 1, t |-> at.t + 2]
  BY <1>1, <1>2 DEF Coming, IsFrame, FrameRec
<1>3. ASSUME NEW n \in 1 .. Capacity + 1, NEW late \in Lates, at.s # 0,
             f = [s |-> at.s, id |-> at.id + n, t |-> at.t + 2 * n + late]
      PROVE  Coming(at, f)
  <2>1. late \in {0, 3} /\ n \in Nat \ {0}
    BY <1>3 DEF HistoryAssumption
  <2>2. f.s = at.s /\ f.id = at.id + n /\ f.t = at.t + 2 * n + late
    BY <1>3
  <2>3. IsFrame(f) /\ f.t > at.t /\ f.id > at.id
    BY <2>1, <2>2, <1>1, <1>3 DEF IsFrame, FrameRec
  <2>4. f.id = at.id + 1 => f.t - at.t \in {2, 5}
    BY <2>1, <2>2, <1>1
  <2> QED
    BY <2>2, <2>3, <2>4, <1>1, <1>3 DEF Coming
<1> QED
  BY <1>2, <1>3 DEF After

LEMMA SamePlace ==
  ASSUME NEW a \in Int, NEW b \in Int, NEW i \in Int, NEW m \in Int, NEW n \in Int,
         NEW d \in Int, NEW h \in Int, h = b - a - 1, n + d = m + h + 1
  PROVE  a - (m - (i + d)) = b - (n - i)
OBVIOUS

LEMMA SameDistance ==
  ASSUME NEW a \in Int, NEW b \in Int, NEW i \in Int, NEW j \in Int, NEW m \in Int, NEW n \in Int,
         a - (m - i) = b - (n - j)
  PROVE  b - a = (n - j) - (m - i)
OBVIOUS

\* A row after the holes of what is missing before it.
LEMMA NumberedOn ==
  ASSUME HistoryAssumption, NEW at, IsFrame(at), NEW f, Coming(at, f), f.s = at.s,
         NEW q, Numbered(q, at), NEW h \in Nat, h = Lesser(Capacity, f.id - at.id - 1),
         NEW r \in Seq(FrameRec), NEW d \in Nat, Extends(r, q, d, h, Gap, f)
  PROVE  Numbered(r, f)
<1>1. /\ Capacity \in Nat \ {0} /\ at.id \in Nat /\ f.id \in Nat /\ at.t \in Nat /\ f.t \in Nat
      /\ f.id > at.id /\ f.t > at.t /\ IsFrame(f)
      /\ f.id = at.id + 1 => f.t - at.t \in {2, 5}
  BY DEF HistoryAssumption, Coming, IsFrame, FrameRec
<1>2. at # Gap /\ f # Gap
  BY <1>1, GapIs
<1>3. q \in Seq(FrameRec) /\ Len(q) \in Nat /\ Len(q) > 0 /\ q[Len(q)] = at /\ Len(q) <= Capacity
  BY <1>2 DEF Numbered
<1>4. /\ Len(r) \in Nat /\ Len(r) + d = Len(q) + h + 1 /\ Len(r) > 0 /\ Len(r) <= Capacity
      /\ d = 0 \/ Len(r) = Capacity
      /\ \A i \in 1 .. Len(r) :
           /\ i + d <= Len(q) => r[i] = q[i + d]
           /\ i + d > Len(q) /\ i < Len(r) => r[i] = Gap
      /\ r[Len(r)] = f
  BY DEF Extends
<1>5. h = 0 => f.id = at.id + 1
  BY <1>1 DEF Lesser
<1>6. d < Len(q) => h = f.id - at.id - 1
  <2>1. d < Len(q) => h < Capacity
    BY <1>1, <1>3, <1>4
  <2> QED
    BY <2>1, <1>1 DEF Lesser
<1>7. ASSUME NEW k \in 1 .. Len(q), q[k] # Gap
      PROVE  IsFrame(q[k]) /\ q[k].s = at.s /\ q[k].id = at.id - (Len(q) - k) /\ q[k].t \in Nat
             /\ q[k].t <= at.t
  <2>1. IsFrame(q[k]) /\ q[k].s = at.s /\ q[k].id = at.id - (Len(q) - k)
    BY <1>7 DEF Numbered
  <2>2. q[k].t \in Nat
    BY <2>1 DEF IsFrame, FrameRec
  <2>3. CASE k = Len(q)
    BY <1>1, <1>3, <2>1, <2>2, <2>3
  <2>4. CASE k < Len(q)
    <3>1. Len(q) \in 1 .. Len(q) /\ q[Len(q)] # Gap
      BY <1>2, <1>3
    <3>2. q[k].t < at.t
      BY <3>1, <1>3, <1>7, <2>4 DEF Numbered
    <3> QED
      BY <3>2, <1>1, <2>1, <2>2, SMTT(30)
  <2> QED
    BY <1>3, <2>3, <2>4
<1>8. ASSUME NEW i \in 1 .. Len(r), r[i] # Gap
      PROVE  \/ i + d \in 1 .. Len(q) /\ r[i] = q[i + d] /\ d < Len(q)
             \/ i = Len(r) /\ r[i] = f /\ i + d > Len(q)
  <2>1. CASE i + d <= Len(q)
    <3>1. i + d \in 1 .. Len(q) /\ d < Len(q)
      BY <2>1, <1>3
    <3> QED
      BY <2>1, <3>1, <1>4
  <2>2. CASE i + d > Len(q)
    BY <2>2, <1>4, <1>8
  <2> QED
    BY <1>3, <2>1, <2>2
<1>9. ASSUME NEW i \in 1 .. Len(r), r[i] # Gap
      PROVE  IsFrame(r[i]) /\ r[i].s = f.s /\ r[i].id = f.id - (Len(r) - i)
  <2>1. CASE i + d \in 1 .. Len(q) /\ r[i] = q[i + d] /\ d < Len(q)
    <3>1. IsFrame(r[i]) /\ r[i].s = at.s /\ r[i].id = at.id - (Len(q) - (i + d))
      BY <2>1, <1>7, <1>9
    <3>2. at.id - (Len(q) - (i + d)) = f.id - (Len(r) - i)
      <4> DEFINE a == at.id
                 b == f.id
                 m == Len(q)
                 n == Len(r)
      <4>1. h = b - a - 1 /\ n + d = m + h + 1
        BY <2>1, <1>4, <1>6
      <4>2. i \in Int /\ d \in Int /\ h \in Int /\ m \in Int /\ n \in Int /\ a \in Int /\ b \in Int
        BY <1>1, <1>3, <1>4, SMTT(30)
      <4> HIDE DEF a, b, m, n
      <4>3. a - (m - (i + d)) = b - (n - i)
        BY <4>1, <4>2, SamePlace, SMTT(30)
      <4> QED
        BY <4>3 DEF a, b, m, n
    <3> QED
      BY <3>1, <3>2
  <2>2. CASE i = Len(r) /\ r[i] = f
    BY <2>2, <1>1, <1>4
  <2> QED
    BY <1>8, <1>9, <2>1, <2>2
<1>10. ASSUME NEW i \in 1 .. Len(r), NEW j \in 1 .. Len(r), i < j, r[i] # Gap, r[j] # Gap
       PROVE  r[i].t < r[j].t
  <2>1. i + d \in 1 .. Len(q) /\ r[i] = q[i + d]
    BY <1>8, <1>10, <1>4
  <2>2. CASE j + d \in 1 .. Len(q) /\ r[j] = q[j + d]
    <3>1. i + d < j + d
      BY <1>10
    <3>2. \A k, l \in 1 .. Len(q) : k < l /\ q[k] # Gap /\ q[l] # Gap => q[k].t < q[l].t
      BY DEF Numbered
    <3>3. q[i + d].t < q[j + d].t
      BY <3>1, <3>2, <2>1, <2>2, <1>10
    <3>4. r[i] = q[i + d] /\ r[j] = q[j + d]
      BY <2>1, <2>2
    <3> QED
      BY <3>3, <3>4, Zenon
  <2>3. CASE r[j] = f
    <3>1. r[i].t <= at.t /\ r[i].t \in Nat
      BY <2>1, <1>7, <1>10
    <3> DEFINE x == r[i].t
               y == at.t
               z == f.t
    <3>2. x <= y /\ y < z /\ x \in Nat /\ y \in Nat /\ z \in Nat
      BY <3>1, <1>1
    <3> HIDE DEF x, y, z
    <3>3. x < z
      BY <3>2
    <3> QED
      BY <3>3, <2>3 DEF x, z
  <2> QED
    BY <1>8, <1>10, <2>2, <2>3
<1>11. ASSUME NEW i \in 1 .. Len(r) - 1, r[i] # Gap, r[i + 1] # Gap
       PROVE  r[i + 1].t - r[i].t \in {2, 5}
  <2>1. i \in 1 .. Len(r) /\ i + 1 \in 1 .. Len(r) /\ i # Len(r)
    BY <1>4
  <2>2. i + d \in 1 .. Len(q) /\ r[i] = q[i + d]
    BY <2>1, <1>8, <1>11
  <2>3. CASE (i + 1) + d \in 1 .. Len(q) /\ r[i + 1] = q[(i + 1) + d]
    <3>1. i + d \in 1 .. Len(q) - 1 /\ (i + 1) + d = (i + d) + 1
      BY <2>2, <2>3, <1>3, SMTT(30)
    <3>2. q[(i + d) + 1].t - q[i + d].t \in {2, 5}
      BY <3>1, <2>2, <2>3, <1>11 DEF Numbered
    <3> QED
      BY <3>1, <3>2, <2>2, <2>3
  <2>4. CASE i + 1 = Len(r) /\ r[i + 1] = f /\ (i + 1) + d > Len(q)
    <3>1. h = 0 /\ i + d = Len(q)
      BY <2>2, <2>4, <1>3, <1>4
    <3> QED
      BY <3>1, <2>2, <2>4, <1>1, <1>3, <1>5
  <2> QED
    BY <2>1, <1>8, <1>11, <2>3, <2>4
<1>12. r # <<>>
  BY <1>4
<1> QED
  BY <1>1, <1>4, <1>9, <1>10, <1>11, <1>12 DEF Numbered

LEMMA NumberedOne ==
  ASSUME HistoryAssumption, NEW f, IsFrame(f), NEW r \in Seq(FrameRec), NEW d \in Nat,
         Extends(r, <<>>, d, 0, Gap, f)
  PROVE  Numbered(r, f)
<1>1. Capacity \in Nat \ {0} /\ Len(<<>>) = 0 /\ Len(r) \in Nat
  BY DEF HistoryAssumption
<1>2. Len(r) + d = 0 + 0 + 1 /\ Len(r) > 0 /\ r[Len(r)] = f
  BY <1>1 DEF Extends
<1>3. Len(r) = 1 /\ r[1] = f
  BY <1>1, <1>2
<1>4. f.id \in Nat
  BY DEF IsFrame, FrameRec
<1>5. r # <<>>
  BY <1>3
<1> QED
  BY <1>1, <1>3, <1>4, <1>5 DEF Numbered

LEMMA SampledOn ==
  ASSUME HistoryAssumption, NEW q \in Seq(FrameRec), NEW b \in Bins, NEW p, Sampled(p, q, b),
         NEW h \in Nat, NEW f \in FrameRec,
         NEW r \in Seq(FrameRec), NEW d \in Nat, Extends(r, q, d, h, Gap, f),
         NEW t \in Seq(SampleRec), NEW e \in Nat,
         Extends(t, p, e, h, [frame |-> Gap, bin |-> b], [frame |-> f, bin |-> b])
  PROVE  Sampled(t, r, b)
<1> DEFINE hole == [frame |-> Gap, bin |-> b]
<1>1. /\ Len(q) \in Nat /\ Len(p) \in Nat /\ Len(p) <= Len(q) /\ Len(r) \in Nat /\ Len(t) \in Nat
      /\ Capacity \in Nat
      /\ \A i \in 1 .. Len(p) : p[i].frame = q[Len(q) - Len(p) + i] /\ p[i].bin = b
  BY DEF HistoryAssumption, Sampled
<1>2. /\ Len(r) + d = Len(q) + h + 1 /\ Len(r) > 0 /\ Len(r) <= Capacity /\ r[Len(r)] = f
      /\ d = 0 \/ Len(r) = Capacity
      /\ \A i \in 1 .. Len(r) :
           /\ i + d <= Len(q) => r[i] = q[i + d]
           /\ i + d > Len(q) /\ i < Len(r) => r[i] = Gap
  BY DEF Extends
<1>3. /\ Len(t) + e = Len(p) + h + 1 /\ Len(t) > 0 /\ Len(t) <= Capacity
      /\ t[Len(t)] = [frame |-> f, bin |-> b]
      /\ \A i \in 1 .. Len(t) :
           /\ i + e <= Len(p) => t[i] = p[i + e]
           /\ i + e > Len(p) /\ i < Len(t) => t[i] = hole
  BY DEF Extends
<1>4. Len(t) <= Len(r)
  BY <1>1, <1>2, <1>3
<1>5. ASSUME NEW i \in 1 .. Len(t)
      PROVE  t[i].frame = r[Len(r) - Len(t) + i] /\ t[i].bin = b
  <2> DEFINE j == Len(r) - Len(t) + i
  <2>1. j \in 1 .. Len(r) /\ j + d = Len(q) - Len(p) + (i + e) /\ (j = Len(r) <=> i = Len(t))
    <3>1. /\ Len(q) \in Nat /\ Len(p) \in Nat /\ Len(r) \in Nat /\ Len(t) \in Nat /\ Len(t) <= Len(r)
          /\ Len(r) + d = Len(q) + h + 1 /\ Len(t) + e = Len(p) + h + 1
      BY <1>1, <1>2, <1>3, <1>4
    <3> DEFINE m == Len(q)
               n == Len(r)
               k == Len(t)
               l == Len(p)
    <3>2. /\ m \in Nat /\ l \in Nat /\ n \in Nat /\ k \in Nat /\ k <= n /\ i \in 1 .. k
          /\ n + d = m + h + 1 /\ k + e = l + h + 1
      BY <3>1
    <3> HIDE DEF m, n, k, l
    <3>3. /\ n - k + i \in 1 .. n /\ (n - k + i) + d = m - l + (i + e)
          /\ (n - k + i = n <=> i = k)
      BY <3>2
    <3> QED
      BY <3>3 DEF m, n, k, l
  <2>2. CASE i + e <= Len(p)
    <3>1. t[i] = p[i + e] /\ i + e \in 1 .. Len(p)
      BY <1>1, <1>3, <2>2, SMTT(30)
    <3>2. t[i].frame = q[j + d] /\ t[i].bin = b
      BY <3>1, <1>1, <2>1
    <3>3. j + d <= Len(q)
      BY <2>1, <2>2, <1>1, SMTT(30)
    <3> HIDE DEF j
    <3>4. r[j] = q[j + d]
      BY <3>3, <2>1, <1>2
    <3> QED
      BY <3>2, <3>4 DEF j
  <2>3. CASE i + e > Len(p) /\ i < Len(t)
    <3>1. t[i] = hole
      BY <1>3, <2>3
    <3>2. j + d > Len(q) /\ j < Len(r)
      BY <2>1, <2>3, <1>1
    <3> HIDE DEF j
    <3>3. r[j] = Gap
      BY <3>2, <2>1, <1>2
    <3> QED
      BY <3>1, <3>3 DEF j
  <2>4. CASE i = Len(t)
    <3>1. j = Len(r)
      BY <2>1, <2>4
    <3> HIDE DEF j
    <3>2. r[j] = f
      BY <3>1, <1>2
    <3> QED
      BY <3>2, <2>4, <1>3 DEF j
  <2> QED
    BY <1>1, <2>2, <2>3, <2>4
<1> QED
  BY <1>4, <1>5 DEF Sampled

LEMMA Pushed ==
  ASSUME HistoryAssumption, NEW at, at = Gap \/ IsFrame(at), NEW m, ModelOk(m, at),
         NEW f, Coming(at, f)
  PROVE  ModelOk(Push(m, f), f)
<1> DEFINE rec == [session : Nat, last : Nat, rows : Seq(FrameRec), trace : Seq(SampleRec), bin : Bins]
           n == IF f.s = m.session THEN m
                ELSE [m EXCEPT !.session = f.s, !.last = 0, !.rows = <<>>, !.trace = <<>>]
           h == IF n.last = 0 THEN 0 ELSE Lesser(Capacity, f.id - n.last - 1)
           S(g) == [frame |-> g, bin |-> n.bin]
           rows == Keep(n.rows \o Append([k \in 1 .. h |-> Gap], f), Capacity)
           trace == Keep(n.trace \o Append([k \in 1 .. h |-> S(Gap)], S(f)), Capacity)
<1>1. /\ IsFrame(f) /\ f \in FrameRec /\ f.s \in Nat /\ f.id \in Nat \ {0} /\ Gap \in FrameRec
      /\ Capacity \in Nat \ {0}
  BY GapIs DEF Coming, IsFrame, FrameRec, HistoryAssumption
<1>13. /\ m \in rec /\ m.session = at.s /\ m.last = at.id
       /\ Numbered(m.rows, at) /\ Sampled(m.trace, m.rows, m.bin)
  BY DEF ModelOk
<1>14. <<>> \in Seq(FrameRec) /\ <<>> \in Seq(SampleRec)
  OBVIOUS
<1>3. \/ n.last = 0 /\ n.rows = <<>> /\ n.trace = <<>> /\ n \in rec /\ n.session = f.s
      \/ n = m /\ n.last = at.id /\ f.s = at.s /\ IsFrame(at) /\ f.id > at.id /\ at.id \in Nat
  <2>1. CASE f.s = m.session
    BY <1>1, <1>13, <2>1, GapIs DEF Coming, IsFrame, FrameRec
  <2>2. CASE f.s # m.session
    BY <1>1, <1>13, <1>14, <2>2
  <2> QED
    BY <2>1, <2>2
<1>2. n \in rec /\ n.session = f.s
  BY <1>3, <1>13
<1>4. h \in Nat /\ ~(f.id <= n.last)
  BY <1>1, <1>2, <1>3 DEF Lesser
<1> HIDE DEF n, h
<1>5. S(Gap) \in SampleRec /\ S(f) \in SampleRec
  BY <1>1, <1>2 DEF SampleRec
<1>15. n.rows \in Seq(FrameRec) /\ n.trace \in Seq(SampleRec) /\ n.bin \in Bins
  BY <1>2
<1>6. rows \in Seq(FrameRec) /\ \E d \in Nat : Extends(rows, n.rows, d, h, Gap, f)
  <2> DEFINE T == FrameRec
  <2>1. Gap \in T /\ f \in T /\ n.rows \in Seq(T)
    BY <1>1, <1>15
  <2> HIDE DEF T
  <2>2. LET r == Keep(n.rows \o Append([k \in 1 .. h |-> Gap], f), Capacity)
        IN  r \in Seq(T) /\ \E d \in Nat : Extends(r, n.rows, d, h, Gap, f)
    BY <1>4, <2>1, Extended, ZenonT(30)
  <2> QED
    BY <2>2 DEF T
<1>7. trace \in Seq(SampleRec) /\ \E d \in Nat : Extends(trace, n.trace, d, h, S(Gap), S(f))
  <2> DEFINE hole == S(Gap)
             x == S(f)
             T == SampleRec
  <2>1. hole \in T /\ x \in T /\ n.trace \in Seq(T)
    BY <1>5, <1>15
  <2> HIDE DEF hole, x, T
  <2>2. LET r == Keep(n.trace \o Append([k \in 1 .. h |-> hole], x), Capacity)
        IN  r \in Seq(T) /\ \E d \in Nat : Extends(r, n.trace, d, h, hole, x)
    BY <1>4, <2>1, Extended, ZenonT(30)
  <2> QED
    BY <2>2 DEF hole, x, T
<1> HIDE DEF rows, trace
<1>8. Push(m, f) = [n EXCEPT !.last = f.id, !.rows = rows, !.trace = trace]
  BY <1>4 DEF Push, n, h, rows, trace
<1>16. PICK d \in Nat : Extends(rows, n.rows, d, h, Gap, f)
  BY <1>6
<1>17. PICK e \in Nat : Extends(trace, n.trace, e, h, S(Gap), S(f))
  BY <1>7
<1>9. Sampled(n.trace, n.rows, n.bin)
  <2>1. CASE n.rows = <<>> /\ n.trace = <<>>
    BY <2>1, <1>15 DEF Sampled
  <2> QED
    BY <2>1, <1>3, <1>13
<1>10. Sampled(trace, rows, n.bin)
  <2> HIDE DEF rec
  <2> QED
    BY <1>1, <1>4, <1>6, <1>7, <1>9, <1>15, <1>16, <1>17, SampledOn
<1>11. Numbered(rows, f)
  <2>1. CASE n.last = 0 /\ n.rows = <<>>
    <3>1. h = 0
      BY <2>1 DEF h
    <3> QED
      BY <3>1, <2>1, <1>1, <1>6, <1>16, NumberedOne
  <2>2. CASE n = m /\ n.last = at.id /\ f.s = at.s /\ IsFrame(at) /\ f.id > at.id /\ at.id \in Nat
    <3>1. h = Lesser(Capacity, f.id - at.id - 1)
      BY <2>2 DEF h, IsFrame
    <3>2. Numbered(n.rows, at)
      BY <2>2, <1>13
    <3> QED
      BY <3>1, <3>2, <2>2, <1>4, <1>6, <1>16, NumberedOn
  <2> QED
    BY <2>1, <2>2, <1>3
<1>12. Push(m, f) \in rec /\ Push(m, f).session = f.s /\ Push(m, f).last = f.id
       /\ Push(m, f).rows = rows /\ Push(m, f).trace = trace /\ Push(m, f).bin = n.bin
  BY <1>1, <1>2, <1>6, <1>7, <1>8
<1> QED
  BY <1>10, <1>11, <1>12 DEF ModelOk
-----------------------------------------------------------------------------
(* The deep groups.                                                        *)

GroupRec == [s : Nat, number : Int, first : FrameRec, last : FrameRec, of : Seq(Nat)]

\* A whole group of a session.
Whole(g, session) ==
  /\ g.of = [k \in 1 .. Deep |-> g.first.id + k - 1] /\ g.last.id = g.first.id + Deep - 1
  /\ g.first.s = g.last.s /\ g.last.t - g.first.t = 2 * (Deep - 1) /\ g.s = session

\* Groups of one session, one after the other, none beyond top.
Grouped(groups, session, top) ==
  /\ groups \in Seq(GroupRec)
  /\ \A n \in 1 .. Len(groups) : Whole(groups[n], session) /\ groups[n].last.id <= top
  /\ \A i, j \in 1 .. Len(groups) : i < j => groups[i].last.id < groups[j].first.id

\* The frames from first to last, accumulated without a break.
Accumulates(acc, first, last) ==
  /\ acc \in Seq(Nat) /\ IsFrame(first) /\ first.s = last.s
  /\ first.id + Len(acc) - 1 = last.id /\ first.t + 2 * (Len(acc) - 1) = last.t
  /\ \A k \in 1 .. Len(acc) : acc[k] = first.id + k - 1

DeepOk(d, at) ==
  /\ d.session = at.s /\ d.last = at.id /\ d.t = at.t /\ d.number \in Int
  /\ d.acc \in Seq(Nat) /\ Len(d.acc) < Deep
  /\ d.acc # <<>> => Accumulates(d.acc, d.start, at)
  /\ Grouped(d.history, at.s, IF d.acc = <<>> THEN at.id ELSE d.start.id - 1)

LEMMA GroupIs ==
  ASSUME NEW g \in GroupRec
  PROVE  g.first \in FrameRec /\ g.last \in FrameRec /\ g.first.id \in Nat /\ g.last.id \in Nat
         /\ g.last.t \in Nat
BY DEF GroupRec, FrameRec

LEMMA GroupedIs ==
  ASSUME NEW groups, NEW session, NEW top \in Int, Grouped(groups, session, top),
         NEW above \in Int, top <= above
  PROVE  Grouped(groups, session, above)
<1>2. ASSUME NEW n \in 1 .. Len(groups) PROVE groups[n].last.id <= above
  <2> DEFINE x == groups[n].last.id
  <2>1. groups[n] \in GroupRec /\ x <= top
    BY DEF Grouped
  <2>2. x \in Int
    BY <2>1, GroupIs
  <2> HIDE DEF x
  <2>3. x <= above
    BY <2>1, <2>2
  <2> QED
    BY <2>3 DEF x
<1> QED
  BY <1>2 DEF Grouped

LEMMA NoGroups ==
  ASSUME NEW session, NEW top
  PROVE  Grouped(<<>>, session, top)
BY DEF Grouped

\* A group is added, and the eldest are dropped.
LEMMA GroupAdded ==
  ASSUME HistoryAssumption, NEW groups, NEW session, NEW top \in Int, Grouped(groups, session, top),
         NEW g \in GroupRec, NEW n \in Nat \ {0}, top < g.first.id, Whole(g, session)
  PROVE  Grouped(Keep(Append(groups, g), n), session, g.last.id)
<1> DEFINE all == Append(groups, g)
           r == Keep(all, n)
           d == Len(all) - Len(r)
           a == g.first.id
           b == g.last.id
<1>10. groups \in Seq(GroupRec) /\ Len(groups) \in Nat /\ Deep \in Nat \ {0}
  BY DEF Grouped, HistoryAssumption
<1>11. a \in Nat /\ b \in Nat /\ b = a + Deep - 1 /\ top < a
  BY GroupIs DEF Whole
<1>1. /\ groups \in Seq(GroupRec) /\ Len(groups) \in Nat /\ Deep \in Nat \ {0}
      /\ a \in Nat /\ b \in Nat /\ a <= b /\ top < a
  <2> HIDE DEF a, b
  <2> QED
    BY <1>10, <1>11
<1>2. ASSUME NEW i \in 1 .. Len(groups)
      PROVE  Whole(groups[i], session) /\ groups[i].last.id <= top /\ groups[i].last.id \in Int
  <2>1. groups[i] \in GroupRec /\ Whole(groups[i], session) /\ groups[i].last.id <= top
    BY DEF Grouped
  <2> QED
    BY <2>1, GroupIs
<1>3. /\ all \in Seq(GroupRec) /\ Len(all) = Len(groups) + 1 /\ all[Len(groups) + 1] = g
      /\ \A i \in 1 .. Len(groups) : all[i] = groups[i]
  BY <1>1
<1> HIDE DEF all
<1>12. IsEnd(r, all, n, GroupRec)
  BY <1>3, KeepIs
<1> HIDE DEF r
<1>13. Len(r) \in Nat /\ Len(r) <= Len(all)
  <2>1. Len(all) \in Nat
    BY <1>3
  <2> QED
    BY <2>1, <1>12 DEF IsEnd
<1>4. /\ r \in Seq(GroupRec) /\ Len(r) \in Nat /\ Len(r) <= Len(all)
      /\ \A i \in 1 .. Len(r) : r[i] = all[Len(all) - Len(r) + i]
  BY <1>12, <1>13 DEF IsEnd
<1>5. d \in Nat /\ Len(r) + d = Len(groups) + 1
  BY <1>1, <1>3, <1>4
<1>6. \A i \in 1 .. Len(r) : r[i] = all[d + i]
  BY <1>4
<1> HIDE DEF d
<1>7. \A i \in 1 .. Len(r) :
        \/ d + i \in 1 .. Len(groups) /\ r[i] = groups[d + i]
        \/ i = Len(r) /\ r[i] = g
  <2> SUFFICES ASSUME NEW i \in 1 .. Len(r)
               PROVE  \/ d + i \in 1 .. Len(groups) /\ r[i] = groups[d + i]
                      \/ i = Len(r) /\ r[i] = g
    OBVIOUS
  <2>1. CASE d + i <= Len(groups)
    <3>1. d + i \in 1 .. Len(groups)
      BY <2>1, <1>1, <1>5
    <3> QED
      BY <3>1, <1>3, <1>6
  <2>2. CASE d + i > Len(groups)
    <3> DEFINE m == Len(groups)
               k == Len(r)
    <3>2. m \in Nat /\ k \in Nat /\ k + d = m + 1 /\ i \in Nat /\ i <= k /\ d + i > m
      BY <2>2, <1>1, <1>4, <1>5
    <3> HIDE DEF m, k
    <3>3. d + i = m + 1 /\ i = k
      BY <3>2, <1>5
    <3>1. d + i = Len(groups) + 1 /\ i = Len(r)
      BY <3>3 DEF m, k
    <3> QED
      BY <3>1, <1>3, <1>6
  <2> QED
    BY <2>1, <2>2, <1>1, <1>5
<1>8. ASSUME NEW i \in 1 .. Len(r) PROVE Whole(r[i], session) /\ r[i].last.id <= b
  <2>1. CASE d + i \in 1 .. Len(groups) /\ r[i] = groups[d + i]
    <3> DEFINE x == groups[d + i].last.id
    <3>1. Whole(groups[d + i], session) /\ x <= top /\ x \in Int
      BY <2>1, <1>2
    <3> HIDE DEF x, a, b
    <3>2. x <= b
      BY <3>1, <1>1
    <3> QED
      BY <3>1, <3>2, <2>1 DEF x
  <2>2. CASE i = Len(r) /\ r[i] = g
    BY <2>2, <1>1
  <2> QED
    BY <1>7, <2>1, <2>2
<1>9. ASSUME NEW i \in 1 .. Len(r), NEW j \in 1 .. Len(r), i < j
      PROVE  r[i].last.id < r[j].first.id
  <2>1. d + i \in 1 .. Len(groups) /\ r[i] = groups[d + i]
    <3>1. i # Len(r)
      BY <1>4, <1>9
    <3> QED
      BY <3>1, <1>7
  <2>2. CASE d + j \in 1 .. Len(groups) /\ r[j] = groups[d + j]
    <3>1. d + i < d + j
      BY <1>5, <1>9
    <3>2. \A k, l \in 1 .. Len(groups) : k < l => groups[k].last.id < groups[l].first.id
      BY DEF Grouped
    <3>3. groups[d + i].last.id < groups[d + j].first.id
      BY <3>1, <3>2, <2>1, <2>2
    <3> QED
      BY <3>3, <2>1, <2>2, Zenon
  <2>3. CASE r[j] = g
    <3>1. groups[d + i].last.id <= top /\ groups[d + i].last.id \in Int
      BY <2>1, <1>2
    <3> DEFINE x == groups[d + i].last.id
               y == g.first.id
    <3>2. x \in Int /\ x <= top /\ y \in Int
      BY <3>1, <1>1
    <3> HIDE DEF x, y
    <3>3. x < y
      BY <3>2 DEF y
    <3> QED
      BY <3>3, <2>1, <2>3 DEF x, y
  <2> QED
    BY <1>7, <2>2, <2>3
<1> QED
  BY <1>4, <1>8, <1>9 DEF Grouped, r, all

\* What is accumulated, and the label of its first frame, are of the same frames.
LEMMA AccumulatedIs ==
  ASSUME HistoryAssumption, NEW at, at = Gap \/ IsFrame(at), NEW f, Coming(at, f),
         NEW d, DeepOk(d, at)
  PROVE  /\ Accumulates(Accumulated(d, f), Start(d, f), f)
         /\ Accumulated(d, f) # <<>> /\ Len(Accumulated(d, f)) <= Deep
         /\ f.s = at.s => Grouped(d.history, at.s, Start(d, f).id - 1)
<1>1. /\ at.s \in Nat /\ at.id \in Nat /\ at.t \in Nat /\ Deep \in Nat \ {0} /\ IsFrame(f)
      /\ f.s \in Nat /\ f.id \in Nat /\ f.t \in Nat
  BY GapIs DEF IsFrame, FrameRec, HistoryAssumption, Coming
<1>2. /\ d.session = at.s /\ d.last = at.id /\ d.t = at.t /\ d.acc \in Seq(Nat) /\ Len(d.acc) < Deep
      /\ d.acc # <<>> => Accumulates(d.acc, d.start, at)
  BY DEF DeepOk
<1>3. Accumulates(<<f.id>>, f, f) /\ <<f.id>> # <<>> /\ Len(<<f.id>>) <= Deep
  BY <1>1 DEF Accumulates
<1>4. ASSUME f.s = at.s PROVE Grouped(d.history, at.s, at.id) /\ at.id <= f.id - 1 /\ f.id > at.id
  <2>1. f.id > at.id /\ at.id <= f.id - 1
    BY <1>1, <1>4 DEF Coming
  <2>2. CASE d.acc = <<>>
    BY <2>1, <2>2 DEF DeepOk
  <2>3. CASE d.acc # <<>>
    <3>1. Accumulates(d.acc, d.start, at) /\ Len(d.acc) > 0 /\ Len(d.acc) \in Nat
      BY <1>2, <2>3
    <3>2. d.start.id \in Nat /\ d.start.id + Len(d.acc) - 1 = at.id
      BY <3>1 DEF Accumulates, IsFrame, FrameRec
    <3>3. d.start.id - 1 \in Int /\ d.start.id - 1 <= at.id
      BY <3>1, <3>2, <1>1
    <3>4. Grouped(d.history, at.s, d.start.id - 1)
      BY <2>3 DEF DeepOk
    <3> QED
      BY <3>3, <3>4, <2>1, <1>1, GroupedIs
  <2> QED
    BY <2>2, <2>3
<1>5. ASSUME f.s = at.s PROVE Grouped(d.history, at.s, f.id - 1)
  BY <1>1, <1>4, <1>5, GroupedIs
<1>6. CASE f.s # d.session \/ f.id > d.last + 1 \/ Break(d.t, f)
  <2>1. Accumulated(d, f) = <<f.id>> /\ Start(d, f) = f
    BY <1>1, <1>2, <1>6 DEF Accumulated, Start
  <2> QED
    BY <2>1, <1>3, <1>5
<1>7. CASE ~(f.s # d.session \/ f.id > d.last + 1 \/ Break(d.t, f))
  <2>1. f.s = at.s /\ f.id = at.id + 1 /\ ~Break(at.t, f) /\ IsFrame(at)
    BY <1>1, <1>2, <1>4, <1>7 DEF Coming
  <2>2. f.t - at.t = 2
    <3>1. f.t - at.t \in {2, 5} /\ at.t > 0
      BY <2>1, <1>1 DEF Coming, IsFrame
    <3> QED
      BY <3>1, <2>1, <1>1 DEF Break
  <2>3. Accumulated(d, f) = Append(d.acc, f.id)
    BY <1>7 DEF Accumulated
  <2>4. CASE d.acc = <<>>
    <3>1. Accumulated(d, f) = <<f.id>> /\ Start(d, f) = f
      BY <2>3, <2>4 DEF Start
    <3> QED
      BY <3>1, <1>3, <1>5
  <2>5. CASE d.acc # <<>>
    <3>1. Start(d, f) = d.start
      BY <1>2, <1>7, <2>1, <2>5 DEF Start
    <3> DEFINE acc == Append(d.acc, f.id)
               n == Len(d.acc)
    <3>2. /\ acc \in Seq(Nat) /\ Len(acc) = n + 1 /\ acc # <<>> /\ acc[n + 1] = f.id
          /\ \A k \in 1 .. n : acc[k] = d.acc[k]
          /\ n \in Nat
      BY <1>1, <1>2
    <3>3. /\ IsFrame(d.start) /\ d.start.s = at.s /\ d.start.id + n - 1 = at.id
          /\ d.start.t + 2 * (n - 1) = at.t /\ d.start.id \in Nat /\ d.start.t \in Nat
          /\ \A k \in 1 .. n : d.acc[k] = d.start.id + k - 1
      BY <1>2, <2>5 DEF Accumulates, IsFrame, FrameRec
    <3> HIDE DEF acc
    <3>4. d.start.id + Len(acc) - 1 = f.id /\ d.start.t + 2 * (Len(acc) - 1) = f.t
      <4> DEFINE x == d.start.id
                 y == d.start.t
                 l == Len(acc)
      <4>1. /\ x + n - 1 = at.id /\ y + 2 * (n - 1) = at.t /\ l = n + 1
            /\ f.id = at.id + 1 /\ f.t - at.t = 2
            /\ x \in Nat /\ y \in Nat /\ n \in Nat
        BY <3>2, <3>3, <2>1, <2>2
      <4> HIDE DEF x, y, n, l
      <4>2. x + l - 1 = f.id /\ y + 2 * (l - 1) = f.t
        BY <4>1, <1>1
      <4> QED
        BY <4>2 DEF x, y, l
    <3>5. \A k \in 1 .. Len(acc) : acc[k] = d.start.id + k - 1
      <4> SUFFICES ASSUME NEW k \in 1 .. Len(acc) PROVE acc[k] = d.start.id + k - 1
        OBVIOUS
      <4>1. CASE k \in 1 .. n
        BY <4>1, <3>2, <3>3
      <4>2. CASE k = n + 1
        BY <4>2, <3>2, <3>4
      <4> QED
        BY <4>1, <4>2, <3>2
    <3>6. Accumulates(acc, d.start, f)
      BY <3>2, <3>3, <3>4, <3>5, <2>1 DEF Accumulates
    <3>7. Len(acc) <= Deep
      BY <3>2, <1>1, <1>2
    <3>8. Grouped(d.history, at.s, d.start.id - 1)
      BY <2>5 DEF DeepOk
    <3> QED
      BY <3>1, <3>2, <3>6, <3>7, <3>8, <2>3 DEF acc
  <2> QED
    BY <2>4, <2>5
<1> QED
  BY <1>6, <1>7

LEMMA DeepPushed ==
  ASSUME HistoryAssumption, NEW at, at = Gap \/ IsFrame(at), NEW f, Coming(at, f),
         NEW d, DeepOk(d, at)
  PROVE  DeepOk(DeepPush(d, f), f)
<1> DEFINE fresh == f.s # d.session
           acc == Accumulated(d, f)
           first == Start(d, f)
           full == Len(acc) >= Deep
           number == (IF fresh THEN 0 ELSE d.number + Missed(d, f)) + (IF full THEN 1 ELSE 0)
           group == [s |-> f.s, number |-> number, first |-> first, last |-> f, of |-> acc]
           kept == IF fresh THEN <<>> ELSE d.history
           n == (Capacity + Deep - 1) \div Deep + 2
           history == IF full THEN Keep(Append(kept, group), n) ELSE kept
<1>1. /\ Accumulates(acc, first, f) /\ acc # <<>> /\ Len(acc) <= Deep
      /\ f.s = at.s => Grouped(d.history, at.s, first.id - 1)
  BY AccumulatedIs
<1>2. /\ d.session = at.s /\ d.last = at.id /\ d.number \in Int
      /\ at.s \in Nat /\ at.id \in Nat /\ Deep \in Nat \ {0} /\ Capacity \in Nat \ {0} /\ History \in Nat
      /\ f \in FrameRec /\ f.s \in Nat /\ f.id \in Nat /\ (f.s = at.s => f.id > at.id)
  BY GapIs DEF DeepOk, IsFrame, FrameRec, HistoryAssumption, Coming
<1>3. /\ acc \in Seq(Nat) /\ Len(acc) \in Nat /\ first \in FrameRec /\ first.id \in Nat
      /\ first.s = f.s /\ first.id + Len(acc) - 1 = f.id /\ first.t + 2 * (Len(acc) - 1) = f.t
      /\ first.t \in Nat /\ f.t \in Nat
      /\ \A k \in 1 .. Len(acc) : acc[k] = first.id + k - 1
  BY <1>1, <1>2 DEF Accumulates, IsFrame, FrameRec
<1> HIDE DEF acc, first
<1>4. Missed(d, f) \in Int
  <2>1. CASE f.s = d.session /\ f.id > d.last + 1
    <3>1. f.id - d.last - 1 \in Nat
      BY <2>1, <1>2
    <3>2. (f.id - d.last - 1) \div Deep \in Int
      BY <3>1, <1>2
    <3> QED
      BY <2>1, <3>2, <1>2 DEF Missed, Lesser
  <2> QED
    BY <2>1 DEF Missed
<1>5. number \in Int
  BY <1>2, <1>4
<1>6. n \in Nat \ {0}
  BY <1>2
<1>7. Grouped(kept, f.s, first.id - 1) /\ first.id - 1 \in Int
  BY <1>1, <1>2, <1>3, NoGroups, SMTT(30)
<1> HIDE DEF number, kept, n
<1>8. DeepPush(d, f) = [session |-> f.s, last |-> f.id, t |-> f.t, start |-> first,
                        number |-> number, acc |-> IF full THEN <<>> ELSE acc, history |-> history]
  <2>1. ~(~fresh /\ f.id <= d.last)
    BY <1>2
  <2> QED
    BY <2>1 DEF DeepPush, acc, first, number, kept, n
<1>9. CASE full
  <2>1. Len(acc) = Deep
    BY <1>1, <1>2, <1>3, <1>9
  <2>2. acc = [k \in 1 .. Deep |-> first.id + k - 1]
    BY <1>3, <2>1
  <2>3. group \in GroupRec
    BY <1>2, <1>3, <1>5 DEF GroupRec
  <2>4. /\ first.id - 1 < group.first.id /\ group.s = f.s
        /\ Whole(group, f.s) /\ group.last = f
    BY <1>2, <1>3, <2>1, <2>2 DEF Whole
  <2> HIDE DEF group
  <2>5. Grouped(Keep(Append(kept, group), n), f.s, f.id)
    BY <1>6, <1>7, <2>3, <2>4, GroupAdded
  <2>6. history = Keep(Append(kept, group), n)
    BY <1>9
  <2> HIDE DEF history
  <2>7. Len(<<>>) < Deep /\ <<>> \in Seq(Nat)
    BY <1>2
  <2> QED
    BY <1>5, <1>8, <1>9, <2>5, <2>6, <2>7 DEF DeepOk
<1>10. CASE ~full
  <2>1. history = kept /\ Len(acc) < Deep
    BY <1>2, <1>3, <1>10
  <2> HIDE DEF history
  <2> QED
    BY <1>1, <1>3, <1>5, <1>7, <1>8, <1>10, <2>1 DEF DeepOk
<1> QED
  BY <1>9, <1>10
-----------------------------------------------------------------------------
(* The waterfalls.                                                         *)

LEMMA LatestIs ==
  ASSUME NEW rows, NEW top, Numbered(rows, top)
  PROVE  Latest(rows) = top
<1>1. rows \in Seq(FrameRec) /\ Len(rows) \in Nat /\ DOMAIN rows = 1 .. Len(rows)
  BY DEF Numbered
<1>2. CASE rows = <<>>
  <2>1. ~\E i \in DOMAIN rows : rows[i] # Gap
    BY <1>2, SMTT(30)
  <2> QED
    BY <2>1, <1>2 DEF Latest, Numbered
<1>3. CASE rows # <<>>
  <2> DEFINE I == {i \in 1 .. Len(rows) : rows[i] # Gap}
             n == Len(rows)
  <2>1. n \in Nat /\ n > 0 /\ rows[n] = top /\ top # Gap
    BY <1>1, <1>3, GapIs DEF Numbered
  <2>2. n \in I /\ \A x \in I : n >= x
    BY <1>1, <2>1
  <2>3. ASSUME NEW x \in I, \A y \in I : x >= y PROVE x = n
    <3>1. x >= n /\ n >= x
      BY <2>2, <2>3
    <3>2. x \in Int /\ n \in Int
      BY <2>1
    <3> HIDE DEF I, n
    <3> QED
      BY <3>1, <3>2
  <2>4. Max(I) = n
    BY <2>2, <2>3 DEF Max
  <2>5. \E i \in DOMAIN rows : rows[i] # Gap
    BY <1>1, <2>2
  <2>6. Latest(rows) = rows[IF I # {} THEN Max(I) ELSE 0]
    BY <2>5 DEF Latest, SelectLastInSeq
  <2> QED
    BY <2>1, <2>2, <2>4, <2>6, Zenon
<1> QED
  BY <1>2, <1>3

\* A trace whose neighbours are one period apart, or late.
Timed(trace) ==
  /\ trace \in Seq(SampleRec)
  /\ \A i \in 1 .. Len(trace) : trace[i].frame # Gap => IsFrame(trace[i].frame)
  /\ \A i \in 1 .. Len(trace) - 1 :
       trace[i].frame # Gap /\ trace[i + 1].frame # Gap =>
         trace[i + 1].frame.t - trace[i].frame.t \in {2, 5}

LEMMA SampledTimed ==
  ASSUME NEW rows, NEW top, Numbered(rows, top), NEW trace, NEW b, Sampled(trace, rows, b)
  PROVE  Timed(trace)
<1> DEFINE d == Len(rows) - Len(trace)
<1>1. /\ rows \in Seq(FrameRec) /\ Len(rows) \in Nat /\ trace \in Seq(SampleRec) /\ Len(trace) \in Nat
      /\ Len(trace) <= Len(rows)
      /\ \A i \in 1 .. Len(trace) : trace[i].frame = rows[d + i]
  BY DEF Numbered, Sampled
<1>2. d \in Nat /\ d + Len(trace) = Len(rows)
  BY <1>1
<1> HIDE DEF d
<1>3. ASSUME NEW i \in 1 .. Len(trace), trace[i].frame # Gap PROVE IsFrame(trace[i].frame)
  <2>1. d + i \in 1 .. Len(rows) /\ trace[i].frame = rows[d + i]
    BY <1>1, <1>2
  <2> QED
    BY <2>1, <1>3 DEF Numbered
<1>4. ASSUME NEW i \in 1 .. Len(trace) - 1, trace[i].frame # Gap, trace[i + 1].frame # Gap
      PROVE  trace[i + 1].frame.t - trace[i].frame.t \in {2, 5}
  <2>1. /\ d + i \in 1 .. Len(rows) - 1 /\ trace[i].frame = rows[d + i]
        /\ trace[i + 1].frame = rows[d + (i + 1)] /\ d + (i + 1) = (d + i) + 1
    BY <1>1, <1>2
  <2>2. \A k \in 1 .. Len(rows) - 1 :
          rows[k] # Gap /\ rows[k + 1] # Gap => rows[k + 1].t - rows[k].t \in {2, 5}
    BY DEF Numbered
  <2>3. rows[(d + i) + 1] # Gap /\ rows[d + i] # Gap
    BY <2>1, <1>4, Zenon
  <2>4. rows[(d + i) + 1].t - rows[d + i].t \in {2, 5}
    BY <2>1, <2>2, <2>3
  <2> QED
    BY <2>1, <2>4, Zenon
<1> QED
  BY <1>1, <1>3, <1>4 DEF Timed

ViewRec == [rows : Seq(FrameRec), trace : Seq(SampleRec), groups : Seq(GroupRec), end : Int,
            key : FrameRec, follow : BOOLEAN, low : Int, high : Int, span : 2 .. Capacity]

\* The range lies within its limits.
Bounded(v) ==
  /\ v.low >= v.end - Greater(Len(v.rows), v.span) /\ v.high <= v.end /\ v.high - v.low >= 2

ViewOk(v) ==
  /\ v \in ViewRec /\ Bounded(v)
  /\ Numbered(v.rows, v.key) /\ Timed(v.trace)
  /\ \E top \in Int : Grouped(v.groups, v.key.s, top)

\* The range from l, of this width, holds what the one from low to high did.
Holds(end, low, high, m, width, l) ==
  /\ width \in Int /\ l \in Int /\ width >= 2 /\ l >= end - m /\ l + width <= end
  /\ \A p \in Int : low <= p /\ p < high /\ end - m <= p /\ p < end => l <= p /\ p < l + width

LEMMA Clamped ==
  ASSUME NEW end \in Int, NEW low \in Int, NEW high \in Int, NEW m \in Int, m >= 2,
         NEW width, width = Lesser(Greater(2, high - low), end - (end - m)),
         NEW l, l = Lesser(Greater(low, end - m), end - width)
  PROVE  Holds(end, low, high, m, width, l)
<1>1. end - (end - m) = m
  OBVIOUS
<1>2. width \in Int /\ width >= 2 /\ width <= m /\ (width = m \/ width >= high - low)
  BY <1>1 DEF Lesser, Greater
<1>3. /\ l \in Int /\ l >= end - m /\ l + width <= end
      /\ l + width = end \/ l >= low
      /\ l <= low \/ l <= end - m
  BY <1>2 DEF Lesser, Greater
<1> QED
  BY <1>2, <1>3 DEF Holds

LEMMA RangedIs ==
  ASSUME HistoryAssumption, NEW v \in ViewRec
  PROVE  /\ Ranged(v) \in ViewRec /\ Bounded(Ranged(v))
         /\ Ranged(v).rows = v.rows /\ Ranged(v).trace = v.trace /\ Ranged(v).groups = v.groups
         /\ Ranged(v).end = v.end /\ Ranged(v).key = v.key /\ Ranged(v).follow = v.follow
         /\ ~v.follow => \A p \in Int :
              v.low <= p /\ p < v.high /\ v.end - Len(v.rows) <= p /\ p < v.end =>
                Ranged(v).low <= p /\ p < Ranged(v).high
<1> DEFINE m == Greater(Len(v.rows), v.span)
           width == Lesser(Greater(2, v.high - v.low), v.end - (v.end - m))
           l == Lesser(Greater(v.low, v.end - m), v.end - width)
           low == IF v.follow THEN v.end - v.span ELSE l
           high == IF v.follow THEN v.end ELSE low + width
<1>1. /\ v.rows \in Seq(FrameRec) /\ Len(v.rows) \in Nat /\ v.end \in Int /\ v.low \in Int /\ v.high \in Int
      /\ v.span \in 2 .. Capacity /\ v.follow \in BOOLEAN /\ Capacity \in Nat
  BY DEF ViewRec, HistoryAssumption
<1>2. m \in Int /\ m >= 2 /\ m >= v.span /\ m >= Len(v.rows)
  BY <1>1 DEF Greater
<1> HIDE DEF m
<1>3. /\ width \in Int /\ l \in Int /\ width >= 2 /\ l >= v.end - m /\ l + width <= v.end
      /\ \A p \in Int : v.low <= p /\ p < v.high /\ v.end - m <= p /\ p < v.end => l <= p /\ p < l + width
  <2> DEFINE e == v.end
             a == v.low
             b == v.high
             w == width
             k == l
  <2>1. e \in Int /\ a \in Int /\ b \in Int
    BY <1>1
  <2>2. w = Lesser(Greater(2, b - a), e - (e - m)) /\ k = Lesser(Greater(a, e - m), e - w)
    OBVIOUS
  <2> HIDE DEF e, a, b, w, k
  <2>3. Holds(e, a, b, m, w, k)
    BY <1>2, <2>1, <2>2, Clamped
  <2> QED
    BY <2>3 DEF e, a, b, w, k, Holds
<1> HIDE DEF width, l
<1>4. low \in Int /\ high \in Int /\ low >= v.end - m /\ high <= v.end /\ high - low >= 2
  BY <1>1, <1>2, <1>3
<1>5. ~v.follow => low = l /\ high = l + width
  OBVIOUS
<1>6. Ranged(v) = [v EXCEPT !.low = low, !.high = high]
  BY DEF Ranged, m, width, l
<1> HIDE DEF low, high
<1>7. /\ Ranged(v) \in ViewRec /\ Ranged(v).low = low /\ Ranged(v).high = high
      /\ Ranged(v).rows = v.rows /\ Ranged(v).trace = v.trace /\ Ranged(v).groups = v.groups
      /\ Ranged(v).end = v.end /\ Ranged(v).key = v.key /\ Ranged(v).follow = v.follow
      /\ Ranged(v).span = v.span
  BY <1>4, <1>6 DEF ViewRec
<1>8. Bounded(Ranged(v))
  BY <1>4, <1>7 DEF Bounded, m
<1>9. ASSUME ~v.follow, NEW p \in Int, v.low <= p, p < v.high, v.end - Len(v.rows) <= p, p < v.end
      PROVE  Ranged(v).low <= p /\ p < Ranged(v).high
  <2>1. v.end - m <= p
    BY <1>1, <1>2, <1>9
  <2> QED
    BY <2>1, <1>3, <1>5, <1>7, <1>9
<1> QED
  BY <1>7, <1>8, <1>9

\* What is displayed is not newer than what came.
Behind(key, at) == key = Gap \/ key.s < at.s \/ (key.s = at.s /\ key.id <= at.id)

\* A frame that is displayed before and after keeps its place, in the range too.
Steady(v, r) ==
  \A i \in DOMAIN v.rows, j \in DOMAIN r.rows :
    v.rows[i] # Gap /\ r.rows[j] = v.rows[i] =>
      /\ Place(r, j) = Place(v, i)
      /\ ~v.follow /\ v.low <= Place(v, i) /\ Place(v, i) < v.high =>
           r.low <= Place(r, j) /\ Place(r, j) < r.high

Rendered(v, r, m, d, at) ==
  /\ ViewOk(r) /\ r.rows = m.rows /\ r.trace = m.trace /\ r.groups = d.history /\ r.key = at
  /\ Steady(v, r)

LEMMA RenderIs ==
  ASSUME HistoryAssumption, NEW at, at = Gap \/ IsFrame(at), NEW m, ModelOk(m, at),
         NEW d, DeepOk(d, at), NEW v, ViewOk(v), Behind(v.key, at)
  PROVE  Rendered(v, Render(v, m, d), m, d, at)
<1> DEFINE x == [v EXCEPT !.rows = m.rows, !.trace = m.trace, !.groups = d.history]
           fresh == v.key = Gap \/ v.key.s # at.s
           end == IF fresh THEN Greater(History, Len(m.rows))
                  ELSE v.end + Lesser(Capacity, Greater(0, at.id - v.key.id))
           y == IF at = Gap THEN x
                ELSE [x EXCEPT !.key = at, !.follow = @ \/ fresh, !.end = end]
           r == Render(v, m, d)
<1>1. /\ m.rows \in Seq(FrameRec) /\ m.trace \in Seq(SampleRec) /\ m.bin \in Bins
      /\ Numbered(m.rows, at) /\ Sampled(m.trace, m.rows, m.bin)
  BY DEF ModelOk
<1>2. \E top \in Int : Grouped(d.history, at.s, top)
  <2>1. at.id \in Int
    BY GapIs DEF IsFrame, FrameRec
  <2>2. d.acc # <<>> => d.start.id - 1 \in Int
    BY DEF DeepOk, Accumulates, IsFrame, FrameRec
  <2> QED
    BY <2>1, <2>2 DEF DeepOk
<1>3. d.history \in Seq(GroupRec)
  BY <1>2 DEF Grouped
<1>4. /\ v \in ViewRec /\ Bounded(v) /\ Numbered(v.rows, v.key)
      /\ v.key \in FrameRec /\ v.end \in Int /\ v.follow \in BOOLEAN
  BY DEF ViewOk, ViewRec
<1>5. /\ x \in ViewRec /\ x.rows = m.rows /\ x.trace = m.trace /\ x.groups = d.history
      /\ x.end = v.end /\ x.key = v.key /\ x.follow = v.follow /\ x.low = v.low /\ x.high = v.high
  BY <1>1, <1>3, <1>4 DEF ViewRec
<1> HIDE DEF x
<1>6. at \in FrameRec /\ at.id \in Nat /\ at.s \in Nat /\ v.key.id \in Nat /\ v.key.s \in Nat
  BY <1>4, GapIs DEF IsFrame, FrameRec
<1>7. v.key = Gap \/ IsFrame(v.key)
  BY <1>4 DEF Numbered
<1>8. at = Gap => v.key = Gap
  BY <1>6, <1>7, GapIs DEF Behind, IsFrame
<1>9. end \in Int
  <2>1. History \in Nat /\ Capacity \in Nat /\ Len(m.rows) \in Nat
    BY <1>1 DEF HistoryAssumption
  <2> QED
    BY <2>1, <1>4, <1>6, SMTT(30) DEF Lesser, Greater
<1> HIDE DEF end
<1>10. /\ y \in ViewRec /\ y.rows = m.rows /\ y.trace = m.trace /\ y.groups = d.history /\ y.key = at
       /\ y.low = v.low /\ y.high = v.high
       /\ at # Gap => y.end = end /\ y.follow = (v.follow \/ fresh)
  BY <1>4, <1>5, <1>6, <1>8, <1>9 DEF ViewRec
<1>11. Advance(x) = y
  <2>1. Latest(x.rows) = at
    BY <1>1, <1>5, LatestIs
  <2> QED
    BY <2>1, <1>5 DEF Advance, end
<1>12. r = Ranged(y)
  BY <1>11 DEF Render, x
<1> HIDE DEF y, r
<1>13. /\ r \in ViewRec /\ Bounded(r) /\ r.rows = m.rows /\ r.trace = m.trace /\ r.groups = d.history
       /\ r.end = y.end /\ r.key = at /\ r.follow = y.follow
       /\ ~y.follow => \A p \in Int :
            v.low <= p /\ p < v.high /\ y.end - Len(m.rows) <= p /\ p < y.end =>
              r.low <= p /\ p < r.high
  BY <1>10, <1>12, RangedIs
<1>14. ViewOk(r)
  BY <1>1, <1>2, <1>13, SampledTimed DEF ViewOk
<1>15. ASSUME NEW i \in DOMAIN v.rows, NEW j \in DOMAIN r.rows,
              v.rows[i] # Gap, r.rows[j] = v.rows[i]
       PROVE  /\ Place(r, j) = Place(v, i)
              /\ ~v.follow /\ v.low <= Place(v, i) /\ Place(v, i) < v.high =>
                   r.low <= Place(r, j) /\ Place(r, j) < r.high
  <2> DEFINE lv == Len(v.rows)
             lr == Len(m.rows)
             a == v.key.id
             b == at.id
  <2>1. /\ i \in 1 .. lv /\ j \in 1 .. lr /\ lv \in Nat /\ lr \in Nat /\ lr <= Capacity /\ Capacity \in Nat
        /\ v.rows # <<>> /\ m.rows # <<>>
    <3>1. v.rows \in Seq(FrameRec) /\ m.rows \in Seq(FrameRec) /\ r.rows = m.rows /\ lr <= Capacity
      BY <1>1, <1>4, <1>13 DEF Numbered
    <3>2. DOMAIN v.rows = 1 .. lv /\ DOMAIN r.rows = 1 .. lr /\ lv \in Nat /\ lr \in Nat
      BY <3>1
    <3>3. i \in 1 .. lv /\ j \in 1 .. lr
      BY <3>2
    <3>4. lv # 0 /\ lr # 0
      BY <3>3, <3>2
    <3>5. Capacity \in Nat
      BY DEF HistoryAssumption
    <3> QED
      BY <3>1, <3>2, <3>3, <3>4, <3>5
  <2>2. v.rows[i].s = v.key.s /\ v.rows[i].id = a - (lv - i)
    BY <2>1, <1>4, <1>15 DEF Numbered
  <2>3. v.rows[i].s = at.s /\ v.rows[i].id = b - (lr - j) /\ at # Gap
    BY <2>1, <1>1, <1>13, <1>15, GapIs DEF Numbered
  <2>4. v.key # Gap
    BY <2>1, <1>4, GapIs DEF Numbered
  <2>5. ~fresh /\ a <= b
    BY <2>2, <2>3, <2>4, <1>6 DEF Behind
  <2>6. y.end = v.end + Lesser(Capacity, Greater(0, b - a)) /\ y.follow = v.follow
    <3>1. y.end = end /\ y.follow = (v.follow \/ fresh)
      BY <2>3, <1>10
    <3>2. end = v.end + Lesser(Capacity, Greater(0, b - a))
      BY <2>5 DEF end
    <3>3. y.follow = v.follow
      BY <3>1, <2>5, <1>4
    <3> QED
      BY <3>1, <3>2, <3>3
  <2>7. a \in Int /\ b \in Int /\ i \in Int /\ j \in Int /\ j >= 1 /\ i <= lv /\ a - (lv - i) = b - (lr - j)
    BY <2>1, <2>2, <2>3, <1>6
  <2>8. y.end \in Int /\ v.end \in Int
    BY <1>4, <1>10 DEF ViewRec
  <2>9. Place(r, j) = y.end - lr + j - 1 /\ Place(v, i) = v.end - lv + i - 1
    BY <1>13 DEF Place
  <2> DEFINE e == y.end
             end1 == v.end
             p == Place(r, j)
  <2> HIDE DEF lv, lr, a, b, e, end1, p
  <2>10. e - lr + j - 1 = end1 - lv + i - 1
    <3>1. e = end1 + Lesser(Capacity, Greater(0, b - a)) /\ end1 \in Int
      BY <2>6, <2>8 DEF e, end1
    <3>0. a \in Int /\ b \in Int /\ lr \in Int /\ lv \in Int /\ i \in Int /\ j \in Int
      BY <2>1, <2>7
    <3>2. b - a = (lr - j) - (lv - i)
      BY <2>7, <3>0, SameDistance, SMTT(30)
    <3>3. b - a <= Capacity /\ b - a >= 0
      BY <3>2, <2>1, <2>5, <2>7
    <3>4. Lesser(Capacity, Greater(0, b - a)) = b - a
      BY <3>3, <2>1, <2>7 DEF Lesser, Greater
    <3>5. e = end1 + ((lr - j) - (lv - i))
      BY <3>1, <3>2, <3>4
    <3>6. end1 \in Int /\ lr \in Int /\ lv \in Int /\ i \in Int /\ j \in Int
      BY <3>1, <2>1, <2>7
    <3> QED
      BY <3>5, <3>6
  <2>11. p = e - lr + j - 1 /\ p = Place(v, i)
    BY <2>9, <2>10 DEF e, end1, p
  <2>12. p \in Int /\ e - lr <= p /\ p < e
    <3>1. e \in Int
      BY <2>8 DEF e
    <3> QED
      BY <3>1, <2>1, <2>11
  <2>13. ASSUME ~v.follow, v.low <= p, p < v.high PROVE r.low <= p /\ p < r.high
    <3>1. ~y.follow /\ e = y.end /\ lr = Len(m.rows)
      BY <2>6, <2>13 DEF e, lr
    <3>2. y.end - Len(m.rows) <= p /\ p < y.end
      BY <3>1, <2>12
    <3> QED
      BY <3>1, <3>2, <2>12, <2>13, <1>13
  <2> QED
    BY <2>11, <2>13 DEF p
<1>16. Steady(v, r)
  BY <1>15 DEF Steady
<1> QED
  BY <1>13, <1>14, <1>16 DEF Rendered, r

-----------------------------------------------------------------------------
(* The groups that are drawn, and read.                                    *)

LEMMA FirstIs ==
  ASSUME NEW n \in Nat, NEW I, I \subseteq 1 .. n, I # {}
  PROVE  Min(I) \in I /\ \A k \in I : Min(I) <= k
<1>1. I \subseteq Nat
  OBVIOUS
<1>2. PICK m \in I : \A k \in I : <<k, m>> \notin OpToRel(<, Nat)
  BY <1>1, WFMin, NatLessThanWellFounded, Zenon
<1>3. \A k \in I : ~(k < m)
  BY <1>1, <1>2, Zenon DEF OpToRel
<1>4. \A k \in I : m <= k
  BY <1>1, <1>3
<1> QED
  BY <1>4 DEF Min

LEMMA LastIs ==
  ASSUME NEW n \in Nat, NEW I, I \subseteq 1 .. n, I # {}
  PROVE  Max(I) \in I /\ \A k \in I : k <= Max(I)
<1> DEFINE J == {n + 1 - k : k \in I}
<1>1. J \subseteq 1 .. n /\ J # {}
  <2>1. ASSUME NEW k \in I PROVE n + 1 - k \in 1 .. n
    <3>1. k \in 1 .. n
      OBVIOUS
    <3> QED
      BY <3>1
  <2> QED
    BY <2>1
<1>2. Min(J) \in J /\ \A k \in J : Min(J) <= k
  BY <1>1, FirstIs
<1>3. PICK m \in I : Min(J) = n + 1 - m
  BY <1>2
<1>4. \A k \in I : n + 1 - k \in J
  OBVIOUS
<1>5. \A k \in I : m >= k
  <2> SUFFICES ASSUME NEW k \in I PROVE m >= k
    OBVIOUS
  <2>1. n + 1 - m <= n + 1 - k
    BY <1>2, <1>3, <1>4
  <2>2. k \in Int /\ m \in Int
    OBVIOUS
  <2> QED
    BY <2>1, <2>2
<1>6. Max(I) \in I /\ \A k \in I : Max(I) >= k
  BY <1>5 DEF Max
<1> QED
  <2> SUFFICES ASSUME NEW k \in I PROVE k <= Max(I)
    BY <1>6
  <2>1. Max(I) >= k /\ Max(I) \in Int /\ k \in Int
    <3>1. Max(I) \in 1 .. n /\ k \in 1 .. n /\ Max(I) >= k
      BY <1>6
    <3> QED
      BY <3>1
  <2> QED
    BY <2>1

LEMMA RowAtPlace ==
  ASSUME NEW v, ViewOk(v), NEW i \in DOMAIN v.rows
  PROVE  RowAt(v, Place(v, i)) = v.rows[i] /\ i \in 1 .. Len(v.rows)
<1> DEFINE e == v.end
           n == Len(v.rows)
<1>1. v.rows \in Seq(FrameRec) /\ e \in Int /\ n \in Nat
  BY DEF ViewOk, ViewRec
<1>2. i \in 1 .. n
  BY <1>1
<1> HIDE DEF e, n
<1>3. (e - n + i - 1) - (e - n) + 1 = i
  BY <1>1, <1>2
<1>4. Place(v, i) - (v.end - Len(v.rows)) + 1 = i
  BY <1>3 DEF e, n, Place
<1> QED
  BY <1>2, <1>4 DEF RowAt, n

LEMMA OldestIs ==
  ASSUME NEW rows, NEW top, Numbered(rows, top), NEW i \in 1 .. Len(rows), rows[i] # Gap
  PROVE  /\ Oldest(rows) # Gap /\ Oldest(rows).s = top.s /\ Oldest(rows).id \in Nat
         /\ Oldest(rows).id <= rows[i].id /\ rows[i].id <= top.id /\ rows[i].s = top.s
         /\ rows[i].id \in Nat /\ top.id \in Nat
<1> DEFINE I == {k \in 1 .. Len(rows) : rows[k] # Gap}
           n == Len(rows)
           m == Min(I)
<1>1. rows \in Seq(FrameRec) /\ n \in Nat /\ DOMAIN rows = 1 .. n /\ rows # <<>>
  BY DEF Numbered
<1>2. I \subseteq 1 .. n /\ i \in I
  OBVIOUS
<1> HIDE DEF m
<1>3. m \in I /\ m <= i
  <2> HIDE DEF I, n
  <2> QED
    BY <1>1, <1>2, FirstIs DEF m
<1>4. Oldest(rows) = rows[m]
  <2>1. \E k \in DOMAIN rows : rows[k] # Gap
    BY <1>1
  <2>2. Oldest(rows) = rows[IF I # {} THEN Min(I) ELSE 0]
    BY <2>1 DEF Oldest, SelectInSeq
  <2> QED
    BY <2>2, <1>2 DEF m
<1>5. \A k \in 1 .. n : rows[k] # Gap => rows[k].s = top.s /\ rows[k].id = top.id - (n - k)
  BY DEF Numbered
<1>6. top.id \in Nat /\ rows[m].id \in Nat /\ rows[i].id \in Nat
  BY <1>1, <1>3 DEF Numbered, IsFrame, FrameRec
<1>7. m \in 1 .. n /\ rows[m] # Gap
  BY <1>3
<1>8. rows[m].id = top.id - (n - m) /\ rows[i].id = top.id - (n - i)
  BY <1>5, <1>7
<1>9. rows[m].id <= rows[i].id /\ rows[i].id <= top.id
  <2> DEFINE a == rows[m].id
             b == rows[i].id
             c == top.id
  <2>1. a = c - (n - m) /\ b = c - (n - i) /\ c \in Int /\ m \in Int /\ m <= i /\ i \in 1 .. n
    BY <1>3, <1>6, <1>7, <1>8
  <2> HIDE DEF a, b, c, n
  <2>2. a <= b /\ b <= c
    BY <2>1, <1>1
  <2> QED
    BY <2>2 DEF a, b, c
<1> QED
  BY <1>4, <1>5, <1>6, <1>7, <1>9

LEMMA GroupsAgree ==
  ASSUME NEW v, ViewOk(v), NEW i \in DOMAIN v.rows
  PROVE  GroupDrawn(v, Place(v, i)) = GroupAt(v, Place(v, i))
<1> DEFINE f == v.rows[i]
           gs == v.groups
           n == Len(gs)
           y == Place(v, i)
           I == {k \in 1 .. n : InImage(v, gs[k]) /\ gs[k].last.id >= f.id}
           J == {k \in 1 .. n : gs[k].s = f.s /\ Covers(gs[k], f)}
           a == IF I # {} THEN Min(I) ELSE 0
           b == IF J # {} THEN Max(J) ELSE 0
<1>1. RowAt(v, y) = f /\ i \in 1 .. Len(v.rows)
  BY RowAtPlace
<1>2. /\ GroupDrawn(v, y) = IF f = Gap \/ a = 0 \/ ~Covers(gs[a], f) THEN NoGroup ELSE gs[a]
      /\ GroupAt(v, y) = IF f = Gap \/ b = 0 THEN NoGroup ELSE gs[b]
  <2> HIDE DEF y
  <2> QED
    BY <1>1 DEF GroupDrawn, GroupAt, SelectInSeq, SelectLastInSeq
<1>3. CASE f = Gap
  BY <1>2, <1>3
<1>4. CASE f # Gap
  <2>1. PICK top \in Int : Grouped(gs, v.key.s, top)
    BY DEF ViewOk
  <2>2. Numbered(v.rows, v.key)
    BY DEF ViewOk
  <2> DEFINE o == Oldest(v.rows)
  <2>3. /\ o # Gap /\ o.s = f.s /\ f.s = v.key.s /\ o.id \in Nat /\ o.id <= f.id /\ f.id <= v.key.id
        /\ f.id \in Nat /\ v.key.id \in Nat /\ Latest(v.rows) = v.key
    BY <1>1, <1>4, <2>2, OldestIs, LatestIs
  <2> HIDE DEF o
  <2>4. n \in Nat /\ gs \in Seq(GroupRec)
    BY <2>1 DEF Grouped
  <2>5. ASSUME NEW k \in 1 .. n
        PROVE  gs[k].s = f.s /\ gs[k].first.id \in Nat /\ gs[k].last.id \in Nat
    <3>1. gs[k] \in GroupRec /\ Whole(gs[k], v.key.s)
      BY <2>1, <2>4 DEF Grouped
    <3> QED
      BY <3>1, <2>3, GroupIs DEF Whole
  <2>6. \A k, l \in 1 .. n : k < l => gs[k].last.id < gs[l].first.id
    BY <2>1 DEF Grouped
  <2>7. \A k \in J : k \in I
    <3> SUFFICES ASSUME NEW k \in J PROVE k \in I
      OBVIOUS
    <3> DEFINE p == gs[k].first.id
               q == gs[k].last.id
    <3>1. gs[k].s = f.s /\ p <= f.id /\ f.id <= q /\ p \in Nat /\ q \in Nat
      BY <2>5 DEF Covers
    <3> HIDE DEF p, q
    <3>2. q >= o.id /\ p <= v.key.id /\ q >= f.id
      BY <3>1, <2>3
    <3>3. InImage(v, gs[k])
      BY <3>1, <3>2, <2>3 DEF InImage, o, p, q
    <3> QED
      BY <3>2, <3>3 DEF q
  <2>8. I # {} => Min(I) \in I /\ \A k \in I : Min(I) <= k
    <3>1. I \subseteq 1 .. n
      OBVIOUS
    <3> HIDE DEF I, n
    <3> QED
      BY <3>1, <2>4, FirstIs
  <2>9. J # {} => Max(J) \in J /\ \A k \in J : k <= Max(J)
    <3>1. J \subseteq 1 .. n
      OBVIOUS
    <3> HIDE DEF J, n
    <3> QED
      BY <3>1, <2>4, LastIs
  <2>10. CASE J = {}
    <3>1. a # 0 => ~Covers(gs[a], f)
      <4> SUFFICES ASSUME a # 0 PROVE ~Covers(gs[a], f)
        OBVIOUS
      <4>1. a \in 1 .. n
        BY <2>8
      <4> HIDE DEF a
      <4> QED
        BY <4>1, <2>5, <2>10
    <3>2. b = 0
      BY <2>10
    <3> HIDE DEF a, b
    <3> QED
      BY <3>1, <3>2, <1>2
  <2>11. CASE J # {}
    <3>1. b \in J /\ b \in I /\ a \in I /\ a <= b
      BY <2>7, <2>8, <2>9, <2>11
    <3>4. (\A k \in I : k \in 1 .. n /\ gs[k].last.id >= f.id) /\ (\A k \in J : Covers(gs[k], f))
      OBVIOUS
    <3>2. a \in 1 .. n /\ b \in 1 .. n /\ gs[a].last.id >= f.id /\ Covers(gs[b], f) /\ a # 0 /\ b # 0
      <4> HIDE DEF a, b, I, J, n
      <4>1. a \in 1 .. n /\ b \in 1 .. n /\ gs[a].last.id >= f.id /\ Covers(gs[b], f)
        BY <3>1, <3>4
      <4> QED
        BY <4>1, <2>4
    <3> HIDE DEF a, b, I, J
    <3>3. a = b
      <4> SUFFICES ASSUME a < b PROVE FALSE
        BY <3>1, <3>2, <2>4
      <4> DEFINE p == gs[a].last.id
                 q == gs[b].first.id
      <4>1. p < q /\ p >= f.id /\ q <= f.id /\ p \in Nat /\ q \in Nat
        BY <3>2, <2>5, <2>6, SMTT(30) DEF Covers
      <4> HIDE DEF p, q
      <4> QED
        BY <4>1, <2>3
    <3> QED
      BY <3>2, <3>3, <1>2, SMTT(30)
  <2> QED
    BY <2>10, <2>11
<1> QED
  BY <1>3, <1>4

-----------------------------------------------------------------------------
(* The curves over time.                                                   *)

\* The points of the first n samples.
Points(trace, n) ==
  CHOOSE f : f = [i \in 0 .. n |-> IF i = 0 THEN <<>> ELSE f[i - 1] \o Piece(trace, i)]

LEMMA PointsExist ==
  ASSUME NEW trace, NEW n \in Nat
  PROVE  Points(trace, n) =
           [i \in 0 .. n |-> IF i = 0 THEN <<>> ELSE Points(trace, n)[i - 1] \o Piece(trace, i)]
<1> DEFINE Of(f, k) == f = [i \in 0 .. k |-> IF i = 0 THEN <<>> ELSE f[i - 1] \o Piece(trace, i)]
           bad == {k \in 0 .. n : ~\E f : Of(f, k)}
<1>1. bad = {}
  <2> SUFFICES ASSUME bad # {} PROVE FALSE
    OBVIOUS
  <2>1. bad \subseteq Nat
    OBVIOUS
  <2>2. PICK m \in bad : \A k \in bad : <<k, m>> \notin OpToRel(<, Nat)
    BY <2>1, WFMin, NatLessThanWellFounded, Zenon
  <2>3. \A k \in bad : ~(k < m)
    BY <2>1, <2>2, Zenon DEF OpToRel
  <2>4. m \in 0 .. n /\ ~\E f : Of(f, m)
    OBVIOUS
  <2>5. CASE m = 0
    <3>1. Of([i \in 0 .. m |-> <<>>], m)
      BY <2>5
    <3> HIDE DEF Of
    <3> QED
      BY <3>1, <2>4
  <2>6. CASE m # 0
    <3>1. m - 1 \in 0 .. n /\ m - 1 < m
      BY <2>4, <2>6
    <3>2. m - 1 \notin bad
      BY <2>3, <3>1
    <3>3. PICK f : Of(f, m - 1)
      BY <3>1, <3>2
    <3> DEFINE g == [i \in 0 .. m |-> IF i = m THEN f[m - 1] \o Piece(trace, m) ELSE f[i]]
    <3>4. ASSUME NEW i \in 0 .. m
          PROVE  g[i] = IF i = 0 THEN <<>> ELSE g[i - 1] \o Piece(trace, i)
      <4>1. CASE i = m
        <5>1. g[i] = f[m - 1] \o Piece(trace, m) /\ g[i - 1] = f[m - 1]
          BY <4>1, <2>4, <2>6
        <5> QED
          BY <5>1, <4>1, <2>6
      <4>2. CASE i # m
        <5>1. i \in 0 .. m - 1 /\ g[i] = f[i]
          BY <4>2, <2>4
        <5>2. f[i] = IF i = 0 THEN <<>> ELSE f[i - 1] \o Piece(trace, i)
          BY <5>1, <3>3
        <5>3. CASE i = 0
          BY <5>1, <5>2, <5>3
        <5>4. CASE i # 0
          <6>1. i - 1 \in 0 .. m /\ i - 1 # m
            BY <5>1, <5>4, <2>4
          <6>2. g[i - 1] = f[i - 1]
            BY <6>1
          <6> QED
            BY <5>1, <5>2, <5>4, <6>2
        <5> QED
          BY <5>3, <5>4
      <4> QED
        BY <4>1, <4>2
    <3>5. g = [i \in 0 .. m |-> g[i]]
      OBVIOUS
    <3> HIDE DEF g
    <3>6. Of(g, m)
      BY <3>4, <3>5
    <3> HIDE DEF Of
    <3> QED
      BY <3>6, <2>4
  <2> QED
    BY <2>5, <2>6
<1>2. \E f : Of(f, n)
  <2>1. n \in 0 .. n
    OBVIOUS
  <2> HIDE DEF Of
  <2> QED
    BY <2>1, <1>1
<1> QED
  BY <1>2, Zenon DEF Points

\* Two points that may be joined.
Fits(g, f) == g # Gap /\ f # Gap => f.s = g.s /\ f.id = g.id + 1 /\ f.t - g.t = 2

Joins(q) == \A k \in 2 .. Len(q) : Fits(q[k - 1], q[k])

LEMMA JoinPiece ==
  ASSUME NEW trace, Timed(trace), NEW i \in 1 .. Len(trace),
         NEW q \in Seq(FrameRec), Joins(q),
         i > 1 => Len(q) > 0 /\ q[Len(q)] = trace[i - 1].frame, i = 1 => q = <<>>
  PROVE  LET r == q \o Piece(trace, i) IN
         /\ r \in Seq(FrameRec) /\ Joins(r) /\ Len(r) > 0 /\ r[Len(r)] = trace[i].frame
         /\ \A x : x # Gap => ((\E k \in 1 .. Len(r) : r[k] = x) <=>
                                 (\E k \in 1 .. Len(q) : q[k] = x) \/ x = trace[i].frame)
<1> DEFINE f == trace[i].frame
           p == Piece(trace, i)
           r == q \o p
           cut == i > 1 /\ trace[i].frame # Gap /\ Cut(trace[i - 1].frame, trace[i].frame)
<1>1. trace \in Seq(SampleRec) /\ f \in FrameRec /\ Len(q) \in Nat /\ Gap \in FrameRec
  <2>1. trace \in Seq(SampleRec)
    BY DEF Timed
  <2>2. trace[i] \in SampleRec
    BY <2>1
  <2> QED
    BY <2>1, <2>2, GapIs DEF SampleRec
<1>2. p = IF cut THEN <<Gap, f>> ELSE <<f>>
  BY DEF Piece
<1>3. CASE cut
  <2>1. /\ r \in Seq(FrameRec) /\ Len(r) = Len(q) + 2 /\ r[Len(q) + 1] = Gap /\ r[Len(q) + 2] = f
        /\ \A k \in 1 .. Len(q) : r[k] = q[k]
    BY <1>1, <1>2, <1>3
  <2> HIDE DEF r, f
  <2>2. Joins(r)
    <3> SUFFICES ASSUME NEW k \in 2 .. Len(r) PROVE Fits(r[k - 1], r[k])
      BY DEF Joins
    <3>1. CASE k <= Len(q)
      <4>1. k \in 2 .. Len(q) /\ k - 1 \in 1 .. Len(q) /\ k \in 1 .. Len(q)
        BY <3>1, <1>1
      <4> QED
        BY <4>1, <2>1 DEF Joins
    <3>2. CASE k = Len(q) + 1
      BY <3>2, <2>1 DEF Fits
    <3>3. CASE k = Len(q) + 2
      <4>1. k - 1 = Len(q) + 1
        BY <3>3, <1>1
      <4> QED
        BY <4>1, <2>1 DEF Fits
    <3> QED
      BY <3>1, <3>2, <3>3, <2>1, <1>1
  <2>3. ASSUME NEW x, x # Gap
        PROVE  (\E k \in 1 .. Len(r) : r[k] = x) <=> (\E k \in 1 .. Len(q) : q[k] = x) \/ x = f
    <3>1. ASSUME NEW k \in 1 .. Len(r), r[k] = x PROVE (\E l \in 1 .. Len(q) : q[l] = x) \/ x = f
      <4>1. k \in 1 .. Len(q) \/ k = Len(q) + 1 \/ k = Len(q) + 2
        BY <2>1, <1>1
      <4> QED
        BY <4>1, <2>1, <2>3, <3>1
    <3>2. ASSUME NEW k \in 1 .. Len(q), q[k] = x PROVE \E l \in 1 .. Len(r) : r[l] = x
      <4>1. k \in 1 .. Len(r)
        BY <2>1, <1>1
      <4> QED
        BY <4>1, <2>1, <3>2
    <3>3. ASSUME x = f PROVE \E l \in 1 .. Len(r) : r[l] = x
      <4>1. Len(q) + 2 \in 1 .. Len(r)
        BY <2>1, <1>1
      <4> QED
        BY <4>1, <2>1, <3>3
    <3> QED
      BY <3>1, <3>2, <3>3
  <2>4. Len(r) > 0 /\ r[Len(r)] = f
    BY <2>1, <1>1
  <2> QED
    BY <2>1, <2>2, <2>3, <2>4 DEF r, f
<1>4. CASE ~cut
  <2>1. /\ r \in Seq(FrameRec) /\ Len(r) = Len(q) + 1 /\ r[Len(q) + 1] = f
        /\ \A k \in 1 .. Len(q) : r[k] = q[k]
    BY <1>1, <1>2, <1>4
  <2>5. Len(q) > 0 => Fits(q[Len(q)], f)
    <3> SUFFICES ASSUME Len(q) > 0, q[Len(q)] # Gap, f # Gap
                 PROVE  LET g == q[Len(q)] IN f.s = g.s /\ f.id = g.id + 1 /\ f.t - g.t = 2
      BY DEF Fits
    <3>1. i > 1
      <4>1. i # 1
        OBVIOUS
      <4> QED
        BY <4>1
    <3> DEFINE g == trace[i - 1].frame
    <3>2. q[Len(q)] = g /\ g # Gap /\ ~Cut(g, f)
      BY <3>1, <1>4
    <3>3. f.s = g.s /\ f.id = g.id + 1 /\ ~Break(g.t, f)
      BY <3>2 DEF Cut
    <3>4. i - 1 \in 1 .. Len(trace) - 1 /\ i - 1 \in 1 .. Len(trace) /\ (i - 1) + 1 = i
      BY <3>1, <1>1
    <3>5. IsFrame(g) /\ IsFrame(f)
      BY <3>2, <3>4 DEF Timed
    <3>6. f.t - g.t \in {2, 5}
      <4>1. \A k \in 1 .. Len(trace) - 1 :
              trace[k].frame # Gap /\ trace[k + 1].frame # Gap =>
                trace[k + 1].frame.t - trace[k].frame.t \in {2, 5}
        BY DEF Timed
      <4> QED
        BY <4>1, <3>2, <3>4
    <3>7. f.t \in Nat /\ g.t \in Nat /\ g.t > 0
      BY <3>5 DEF IsFrame, FrameRec
    <3> HIDE DEF f, g
    <3>8. f.t - g.t = 2
      BY <3>3, <3>6, <3>7 DEF Break
    <3> QED
      BY <3>2, <3>3, <3>8
  <2> HIDE DEF r, f
  <2>2. Joins(r)
    <3> SUFFICES ASSUME NEW k \in 2 .. Len(r) PROVE Fits(r[k - 1], r[k])
      BY DEF Joins
    <3>1. CASE k <= Len(q)
      <4>1. k \in 2 .. Len(q) /\ k - 1 \in 1 .. Len(q) /\ k \in 1 .. Len(q)
        BY <3>1, <1>1
      <4> QED
        BY <4>1, <2>1 DEF Joins
    <3>2. CASE k = Len(q) + 1
      <4>1. k - 1 = Len(q) /\ Len(q) \in 1 .. Len(q) /\ Len(q) > 0
        BY <3>2, <1>1
      <4> QED
        BY <4>1, <3>2, <2>1, <2>5
    <3> QED
      BY <3>1, <3>2, <2>1, <1>1
  <2>3. ASSUME NEW x, x # Gap
        PROVE  (\E k \in 1 .. Len(r) : r[k] = x) <=> (\E k \in 1 .. Len(q) : q[k] = x) \/ x = f
    <3>1. ASSUME NEW k \in 1 .. Len(r), r[k] = x PROVE (\E l \in 1 .. Len(q) : q[l] = x) \/ x = f
      <4>1. k \in 1 .. Len(q) \/ k = Len(q) + 1
        BY <2>1, <1>1
      <4> QED
        BY <4>1, <2>1, <3>1
    <3>2. ASSUME NEW k \in 1 .. Len(q), q[k] = x PROVE \E l \in 1 .. Len(r) : r[l] = x
      <4>1. k \in 1 .. Len(r)
        BY <2>1, <1>1
      <4> QED
        BY <4>1, <2>1, <3>2
    <3>3. ASSUME x = f PROVE \E l \in 1 .. Len(r) : r[l] = x
      <4>1. Len(q) + 1 \in 1 .. Len(r)
        BY <2>1, <1>1
      <4> QED
        BY <4>1, <2>1, <3>3
    <3> QED
      BY <3>1, <3>2, <3>3
  <2>4. Len(r) > 0 /\ r[Len(r)] = f
    BY <2>1, <1>1
  <2> QED
    BY <2>1, <2>2, <2>3, <2>4 DEF r, f
<1> QED
  BY <1>3, <1>4

\* The points of a sequence but for the gaps are of these samples.
SameFrames(q, trace, n) ==
  \A x : x # Gap => ((\E k \in 1 .. Len(q) : q[k] = x) <=> (\E k \in 1 .. n : trace[k].frame = x))

LEMMA SeriesIs ==
  ASSUME NEW trace, Timed(trace)
  PROVE  Series(trace) \in Seq(FrameRec) /\ Joins(Series(trace))
         /\ SameFrames(Series(trace), trace, Len(trace))
<1> DEFINE n == Len(trace)
           points == Points(trace, n)
           Fine(i) == /\ points[i] \in Seq(FrameRec) /\ Joins(points[i])
                      /\ i > 0 => Len(points[i]) > 0 /\ points[i][Len(points[i])] = trace[i].frame
                      /\ SameFrames(points[i], trace, i)
           bad == {i \in 0 .. n : ~Fine(i)}
<1>1. n \in Nat
  BY DEF Timed
<1>2. points = [i \in 0 .. n |-> IF i = 0 THEN <<>> ELSE points[i - 1] \o Piece(trace, i)]
  BY <1>1, PointsExist
<1>3. Series(trace) = points[n]
  BY DEF Series, Points
<1> HIDE DEF points
<1>4. points[0] = <<>> /\ \A i \in 1 .. n : points[i] = points[i - 1] \o Piece(trace, i)
  <2>1. ASSUME NEW i \in 0 .. n
        PROVE  points[i] = IF i = 0 THEN <<>> ELSE points[i - 1] \o Piece(trace, i)
    BY <1>2
  <2>2. 0 \in 0 .. n /\ \A i \in 1 .. n : i \in 0 .. n /\ i # 0
    BY <1>1
  <2> HIDE DEF n
  <2> QED
    BY <2>1, <2>2
<1>5. Fine(0)
  <2>1. points[0] = <<>> /\ Len(<<>>) = 0
    BY <1>4
  <2>2. <<>> \in Seq(FrameRec)
    OBVIOUS
  <2> QED
    BY <2>1, <2>2 DEF Joins, SameFrames
<1>6. bad = {}
  <2> SUFFICES ASSUME bad # {} PROVE FALSE
    OBVIOUS
  <2>1. bad \subseteq Nat
    OBVIOUS
  <2>2. PICK m \in bad : \A k \in bad : <<k, m>> \notin OpToRel(<, Nat)
    <3> HIDE DEF bad
    <3> QED
      BY <2>1, WFMin, NatLessThanWellFounded, Zenon
  <2>3. \A k \in bad : ~(k < m)
    <3> HIDE DEF bad
    <3> QED
      BY <2>1, <2>2, Zenon DEF OpToRel
  <2>4. m \in 0 .. n /\ ~Fine(m)
    OBVIOUS
  <2> HIDE DEF Fine
  <2>5. m # 0
    BY <2>4, <1>5
  <2>6. m \in 1 .. n /\ m - 1 \in 0 .. n /\ m - 1 < m
    BY <2>4, <2>5, <1>1
  <2>7. Fine(m - 1)
    BY <2>3, <2>6
  <2> DEFINE q == points[m - 1]
             r == q \o Piece(trace, m)
  <2>8. /\ q \in Seq(FrameRec) /\ Joins(q) /\ SameFrames(q, trace, m - 1)
        /\ m > 1 => Len(q) > 0 /\ q[Len(q)] = trace[m - 1].frame
    BY <2>6, <2>7 DEF Fine
  <2>9. m = 1 => q = <<>>
    BY <1>4
  <2>10. points[m] = r
    BY <2>6, <1>4
  <2> HIDE DEF q
  <2>11. /\ r \in Seq(FrameRec) /\ Joins(r) /\ Len(r) > 0 /\ r[Len(r)] = trace[m].frame
         /\ \A x : x # Gap => ((\E k \in 1 .. Len(r) : r[k] = x) <=>
                                 (\E k \in 1 .. Len(q) : q[k] = x) \/ x = trace[m].frame)
    BY <2>6, <2>8, <2>9, JoinPiece
  <2> HIDE DEF r
  <2>12. SameFrames(r, trace, m)
    <3> SUFFICES ASSUME NEW x, x # Gap
                 PROVE  (\E k \in 1 .. Len(r) : r[k] = x) <=> (\E k \in 1 .. m : trace[k].frame = x)
      BY DEF SameFrames
    <3>1. (\E k \in 1 .. Len(q) : q[k] = x) <=> (\E k \in 1 .. m - 1 : trace[k].frame = x)
      BY <2>8 DEF SameFrames
    <3>2. (\E k \in 1 .. m : trace[k].frame = x) <=>
            (\E k \in 1 .. m - 1 : trace[k].frame = x) \/ trace[m].frame = x
      <4>1. 1 .. m = (1 .. m - 1) \cup {m}
        BY <2>6
      <4> QED
        BY <4>1
    <3> QED
      BY <3>1, <3>2, <2>11
  <2>13. Fine(m)
    BY <2>10, <2>11, <2>12 DEF Fine
  <2> QED
    BY <2>4, <2>13
<1>7. Fine(n)
  <2>1. n \in 0 .. n
    BY <1>1
  <2> HIDE DEF Fine
  <2> QED
    BY <2>1, <1>6
<1> QED
  BY <1>3, <1>7

LEMMA LinesJoin ==
  ASSUME ViewOk(view)
  PROVE  LinesJoinNeighbours
<1> DEFINE points == Series(view.trace)
           trace == view.trace
<1>1. /\ points \in Seq(FrameRec) /\ Joins(points) /\ SameFrames(points, trace, Len(trace))
      /\ trace \in Seq(SampleRec)
  BY SeriesIs DEF ViewOk, Timed
<1>2. ToSet(trace) = {trace[k] : k \in 1 .. Len(trace)}
  BY <1>1 DEF ToSet
<1> HIDE DEF points, trace
<1>3. {points[i] : i \in DOMAIN points} \ {Gap} = {x.frame : x \in ToSet(trace)} \ {Gap}
  <2>1. DOMAIN points = 1 .. Len(points)
    BY <1>1
  <2>2. ASSUME NEW f, f # Gap
        PROVE  f \in {points[i] : i \in DOMAIN points} <=> f \in {x.frame : x \in ToSet(trace)}
    <3>1. f \in {points[i] : i \in DOMAIN points} <=> \E k \in 1 .. Len(points) : points[k] = f
      BY <2>1
    <3>2. f \in {x.frame : x \in ToSet(trace)} <=> \E k \in 1 .. Len(trace) : trace[k].frame = f
      BY <1>2
    <3> QED
      BY <3>1, <3>2, <1>1, <2>2 DEF SameFrames
  <2> QED
    BY <2>2
<1>4. \A i \in 2 .. Len(points) : Fits(points[i - 1], points[i])
  BY <1>1 DEF Joins
<1> QED
  BY <1>3, <1>4 DEF LinesJoinNeighbours, Fits, points, trace

-----------------------------------------------------------------------------
(* The invariant of the history and its display.                           *)

PointRec == [y : Int, t : Nat]

DriftOk ==
  /\ drift \in [plot : {"", "fast", "deep"}, points : Seq(PointRec)]
  /\ paused \in BOOLEAN /\ (drift.points # <<>> => paused)
  /\ \A n \in 1 .. Len(drift.points) :
       drift.points[n].t = StampAt(view, drift.plot, drift.points[n].y)

HistoryInv ==
  /\ sent = Gap \/ IsFrame(sent)
  /\ ModelOk(model, sent) /\ DeepOk(deep, sent)
  /\ ViewOk(view) /\ Behind(view.key, sent)
  /\ DriftOk

LEMMA PairIs ==
  ASSUME NEW S, NEW T, NEW e \in S, NEW q \in T, NEW d, d = [plot |-> e, points |-> q]
  PROVE  d \in [plot : S, points : T] /\ d.points = q
OBVIOUS

LEMMA EmptyIs ==
  ASSUME NEW d, NEW q, q = <<>>, d.points = q
  PROVE  1 .. Len(d.points) = {}
<1>1. Len(d.points) = 0
  BY EmptySeq
<1> QED
  BY <1>1

LEMMA NoPoints ==
  ASSUME NEW d, d = [plot |-> "", points |-> <<>>]
  PROVE  /\ d \in [plot : {"", "fast", "deep"}, points : Seq(PointRec)]
         /\ d.points = <<>> /\ 1 .. Len(d.points) = {}
<1>1. <<>> \in Seq(PointRec)
  BY EmptySeq
<1>2. "" \in {"", "fast", "deep"}
  BY Zenon
<1>3. d \in [plot : {"", "fast", "deep"}, points : Seq(PointRec)] /\ d.points = <<>>
  BY <1>1, <1>2, PairIs, Zenon
<1>4. 1 .. Len(d.points) = {}
  BY <1>3, EmptyIs, Zenon
<1> QED
  BY <1>3, <1>4, Zenon

LEMMA StampIs ==
  ASSUME NEW v, ViewOk(v), NEW plot, NEW y
  PROVE  StampAt(v, plot, y) \in Nat
<1> DEFINE i == y - (v.end - Len(v.rows)) + 1
           f == RowAt(v, y)
           J == {k \in 1 .. Len(v.groups) : v.groups[k].s = f.s /\ Covers(v.groups[k], f)}
           b == IF J # {} THEN Max(J) ELSE 0
<1>1. v.rows \in Seq(FrameRec) /\ v.groups \in Seq(GroupRec) /\ Len(v.groups) \in Nat
  BY DEF ViewOk, ViewRec
<1>2. f \in FrameRec
  BY <1>1, GapIs DEF RowAt
<1>3. f.t \in Nat
  BY <1>2 DEF FrameRec
<1>4. GroupAt(v, y) = IF f = Gap \/ b = 0 THEN NoGroup ELSE v.groups[b]
  BY DEF GroupAt, SelectLastInSeq
<1>5. b = 0 \/ b \in 1 .. Len(v.groups)
  <2>1. J \subseteq 1 .. Len(v.groups)
    OBVIOUS
  <2> HIDE DEF J
  <2> QED
    BY <1>1, <2>1, LastIs
<1>6. NoGroup.last.t = 0
  BY DEF NoGroup, Gap
<1> HIDE DEF f, b
<1>7. GroupAt(v, y).last.t \in Nat
  <2>1. CASE f = Gap \/ b = 0
    BY <2>1, <1>4, <1>6
  <2>2. CASE ~(f = Gap \/ b = 0)
    <3>1. v.groups[b] \in GroupRec
      BY <2>2, <1>1, <1>5
    <3> QED
      BY <2>2, <3>1, <1>4, GroupIs
  <2> QED
    BY <2>1, <2>2
<1> QED
  BY <1>3, <1>7 DEF StampAt, f

LEMMA SameStamps ==
  ASSUME NEW v, NEW w, v.rows = w.rows, v.groups = w.groups, v.end = w.end, NEW plot, NEW y
  PROVE  StampAt(v, plot, y) = StampAt(w, plot, y)
<1>1. RowAt(v, y) = RowAt(w, y)
  BY DEF RowAt
<1>2. GroupAt(v, y) = GroupAt(w, y)
  BY <1>1 DEF GroupAt, SelectLastInSeq
<1> QED
  BY <1>1, <1>2 DEF StampAt

LEMMA Reranged ==
  ASSUME HistoryAssumption, NEW v, ViewOk(v), NEW x \in ViewRec, x.rows = v.rows, x.trace = v.trace,
         x.groups = v.groups, x.end = v.end, x.key = v.key
  PROVE  LET r == Ranged(x) IN
         /\ ViewOk(r) /\ r.rows = v.rows /\ r.groups = v.groups /\ r.end = v.end /\ r.key = v.key
<1>1. /\ Ranged(x) \in ViewRec /\ Bounded(Ranged(x)) /\ Ranged(x).rows = v.rows
      /\ Ranged(x).trace = v.trace /\ Ranged(x).groups = v.groups /\ Ranged(x).end = v.end
      /\ Ranged(x).key = v.key
  BY RangedIs
<1> QED
  BY <1>1 DEF ViewOk

LEMMA InitHistory == HistoryAssumption /\ Init => HistoryInv
<1> SUFFICES ASSUME HistoryAssumption, Init PROVE HistoryInv
  OBVIOUS
<1>1. Capacity \in Nat \ {0} /\ History \in Nat \ {0} /\ Deep \in Nat \ {0} /\ Spans \subseteq 2 .. Capacity
  BY DEF HistoryAssumption
<1>2. <<>> \in Seq(FrameRec) /\ <<>> \in Seq(SampleRec) /\ <<>> \in Seq(GroupRec) /\ <<>> \in Seq(Nat)
      /\ <<>> \in Seq(PointRec) /\ Len(<<>>) = 0
  OBVIOUS
<1>3. Numbered(<<>>, Gap) /\ Timed(<<>>)
  BY <1>1, <1>2 DEF Numbered, Timed
<1>4. ModelOk(model, sent)
  <2>1. PICK b \in Bins :
          model = [session |-> 0, last |-> 0, rows |-> <<>>, trace |-> <<>>, bin |-> b]
    BY DEF Init
  <2>2. sent = Gap
    BY DEF Init
  <2>3. Sampled(<<>>, <<>>, b)
    BY <1>2 DEF Sampled
  <2> QED
    BY <1>2, <1>3, <2>1, <2>2, <2>3, GapIs DEF ModelOk
<1>5. DeepOk(deep, sent)
  <2>1. /\ sent = Gap /\ deep.session = 0 /\ deep.last = 0 /\ deep.t = 0 /\ deep.number = 0
        /\ deep.acc = <<>> /\ deep.history = <<>>
    BY DEF Init
  <2>2. Grouped(<<>>, sent.s, sent.id)
    BY NoGroups
  <2> QED
    BY <1>1, <1>2, <2>1, <2>2, GapIs DEF DeepOk
<1>6. ViewOk(view) /\ view.key = Gap
  <2>1. PICK n \in Spans :
          view = Ranged([rows |-> <<>>, trace |-> <<>>, groups |-> <<>>, end |-> History, key |-> Gap,
                         follow |-> TRUE, low |-> 0, high |-> History, span |-> n])
    BY DEF Init
  <2> DEFINE x == [rows |-> <<>>, trace |-> <<>>, groups |-> <<>>, end |-> History, key |-> Gap,
                   follow |-> TRUE, low |-> 0, high |-> History, span |-> n]
  <2>2. x \in ViewRec
    BY <1>1, <1>2, GapIs DEF ViewRec
  <2>3. x.rows = <<>> /\ x.trace = <<>> /\ x.groups = <<>> /\ x.key = Gap
    OBVIOUS
  <2> HIDE DEF x
  <2>4. /\ Ranged(x) \in ViewRec /\ Bounded(Ranged(x)) /\ Ranged(x).rows = <<>>
        /\ Ranged(x).trace = <<>> /\ Ranged(x).groups = <<>> /\ Ranged(x).key = Gap
    BY <2>2, <2>3, RangedIs
  <2>5. view = Ranged(x)
    BY <2>1 DEF x
  <2>6. 0 \in Int /\ Grouped(<<>>, Gap.s, 0)
    BY NoGroups
  <2> QED
    BY <1>3, <2>4, <2>5, <2>6 DEF ViewOk
<1>7. DriftOk
  <2>1. drift = [plot |-> "", points |-> <<>>] /\ paused = FALSE
    BY DEF Init
  <2> QED
    BY <2>1, NoPoints DEF DriftOk
<1> QED
  BY <1>4, <1>5, <1>6, <1>7 DEF HistoryInv, Behind, Init

LEMMA Redrawn ==
  ASSUME HistoryAssumption, NEW at, at = Gap \/ IsFrame(at), NEW m, ModelOk(m, at),
         NEW d, DeepOk(d, at), NEW v, ViewOk(v), Behind(v.key, at)
  PROVE  LET r == Render(v, m, d)
         IN  ViewOk(r) /\ r.key = at /\ Behind(r.key, at) /\ Steady(v, r)
<1>1. Rendered(v, Render(v, m, d), m, d, at)
  BY RenderIs
<1>2. Behind(at, at)
  <2>1. at.id \in Nat
    BY GapIs DEF IsFrame, FrameRec
  <2> QED
    BY <2>1 DEF Behind
<1> QED
  BY <1>1, <1>2 DEF Rendered

\* What the frames of a tick make of the model and of the groups.
LEMMA Received ==
  ASSUME HistoryAssumption, HistoryInv, Receive
  PROVE  /\ IsFrame(sent') /\ ModelOk(model', sent') /\ DeepOk(deep', sent')
         /\ Behind(sent, sent') /\ Redraw /\ UNCHANGED <<paused, drift>>
<1>1. sent = Gap \/ IsFrame(sent)
  BY DEF HistoryInv
<1>2. PICK f \in After(sent) :
        \/ Update(f, Push(model, f), DeepPush(deep, f))
        \/ \E g \in After(f) :
             Update(g, Push(Push(model, f), g), DeepPush(DeepPush(deep, f), g))
  BY DEF Receive
<1>3. Coming(sent, f)
  BY <1>1, AfterIs
<1>4. IsFrame(f) /\ ModelOk(Push(model, f), f) /\ DeepOk(DeepPush(deep, f), f) /\ Behind(sent, f)
  <2>1. IsFrame(f)
    BY <1>3 DEF Coming
  <2>2. ModelOk(Push(model, f), f) /\ DeepOk(DeepPush(deep, f), f)
    BY <1>1, <1>3, Pushed, DeepPushed DEF HistoryInv
  <2>3. sent.s \in Nat /\ sent.id \in Nat /\ f.s \in Nat /\ f.id \in Nat
    BY <1>1, <2>1, GapIs DEF IsFrame, FrameRec
  <2>4. Behind(sent, f)
    BY <1>3, <2>3 DEF Behind, Coming
  <2> QED
    BY <2>1, <2>2, <2>4
<1>5. CASE Update(f, Push(model, f), DeepPush(deep, f))
  BY <1>4, <1>5 DEF Update
<1>6. CASE \E g \in After(f) : Update(g, Push(Push(model, f), g), DeepPush(DeepPush(deep, f), g))
  <2>1. PICK g \in After(f) : Update(g, Push(Push(model, f), g), DeepPush(DeepPush(deep, f), g))
    BY <1>6
  <2>2. Coming(f, g)
    BY <1>4, AfterIs
  <2>3. IsFrame(g)
    BY <2>2 DEF Coming
  <2>4. ModelOk(Push(Push(model, f), g), g) /\ DeepOk(DeepPush(DeepPush(deep, f), g), g)
    BY <1>4, <2>2, Pushed, DeepPushed
  <2>5. Behind(sent, g)
    <3>1. /\ sent.s \in Nat /\ sent.id \in Nat /\ f.s \in Nat /\ f.id \in Nat
          /\ g.s \in Nat /\ g.id \in Nat
      BY <1>1, <1>4, <2>3, GapIs DEF IsFrame, FrameRec
    <3>2. f.s < g.s \/ (f.s = g.s /\ f.id < g.id)
      BY <2>2, <3>1 DEF Coming
    <3> QED
      BY <1>4, <3>1, <3>2 DEF Behind
  <2> QED
    BY <2>1, <2>3, <2>4, <2>5 DEF Update
<1> QED
  BY <1>2, <1>5, <1>6

LEMMA BehindLater ==
  ASSUME NEW key \in FrameRec, NEW at \in FrameRec, NEW later \in FrameRec,
         Behind(key, at), Behind(at, later), key = Gap \/ IsFrame(key), at = Gap \/ IsFrame(at)
  PROVE  Behind(key, later)
<1>1. /\ key.s \in Nat /\ key.id \in Nat /\ at.s \in Nat /\ at.id \in Nat
      /\ later.s \in Nat /\ later.id \in Nat
  BY DEF FrameRec
<1>2. CASE key = Gap
  BY <1>2 DEF Behind
<1>3. CASE key # Gap
  <2>1. key.s > 0
    BY <1>3 DEF IsFrame
  <2>2. at # Gap
    BY <1>1, <1>3, <2>1, GapIs DEF Behind
  <2> QED
    BY <1>1, <1>3, <2>2 DEF Behind
<1> QED
  BY <1>2, <1>3

\* What a redrawing of the histories, as they are now, does.
LEMMA RedrawIs ==
  ASSUME HistoryAssumption, HistoryInv, IsFrame(sent') \/ sent' = Gap, ModelOk(model', sent'),
         DeepOk(deep', sent'), Behind(sent, sent'),
         view' = IF paused THEN view ELSE Render(view, model', deep')
  PROVE  /\ ViewOk(view') /\ Behind(view'.key, sent')
         /\ paused => view' = view
         /\ ~paused => Steady(view, view')
<1>1. ViewOk(view) /\ Behind(view.key, sent) /\ (sent = Gap \/ IsFrame(sent))
  BY DEF HistoryInv
<1>2. Behind(view.key, sent')
  <2>1. Numbered(view.rows, view.key) /\ view.key \in FrameRec
    BY <1>1 DEF ViewOk, ViewRec
  <2>2. view.key = Gap \/ IsFrame(view.key)
    BY <2>1 DEF Numbered
  <2>3. sent \in FrameRec /\ sent' \in FrameRec
    BY <1>1, GapIs DEF IsFrame
  <2> QED
    BY <1>1, <2>1, <2>2, <2>3, BehindLater
<1>3. CASE paused
  BY <1>1, <1>2, <1>3
<1>4. CASE ~paused
  <2>1. view' = Render(view, model', deep')
    BY <1>4
  <2> QED
    BY <1>1, <1>2, <1>4, <2>1, Redrawn
<1> QED
  BY <1>3, <1>4

LEMMA SelectIs ==
  ASSUME HistoryAssumption, HistoryInv, NEW b \in Bins
  PROVE  ModelOk(SelectBin(model, b), sent)
<1>1. /\ model \in [session : Nat, last : Nat, rows : Seq(FrameRec), trace : Seq(SampleRec), bin : Bins]
      /\ model.session = sent.s /\ model.last = sent.id /\ Numbered(model.rows, sent)
  BY DEF HistoryInv, ModelOk
<1>2. <<>> \in Seq(SampleRec) /\ Len(<<>>) = 0 /\ Len(model.rows) \in Nat
  BY <1>1
<1> DEFINE m == SelectBin(model, b)
<1>3. /\ m \in [session : Nat, last : Nat, rows : Seq(FrameRec), trace : Seq(SampleRec), bin : Bins]
      /\ m.session = model.session /\ m.last = model.last /\ m.rows = model.rows /\ m.trace = <<>>
  BY <1>1, <1>2 DEF SelectBin
<1> HIDE DEF m
<1>4. Sampled(m.trace, m.rows, m.bin)
  BY <1>2, <1>3 DEF Sampled
<1>5. ModelOk(m, sent)
  BY <1>1, <1>3, <1>4 DEF ModelOk
<1> QED
  BY <1>5 DEF m

\* The measurement, when only the range changes, or nothing that is displayed.
LEMMA DriftStays ==
  ASSUME DriftOk, UNCHANGED <<paused, drift>>,
         paused => view'.rows = view.rows /\ view'.groups = view.groups /\ view'.end = view.end
  PROVE  DriftOk'
<1>1. CASE paused
  <2>1. ASSUME NEW n \in 1 .. Len(drift.points)
        PROVE  drift.points[n].t = StampAt(view', drift.plot, drift.points[n].y)
    <3>1. StampAt(view', drift.plot, drift.points[n].y) = StampAt(view, drift.plot, drift.points[n].y)
      BY <1>1, SameStamps
    <3> QED
      BY <3>1 DEF DriftOk
  <2> QED
    BY <2>1 DEF DriftOk
<1>2. CASE ~paused
  <2>1. drift.points = <<>>
    BY <1>2 DEF DriftOk
  <2>2. 1 .. Len(drift.points) = {}
    BY <2>1
  <2> QED
    BY <2>1, <2>2 DEF DriftOk
<1> QED
  BY <1>1, <1>2

LEMMA DriftCleared ==
  ASSUME drift' = Cleared, paused' = FALSE
  PROVE  DriftOk'
BY NoPoints DEF Cleared, DriftOk

LEMMA ClickIs ==
  ASSUME HistoryAssumption, HistoryInv, NEW plot \in Plots, NEW y \in 0 .. view.end,
         NEW valid \in BOOLEAN, DriftClick(plot, y, valid)
  PROVE  DriftOk'
<1> DEFINE p == [y |-> y, t |-> StampAt(view, plot, y)]
<1>1. view' = view /\ paused' = TRUE
  BY DEF DriftClick
<1>2. p \in PointRec
  <2>1. StampAt(view, plot, y) \in Nat
    BY StampIs DEF HistoryInv
  <2> QED
    BY <2>1 DEF PointRec
<1>3. /\ drift \in [plot : {"", "fast", "deep"}, points : Seq(PointRec)]
      /\ \A n \in 1 .. Len(drift.points) :
           drift.points[n].t = StampAt(view, drift.plot, drift.points[n].y)
  BY DEF HistoryInv, DriftOk
<1>4. plot \in {"", "fast", "deep"}
  BY DEF HistoryAssumption
<1>5. p.t = StampAt(view, plot, p.y)
  OBVIOUS
<1>6. \/ drift' = drift
      \/ drift' = [plot |-> plot, points |-> <<p>>]
      \/ plot = drift.plot /\ drift' = [drift EXCEPT !.points = Append(@, p)]
  BY DEF DriftClick
<1> HIDE DEF p
<1>7. CASE drift' = drift
  BY <1>1, <1>3, <1>7 DEF DriftOk
<1>8. CASE drift' = [plot |-> plot, points |-> <<p>>]
  <2>1. <<p>> \in Seq(PointRec) /\ Len(<<p>>) = 1 /\ <<p>>[1] = p
    BY <1>2
  <2>2. drift' \in [plot : {"", "fast", "deep"}, points : Seq(PointRec)]
    BY <1>4, <1>8, <2>1
  <2>3. drift'.points = <<p>> /\ drift'.plot = plot
    BY <1>8
  <2>4. ASSUME NEW n \in 1 .. Len(drift'.points)
        PROVE  drift'.points[n].t = StampAt(view', drift'.plot, drift'.points[n].y)
    <3>1. n = 1
      BY <2>1, <2>3
    <3> QED
      BY <3>1, <2>1, <2>3, <1>1, <1>5
  <2> QED
    BY <1>1, <2>2, <2>4 DEF DriftOk
<1>9. CASE plot = drift.plot /\ drift' = [drift EXCEPT !.points = Append(@, p)]
  <2> DEFINE q == drift.points
  <2>1. q \in Seq(PointRec)
    BY <1>3
  <2>2. drift'.points = Append(q, p) /\ drift'.plot = plot
    BY <1>3, <1>9
  <2> HIDE DEF q
  <2>3. /\ Append(q, p) \in Seq(PointRec) /\ Len(Append(q, p)) = Len(q) + 1 /\ Len(q) \in Nat
        /\ Append(q, p)[Len(q) + 1] = p /\ \A n \in 1 .. Len(q) : Append(q, p)[n] = q[n]
    BY <1>2, <2>1
  <2>4. drift' \in [plot : {"", "fast", "deep"}, points : Seq(PointRec)]
    BY <1>3, <1>9, <2>3 DEF q
  <2>5. ASSUME NEW n \in 1 .. Len(drift'.points)
        PROVE  drift'.points[n].t = StampAt(view', drift'.plot, drift'.points[n].y)
    <3>1. CASE n = Len(q) + 1
      BY <3>1, <2>2, <2>3, <1>1, <1>5
    <3>2. CASE n \in 1 .. Len(q)
      <4>1. drift'.points[n] = drift.points[n] /\ n \in 1 .. Len(drift.points)
        BY <3>2, <2>2, <2>3 DEF q
      <4> QED
        BY <4>1, <1>1, <1>3, <1>9, <2>2
    <3> QED
      BY <3>1, <3>2, <2>2, <2>3
  <2> QED
    BY <1>1, <2>4, <2>5 DEF DriftOk
<1> QED
  BY <1>6, <1>7, <1>8, <1>9

LEMMA StillSteady ==
  ASSUME NEW v, ViewOk(v)
  PROVE  Steady(v, v)
<1> SUFFICES ASSUME NEW i \in DOMAIN v.rows, NEW j \in DOMAIN v.rows, v.rows[i] # Gap,
                    v.rows[j] = v.rows[i]
             PROVE  i = j
  BY DEF Steady
<1>1. Numbered(v.rows, v.key) /\ v.key \in FrameRec
  BY DEF ViewOk, ViewRec
<1> DEFINE n == Len(v.rows)
           top == v.key.id
<1>2. /\ i \in 1 .. n /\ j \in 1 .. n /\ n \in Nat
      /\ v.rows[i].id = top - (n - i) /\ v.rows[j].id = top - (n - j)
  <2>1. v.rows \in Seq(FrameRec)
    BY <1>1 DEF Numbered
  <2>2. i \in 1 .. n /\ j \in 1 .. n /\ n \in Nat
    BY <2>1
  <2> QED
    BY <1>1, <2>2 DEF Numbered
<1>3. top \in Nat
  BY <1>1 DEF FrameRec
<1> HIDE DEF n, top
<1>4. top - (n - i) = top - (n - j) /\ i \in Int /\ j \in Int
  BY <1>2
<1> QED
  BY <1>2, <1>3, <1>4

\* One step of the program, and what it does to a frame on the display.
LEMMA NextHistory ==
  ASSUME HistoryAssumption, HistoryInv, [Next]_vars
  PROVE  HistoryInv' /\ FrameStays /\ RangeStays
<1>0. /\ sent = Gap \/ IsFrame(sent)
      /\ ModelOk(model, sent) /\ DeepOk(deep, sent)
      /\ ViewOk(view) /\ Behind(view.key, sent) /\ DriftOk /\ view \in ViewRec
  BY DEF HistoryInv, ViewOk
<1>1. ASSUME Steady(view, view') PROVE FrameStays /\ RangeStays
  BY <1>1 DEF Steady, FrameStays, RangeStays
<1>2. ASSUME view'.rows = view.rows, view'.end = view.end, sent' = sent
      PROVE  FrameStays /\ RangeStays
  <2>1. FrameStays
    BY <1>0, <1>2, StillSteady DEF Steady, FrameStays, Place
  <2> QED
    BY <2>1, <1>2 DEF RangeStays
<1>3. CASE UNCHANGED vars
  <2>1. /\ sent' = sent /\ model' = model /\ deep' = deep /\ view' = view /\ paused' = paused
        /\ drift' = drift
    BY <1>3 DEF vars
  <2>2. DriftOk'
    BY <2>1, <1>0, DriftStays
  <2>3. HistoryInv'
    BY <1>0, <2>1, <2>2 DEF HistoryInv
  <2> QED
    BY <1>2, <2>1, <2>3
<1>4. CASE Receive
  <2>1. /\ IsFrame(sent') /\ ModelOk(model', sent') /\ DeepOk(deep', sent')
        /\ Behind(sent, sent') /\ Redraw /\ UNCHANGED <<paused, drift>>
    BY <1>4, Received
  <2>2. /\ ViewOk(view') /\ Behind(view'.key, sent')
        /\ paused => view' = view
        /\ ~paused => Steady(view, view')
    BY <2>1, RedrawIs DEF Redraw
  <2>3. DriftOk'
    BY <1>0, <2>1, <2>2, DriftStays
  <2>4. HistoryInv'
    BY <2>1, <2>2, <2>3 DEF HistoryInv
  <2>5. FrameStays /\ RangeStays
    <3>1. CASE ~paused
      BY <3>1, <2>2, <1>1
    <3>2. CASE paused
      <4>1. view' = view
        BY <3>2, <2>2
      <4> QED
        BY <4>1, StillSteady, <1>0, <1>1
    <3> QED
      BY <3>1, <3>2
  <2> QED
    BY <2>4, <2>5
<1>5. ASSUME NEW b \in Bins, Select(b) PROVE HistoryInv' /\ FrameStays /\ RangeStays
  <2>1. /\ ~paused /\ model' = SelectBin(model, b) /\ Redraw
        /\ UNCHANGED <<sent, deep, paused, drift>>
    BY <1>5 DEF Select
  <2>2. ModelOk(model', sent') /\ DeepOk(deep', sent')
    BY <1>0, <2>1, SelectIs
  <2>3. Behind(sent, sent')
    <3>1. sent.id \in Nat
      BY <1>0, GapIs DEF IsFrame, FrameRec
    <3> QED
      BY <2>1, <3>1 DEF Behind
  <2>4. ViewOk(view') /\ Behind(view'.key, sent') /\ Steady(view, view')
    BY <1>0, <2>1, <2>2, <2>3, RedrawIs DEF Redraw
  <2>5. DriftOk'
    BY <1>0, <2>1, DriftStays
  <2> QED
    BY <1>0, <1>1, <2>1, <2>2, <2>4, <2>5 DEF HistoryInv
<1>6. CASE Pause
  <2>1. /\ ~paused /\ paused' = TRUE
        /\ UNCHANGED <<sent, model, deep, view, drift>>
    BY <1>6 DEF Pause
  <2>2. DriftOk'
    BY <1>0, <2>1 DEF DriftOk
  <2>3. HistoryInv'
    BY <1>0, <2>1, <2>2 DEF HistoryInv
  <2> QED
    BY <1>2, <2>1, <2>3
<1>7. ASSUME NEW v, ViewOk(v), v.key = view.key, v.rows = view.rows, v.end = view.end,
             v.follow \/ (v.follow = view.follow /\ v.low = view.low /\ v.high = view.high),
             view' = Render(v, model, deep), UNCHANGED <<sent, model, deep>>,
             paused' = FALSE, drift' = Cleared
      PROVE  HistoryInv' /\ FrameStays /\ RangeStays
  <2>1. ViewOk(view') /\ Behind(view'.key, sent) /\ Steady(v, view')
    BY <1>0, <1>7, Redrawn
  <2>2. DriftOk'
    BY <1>7, DriftCleared
  <2>3. FrameStays
    BY <2>1, <1>7 DEF Steady, FrameStays, Place
  <2>4. RangeStays
    BY <1>7 DEF RangeStays
  <2> QED
    BY <1>0, <1>7, <2>1, <2>2, <2>3, <2>4 DEF HistoryInv
<1>8. CASE Resume
  BY <1>0, <1>7, <1>8 DEF Resume
<1>9. CASE ReturnToLive
  <2> DEFINE v == [view EXCEPT !.follow = TRUE]
  <2>1. v \in ViewRec /\ v.follow = TRUE /\ v.key = view.key /\ v.rows = view.rows /\ v.end = view.end
        /\ v.trace = view.trace /\ v.groups = view.groups /\ v.low = view.low /\ v.high = view.high
        /\ v.span = view.span
    BY <1>0 DEF ViewRec
  <2>2. view' = Render(v, model, deep) /\ UNCHANGED <<sent, model, deep>> /\ paused' = FALSE
        /\ drift' = Cleared
    BY <1>9 DEF ReturnToLive
  <2> HIDE DEF v
  <2>3. ViewOk(v)
    BY <1>0, <2>1 DEF ViewOk, Bounded
  <2> QED
    BY <1>7, <2>1, <2>2, <2>3
<1>10. ASSUME NEW x \in ViewRec, x.rows = view.rows, x.trace = view.trace, x.groups = view.groups,
              x.end = view.end, x.key = view.key, view' = Ranged(x),
              UNCHANGED <<sent, model, deep, paused, drift>>
       PROVE  HistoryInv' /\ FrameStays /\ RangeStays
  <2>1. /\ ViewOk(view') /\ view'.rows = view.rows /\ view'.groups = view.groups
        /\ view'.end = view.end /\ view'.key = view.key
    BY <1>0, <1>10, Reranged
  <2>2. DriftOk'
    BY <1>0, <1>10, <2>1, DriftStays
  <2>3. HistoryInv'
    BY <1>0, <1>10, <2>1, <2>2 DEF HistoryInv
  <2> QED
    BY <1>2, <1>10, <2>1, <2>3
<1>11. CASE Follow
  <2> DEFINE x == [view EXCEPT !.follow = ~@]
  <2>1. /\ x \in ViewRec /\ x.rows = view.rows /\ x.trace = view.trace /\ x.groups = view.groups
        /\ x.end = view.end /\ x.key = view.key
    BY <1>0 DEF ViewRec
  <2>2. view' = Ranged(x) /\ UNCHANGED <<sent, model, deep, paused, drift>>
    BY <1>11 DEF Follow
  <2> HIDE DEF x
  <2> QED
    BY <1>10, <2>1, <2>2
<1>12. ASSUME NEW low \in 0 - Capacity .. view.end, NEW high \in 0 - Capacity .. view.end,
              Scroll(low, high)
       PROVE  HistoryInv' /\ FrameStays /\ RangeStays
  <2> DEFINE x == [view EXCEPT !.low = low, !.high = high, !.follow = FALSE]
  <2>1. low \in Int /\ high \in Int
    OBVIOUS
  <2>2. /\ x \in ViewRec /\ x.rows = view.rows /\ x.trace = view.trace /\ x.groups = view.groups
        /\ x.end = view.end /\ x.key = view.key
    BY <1>0, <2>1 DEF ViewRec
  <2>3. view' = Ranged(x) /\ UNCHANGED <<sent, model, deep, paused, drift>>
    BY <1>12 DEF Scroll
  <2> HIDE DEF x
  <2> QED
    BY <1>10, <2>2, <2>3
<1>13. ASSUME NEW n \in Spans, ChangeWindow(n)
       PROVE  HistoryInv' /\ FrameStays /\ RangeStays
  <2> DEFINE low == IF view.follow THEN view.low ELSE view.high - n
             x == [view EXCEPT !.span = n, !.low = low]
  <2>1. n \in 2 .. Capacity /\ view.low \in Int /\ view.high \in Int /\ Capacity \in Nat
    BY <1>0 DEF HistoryAssumption, ViewRec
  <2>2. low \in Int
    BY <2>1
  <2>3. view' = Ranged(x) /\ UNCHANGED <<sent, model, deep, paused, drift>>
    BY <1>13 DEF ChangeWindow
  <2> HIDE DEF low
  <2>4. /\ x \in ViewRec /\ x.rows = view.rows /\ x.trace = view.trace /\ x.groups = view.groups
        /\ x.end = view.end /\ x.key = view.key
    BY <1>0, <2>1, <2>2 DEF ViewRec
  <2> HIDE DEF x
  <2> QED
    BY <1>10, <2>3, <2>4
<1>14. ASSUME NEW plot \in Plots, NEW y \in 0 .. view.end, NEW valid \in BOOLEAN,
              DriftClick(plot, y, valid)
       PROVE  HistoryInv' /\ FrameStays /\ RangeStays
  <2>1. UNCHANGED <<sent, model, deep, view>>
    BY <1>14 DEF DriftClick
  <2>2. DriftOk'
    BY <1>14, ClickIs
  <2>3. HistoryInv'
    BY <1>0, <2>1, <2>2 DEF HistoryInv
  <2> QED
    BY <1>2, <2>1, <2>3
<1> QED
  BY <1>3, <1>4, <1>5, <1>6, <1>8, <1>9, <1>11, <1>12, <1>13, <1>14 DEF Next

LEMMA HistoryIsWholeNow ==
  ASSUME HistoryAssumption, HistoryInv
  PROVE  HistoryIsTrue
<1>1. ModelOk(model, sent) /\ DeepOk(deep, sent) /\ ViewOk(view) /\ DriftOk
  BY DEF HistoryInv
<1>2. TraceFollowsRows
  <2> DEFINE n == Len(model.trace)
             rows == model.rows
             r == Keep(rows, n)
  <2>1. /\ rows \in Seq(FrameRec) /\ n \in Nat /\ n <= Len(rows) /\ Len(rows) \in Nat
        /\ \A i \in 1 .. n : model.trace[i].frame = rows[Len(rows) - n + i]
                             /\ model.trace[i].bin = model.bin
    BY <1>1 DEF ModelOk, Sampled
  <2>2. [i \in 1 .. n |-> model.trace[i].frame] = r
    <3>1. CASE n = 0
      <4>1. r = <<>> /\ [i \in 1 .. n |-> model.trace[i].frame] = <<>>
        <5>1. Greater(1, Len(rows) - n + 1) = Len(rows) + 1
          BY <3>1, <2>1 DEF Greater
        <5>2. r = SubSeq(rows, Len(rows) + 1, Len(rows))
          BY <5>1 DEF Keep
        <5>3. Len(rows) + 1 \in Int /\ Len(rows) \in Int /\ Len(rows) < Len(rows) + 1
          BY <2>1
        <5>4. r = <<>>
          BY <5>2, <5>3, SubSeqEmpty
        <5>5. 1 .. n = {}
          BY <3>1
        <5> QED
          BY <5>4, <5>5
      <4> QED
        BY <4>1
    <3>2. CASE n # 0
      <4>1. IsEnd(r, rows, n, FrameRec)
        BY <2>1, <3>2, KeepIs
      <4> HIDE DEF r, n, rows
      <4>2. r \in Seq(FrameRec) /\ Len(r) = n /\ \A i \in 1 .. Len(r) : r[i] = rows[Len(rows) - Len(r) + i]
        <5>1. /\ r \in Seq(FrameRec) /\ Len(r) = IF Len(rows) <= n THEN Len(rows) ELSE n
              /\ \A i \in 1 .. Len(r) : r[i] = rows[Len(rows) - Len(r) + i]
          BY <4>1 DEF IsEnd
        <5>2. Len(rows) \in Nat /\ n \in Nat /\ n <= Len(rows)
          BY <2>1
        <5>3. Len(r) = n
          BY <5>1, <5>2
        <5> QED
          BY <5>1, <5>3
      <4>3. r = [i \in 1 .. n |-> r[i]]
        BY <4>2
      <4>4. \A i \in 1 .. n : r[i] = model.trace[i].frame
        BY <4>2, <2>1
      <4> QED
        BY <4>3, <4>4
    <3> QED
      BY <3>1, <3>2
  <2> QED
    BY <2>1, <2>2 DEF TraceFollowsRows
<1>3. RowsAreSlots
  <2> SUFFICES ASSUME NEW i \in DOMAIN model.rows, NEW j \in DOMAIN model.rows,
                      model.rows[i] # Gap, model.rows[j] # Gap
               PROVE  model.rows[j].id - model.rows[i].id = j - i
    BY DEF RowsAreSlots
  <2>1. Numbered(model.rows, sent) /\ (sent = Gap \/ IsFrame(sent))
    BY <1>1 DEF ModelOk, HistoryInv
  <2> DEFINE n == Len(model.rows)
             top == sent.id
             a == model.rows[i].id
             b == model.rows[j].id
  <2>2. /\ i \in 1 .. n /\ j \in 1 .. n /\ n \in Nat
        /\ a = top - (n - i) /\ b = top - (n - j)
    BY <2>1 DEF Numbered
  <2>3. top \in Nat
    BY <2>1, GapIs DEF IsFrame, FrameRec
  <2> HIDE DEF n, top, a, b
  <2>4. b - a = j - i
    <3>1. i \in Int /\ j \in Int
      BY <2>2
    <3> QED
      BY <3>1, <2>2, <2>3
  <2> QED
    BY <2>4 DEF a, b
<1>4. GroupsAreRuns
  <2>1. PICK top : Grouped(deep.history, sent.s, top)
    BY <1>1 DEF DeepOk
  <2>2. DOMAIN deep.history = 1 .. Len(deep.history)
    BY <2>1 DEF Grouped
  <2> QED
    BY <2>1, <2>2 DEF Grouped, Whole, GroupsAreRuns
<1>5. ImageAgreesWithReadout
  BY <1>1, GroupsAgree DEF ImageAgreesWithReadout
<1>6. LinesJoinNeighbours
  BY <1>1, LinesJoin
<1>7. DriftReadsDisplay
  <2>1. DOMAIN drift.points = 1 .. Len(drift.points)
    <3>1. drift.points \in Seq(PointRec)
      BY <1>1 DEF DriftOk
    <3> QED
      BY <3>1
  <2> QED
    BY <1>1, <2>1 DEF DriftOk, DriftReadsDisplay
<1> QED
  BY <1>2, <1>3, <1>4, <1>5, <1>6, <1>7 DEF HistoryIsTrue, HistoryIsWhole

\* Rows, trace, deep groups and curves are of the same frames in every state,
\* whatever is lost, late, selected, browsed or measured (viewer_fx.py
\* ObservationHistory, DeepIntegrator, handle_drift_click()).
THEOREM HistoryStaysTrue == ASSUME HistoryAssumption PROVE Spec => []HistoryIsTrue
<1>1. Init => HistoryInv
  BY InitHistory
<1>2. HistoryInv /\ [Next]_vars => HistoryInv'
  BY NextHistory
<1>3. HistoryInv => HistoryIsTrue
  BY HistoryIsWholeNow
<1> QED
  BY <1>1, <1>2, <1>3, PTL DEF Spec

\* No step moves a frame that stays on the display, nor what is browsed out of
\* its range (viewer_fx.py _advance_wf_coordinates(), render()).
THEOREM FramesHoldStill == ASSUME HistoryAssumption PROVE Spec => [][FrameStays /\ RangeStays]_vars
<1>1. Init => HistoryInv
  BY InitHistory
<1>2. HistoryInv /\ [Next]_vars => HistoryInv'
  BY NextHistory
<1>3. HistoryInv /\ [Next]_vars => [FrameStays /\ RangeStays]_vars
  BY NextHistory
<1> QED
  BY <1>1, <1>2, <1>3, PTL DEF Spec
=============================================================================
