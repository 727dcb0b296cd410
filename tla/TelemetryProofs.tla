-------------------------- MODULE TelemetryProofs --------------------------
(***************************************************************************)
(* From the datagrams to the rows that are drawn, for every size of the    *)
(* buffers, every window, any number of peers, sessions, frames and        *)
(* faults: what is reassembled is a frame, no loss goes uncounted, and a   *)
(* typed frame comes no more than once where enough is remembered; what is *)
(* joined is in order, and nothing is forgotten; what is drawn is the      *)
(* frames by number.                                                       *)
(*                                                                         *)
(* Assembly says of a frame under assembly what NoMixedFrame says of one   *)
(* that is complete.  AtMostOnce takes three parts: a session that was     *)
(* left stays retired (RetiredOf); a number that left "completed" is       *)
(* behind the window (Behind), since the numbers after it there are too    *)
(* many to lie within it; and those that say nothing of the window, the    *)
(* conflicting ones, are no more than the faults (Conflicts).              *)
(***************************************************************************)
EXTENDS Telemetry, SequenceTheorems, FiniteSetTheorems, WellFoundedInduction, TLAPS

Data == {"sent", "other"}
Datagram == [peer : Peers, session : 1 .. Sessions, frame : Nat \ {0}, idx : 0 .. Chunks - 1,
             meta : Data, val : Data]
Frame == [frame : Nat, meta : Data, parts : SUBSET PartRec, born : Nat]
Handed == [session : Nat, frame : Nat, parts : SUBSET PartRec]

-----------------------------------------------------------------------------
(* The inductive invariant.                                                *)

\* TypeOK, and the ranges that the bounds keep to.
SenderType ==
  /\ session \in 1 .. Sessions /\ frame \in Nat \ {0} /\ chunk \in 0 .. Chunks - 1
  /\ sent \subseteq [session : 1 .. Sessions, frame : Nat \ {0}, idx : 0 .. Chunks - 1]
FaultType == faults \in 0 .. MaxFaults
StreamType ==
  /\ active \in [peer : Peers \cup {0}, session : Nat] /\ lastId \in Nat
  /\ retired \in Seq(Nat) /\ Len(retired) <= RetiredMax
  /\ completed \in Seq(Nat) /\ Len(completed) <= CompletedMax
CountType ==
  /\ incomplete \in Nat /\ begun \in Nat /\ conflicts \in Nat
PendingType ==
  pending \subseteq Frame /\ IsFiniteSet(pending) /\ Cardinality(pending) <= PendingMax
HandedType ==
  /\ complete \in Nat /\ gaps \in Nat /\ first \in Nat \ {0}
  /\ seen \subseteq Nat \X Nat /\ IsFiniteSet(seen)
  /\ frames \in Seq(Handed) /\ Len(frames) <= FramesMax
ThreadType == pc \in {"select", "drain", "done"} /\ stop \in BOOLEAN /\ drained \in 0 .. DrainMax

\* The parts are chunks of frame n of the stream s, none twice.
OwnParts(parts, s, n) ==
  /\ IsFiniteSet(parts)
  /\ \A x \in parts : /\ x \in PartRec /\ x.peer = s.peer /\ x.session = s.session
                      /\ x.frame = n /\ x.idx \in 0 .. Chunks - 1
  /\ \A x, y \in parts : x.idx = y.idx => x = y

\* The frames are of the stream s and incomplete, and no two have a number.
OwnFrames(fs, s) ==
  /\ \A p \in fs : OwnParts(p.parts, s, p.frame) /\ Cardinality(p.parts) < Chunks
  /\ \A p, q \in fs : p.frame = q.frame => p = q

Assembly == OwnFrames(pending, active)

\* The frames that hold a damaged chunk.
Damaged(fs) == {p \in fs : \E x \in p.parts : x.val = "other"}

\* Each conflict, there or still to come, is a fault of its own.
Conflicts == conflicts + Cardinality(Damaged(pending)) <= faults

GivenIn(s, given) == {x[2] : x \in {y \in given : y[1] = s}}

\* What "completed" tells of the numbers that were handed over.
Behind(given, last, done, bound) ==
  /\ \A n \in given : n <= last /\ (n \in Elements(done) \/ n < last - Window)
  /\ \A i, j \in 1 .. Len(done) : done[i] = done[j] => i = j
  /\ \A i, j \in 1 .. Len(done) :
       i < j /\ done[i] \in given /\ done[j] \in given => done[j] >= done[i] - Window
  /\ Cardinality(Elements(done) \ given) <= bound

\* What "retired" tells of the sessions: of each is handed over only while it
\* is active.
RetiredOf(st, gone, given) ==
  /\ st = NoStream => given = {} /\ gone = <<>>
  /\ st # NoStream => st.session \in 1 .. Sessions
  /\ \A x \in given : x[1] = st.session \/ x[1] \in Elements(gone)
  /\ \A i \in 1 .. Len(gone) : gone[i] \in 1 .. Sessions /\ gone[i] # st.session
  /\ \A i, j \in 1 .. Len(gone) : gone[i] = gone[j] => i = j

OnceInv ==
  Version = 3 /\ Remembered =>
    /\ Behind(GivenIn(active.session, seen), lastId, completed, conflicts)
    /\ RetiredOf(active, retired, seen)
    /\ complete = Cardinality(seen)

\* What the Reassembler keeps to, and what it has to with all that is around it.
Received ==
  /\ StreamType /\ CountType /\ PendingType /\ HandedType
  /\ Assembly /\ NoMixedFrame /\ Conflicts /\ OnceInv /\ FramesAccounted /\ GapsCoverLosses

IInv == SenderType /\ FaultType /\ ThreadType /\ Received

-----------------------------------------------------------------------------
(* The operators.                                                          *)

LEMMA Sizes ==
  /\ Version \in {2, 3} /\ Chunks \in Nat \ {0} /\ PendingMax \in Nat \ {0}
  /\ CompletedMax \in Nat \ {0} /\ RetiredMax \in Nat \ {0} /\ FramesMax \in Nat \ {0}
  /\ DrainMax \in Nat \ {0} /\ Sessions \in Nat \ {0} /\ MaxFrame \in Nat \ {0}
  /\ MaxBegun \in Nat \ {0} /\ Window \in Nat /\ MaxFaults \in Nat
<1>1. {Chunks, PendingMax, CompletedMax, RetiredMax, FramesMax, DrainMax, Sessions, MaxFrame,
       MaxBegun} \subseteq Nat \ {0}
  BY ReassemblyAssumption DEF ReassemblyAssumption
<1>2. /\ Chunks \in Nat \ {0} /\ PendingMax \in Nat \ {0} /\ CompletedMax \in Nat \ {0}
      /\ RetiredMax \in Nat \ {0} /\ FramesMax \in Nat \ {0} /\ DrainMax \in Nat \ {0}
      /\ Sessions \in Nat \ {0} /\ MaxFrame \in Nat \ {0} /\ MaxBegun \in Nat \ {0}
  BY <1>1, Zenon
<1>3. {Window, MaxFaults} \subseteq Nat
  BY ReassemblyAssumption DEF ReassemblyAssumption
<1>4. Window \in Nat /\ MaxFaults \in Nat
  BY <1>3
<1>5. Version \in {2, 3}
  BY ReassemblyAssumption, Zenon DEF ReassemblyAssumption
<1> QED
  BY <1>2, <1>4, <1>5, Zenon

(* What a bounded buffer holds after an element is added.                  *)
AppendedIn(T, r, s, x, n) ==
  /\ r \in Seq(T) /\ Len(r) <= n
  /\ Len(s) < n => r = Append(s, x)
  /\ Len(s) = n => /\ Len(r) = n /\ r[n] = x
                   /\ \A i \in 1 .. n - 1 : r[i] = s[i + 1]

LEMMA LastAppended ==
  ASSUME NEW T, NEW s \in Seq(T), NEW x \in T, NEW n \in Nat \ {0}, Len(s) <= n
  PROVE  AppendedIn(T, Last(Append(s, x), n), s, x, n)
<1> DEFINE r == Last(Append(s, x), n)
<1> SUFFICES /\ r \in Seq(T) /\ Len(r) <= n
             /\ Len(s) < n => r = Append(s, x)
             /\ Len(s) = n => /\ Len(r) = n /\ r[n] = x
                              /\ \A i \in 1 .. n - 1 : r[i] = s[i + 1]
  BY DEF AppendedIn
<1>1. /\ Append(s, x) \in Seq(T) /\ Len(Append(s, x)) = Len(s) + 1 /\ Len(s) \in Nat
      /\ \A i \in 1 .. Len(s) : Append(s, x)[i] = s[i]
      /\ Append(s, x)[Len(s) + 1] = x
  OBVIOUS
<1>2. CASE Len(s) < n
  <2>1. r = Append(s, x)
    BY <1>1, <1>2 DEF Last
  <2> QED
    BY <2>1, <1>1, <1>2
<1>3. CASE Len(s) = n
  <2> DEFINE t == Append(s, x)
  <2>1. r = SubSeq(t, 2, n + 1)
    BY <1>1, <1>3 DEF Last
  <2>2. /\ \A i \in 2 .. n + 1 : t[i] \in T
        /\ \A i \in 1 .. n - 1 : t[i + 1] = s[i + 1]
        /\ t[n + 1] = x
    BY <1>1, <1>3
  <2> HIDE DEF t, r
  <2>3. 2 \in Int /\ n + 1 \in Int
    OBVIOUS
  <2>4. /\ r \in Seq(T) /\ Len(r) = IF 2 <= n + 1 THEN n + 1 - 2 + 1 ELSE 0
        /\ \A i \in 1 .. n + 1 - 2 + 1 : r[i] = t[2 + i - 1]
    BY <2>1, <2>2, <2>3, SubSeqProperties
  <2>5. /\ r \in Seq(T) /\ Len(r) = n
        /\ \A i \in 1 .. n : r[i] = t[i + 1]
    BY <2>4
  <2>6. r[n] = x /\ \A i \in 1 .. n - 1 : r[i] = s[i + 1]
    BY <2>2, <2>5
  <2> QED
    BY <2>5, <2>6, <1>3
<1> QED
  BY <1>1, <1>2, <1>3

(* The same of numbers.                                                    *)
Appended(r, s, x, n) ==
  /\ r \in Seq(Nat) /\ Len(r) <= n
  /\ Len(s) < n => r = Append(s, x)
  /\ Len(s) = n => /\ Len(r) = n /\ r[n] = x
                   /\ \A i \in 1 .. n - 1 : r[i] = s[i + 1]

LEMMA LastNumber ==
  ASSUME NEW s \in Seq(Nat), NEW x \in Nat, NEW n \in Nat \ {0}, Len(s) <= n
  PROVE  Appended(Last(Append(s, x), n), s, x, n)
<1> DEFINE T == Nat
<1>1. s \in Seq(T) /\ x \in T
  OBVIOUS
<1> HIDE DEF T
<1>2. AppendedIn(T, Last(Append(s, x), n), s, x, n)
  BY <1>1, LastAppended
<1> QED
  BY <1>2 DEF T, Appended, AppendedIn

(* The elements of a sequence.                                             *)
LEMMA ElementsIs ==
  ASSUME NEW T, NEW s \in Seq(T)
  PROVE  /\ Elements(s) \subseteq T
         /\ \A i \in 1 .. Len(s) : s[i] \in Elements(s)
         /\ \A x \in Elements(s) : \E i \in 1 .. Len(s) : x = s[i]
BY LenProperties DEF Elements

(* A bounded buffer holds what is added and nothing that it did not hold.  *)
LEMMA LastElements ==
  ASSUME NEW T, NEW s \in Seq(T), NEW x \in T, NEW n \in Nat \ {0}, Len(s) <= n
  PROVE  LET r == Last(Append(s, x), n) IN
         /\ x \in Elements(r) /\ Elements(r) \subseteq Elements(s) \cup {x}
         /\ Len(s) < n => Elements(r) = Elements(s) \cup {x}
         /\ Len(s) = n => Elements(s) \subseteq Elements(r) \cup {s[1]}
<1> SUFFICES ASSUME NEW r, r = Last(Append(s, x), n)
             PROVE  /\ x \in Elements(r) /\ Elements(r) \subseteq Elements(s) \cup {x}
                    /\ Len(s) < n => Elements(r) = Elements(s) \cup {x}
                    /\ Len(s) = n => Elements(s) \subseteq Elements(r) \cup {s[1]}
  OBVIOUS
<1>6. AppendedIn(T, r, s, x, n)
  BY LastAppended
<1>1. /\ r \in Seq(T) /\ Len(r) <= n /\ Len(s) \in Nat /\ Len(r) \in Nat
      /\ Len(s) < n => r = Append(s, x)
      /\ Len(s) = n => /\ Len(r) = n /\ r[n] = x
                       /\ \A i \in 1 .. n - 1 : r[i] = s[i + 1]
  BY <1>6 DEF AppendedIn
<1>2. /\ \A i \in 1 .. Len(s) : s[i] \in Elements(s)
      /\ \A y \in Elements(s) : \E i \in 1 .. Len(s) : y = s[i]
  BY ElementsIs
<1>3. /\ \A i \in 1 .. Len(r) : r[i] \in Elements(r)
      /\ \A y \in Elements(r) : \E i \in 1 .. Len(r) : y = r[i]
  BY <1>1, ElementsIs
<1>4. CASE Len(s) < n
  <2>1. /\ Len(r) = Len(s) + 1 /\ r[Len(s) + 1] = x
        /\ \A i \in 1 .. Len(s) : r[i] = s[i]
    BY <1>1, <1>4
  <2>2. Elements(r) \subseteq Elements(s) \cup {x}
    BY <1>1, <1>2, <1>3, <2>1
  <2>3. Elements(s) \cup {x} \subseteq Elements(r)
    <3>1. x \in Elements(r)
      BY <1>1, <1>3, <2>1
    <3>2. ASSUME NEW y \in Elements(s) PROVE y \in Elements(r)
      <4>1. PICK i \in 1 .. Len(s) : y = s[i]
        BY <1>2
      <4> QED
        BY <4>1, <1>1, <1>3, <2>1
    <3> QED
      BY <3>1, <3>2
  <2> QED
    BY <2>2, <2>3, <1>1, <1>4
<1>5. CASE Len(s) = n
  <2>1. x \in Elements(r)
    BY <1>1, <1>3, <1>5
  <2>2. ASSUME NEW y \in Elements(r) PROVE y \in Elements(s) \cup {x}
    <3>1. PICK i \in 1 .. Len(r) : y = r[i]
      BY <1>3
    <3> QED
      BY <3>1, <1>1, <1>2, <1>5
  <2>3. ASSUME NEW y \in Elements(s) PROVE y \in Elements(r) \cup {s[1]}
    <3>1. PICK i \in 1 .. Len(s) : y = s[i]
      BY <1>2
    <3>2. CASE i = 1
      BY <3>1, <3>2
    <3>3. CASE i # 1
      <4>1. i - 1 \in 1 .. n - 1 /\ r[i - 1] = s[i]
        BY <3>1, <3>3, <1>1, <1>5
      <4> QED
        BY <4>1, <3>1, <1>1, <1>3, <1>5
    <3> QED
      BY <3>2, <3>3
  <2> QED
    BY <2>1, <2>2, <2>3, <1>5
<1> QED
  BY <1>1, <1>4, <1>5

(* A sequence without repetition has as many elements as places.           *)
LEMMA ManyElements ==
  ASSUME NEW T, NEW s \in Seq(T), \A i, j \in 1 .. Len(s) : s[i] = s[j] => i = j
  PROVE  IsFiniteSet(Elements(s)) /\ Cardinality(Elements(s)) = Len(s)
<1>1. Len(s) \in Nat /\ s \in [1 .. Len(s) -> T] /\ DOMAIN s = 1 .. Len(s)
  BY LenProperties
<1>2. s \in Bijection(1 .. Len(s), Elements(s))
  BY <1>1 DEF Elements, Bijection, Injection, Surjection, IsInjective
<1>3. ExistsBijection(1 .. Len(s), Elements(s))
  BY <1>2 DEF ExistsBijection
<1>4. IsFiniteSet(1 .. Len(s)) /\ Cardinality(1 .. Len(s)) = Len(s)
  BY <1>1, FS_Interval
<1> QED
  BY <1>3, <1>4, FS_Bijection

(* A set of numbers is no larger than an interval it lies in.              *)
LEMMA WithinInterval ==
  ASSUME NEW a \in Int, NEW b \in Int, a <= b, NEW S, S \subseteq a .. b
  PROVE  IsFiniteSet(S) /\ Cardinality(S) \in Nat /\ Cardinality(S) <= b - a + 1
<1>1. IsFiniteSet(a .. b) /\ Cardinality(a .. b) = b - a + 1
  BY FS_Interval
<1> QED
  BY <1>1, FS_Subset, FS_CardinalityType

(* The numbers of a session.                                               *)
LEMMA GivenIs ==
  ASSUME NEW given \in SUBSET (Nat \X Nat), NEW s
  PROVE  /\ GivenIn(s, given) \subseteq Nat
         /\ \A n : n \in GivenIn(s, given) <=> <<s, n>> \in given
BY DEF GivenIn

(* Every arrival is a datagram.                                            *)
LEMMA ArrivalIs ==
  ASSUME SenderType, NEW meta \in Data, NEW val \in Data, NEW d \in Arrivals(meta, val)
  PROVE  d \in Datagram /\ d.meta = meta /\ d.val = val
BY DEF SenderType, Arrivals, Datagram

-----------------------------------------------------------------------------
(* The parts of a frame.                                                   *)

(* A chunk that is not there yet makes one part more.                      *)
LEMMA PartAdded ==
  ASSUME NEW d \in Datagram, NEW parts, OwnParts(parts, Stream(d), d.frame),
         \A x \in parts : x.idx # d.idx
  PROVE  /\ OwnParts(parts \cup {Part(d)}, Stream(d), d.frame)
         /\ Cardinality(parts) \in Nat
         /\ Cardinality(parts \cup {Part(d)}) = Cardinality(parts) + 1
<1>1. /\ Part(d) \in PartRec /\ Part(d).peer = Stream(d).peer
      /\ Part(d).session = Stream(d).session /\ Part(d).frame = d.frame
      /\ Part(d).idx = d.idx /\ d.idx \in 0 .. Chunks - 1 /\ Part(d).val = d.val
  BY Sizes DEF Part, PartRec, Datagram, Data, Stream
<1>2. IsFiniteSet(parts) /\ Part(d) \notin parts
  BY <1>1 DEF OwnParts
<1>3. /\ Cardinality(parts) \in Nat /\ IsFiniteSet(parts \cup {Part(d)})
      /\ Cardinality(parts \cup {Part(d)}) = Cardinality(parts) + 1
  BY <1>2, FS_AddElement, FS_CardinalityType
<1> HIDE DEF Part, Stream
<1>4. ASSUME NEW x \in parts \cup {Part(d)}
      PROVE  /\ x \in PartRec /\ x.peer = Stream(d).peer /\ x.session = Stream(d).session
             /\ x.frame = d.frame /\ x.idx \in 0 .. Chunks - 1
  BY <1>1 DEF OwnParts
<1>5. ASSUME NEW x \in parts \cup {Part(d)}, NEW y \in parts \cup {Part(d)}, x.idx = y.idx
      PROVE  x = y
  BY <1>1, <1>5 DEF OwnParts
<1> QED
  BY <1>3, <1>4, <1>5 DEF OwnParts

(* As many parts as there are chunks are all of them.                      *)
LEMMA WholeFrame ==
  ASSUME NEW parts, NEW s, NEW n, OwnParts(parts, s, n), Cardinality(parts) = Chunks
  PROVE  {x.idx : x \in parts} = 0 .. Chunks - 1
<1> DEFINE f == [x \in parts |-> x.idx]
<1>1. f \in Injection(parts, 0 .. Chunks - 1)
  BY DEF OwnParts, Injection, IsInjective
<1>2. IsFiniteSet(0 .. Chunks - 1) /\ Cardinality(0 .. Chunks - 1) = Chunks
  <2>1. 0 \in Int /\ Chunks - 1 \in Int /\ ~(0 > Chunks - 1)
    BY Sizes
  <2>2. /\ IsFiniteSet(0 .. Chunks - 1)
        /\ Cardinality(0 .. Chunks - 1) =
             IF 0 > Chunks - 1 THEN 0 ELSE (Chunks - 1) - 0 + 1
    BY <2>1, FS_Interval
  <2> QED
    BY <2>1, <2>2, Sizes
<1>3. f \in Surjection(parts, 0 .. Chunks - 1)
  BY <1>1, <1>2, FS_Injection
<1>4. \A i \in 0 .. Chunks - 1 : \E x \in parts : f[x] = i
  BY <1>3 DEF Surjection
<1>5. \A x \in parts : f[x] = x.idx /\ x.idx \in 0 .. Chunks - 1
  BY DEF OwnParts
<1> QED
  BY <1>4, <1>5

-----------------------------------------------------------------------------
(* The table of the frames under assembly.                                 *)

(* There is an oldest frame.                                               *)
LEMMA OldestIs ==
  ASSUME NEW fs \in SUBSET Frame, fs # {}
  PROVE  Oldest(fs) \in fs
<1> DEFINE births == {p.born : p \in fs}
<1>1. births \subseteq Nat /\ births # {}
  BY DEF Frame
<1>2. PICK m \in births : \A n \in births : <<n, m>> \notin OpToRel(<, Nat)
  BY <1>1, WFMin, NatLessThanWellFounded, Zenon
<1>3. \A n \in births : ~(n < m)
  BY <1>1, <1>2, Zenon DEF OpToRel
<1>4. PICK p \in fs : p.born = m
  BY <1>2
<1>5. \A q \in fs : p.born <= q.born
  <2>1. ASSUME NEW q \in fs PROVE p.born <= q.born
    <3>1. q.born \in births
      OBVIOUS
    <3>2. q.born \in Nat /\ m \in Nat /\ ~(q.born < m)
      BY <1>1, <1>2, <1>3, <3>1
    <3> QED
      BY <3>2, <1>4
  <2> QED
    BY <2>1
<1> QED
  BY <1>4, <1>5 DEF Oldest

(* What the handler goes on with: the facts about Anchored(d, b).          *)
ReadyIs(d, a) ==
  /\ a.pending \subseteq Frame /\ IsFiniteSet(a.pending)
  /\ Cardinality(a.pending) \in Nat /\ Cardinality(a.pending) <= PendingMax
  /\ OwnFrames(a.pending, Stream(d))
  /\ Damaged(a.pending) \subseteq Damaged(pending)
  /\ a.lastId \in Nat /\ a.completed \in Seq(Nat) /\ Len(a.completed) <= CompletedMax
  /\ a.cleared \in Nat
  /\ Stream(d) = active => a.lastId = lastId /\ a.completed = completed
  /\ Stream(d) # active => a.lastId = 0 /\ a.completed = <<>>

(* What expires and what is kept is all that was pending.                  *)
LEMMA KeptIs ==
  ASSUME PendingType, Assembly, NEW b
  PROVE  /\ Kept(b) \subseteq pending /\ IsFiniteSet(Kept(b))
         /\ Cardinality(Kept(b)) \in Nat /\ Expired(b) \in Nat
         /\ Cardinality(pending) \in Nat
         /\ Cardinality(pending) = Cardinality(Kept(b)) + Expired(b)
         /\ OwnFrames(Kept(b), active)
         /\ Damaged(Kept(b)) \subseteq Damaged(pending)
<1>1. Kept(b) \subseteq pending
  BY DEF Kept
<1>2. /\ IsFiniteSet(pending) /\ IsFiniteSet(Kept(b)) /\ IsFiniteSet(pending \ Kept(b))
      /\ Cardinality(pending \ Kept(b)) = Cardinality(pending) - Cardinality(pending \cap Kept(b))
      /\ pending \cap Kept(b) = Kept(b)
  BY <1>1, FS_Subset, FS_Difference DEF PendingType
<1>3. /\ Cardinality(pending) \in Nat /\ Cardinality(Kept(b)) \in Nat
      /\ Expired(b) \in Nat
  BY <1>2, FS_CardinalityType DEF Expired
<1>5. Expired(b) = Cardinality(pending) - Cardinality(Kept(b))
  BY <1>2, Zenon DEF Expired
<1>4. OwnFrames(Kept(b), active) /\ Damaged(Kept(b)) \subseteq Damaged(pending)
  BY <1>1 DEF Assembly, OwnFrames, Damaged
<1> HIDE DEF Kept
<1> QED
  BY <1>1, <1>2, <1>3, <1>4, <1>5

LEMMA AnchoredIs ==
  ASSUME StreamType, PendingType, Assembly, NEW d, NEW b
  PROVE  LET a == Anchored(d, b) IN
         /\ ReadyIs(d, a)
         /\ Expired(b) \in Nat /\ Cardinality(pending) \in Nat
         /\ Cardinality(pending) = Cardinality(a.pending) + Expired(b) + a.cleared
<1> DEFINE a == Anchored(d, b)
<1>1. /\ Kept(b) \subseteq pending /\ IsFiniteSet(Kept(b))
      /\ Cardinality(Kept(b)) \in Nat /\ Expired(b) \in Nat
      /\ Cardinality(pending) \in Nat
      /\ Cardinality(pending) = Cardinality(Kept(b)) + Expired(b)
      /\ OwnFrames(Kept(b), active)
      /\ Damaged(Kept(b)) \subseteq Damaged(pending)
  BY KeptIs
<1>2. pending \subseteq Frame /\ Cardinality(pending) <= PendingMax
  BY DEF PendingType
<1>3. /\ lastId \in Nat /\ completed \in Seq(Nat) /\ Len(completed) <= CompletedMax
      /\ <<>> \in Seq(Nat) /\ Len(<<>>) = 0 /\ 0 <= CompletedMax
  BY Sizes DEF StreamType
<1>4. CASE Stream(d) = active
  <2>1. /\ a.pending = Kept(b) /\ a.lastId = lastId /\ a.completed = completed
        /\ a.cleared = 0
    BY <1>4 DEF Anchored
  <2> HIDE DEF a
  <2>2. Cardinality(Kept(b)) <= PendingMax
    BY <1>1, <1>2, Sizes
  <2>3. ReadyIs(d, a)
    BY <2>1, <2>2, <1>1, <1>2, <1>3, <1>4 DEF ReadyIs
  <2>4. Cardinality(pending) = Cardinality(a.pending) + Expired(b) + a.cleared
    BY <2>1, <1>1
  <2> QED
    BY <2>3, <2>4, <1>1 DEF a
<1>5. CASE Stream(d) # active
  <2>1. /\ a.pending = {} /\ a.lastId = 0 /\ a.completed = <<>>
        /\ a.cleared = Cardinality(Kept(b))
    BY <1>5 DEF Anchored
  <2> HIDE DEF a
  <2>2. IsFiniteSet({}) /\ Cardinality({}) = 0 /\ 0 <= PendingMax
    BY FS_EmptySet, Sizes
  <2>3. OwnFrames({}, Stream(d)) /\ Damaged({}) = {}
    BY DEF OwnFrames, Damaged
  <2>4. ReadyIs(d, a)
    BY <2>1, <2>2, <2>3, <1>1, <1>3, <1>5 DEF ReadyIs
  <2>5. Cardinality(pending) = Cardinality(a.pending) + Expired(b) + a.cleared
    BY <2>1, <2>2, <1>1
  <2> QED
    BY <2>4, <2>5, <1>1 DEF a
<1> QED
  BY <1>4, <1>5

(* The table with a place for the datagram: the facts about Room(d, a) and *)
(* the frame p that the datagram belongs to.                               *)
Roomed(d, a, fs, p) ==
  /\ fs \subseteq Frame /\ IsFiniteSet(fs)
  /\ Cardinality(fs) \in Nat /\ Cardinality(fs) <= PendingMax
  /\ Cardinality(fs) + (IF Full(d, a) THEN 1 ELSE 0)
       = Cardinality(a.pending) + (IF New(d, a) THEN 1 ELSE 0)
  /\ OwnFrames(fs, Stream(d))
  /\ p \in fs /\ p.frame = d.frame
  /\ Damaged(fs) \subseteq Damaged(pending)

LEMMA RoomIs ==
  ASSUME NEW d \in Datagram, NEW a, ReadyIs(d, a), begun \in Nat
  PROVE  LET fs == Room(d, a) IN
         Roomed(d, a, fs, CHOOSE q \in Slot(fs, d.frame) : TRUE)
<1> DEFINE fs == Room(d, a)
           p == CHOOSE q \in Slot(fs, d.frame) : TRUE
           n == [frame |-> d.frame, meta |-> d.meta, parts |-> {}, born |-> begun + 1]
           old == IF Full(d, a) THEN a.pending \ {Oldest(a.pending)} ELSE a.pending
<1>1. /\ a.pending \subseteq Frame /\ IsFiniteSet(a.pending)
      /\ Cardinality(a.pending) \in Nat /\ Cardinality(a.pending) <= PendingMax
      /\ OwnFrames(a.pending, Stream(d))
      /\ Damaged(a.pending) \subseteq Damaged(pending)
  BY DEF ReadyIs
<1>2. Slot(fs, d.frame) # {} => p \in fs /\ p.frame = d.frame
  BY DEF Slot
<1>3. CASE ~New(d, a)
  <2>1. fs = a.pending /\ ~Full(d, a)
    BY <1>3 DEF Room, Full
  <2>2. Slot(fs, d.frame) # {}
    BY <1>3, <2>1 DEF New
  <2> HIDE DEF fs, p
  <2> QED
    BY <2>1, <2>2, <1>1, <1>2, <1>3 DEF Roomed, fs, p
<1>4. CASE New(d, a)
  <2>1. fs = old \cup {n}
    BY <1>4 DEF Room
  <2>2. \A q \in a.pending : q.frame # d.frame
    BY <1>4 DEF New, Slot
  <2>3. n \in Frame /\ n.frame = d.frame /\ n.parts = {}
    BY DEF Frame, Datagram
  <2>4. Full(d, a) => Oldest(a.pending) \in a.pending
    <3>1. ASSUME Full(d, a) PROVE a.pending # {}
      BY <3>1, <1>1, Sizes, FS_EmptySet DEF Full
    <3> QED
      BY <3>1, <1>1, OldestIs
  <2>5. /\ old \subseteq a.pending /\ IsFiniteSet(old) /\ Cardinality(old) \in Nat
        /\ Cardinality(old) + (IF Full(d, a) THEN 1 ELSE 0) = Cardinality(a.pending)
    <3>1. CASE Full(d, a)
      <4>1. old = a.pending \ {Oldest(a.pending)}
        BY <3>1
      <4> HIDE DEF old
      <4>2. /\ IsFiniteSet(old) /\ Cardinality(old) = Cardinality(a.pending) - 1
        BY <4>1, <3>1, <2>4, <1>1, FS_RemoveElement
      <4>3. Cardinality(old) \in Nat
        BY <4>2, FS_CardinalityType
      <4> QED
        BY <4>1, <4>2, <4>3, <3>1, <1>1
    <3>2. CASE ~Full(d, a)
      BY <3>2, <1>1
    <3> QED
      BY <3>1, <3>2
  <2>6. Cardinality(old) + 1 <= PendingMax
    BY <2>5, <1>1, <1>4, Sizes DEF Full
  <2> HIDE DEF old, n
  <2>7. n \notin old
    BY <2>2, <2>3, <2>5
  <2>8. IsFiniteSet(fs) /\ Cardinality(fs) = Cardinality(old) + 1
    BY <2>1, <2>5, <2>7, FS_AddElement
  <2>9. fs \subseteq Frame
    BY <2>1, <2>3, <2>5, <1>1
  <2> HIDE DEF fs, p
  <2>10. \A q \in fs : q \in a.pending \/ q = n
    BY <2>1, <2>5
  <2>11. OwnFrames(fs, Stream(d))
    <3>1. OwnParts({}, Stream(d), d.frame) /\ Cardinality({}) < Chunks
      BY FS_EmptySet, Sizes DEF OwnParts
    <3>2. \A q \in fs : OwnParts(q.parts, Stream(d), q.frame) /\ Cardinality(q.parts) < Chunks
      BY <3>1, <2>3, <2>10, <1>1 DEF OwnFrames
    <3>3. \A q, r \in fs : q.frame = r.frame => q = r
      BY <2>2, <2>3, <2>10, <1>1 DEF OwnFrames
    <3> QED
      BY <3>2, <3>3 DEF OwnFrames
  <2>12. Damaged(fs) \subseteq Damaged(pending)
    BY <2>3, <2>10, <1>1 DEF Damaged
  <2>13. p \in fs /\ p.frame = d.frame
    BY <1>2, <2>1, <2>3 DEF Slot
  <2>14. /\ Cardinality(fs) \in Nat /\ Cardinality(fs) <= PendingMax
         /\ Cardinality(fs) + (IF Full(d, a) THEN 1 ELSE 0) = Cardinality(a.pending) + 1
    BY <2>5, <2>6, <2>8
  <2> QED
    BY <2>8, <2>9, <2>11, <2>12, <2>13, <2>14, <1>4 DEF Roomed, fs, p
<1> QED
  BY <1>3, <1>4

-----------------------------------------------------------------------------
(* feed().                                                                 *)

\* The datagram takes the place of another stream, or goes on with its own.
Turned(d) ==
  /\ active' = Stream(d)
  /\ retired' = IF Version = 3 /\ active \notin {NoStream, Stream(d)}
                THEN Last(Append(retired, active.session), RetiredMax)
                ELSE retired

\* What expires goes, and nothing else happens.
Expiry(b) ==
  /\ pending' = Kept(b) /\ incomplete' = incomplete + Expired(b)
  /\ UNCHANGED <<stream, begun, conflicts, handed>>

\* The frame is late: only the stream may have turned.
Passed(a, b) ==
  /\ pending' = a.pending /\ lastId' = a.lastId /\ completed' = a.completed
  /\ incomplete' = incomplete + Expired(b) + a.cleared
  /\ UNCHANGED <<begun, conflicts, handed>>

\* The datagram goes to its frame p.
Taken(d, a, b, fs, p) ==
  /\ begun' = begun + IF New(d, a) THEN 1 ELSE 0
  /\ Mismatch(d, a, fs) \/ Repeat(d, a, fs, p) \/ Store(d, a, fs, p) \/ Complete(d, a, fs, p)
  /\ incomplete' = incomplete + Expired(b) + a.cleared
       + (IF Full(d, a) THEN 1 ELSE 0)
       + (IF complete' > complete THEN Cardinality(fs) - 1 - Cardinality(pending') ELSE 0)

\* What feed() may do, with the facts about what it goes on with.
Going(d, a, b) ==
  /\ ReadyIs(d, a)
  /\ Expired(b) \in Nat /\ Cardinality(pending) \in Nat
  /\ Cardinality(pending) = Cardinality(a.pending) + Expired(b) + a.cleared

LEMMA FeedIs ==
  ASSUME StreamType, PendingType, Assembly, begun \in Nat, NEW d \in Datagram, Feed(d)
  PROVE  \E b \in Births :
           \/ Expiry(b)
           \/ /\ Version = 3 => ~Refused(d, FALSE)
              /\ Turned(d)
              /\ \E a : /\ Going(d, a, b)
                        /\ \/ Passed(a, b)
                           \/ /\ ~Late(d, a)
                              /\ \E fs, p : Roomed(d, a, fs, p) /\ Taken(d, a, b, fs, p)
<1>1. PICK b \in Births, quiet \in BOOLEAN :
        /\ quiet => Version = 2 /\ Kept(b) = {}
        /\ IF Refused(d, quiet) THEN Expiry(b)
           ELSE LET a == Anchored(d, b)
                    fs == Room(d, a)
                    p == CHOOSE q \in Slot(fs, d.frame) : TRUE
                IN  /\ Turned(d)
                    /\ IF Late(d, a) THEN Passed(a, b)
                       ELSE /\ begun' = begun + IF New(d, a) THEN 1 ELSE 0
                            /\ IF p.meta # d.meta THEN Mismatch(d, a, fs)
                               ELSE Repeat(d, a, fs, p) \/ Store(d, a, fs, p) \/ Complete(d, a, fs, p)
                            /\ incomplete' = incomplete + Expired(b) + a.cleared
                                 + (IF Full(d, a) THEN 1 ELSE 0)
                                 + (IF complete' > complete
                                    THEN Cardinality(fs) - 1 - Cardinality(pending') ELSE 0)
  BY Zenon DEF Feed, Expiry, Turned, Passed
<1>2. CASE Refused(d, quiet)
  BY <1>1, <1>2
<1>3. CASE ~Refused(d, quiet)
  <2> DEFINE a == Anchored(d, b)
             fs == Room(d, a)
             p == CHOOSE q \in Slot(fs, d.frame) : TRUE
  <2>1. Going(d, a, b)
    BY AnchoredIs, Zenon DEF Going
  <2>2. Roomed(d, a, fs, p)
    BY <2>1, RoomIs, Zenon DEF Going
  <2>3. Version = 3 => ~Refused(d, FALSE)
    <3>1. Version = 3 => ~quiet
      BY <1>1
    <3>2. ~quiet => quiet = FALSE
      BY Zenon
    <3> QED
      BY <1>3, <3>1, <3>2, Zenon
  <2>4. Turned(d) /\ (Passed(a, b) \/ (~Late(d, a) /\ Taken(d, a, b, fs, p)))
    BY <1>1, <1>3, Zenon DEF Taken
  <2> HIDE DEF a, fs, p
  <2> QED
    BY <2>1, <2>2, <2>3, <2>4, Zenon
<1> QED
  BY <1>2, <1>3

-----------------------------------------------------------------------------
(* The frames under assembly.                                              *)

(* Fewer frames are still of their stream.                                 *)
LEMMA FewerFrames ==
  ASSUME NEW fs, IsFiniteSet(fs), Cardinality(fs) <= PendingMax, fs \subseteq Frame, NEW s,
         OwnFrames(fs, s), NEW left, left \subseteq fs
  PROVE  /\ left \subseteq Frame /\ IsFiniteSet(left) /\ Cardinality(left) <= PendingMax
         /\ Cardinality(left) \in Nat /\ Cardinality(left) <= Cardinality(fs)
         /\ OwnFrames(left, s) /\ Damaged(left) \subseteq Damaged(fs)
<1>1. IsFiniteSet(left) /\ Cardinality(left) <= Cardinality(fs)
  BY FS_Subset
<1>2. Cardinality(left) \in Nat /\ Cardinality(fs) \in Nat
  BY <1>1, FS_CardinalityType
<1>3. OwnFrames(left, s) /\ Damaged(left) \subseteq Damaged(fs)
  BY DEF OwnFrames, Damaged
<1> QED
  BY <1>1, <1>2, <1>3, Sizes

(* A chunk is stored.                                                      *)
LEMMA StoredFrames ==
  ASSUME NEW d \in Datagram, NEW a, NEW fs, NEW p, Roomed(d, a, fs, p), Store(d, a, fs, p)
  PROVE  /\ pending' \subseteq Frame /\ IsFiniteSet(pending')
         /\ Cardinality(pending') = Cardinality(fs)
         /\ OwnFrames(pending', Stream(d))
<1> DEFINE q == [p EXCEPT !.parts = @ \cup {Part(d)}]
<1>1. /\ fs \subseteq Frame /\ IsFiniteSet(fs) /\ OwnFrames(fs, Stream(d))
      /\ p \in fs /\ p.frame = d.frame /\ Cardinality(fs) \in Nat
  BY DEF Roomed
<1>2. /\ \A x \in p.parts : x.idx # d.idx
      /\ Cardinality(p.parts) + 1 < Chunks
      /\ pending' = (fs \ {p}) \cup {q}
  BY DEF Store
<1>3. OwnParts(p.parts, Stream(d), d.frame)
  BY <1>1 DEF OwnFrames
<1>4. /\ OwnParts(p.parts \cup {Part(d)}, Stream(d), d.frame)
      /\ Cardinality(p.parts) \in Nat
      /\ Cardinality(p.parts \cup {Part(d)}) = Cardinality(p.parts) + 1
  BY <1>2, <1>3, PartAdded
<1>5. p \in Frame
  BY <1>1
<1>6. q.parts = p.parts \cup {Part(d)} /\ q.frame = d.frame /\ q \in Frame
  <2>1. \A x \in p.parts \cup {Part(d)} : x \in PartRec
    BY <1>4 DEF OwnParts
  <2> QED
    BY <2>1, <1>1, <1>5 DEF Frame
<1> HIDE DEF q
<1>7. \A r \in fs \ {p} : r.frame # d.frame
  BY <1>1 DEF OwnFrames
<1>8. q \notin fs \ {p}
  BY <1>6, <1>7
<1>9. IsFiniteSet(pending') /\ Cardinality(pending') = Cardinality(fs)
  <2>1. IsFiniteSet(fs \ {p}) /\ Cardinality(fs \ {p}) = Cardinality(fs) - 1
    BY <1>1, FS_RemoveElement
  <2>2. /\ IsFiniteSet((fs \ {p}) \cup {q})
        /\ Cardinality((fs \ {p}) \cup {q}) = Cardinality(fs \ {p}) + 1
    BY <2>1, <1>8, FS_AddElement
  <2> QED
    BY <2>1, <2>2, <1>1, <1>2
<1>10. \A r \in pending' : (r \in fs /\ r.frame # d.frame) \/ r = q
  BY <1>2, <1>7
<1>11. OwnFrames(pending', Stream(d))
  <2>1. \A r \in pending' : OwnParts(r.parts, Stream(d), r.frame) /\ Cardinality(r.parts) < Chunks
    BY <1>1, <1>2, <1>4, <1>6, <1>10 DEF OwnFrames
  <2>2. \A r, t \in pending' : r.frame = t.frame => r = t
    BY <1>1, <1>6, <1>10 DEF OwnFrames
  <2> QED
    BY <2>1, <2>2 DEF OwnFrames
<1> QED
  BY <1>1, <1>2, <1>6, <1>9, <1>11

(* Whatever becomes of a datagram, the table stays one of its stream.      *)
LEMMA TakenFrames ==
  ASSUME NEW d \in Datagram, NEW a, NEW b, NEW fs, NEW p, Roomed(d, a, fs, p),
         Taken(d, a, b, fs, p)
  PROVE  PendingType' /\ OwnFrames(pending', Stream(d)) /\ Cardinality(pending') \in Nat
<1>1. /\ fs \subseteq Frame /\ IsFiniteSet(fs) /\ OwnFrames(fs, Stream(d))
      /\ Cardinality(fs) <= PendingMax /\ Cardinality(fs) \in Nat
  BY DEF Roomed
<1>2. CASE pending' \subseteq fs
  BY <1>1, <1>2, FewerFrames DEF PendingType
<1>3. CASE Store(d, a, fs, p)
  BY <1>1, <1>3, StoredFrames DEF PendingType
<1>4. ASSUME Mismatch(d, a, fs) \/ Repeat(d, a, fs, p) \/ Complete(d, a, fs, p)
      PROVE  pending' \subseteq fs
  <2>1. CASE Mismatch(d, a, fs)
    BY <2>1 DEF Mismatch
  <2>2. CASE Repeat(d, a, fs, p)
    BY <2>2 DEF Repeat
  <2>3. CASE Complete(d, a, fs, p)
    BY <2>3 DEF Complete, Newer
  <2> QED
    BY <1>4, <2>1, <2>2, <2>3
<1> QED
  BY <1>2, <1>3, <1>4 DEF Taken

-----------------------------------------------------------------------------
(* The frames that are handed over.                                        *)

\* What NoMixedFrame says of a frame.
Unmixed(f) ==
  /\ {x.idx : x \in f.parts} = 0 .. Chunks - 1 /\ Cardinality(f.parts) = Chunks
  /\ \E peer \in Peers : \A x \in f.parts :
       x.peer = peer /\ x.session = f.session /\ x.frame = f.frame

LEMMA TakenHanded ==
  ASSUME HandedType, NoMixedFrame, NEW d \in Datagram, NEW a, NEW b, NEW fs, NEW p,
         ReadyIs(d, a), Roomed(d, a, fs, p), Taken(d, a, b, fs, p)
  PROVE  HandedType' /\ NoMixedFrame'
<1>1. CASE UNCHANGED handed
  BY <1>1 DEF handed, HandedType, NoMixedFrame
<1>2. CASE Complete(d, a, fs, p)
  <2> DEFINE f == [session |-> d.session, frame |-> d.frame, parts |-> p.parts \cup {Part(d)}]
  <2>1. /\ \A x \in p.parts : x.idx # d.idx
        /\ Cardinality(p.parts) + 1 = Chunks
        /\ gaps' = gaps + Skipped(d, a)
        /\ first' = IF a.lastId = 0 THEN d.frame ELSE first
        /\ complete' = complete + 1 /\ seen' = seen \cup {<<d.session, d.frame>>}
        /\ frames' = Last(Append(frames, f), FramesMax)
    BY <1>2 DEF Complete
  <2>2. OwnParts(p.parts, Stream(d), d.frame)
    BY DEF Roomed, OwnFrames
  <2>3. /\ OwnParts(p.parts \cup {Part(d)}, Stream(d), d.frame)
        /\ Cardinality(p.parts \cup {Part(d)}) = Chunks
    BY <2>1, <2>2, PartAdded, Sizes
  <2>4. /\ f.session = d.session /\ f.frame = d.frame /\ f.parts = p.parts \cup {Part(d)}
        /\ d.session \in Nat /\ d.frame \in Nat \ {0} /\ d.peer \in Peers
        /\ Stream(d).peer = d.peer /\ Stream(d).session = d.session
    BY Sizes DEF Datagram, Stream
  <2>5. f \in Handed
    BY <2>3, <2>4 DEF OwnParts, Handed
  <2> HIDE DEF f
  <2>6. Unmixed(f)
    <3>1. {x.idx : x \in f.parts} = 0 .. Chunks - 1
      BY <2>3, <2>4, WholeFrame
    <3>2. \A x \in f.parts : x.peer = d.peer /\ x.session = f.session /\ x.frame = f.frame
      BY <2>3, <2>4 DEF OwnParts
    <3> QED
      BY <3>1, <3>2, <2>3, <2>4 DEF Unmixed
  <2>7. frames \in Seq(Handed) /\ Len(frames) <= FramesMax
    BY DEF HandedType
  <2>8. /\ frames' \in Seq(Handed) /\ Len(frames') <= FramesMax
        /\ Elements(frames') \subseteq Elements(frames) \cup {f}
    BY <2>1, <2>5, <2>7, Sizes, LastAppended, LastElements DEF AppendedIn
  <2>9. \A g \in Elements(frames) : Unmixed(g)
    BY DEF NoMixedFrame, Unmixed, Elements
  <2>10. \A g \in Elements(frames') : Unmixed(g)
    BY <2>6, <2>8, <2>9
  <2>11. NoMixedFrame'
    <3>1. \A n \in DOMAIN frames' : Unmixed(frames'[n])
      BY <2>10 DEF Elements
    <3> QED
      BY <3>1 DEF NoMixedFrame, Unmixed
  <2>12. Skipped(d, a) \in Nat
    <3>1. a.lastId \in Nat
      BY DEF ReadyIs
    <3> QED
      BY <2>4, <3>1 DEF Skipped
  <2>13. seen' \subseteq Nat \X Nat /\ IsFiniteSet(seen')
    <3>1. seen \subseteq Nat \X Nat /\ IsFiniteSet(seen)
      BY DEF HandedType
    <3>2. IsFiniteSet(seen \cup {<<d.session, d.frame>>})
      BY <3>1, FS_AddElement
    <3>3. <<d.session, d.frame>> \in Nat \X Nat
      BY <2>4
    <3> QED
      BY <2>1, <3>1, <3>2, <3>3
  <2>14. complete' \in Nat /\ gaps' \in Nat /\ first' \in Nat \ {0}
    BY <2>1, <2>4, <2>12 DEF HandedType
  <2> QED
    BY <2>8, <2>11, <2>13, <2>14 DEF HandedType
<1>3. Complete(d, a, fs, p) \/ UNCHANGED handed
  BY DEF Taken, Mismatch, Repeat, Store
<1> QED
  BY <1>1, <1>2, <1>3

-----------------------------------------------------------------------------
(* The conflicts.                                                          *)

(* A fault makes at most one conflict, at once or when a good chunk meets  *)
(* the damaged one.                                                        *)
LEMMA TakenConflicts ==
  ASSUME IsFiniteSet(pending), conflicts \in Nat, NEW d \in Datagram, NEW a, NEW b,
         NEW fs, NEW p, Roomed(d, a, fs, p), Taken(d, a, b, fs, p)
  PROVE  /\ conflicts' \in Nat
         /\ conflicts' + Cardinality(Damaged(pending'))
              <= conflicts + Cardinality(Damaged(pending)) + (IF d.val = "other" THEN 1 ELSE 0)
<1> DEFINE D == Damaged(pending)
           E == Damaged(pending')
<1>1. IsFiniteSet(D) /\ Cardinality(D) \in Nat
  <2>1. D \subseteq pending
    BY DEF Damaged
  <2> QED
    BY <2>1, FS_Subset, FS_CardinalityType
<1>2. /\ p \in fs /\ p.frame = d.frame /\ Damaged(fs) \subseteq D /\ fs \subseteq Frame
      /\ OwnParts(p.parts, Stream(d), d.frame)
  BY DEF Roomed, OwnFrames
<1>3. ASSUME NEW F, IsFiniteSet(F), E \subseteq F
      PROVE  Cardinality(E) \in Nat /\ Cardinality(E) <= Cardinality(F) /\ Cardinality(F) \in Nat
  BY <1>3, FS_Subset, FS_CardinalityType
<1>4. CASE pending' \subseteq fs /\ conflicts' = conflicts
  <2>1. E \subseteq D
    BY <1>2, <1>4 DEF Damaged
  <2> HIDE DEF D, E
  <2>2. Cardinality(E) \in Nat /\ Cardinality(E) <= Cardinality(D)
    BY <2>1, <1>1, <1>3
  <2> QED
    BY <2>2, <1>1, <1>4 DEF D, E
<1>5. CASE /\ \E x \in p.parts : x.idx = d.idx
           /\ ~ \E x \in p.parts : x.idx = d.idx /\ x.val = d.val
           /\ pending' = fs \ {p} /\ conflicts' = conflicts + 1
  <2>1. E \subseteq D \ {p}
    BY <1>2, <1>5 DEF Damaged
  <2>2. d.val \in Data
    BY DEF Datagram
  <2>3. CASE d.val = "other"
    <3>1. E \subseteq D
      BY <2>1
    <3> HIDE DEF D, E
    <3>2. Cardinality(E) \in Nat /\ Cardinality(E) <= Cardinality(D)
      BY <3>1, <1>1, <1>3
    <3> QED
      BY <3>2, <2>3, <1>1, <1>5 DEF D, E
  <2>4. CASE d.val # "other"
    <3>1. PICK x \in p.parts : x.idx = d.idx /\ x.val # d.val
      BY <1>5
    <3>2. x \in PartRec
      BY <1>2 DEF OwnParts
    <3>3. x.val = "other"
      BY <3>1, <3>2, <2>2, <2>4 DEF PartRec, Data
    <3>4. p \in D
      BY <3>3, <1>2 DEF Damaged
    <3> HIDE DEF D, E
    <3>5. IsFiniteSet(D \ {p}) /\ Cardinality(D \ {p}) = Cardinality(D) - 1
      BY <3>4, <1>1, FS_RemoveElement
    <3>6. Cardinality(E) \in Nat /\ Cardinality(E) <= Cardinality(D) - 1
      BY <3>5, <2>1, <1>3
    <3> QED
      BY <3>6, <2>4, <1>1, <1>5 DEF D, E
  <2> QED
    BY <2>3, <2>4
<1>6. CASE Store(d, a, fs, p)
  <2> DEFINE q == [p EXCEPT !.parts = @ \cup {Part(d)}]
  <2>1. pending' = (fs \ {p}) \cup {q} /\ conflicts' = conflicts
    BY <1>6 DEF Store
  <2>2. q.parts = p.parts \cup {Part(d)} /\ Part(d).val = d.val
    <3>1. p \in Frame
      BY <1>2
    <3> QED
      BY <3>1 DEF Frame, Part
  <2> HIDE DEF q
  <2>3. E \subseteq (D \ {p}) \cup {q}
    BY <2>1, <1>2 DEF Damaged
  <2>4. CASE p \in D
    <3> HIDE DEF D, E
    <3>1. IsFiniteSet(D \ {p}) /\ Cardinality(D \ {p}) = Cardinality(D) - 1
      BY <2>4, <1>1, FS_RemoveElement
    <3>2. /\ IsFiniteSet((D \ {p}) \cup {q})
          /\ Cardinality((D \ {p}) \cup {q}) <= Cardinality(D \ {p}) + 1
      <4>1. /\ IsFiniteSet((D \ {p}) \cup {q})
            /\ Cardinality((D \ {p}) \cup {q}) =
                 IF q \in D \ {p} THEN Cardinality(D \ {p}) ELSE Cardinality(D \ {p}) + 1
        BY <3>1, FS_AddElement
      <4> QED
        BY <4>1, <3>1, <1>1
    <3>3. Cardinality(E) \in Nat /\ Cardinality(E) <= Cardinality(D)
      BY <3>1, <3>2, <2>3, <1>1, <1>3
    <3> QED
      BY <3>3, <2>1, <1>1 DEF D, E
  <2>5. CASE d.val = "other"
    <3>1. E \subseteq D \cup {q}
      BY <2>3
    <3> HIDE DEF D, E
    <3>2. /\ IsFiniteSet(D \cup {q}) /\ Cardinality(D \cup {q}) <= Cardinality(D) + 1
      <4>1. /\ IsFiniteSet(D \cup {q})
            /\ Cardinality(D \cup {q}) = IF q \in D THEN Cardinality(D) ELSE Cardinality(D) + 1
        BY <1>1, FS_AddElement
      <4> QED
        BY <4>1, <1>1
    <3>3. Cardinality(E) \in Nat /\ Cardinality(E) <= Cardinality(D) + 1
      BY <3>1, <3>2, <1>1, <1>3
    <3> QED
      BY <3>3, <2>1, <2>5, <1>1 DEF D, E
  <2>6. CASE p \notin D /\ d.val # "other"
    <3>2. E \subseteq D
      <4>1. p \notin Damaged(fs)
        BY <2>6, <1>2
      <4>2. \A x \in q.parts : x.val # "other"
        BY <4>1, <2>2, <2>6, <1>2 DEF Damaged
      <4>3. q \notin E
        BY <4>2 DEF Damaged
      <4> QED
        BY <4>3, <2>3
    <3> HIDE DEF D, E
    <3>3. Cardinality(E) \in Nat /\ Cardinality(E) <= Cardinality(D)
      BY <3>2, <1>1, <1>3
    <3> QED
      BY <3>3, <2>1, <1>1 DEF D, E
  <2> QED
    BY <2>4, <2>5, <2>6
<1>7. \/ pending' \subseteq fs /\ conflicts' = conflicts
      \/ /\ \E x \in p.parts : x.idx = d.idx
         /\ ~ \E x \in p.parts : x.idx = d.idx /\ x.val = d.val
         /\ pending' = fs \ {p} /\ conflicts' = conflicts + 1
      \/ Store(d, a, fs, p)
  <2>1. CASE Mismatch(d, a, fs)
    BY <2>1 DEF Mismatch
  <2>2. CASE Repeat(d, a, fs, p)
    BY <2>2 DEF Repeat
  <2>3. CASE Complete(d, a, fs, p)
    BY <2>3 DEF Complete, Newer
  <2> QED
    BY <2>1, <2>2, <2>3 DEF Taken
<1> QED
  BY <1>4, <1>5, <1>6, <1>7

-----------------------------------------------------------------------------
(* The counters.                                                           *)

(* A frame that leaves the table is counted.                               *)
LEMMA TakenCounts ==
  ASSUME CountType, HandedType, FramesAccounted, NEW d \in Datagram, NEW a, NEW b, NEW fs, NEW p,
         Going(d, a, b), Roomed(d, a, fs, p), Taken(d, a, b, fs, p), conflicts' \in Nat
  PROVE  CountType' /\ FramesAccounted'
<1>1. /\ incomplete \in Nat /\ begun \in Nat /\ conflicts \in Nat /\ complete \in Nat
      /\ begun = Cardinality(pending) + complete + incomplete + conflicts
  BY DEF CountType, HandedType, FramesAccounted
<1>2. /\ Expired(b) \in Nat /\ Cardinality(pending) \in Nat /\ a.cleared \in Nat
      /\ Cardinality(a.pending) \in Nat
      /\ Cardinality(pending) = Cardinality(a.pending) + Expired(b) + a.cleared
  BY DEF Going, ReadyIs
<1>3. /\ IsFiniteSet(fs) /\ Cardinality(fs) \in Nat /\ p \in fs /\ fs \subseteq Frame
      /\ Cardinality(fs) <= PendingMax /\ OwnFrames(fs, Stream(d))
      /\ Cardinality(fs) + (IF Full(d, a) THEN 1 ELSE 0)
           = Cardinality(a.pending) + (IF New(d, a) THEN 1 ELSE 0)
  BY DEF Roomed
<1>4. /\ begun' = begun + IF New(d, a) THEN 1 ELSE 0
      /\ incomplete' = incomplete + Expired(b) + a.cleared
           + (IF Full(d, a) THEN 1 ELSE 0)
           + (IF complete' > complete THEN Cardinality(fs) - 1 - Cardinality(pending') ELSE 0)
  BY DEF Taken
<1>5. /\ IsFiniteSet(fs \ {p}) /\ Cardinality(fs \ {p}) = Cardinality(fs) - 1
      /\ Cardinality(fs \ {p}) \in Nat
  BY <1>3, FS_RemoveElement, FS_CardinalityType
<1>6. CASE complete' = complete /\ Cardinality(pending') = Cardinality(fs) /\ conflicts' = conflicts
  BY <1>1, <1>2, <1>3, <1>4, <1>6 DEF CountType, FramesAccounted
<1>7. CASE /\ complete' = complete /\ Cardinality(pending') = Cardinality(fs) - 1
           /\ conflicts' = conflicts + 1
  BY <1>1, <1>2, <1>3, <1>4, <1>7 DEF CountType, FramesAccounted
<1>8. CASE Complete(d, a, fs, p)
  <2>1. pending' \subseteq fs \ {p} /\ complete' = complete + 1 /\ conflicts' = conflicts
    BY <1>8 DEF Complete, Newer
  <2>2. Cardinality(pending') \in Nat /\ Cardinality(pending') <= Cardinality(fs) - 1
    BY <2>1, <1>5, FS_Subset, FS_CardinalityType
  <2> DEFINE n == IF New(d, a) THEN 1 ELSE 0
             f == IF Full(d, a) THEN 1 ELSE 0
             left == Cardinality(fs) - 1 - Cardinality(pending')
  <2>3. left \in Nat /\ n \in Nat /\ f \in Nat
    BY <2>2, <1>3
  <2>4. begun' = begun + n /\ incomplete' = incomplete + Expired(b) + a.cleared + f + left
    BY <2>1, <1>1, <1>4
  <2>5. Cardinality(fs) + f = Cardinality(a.pending) + n
    BY <1>3
  <2>6. left + Cardinality(pending') = Cardinality(fs) - 1
    BY <2>2, <1>3
  <2> HIDE DEF n, f, left
  <2>7. begun' \in Nat /\ incomplete' \in Nat
    BY <2>3, <2>4, <1>1, <1>2
  <2>8. begun' = Cardinality(pending') + complete' + incomplete' + conflicts'
    <3>1. begun' = Cardinality(a.pending) + n + Expired(b) + a.cleared + complete + incomplete
                     + conflicts
      BY <2>3, <2>4, <1>1, <1>2
    <3>2. begun' = left + Cardinality(pending') + 1 + f + Expired(b) + a.cleared + complete
                     + incomplete + conflicts
      BY <3>1, <2>2, <2>3, <2>5, <2>6, <1>1, <1>2, <1>3
    <3> QED
      BY <3>2, <2>1, <2>2, <2>3, <2>4, <1>1, <1>2
  <2>9. CountType'
    BY <2>7 DEF CountType
  <2>10. FramesAccounted'
    BY <2>8 DEF FramesAccounted
  <2> QED
    BY <2>9, <2>10
<1>9. CASE Mismatch(d, a, fs)
  <2>1. complete' = complete /\ pending' = fs /\ conflicts' = conflicts
    BY <1>9 DEF Mismatch, handed
  <2> QED
    BY <2>1, <1>6
<1>10. CASE Repeat(d, a, fs, p)
  <2>1. /\ complete' = complete
        /\ \/ pending' = fs /\ conflicts' = conflicts
           \/ pending' = fs \ {p} /\ conflicts' = conflicts + 1
    BY <1>10 DEF Repeat, handed
  <2> QED
    BY <2>1, <1>5, <1>6, <1>7
<1>11. CASE Store(d, a, fs, p)
  <2>1. complete' = complete /\ conflicts' = conflicts
    BY <1>11 DEF Store, handed
  <2>2. Cardinality(pending') = Cardinality(fs)
    BY <1>11, StoredFrames
  <2> QED
    BY <2>1, <2>2, <1>6
<1> QED
  BY <1>8, <1>9, <1>10, <1>11 DEF Taken

-----------------------------------------------------------------------------
(* The gaps.                                                               *)

\* The numbers from the first frame to the last that were not handed over.
Missed == (first .. lastId) \ Given

LEMMA MissedFinite ==
  ASSUME StreamType, HandedType
  PROVE  IsFiniteSet(Missed) /\ Cardinality(Missed) \in Nat
<1>1. first \in Int /\ lastId \in Int
  BY DEF StreamType, HandedType
<1>2. IsFiniteSet(first .. lastId)
  BY <1>1, FS_Interval
<1>3. Missed \subseteq first .. lastId
  BY DEF Missed
<1> QED
  BY <1>2, <1>3, FS_Subset, FS_CardinalityType

(* As long as nothing is handed over, nothing is missed: another stream    *)
(* begins without a last number.                                           *)
LEMMA TurnedGaps ==
  ASSUME HandedType, GapsCoverLosses, NEW d, NEW a, ReadyIs(d, a),
         active' = Stream(d), lastId' = a.lastId, UNCHANGED handed
  PROVE  GapsCoverLosses'
<1>1. first' = first /\ seen' = seen /\ gaps' = gaps /\ first \in Nat \ {0} /\ gaps \in Nat
  BY DEF handed, HandedType
<1>2. CASE Stream(d) = active
  <2>1. active' = active /\ lastId' = lastId
    BY <1>2 DEF ReadyIs
  <2> QED
    BY <2>1, <1>1 DEF GapsCoverLosses, Given
<1>3. CASE Stream(d) # active
  <2>1. lastId' = 0
    BY <1>3 DEF ReadyIs
  <2>2. first' .. lastId' = {}
    BY <2>1, <1>1
  <2>3. Cardinality((first' .. lastId') \ Given') = 0
    BY <2>2, FS_EmptySet
  <2> QED
    BY <2>3, <1>1 DEF GapsCoverLosses
<1> QED
  BY <1>2, <1>3

(* A complete frame adds the numbers it skipped to the gaps.               *)
LEMMA CompleteGaps ==
  ASSUME StreamType, HandedType, GapsCoverLosses, NEW d \in Datagram, NEW a, NEW fs, NEW p,
         ReadyIs(d, a), active' = Stream(d), Complete(d, a, fs, p)
  PROVE  GapsCoverLosses'
<1>1. /\ gaps' = gaps + Skipped(d, a)
      /\ lastId' = IF d.frame > a.lastId THEN d.frame ELSE a.lastId
      /\ first' = IF a.lastId = 0 THEN d.frame ELSE first
      /\ seen' = seen \cup {<<d.session, d.frame>>}
  BY DEF Complete
<1>2. /\ d.frame \in Nat \ {0} /\ first \in Nat \ {0} /\ gaps \in Nat /\ a.lastId \in Nat
      /\ lastId \in Nat /\ Stream(d).session = d.session
  BY DEF Datagram, HandedType, StreamType, ReadyIs, Stream
<1>3. d.frame \in Given'
  <2>1. <<d.session, d.frame>> \in seen' /\ active'.session = d.session
    BY <1>1, <1>2
  <2>2. <<d.session, d.frame>>[1] = d.session /\ <<d.session, d.frame>>[2] = d.frame
    OBVIOUS
  <2>3. Given' = {x[2] : x \in {y \in seen' : y[1] = active'.session}}
    BY Zenon DEF Given
  <2> QED
    BY <2>1, <2>2, <2>3, Zenon
<1>4. IsFiniteSet(Missed) /\ Cardinality(Missed) \in Nat /\ Cardinality(Missed) <= gaps
  BY MissedFinite DEF GapsCoverLosses, Missed
<1>5. CASE a.lastId = 0
  <2>1. first' = d.frame /\ lastId' = d.frame /\ Skipped(d, a) = 0
    BY <1>1, <1>2, <1>5 DEF Skipped
  <2>2. (first' .. lastId') \ Given' = {}
    BY <2>1, <1>2, <1>3
  <2>3. Cardinality((first' .. lastId') \ Given') = 0
    BY <2>2, FS_EmptySet
  <2> QED
    BY <2>1, <2>3, <1>1, <1>2 DEF GapsCoverLosses
<1>6. CASE a.lastId # 0
  <2>1. Stream(d) = active /\ a.lastId = lastId
    BY <1>6 DEF ReadyIs
  <2>2. Given \subseteq Given'
    BY <2>1, <1>1 DEF Given
  <2>3. first' = first
    BY <1>1, <1>6
  <2>4. CASE d.frame <= lastId
    <3>1. lastId' = lastId /\ Skipped(d, a) = 0
      BY <1>1, <1>2, <2>1, <2>4 DEF Skipped
    <3>2. (first' .. lastId') \ Given' \subseteq Missed
      BY <2>2, <2>3, <3>1 DEF Missed
    <3>3. /\ Cardinality((first' .. lastId') \ Given') \in Nat
          /\ Cardinality((first' .. lastId') \ Given') <= Cardinality(Missed)
      BY <3>2, <1>4, FS_Subset, FS_CardinalityType
    <3> QED
      BY <3>1, <3>3, <1>1, <1>2, <1>4 DEF GapsCoverLosses
  <2>5. CASE d.frame > lastId
    <3> DEFINE I == lastId + 1 .. d.frame - 1
    <3>1. lastId' = d.frame /\ Skipped(d, a) = d.frame - lastId - 1
      BY <1>1, <1>2, <1>6, <2>1, <2>5 DEF Skipped
    <3>2. ASSUME NEW n \in (first' .. lastId') \ Given' PROVE n \in Missed \cup I
      <4>1. n \in Nat /\ first <= n /\ n <= d.frame /\ n # d.frame /\ n \notin Given
        BY <1>2, <1>3, <2>2, <2>3, <3>1
      <4> QED
        BY <4>1, <1>2 DEF Missed
    <3>3. IsFiniteSet(I) /\ Cardinality(I) = d.frame - lastId - 1
      <4>1. lastId + 1 \in Int /\ d.frame - 1 \in Int
        BY <1>2
      <4>2. /\ IsFiniteSet(I)
            /\ Cardinality(I) = IF lastId + 1 > d.frame - 1 THEN 0
                                ELSE (d.frame - 1) - (lastId + 1) + 1
        BY <4>1, FS_Interval
      <4> QED
        BY <4>2, <1>2, <2>5
    <3> HIDE DEF I
    <3>4. /\ IsFiniteSet(Missed \cup I)
          /\ Cardinality(Missed \cup I)
               = Cardinality(Missed) + Cardinality(I) - Cardinality(Missed \cap I)
      BY <3>3, <1>4, FS_Union
    <3>5. Cardinality(Missed \cap I) \in Nat
      <4>1. IsFiniteSet(Missed \cap I)
        BY <1>4, FS_Subset
      <4> QED
        BY <4>1, FS_CardinalityType
    <3>6. /\ Cardinality((first' .. lastId') \ Given') \in Nat
          /\ Cardinality((first' .. lastId') \ Given') <= Cardinality(Missed \cup I)
      BY <3>2, <3>4, FS_Subset, FS_CardinalityType
    <3>7. Cardinality(Missed \cup I) <= Cardinality(Missed) + (d.frame - lastId - 1)
      BY <3>3, <3>4, <3>5, <1>2, <1>4
    <3>8. Cardinality(Missed \cup I) \in Nat
      BY <3>4, FS_CardinalityType
    <3> QED
      BY <3>1, <3>6, <3>7, <3>8, <1>1, <1>2, <1>4 DEF GapsCoverLosses
  <2> QED
    BY <2>4, <2>5, <1>2
<1> QED
  BY <1>5, <1>6

-----------------------------------------------------------------------------
(* No typed frame twice.                                                   *)

\* A number that comes in and may: it is neither known nor behind.
Comes(n, given, last, done) ==
  /\ n \in Nat \ {0} /\ n \notin Elements(done)
  /\ last # 0 => n >= last - Window

(* Such a number was not handed over before.                               *)
LEMMA ComesNew ==
  ASSUME NEW given \in SUBSET Nat, NEW last \in Nat, NEW done, NEW bound,
         Behind(given, last, done, bound), NEW n, Comes(n, given, last, done)
  PROVE  n \notin given
BY Sizes DEF Behind, Comes

\* What is put in "completed": a complete frame, or one that was in conflict.
Entered(n, given, last, bound, given2, last2, bound2) ==
  /\ bound2 \in Nat /\ bound2 <= MaxFaults
  /\ \/ given2 = given \cup {n} /\ last2 = (IF n > last THEN n ELSE last) /\ bound2 = bound
     \/ given2 = given /\ last2 = last /\ bound2 = bound + 1

(* The number that a full "completed" forgets is behind the window: those  *)
(* that came after it would not all have their place within it.            *)
LEMMA Forgotten ==
  ASSUME Remembered,
         NEW given \in SUBSET Nat, NEW last \in Nat, NEW done \in Seq(Nat), NEW bound \in Nat,
         Behind(given, last, done, bound), Len(done) = CompletedMax,
         NEW n, Comes(n, given, last, done),
         NEW given2, NEW last2, NEW bound2,
         Entered(n, given, last, bound, given2, last2, bound2),
         done[1] \in given
  PROVE  done[1] < last2 - Window
<1> DEFINE e == done[1]
           G == Elements(done) \cap given
           B == Elements(done) \ given
<1> SUFFICES ASSUME ~(e < last2 - Window) PROVE FALSE
  OBVIOUS
<1>1. /\ Window \in Nat /\ MaxFaults \in Nat /\ CompletedMax \in Nat \ {0}
      /\ CompletedMax > 2 * Window + MaxFaults
  BY Sizes DEF Remembered
<1>2. /\ \A m \in given : m <= last
      /\ \A i, j \in 1 .. Len(done) : done[i] = done[j] => i = j
      /\ \A i, j \in 1 .. Len(done) :
           i < j /\ done[i] \in given /\ done[j] \in given => done[j] >= done[i] - Window
      /\ Cardinality(B) <= bound
  BY DEF Behind
<1>3. /\ n \in Nat \ {0} /\ n \notin Elements(done) /\ (last # 0 => n >= last - Window)
  BY DEF Comes
<1>4. e \in Nat /\ e <= last
  BY <1>2
<1>5. last2 \in Nat /\ last <= last2
  BY <1>3 DEF Entered
<1>6. last2 <= e + Window
  BY <1>1, <1>4, <1>5
<1>7. IsFiniteSet(Elements(done)) /\ Cardinality(Elements(done)) = CompletedMax
  BY <1>2, ManyElements
<1>8. /\ IsFiniteSet(G) /\ Cardinality(G) \in Nat /\ Cardinality(B) \in Nat
      /\ Cardinality(G) + Cardinality(B) = CompletedMax
  <2>1. /\ IsFiniteSet(B)
        /\ Cardinality(B) = Cardinality(Elements(done)) - Cardinality(Elements(done) \cap given)
    BY <1>7, FS_Difference
  <2>2. IsFiniteSet(G)
    BY <1>7, FS_Subset
  <2>3. Cardinality(G) \in Nat /\ Cardinality(B) \in Nat
    BY <2>1, <2>2, FS_CardinalityType
  <2> QED
    BY <2>1, <2>2, <2>3, <1>1, <1>7
<1>9. ASSUME NEW g \in G PROVE g \in e - Window .. e + Window
  <2>1. PICK j \in 1 .. Len(done) : g = done[j]
    BY ElementsIs
  <2>2. g \in Nat /\ g <= last
    BY <1>2
  <2>3. g >= e - Window
    <3>1. CASE j = 1
      BY <3>1, <2>1, <1>1, <1>4
    <3>2. CASE j # 1
      <4>1. 1 \in 1 .. Len(done) /\ 1 < j
        BY <3>2, <1>1
      <4> QED
        BY <4>1, <2>1, <1>2
    <3> QED
      BY <3>1, <3>2
  <2> QED
    BY <2>2, <2>3, <1>1, <1>4, <1>5, <1>6
<1> HIDE DEF e, G, B
<1>10. ASSUME NEW S, S \subseteq e - Window .. e + Window
       PROVE  Cardinality(S) \in Nat /\ Cardinality(S) <= 2 * Window + 1
  <2>1. e - Window \in Int /\ e + Window \in Int /\ e - Window <= e + Window
    BY <1>1, <1>4
  <2>2. Cardinality(S) \in Nat /\ Cardinality(S) <= (e + Window) - (e - Window) + 1
    BY <2>1, <1>10, WithinInterval
  <2> QED
    BY <2>2, <1>1, <1>4
<1>11. CASE last2 = (IF n > last THEN n ELSE last) /\ bound2 = bound
  <2>1. n <= last2
    BY <1>3, <1>11
  <2>2. n >= e - Window
    BY <1>1, <1>3, <1>4
  <2>3. G \cup {n} \subseteq e - Window .. e + Window
    BY <2>1, <2>2, <1>1, <1>3, <1>4, <1>5, <1>6, <1>9
  <2>4. n \notin G
    BY <1>3 DEF G
  <2>5. Cardinality(G \cup {n}) = Cardinality(G) + 1
    BY <2>4, <1>8, FS_AddElement
  <2>6. bound <= MaxFaults
    BY <1>11 DEF Entered
  <2>7. Cardinality(G) + 1 <= 2 * Window + 1
    BY <2>3, <2>5, <1>10
  <2> QED
    BY <2>6, <2>7, <1>1, <1>2, <1>8
<1>12. CASE last2 = last /\ bound2 = bound + 1
  <2>1. bound + 1 <= MaxFaults
    BY <1>12 DEF Entered
  <2>2. Cardinality(G) <= 2 * Window + 1
    BY <1>9, <1>10
  <2> QED
    BY <2>1, <2>2, <1>1, <1>2, <1>8
<1> QED
  BY <1>11, <1>12 DEF Entered

(* "completed" goes on telling what was handed over.                       *)
LEMMA BehindEntered ==
  ASSUME Remembered,
         NEW given \in SUBSET Nat, NEW last \in Nat, NEW done \in Seq(Nat), NEW bound \in Nat,
         Behind(given, last, done, bound), Len(done) <= CompletedMax,
         NEW n, Comes(n, given, last, done),
         NEW given2, NEW last2, NEW bound2,
         Entered(n, given, last, bound, given2, last2, bound2)
  PROVE  Behind(given2, last2, Last(Append(done, n), CompletedMax), bound2)
<1> DEFINE r == Last(Append(done, n), CompletedMax)
<1>1. CompletedMax \in Nat \ {0} /\ Window \in Nat
  BY Sizes
<1>2. /\ n \in Nat \ {0} /\ n \notin Elements(done) /\ (last # 0 => n >= last - Window)
  BY DEF Comes
<1>3. n \notin given
  BY ComesNew
<1>4. /\ \A m \in given : m <= last /\ (m \in Elements(done) \/ m < last - Window)
      /\ \A i, j \in 1 .. Len(done) : done[i] = done[j] => i = j
      /\ \A i, j \in 1 .. Len(done) :
           i < j /\ done[i] \in given /\ done[j] \in given => done[j] >= done[i] - Window
      /\ Cardinality(Elements(done) \ given) <= bound
  BY DEF Behind
<1>5. /\ r \in Seq(Nat)
      /\ Len(done) < CompletedMax => r = Append(done, n)
      /\ Len(done) = CompletedMax => /\ Len(r) = CompletedMax /\ r[CompletedMax] = n
                                     /\ \A i \in 1 .. CompletedMax - 1 : r[i] = done[i + 1]
  <2>1. n \in Nat
    BY <1>2
  <2>2. Appended(r, done, n, CompletedMax)
    BY <2>1, <1>1, LastNumber, Zenon
  <2> QED
    BY <2>2 DEF Appended
<1>6. /\ n \in Elements(r) /\ Elements(r) \subseteq Elements(done) \cup {n}
      /\ Len(done) < CompletedMax => Elements(r) = Elements(done) \cup {n}
      /\ Len(done) = CompletedMax => Elements(done) \subseteq Elements(r) \cup {done[1]}
  BY <1>1, <1>2, LastElements
<1> HIDE DEF r
<1>7. Len(done) \in Nat /\ Len(r) \in Nat
  BY <1>5
<1>8. PICK c \in {0, 1} :
        /\ Len(r) = Len(done) + 1 - c /\ r[Len(r)] = n
        /\ \A i \in 1 .. Len(r) - 1 : r[i] = done[i + c]
  <2>1. CASE Len(done) < CompletedMax
    <3>2. r = Append(done, n) /\ n \in Nat
      BY <2>1, <1>2, <1>5
    <3>3. /\ Len(r) = Len(done) + 1 /\ r[Len(done) + 1] = n
          /\ \A i \in 1 .. Len(done) : r[i] = done[i]
      BY <3>2
    <3>1. /\ Len(r) = Len(done) + 1 - 0 /\ r[Len(r)] = n
          /\ \A i \in 1 .. Len(r) - 1 : r[i] = done[i + 0]
      BY <3>3, <1>7
    <3> QED
      BY <3>1
  <2>2. CASE Len(done) = CompletedMax
    <3>1. /\ Len(r) = Len(done) + 1 - 1 /\ r[Len(r)] = n
          /\ \A i \in 1 .. Len(r) - 1 : r[i] = done[i + 1]
      BY <2>2, <1>1, <1>5
    <3> QED
      BY <3>1
  <2>3. Len(done) < CompletedMax \/ Len(done) = CompletedMax
    BY <1>1, <1>7
  <2> QED
    BY <2>1, <2>2, <2>3, Zenon
<1>9. \A i \in 1 .. Len(r) - 1 : i + c \in 1 .. Len(done) /\ r[i] = done[i + c] /\ r[i] # n
  <2> SUFFICES ASSUME NEW i \in 1 .. Len(r) - 1
               PROVE  i + c \in 1 .. Len(done) /\ r[i] = done[i + c] /\ r[i] # n
    OBVIOUS
  <2>1. i + c \in 1 .. Len(done) /\ r[i] = done[i + c]
    BY <1>7, <1>8
  <2>2. done[i + c] \in Elements(done)
    BY <2>1, ElementsIs
  <2> QED
    BY <2>1, <2>2, <1>2
<1>10. /\ given2 \subseteq given \cup {n} /\ given \subseteq given2
       /\ last2 \in Nat /\ last <= last2 /\ bound2 \in Nat
       /\ n \in given2 => n <= last2
  BY <1>2, <1>3 DEF Entered
<1>11. \A m \in given2 : m <= last2 /\ (m \in Elements(r) \/ m < last2 - Window)
  <2> SUFFICES ASSUME NEW m \in given2
               PROVE  m <= last2 /\ (m \in Elements(r) \/ m < last2 - Window)
    OBVIOUS
  <2>1. CASE m = n
    BY <2>1, <1>6, <1>10
  <2>2. CASE m \in given
    <3>1. m \in Nat /\ m <= last2
      BY <2>2, <1>4, <1>10
    <3>2. CASE m < last - Window
      BY <3>1, <3>2, <1>1, <1>10
    <3>3. CASE m \in Elements(r)
      BY <3>1, <3>3
    <3>4. CASE m \in Elements(done) /\ m \notin Elements(r)
      <4>1. Len(done) = CompletedMax /\ m = done[1]
        BY <3>4, <1>1, <1>6, <1>7
      <4>2. done[1] < last2 - Window
        BY <4>1, <2>2, Forgotten
      <4> QED
        BY <4>1, <4>2, <3>1
    <3> QED
      BY <2>2, <3>2, <3>3, <3>4, <1>4
  <2> QED
    BY <2>1, <2>2, <1>10
<1>12. \A i, j \in 1 .. Len(r) : r[i] = r[j] => i = j
  <2> SUFFICES ASSUME NEW i \in 1 .. Len(r), NEW j \in 1 .. Len(r), r[i] = r[j] PROVE i = j
    OBVIOUS
  <2>1. CASE i = Len(r) \/ j = Len(r)
    <3>1. r[Len(r)] = n /\ \A k \in 1 .. Len(r) - 1 : r[k] # n
      BY <1>8, <1>9
    <3> QED
      BY <2>1, <3>1, <1>7
  <2>2. CASE i # Len(r) /\ j # Len(r)
    <3>1. i \in 1 .. Len(r) - 1 /\ j \in 1 .. Len(r) - 1
      BY <2>2, <1>7
    <3>2. i + c = j + c
      BY <3>1, <1>4, <1>9
    <3> QED
      BY <3>2
  <2> QED
    BY <2>1, <2>2
<1>13. \A i, j \in 1 .. Len(r) :
         i < j /\ r[i] \in given2 /\ r[j] \in given2 => r[j] >= r[i] - Window
  <2> SUFFICES ASSUME NEW i \in 1 .. Len(r), NEW j \in 1 .. Len(r), i < j,
                      r[i] \in given2, r[j] \in given2
               PROVE  r[j] >= r[i] - Window
    OBVIOUS
  <2>1. i \in 1 .. Len(r) - 1
    BY <1>7
  <2>2. r[i] = done[i + c] /\ i + c \in 1 .. Len(done) /\ r[i] \in given
    BY <2>1, <1>9, <1>10
  <2>3. CASE j = Len(r)
    <3>1. r[j] = n /\ r[i] <= last /\ r[i] \in Nat
      BY <2>2, <2>3, <1>4, <1>8
    <3> QED
      BY <3>1, <1>1, <1>2
  <2>4. CASE j # Len(r)
    <3>1. j \in 1 .. Len(r) - 1
      BY <2>4, <1>7
    <3>2. r[j] = done[j + c] /\ j + c \in 1 .. Len(done) /\ r[j] \in given
      BY <3>1, <1>9, <1>10
    <3>3. i + c < j + c
      OBVIOUS
    <3> QED
      BY <2>2, <3>2, <3>3, <1>4
  <2> QED
    BY <2>3, <2>4
<1>14. Cardinality(Elements(r) \ given2) <= bound2
  <2> DEFINE B == Elements(done) \ given
             C == Elements(r) \ given2
  <2>1. IsFiniteSet(B) /\ Cardinality(B) \in Nat /\ Cardinality(B) <= bound
    <3>1. IsFiniteSet(Elements(done))
      BY <1>4, ManyElements
    <3>2. IsFiniteSet(B)
      BY <3>1, FS_Subset
    <3> QED
      BY <3>2, FS_CardinalityType, <1>4
  <2>2. CASE given2 = given \cup {n} /\ bound2 = bound
    <3>1. C \subseteq B
      BY <2>2, <1>6
    <3> HIDE DEF B, C
    <3>2. Cardinality(C) \in Nat /\ Cardinality(C) <= Cardinality(B)
      BY <3>1, <2>1, FS_Subset, FS_CardinalityType
    <3> QED
      BY <3>2, <2>1, <2>2 DEF C
  <2>3. CASE given2 = given /\ bound2 = bound + 1
    <3>1. C \subseteq B \cup {n} /\ n \notin B
      BY <2>3, <1>2, <1>6
    <3> HIDE DEF B, C
    <3>2. IsFiniteSet(B \cup {n}) /\ Cardinality(B \cup {n}) = Cardinality(B) + 1
      BY <3>1, <2>1, FS_AddElement
    <3>3. Cardinality(C) \in Nat /\ Cardinality(C) <= Cardinality(B \cup {n})
      BY <3>1, <3>2, FS_Subset, FS_CardinalityType
    <3> QED
      BY <3>2, <3>3, <2>1, <2>3 DEF C
  <2> QED
    BY <2>2, <2>3 DEF Entered
<1> QED
  BY <1>11, <1>12, <1>13, <1>14 DEF Behind, r

(* Nothing of a stream that begins was handed over.                        *)
LEMMA BehindEmpty == ASSUME conflicts \in Nat PROVE Behind({}, 0, <<>>, conflicts)
<1>1. Elements(<<>>) = {} /\ Len(<<>>) = 0
  BY DEF Elements
<1>2. Elements(<<>>) \ {} = {}
  BY <1>1
<1>3. Cardinality(Elements(<<>>) \ {}) <= conflicts
  BY <1>2, FS_EmptySet
<1>4. 1 .. Len(<<>>) = {}
  BY <1>1
<1> QED
  BY <1>3, <1>4, Zenon DEF Behind

(* A stream that takes the place of another is of a session that is new.   *)
LEMMA TurnedOnce ==
  ASSUME Version = 3, Remembered, StreamType, HandedType, conflicts \in Nat, OnceInv,
         NEW d \in Datagram, NEW a, ReadyIs(d, a), Turned(d), ~Refused(d, FALSE)
  PROVE  /\ Behind(GivenIn(d.session, seen), a.lastId, a.completed, conflicts)
         /\ RetiredOf(Stream(d), retired', seen)
         /\ retired' \in Seq(Nat) /\ Len(retired') <= RetiredMax
<1>1. /\ Behind(GivenIn(active.session, seen), lastId, completed, conflicts)
      /\ RetiredOf(active, retired, seen)
  BY DEF OnceInv
<1>2. /\ seen \subseteq Nat \X Nat /\ retired \in Seq(Nat) /\ Len(retired) <= RetiredMax
  BY DEF HandedType, StreamType
<1>3. /\ d.session \in 1 .. Sessions /\ Stream(d).session = d.session /\ Sessions \in Nat
      /\ Stream(d) # NoStream
  BY Sizes DEF Datagram, Stream, NoStream
<1>4. CASE Stream(d) = active
  <2>1. retired' = retired /\ a.lastId = lastId /\ a.completed = completed
    BY <1>4 DEF Turned, ReadyIs
  <2> QED
    BY <2>1, <1>1, <1>2, <1>3, <1>4
<1>5. CASE active = NoStream /\ Stream(d) # active
  <2>1. retired' = retired /\ a.lastId = 0 /\ a.completed = <<>>
    BY <1>5 DEF Turned, ReadyIs
  <2>2. seen = {} /\ retired = <<>>
    BY <1>1, <1>5 DEF RetiredOf
  <2>3. GivenIn(d.session, seen) = {}
    BY <2>2 DEF GivenIn
  <2>4. RetiredOf(Stream(d), <<>>, {})
    BY <1>3 DEF RetiredOf
  <2> QED
    BY <2>1, <2>2, <2>3, <2>4, <1>2, BehindEmpty
<1>6. CASE active # NoStream /\ Stream(d) # active
  <2>1. retired' = Last(Append(retired, active.session), RetiredMax)
        /\ a.lastId = 0 /\ a.completed = <<>>
    BY <1>6 DEF Turned, ReadyIs
  <2>2. d.session \notin Elements(retired) /\ d.session # active.session
    BY <1>6 DEF Refused
  <2>3. /\ active.session \in 1 .. Sessions
        /\ \A x \in seen : x[1] = active.session \/ x[1] \in Elements(retired)
        /\ \A i \in 1 .. Len(retired) : retired[i] \in 1 .. Sessions /\ retired[i] # active.session
        /\ \A i, j \in 1 .. Len(retired) : retired[i] = retired[j] => i = j
    BY <1>1, <1>6 DEF RetiredOf
  <2>4. Len(retired) < RetiredMax
    <3>1. IsFiniteSet(Elements(retired)) /\ Cardinality(Elements(retired)) = Len(retired)
      BY <2>3, <1>2, ManyElements
    <3>2. /\ Elements(retired) \subseteq (1 .. Sessions) \ {d.session}
          /\ active.session \notin Elements(retired)
      <4>1. ASSUME NEW x \in Elements(retired)
            PROVE  x \in 1 .. Sessions /\ x # active.session
        <5>1. PICK i \in 1 .. Len(retired) : x = retired[i]
          BY <1>2, ElementsIs
        <5> QED
          BY <5>1, <2>3
      <4> QED
        BY <4>1, <2>2
    <3>3. IsFiniteSet(1 .. Sessions) /\ Cardinality(1 .. Sessions) = Sessions
      <4>1. 1 \in Int /\ Sessions \in Int
        BY <1>3
      <4>2. /\ IsFiniteSet(1 .. Sessions)
            /\ Cardinality(1 .. Sessions) = IF 1 > Sessions THEN 0 ELSE Sessions - 1 + 1
        BY <4>1, FS_Interval
      <4> QED
        BY <4>2, Sizes
    <3>4. /\ IsFiniteSet((1 .. Sessions) \ {d.session})
          /\ Cardinality((1 .. Sessions) \ {d.session}) = Sessions - 1
      BY <3>3, <1>3, FS_RemoveElement
    <3>5. /\ IsFiniteSet(Elements(retired) \cup {active.session})
          /\ Cardinality(Elements(retired) \cup {active.session}) = Len(retired) + 1
      BY <3>1, <3>2, FS_AddElement
    <3>6. Elements(retired) \cup {active.session} \subseteq (1 .. Sessions) \ {d.session}
      BY <2>2, <2>3, <3>2
    <3>7. Len(retired) + 1 <= Sessions - 1
      BY <3>4, <3>5, <3>6, FS_Subset
    <3> QED
      BY <3>7, <1>2, Sizes DEF Remembered
  <2>5. active.session \in Nat
    BY <2>3
  <2>6. retired' = Append(retired, active.session)
    <3>1. RetiredMax \in Nat \ {0}
      BY Sizes
    <3>2. Last(Append(retired, active.session), RetiredMax) = Append(retired, active.session)
      BY <3>1, <2>4, <2>5, <1>2, LastNumber DEF Appended
    <3> QED
      BY <3>2, <2>1
  <2>7. /\ retired' \in Seq(Nat) /\ Len(retired') = Len(retired) + 1
        /\ \A i \in 1 .. Len(retired) : retired'[i] = retired[i]
        /\ retired'[Len(retired) + 1] = active.session
    BY <2>5, <2>6, <1>2
  <2>8. Elements(retired') = Elements(retired) \cup {active.session}
    BY <2>1, <2>4, <2>5, <1>2, Sizes, LastElements
  <2>9. GivenIn(d.session, seen) = {}
    BY <2>2, <2>3 DEF GivenIn
  <2>10. RetiredOf(Stream(d), retired', seen)
    <3>1. \A i \in 1 .. Len(retired) : retired[i] # d.session
      BY <2>2, <1>2, ElementsIs
    <3>2. \A i \in 1 .. Len(retired') : retired'[i] \in 1 .. Sessions /\ retired'[i] # d.session
      <4> SUFFICES ASSUME NEW i \in 1 .. Len(retired')
                   PROVE  retired'[i] \in 1 .. Sessions /\ retired'[i] # d.session
        OBVIOUS
      <4>1. CASE i = Len(retired) + 1
        BY <4>1, <2>2, <2>3, <2>7
      <4>2. CASE i # Len(retired) + 1
        <5>1. i \in 1 .. Len(retired) /\ retired'[i] = retired[i]
          BY <4>2, <2>7, <1>2
        <5> QED
          BY <5>1, <2>3, <3>1
      <4> QED
        BY <4>1, <4>2
    <3>3. \A i, j \in 1 .. Len(retired') : retired'[i] = retired'[j] => i = j
      <4> SUFFICES ASSUME NEW i \in 1 .. Len(retired'), NEW j \in 1 .. Len(retired'),
                          retired'[i] = retired'[j], i < j
                   PROVE  FALSE
        BY <2>7, <1>2
      <4>1. i \in 1 .. Len(retired) /\ retired'[i] = retired[i]
        BY <2>7, <1>2
      <4>2. CASE j = Len(retired) + 1
        BY <4>1, <4>2, <2>3, <2>7
      <4>3. CASE j # Len(retired) + 1
        <5>1. Len(retired) \in Nat /\ Len(retired') = Len(retired) + 1
          BY <2>7, <1>2
        <5>2. j \in 1 .. Len(retired)
          BY <5>1, <4>3
        <5>3. retired'[j] = retired[j]
          BY <5>2, <2>7
        <5> QED
          BY <5>2, <5>3, <4>1, <2>3
      <4> QED
        BY <4>2, <4>3
    <3> QED
      <4>1. \A x \in seen : x[1] = Stream(d).session \/ x[1] \in Elements(retired')
        BY <2>3, <2>8
      <4>2. /\ Stream(d) # NoStream /\ Stream(d).session \in 1 .. Sessions
            /\ \A i \in 1 .. Len(retired') :
                 retired'[i] \in 1 .. Sessions /\ retired'[i] # Stream(d).session
        BY <3>2, <1>3
      <4> HIDE DEF Stream, NoStream
      <4> QED
        BY <4>1, <4>2, <3>3 DEF RetiredOf
  <2> QED
    <3>1. Len(retired') <= RetiredMax
      BY <2>4, <2>7, <1>2, Sizes
    <3> QED
      BY <3>1, <2>1, <2>7, <2>9, <2>10, BehindEmpty
<1> QED
  BY <1>4, <1>5, <1>6

(* Whatever becomes of a typed datagram, no frame is handed over twice.    *)
LEMMA TakenOnce ==
  ASSUME Version = 3, Remembered, HandedType, OnceInv, conflicts \in Nat,
         NEW d \in Datagram, NEW a, NEW b, NEW fs, NEW p,
         ReadyIs(d, a), ~Late(d, a), Taken(d, a, b, fs, p),
         Behind(GivenIn(d.session, seen), a.lastId, a.completed, conflicts),
         RetiredOf(Stream(d), retired', seen),
         active' = Stream(d), conflicts' \in Nat, conflicts' <= MaxFaults
  PROVE  OnceInv'
<1> DEFINE given == GivenIn(d.session, seen)
<1>1. /\ seen \in SUBSET (Nat \X Nat) /\ IsFiniteSet(seen) /\ complete = Cardinality(seen)
      /\ a.lastId \in Nat /\ a.completed \in Seq(Nat) /\ Len(a.completed) <= CompletedMax
      /\ d.frame \in Nat \ {0} /\ d.session \in Nat
      /\ Stream(d).session = d.session
  <2>1. seen \in SUBSET (Nat \X Nat) /\ IsFiniteSet(seen) /\ complete = Cardinality(seen)
    BY DEF HandedType, OnceInv
  <2>2. a.lastId \in Nat /\ a.completed \in Seq(Nat) /\ Len(a.completed) <= CompletedMax
    BY DEF ReadyIs
  <2>3. /\ d.frame \in Nat \ {0} /\ d.session \in Nat
        /\ Stream(d).session = d.session
    BY Sizes DEF Datagram, Stream
  <2> QED
    BY <2>1, <2>2, <2>3
<1>2. given \subseteq Nat /\ \A n : n \in given <=> <<d.session, n>> \in seen
  BY <1>1, GivenIs
<1>3. Comes(d.frame, given, a.lastId, a.completed)
  <2>1. /\ d.frame \notin Elements(a.completed)
        /\ ~(a.lastId # 0 /\ d.frame < a.lastId - Window)
    BY DEF Late
  <2>2. Window \in Nat
    BY Sizes
  <2> QED
    BY <2>1, <2>2, <1>1 DEF Comes
<1>4. d.frame \notin given
  BY <1>1, <1>2, <1>3, ComesNew
<1>5. SUFFICES /\ Behind(GivenIn(d.session, seen'), lastId', completed', conflicts')
               /\ RetiredOf(Stream(d), retired', seen')
               /\ complete' = Cardinality(seen')
  BY <1>1 DEF OnceInv
<1> HIDE DEF given
<1>6. CASE UNCHANGED <<conflicts, handed>> /\ lastId' = a.lastId /\ completed' = a.completed
  BY <1>1, <1>6 DEF handed
<1>7. ASSUME NEW given2, Entered(d.frame, given, a.lastId, conflicts, given2, lastId', conflicts'),
             completed' = Last(Append(a.completed, d.frame), CompletedMax)
      PROVE  Behind(given2, lastId', completed', conflicts')
  <2>1. Behind(given2, lastId', Last(Append(a.completed, d.frame), CompletedMax), conflicts')
    <3>1. given \in SUBSET Nat
      BY <1>2
    <3>2. Behind(given, a.lastId, a.completed, conflicts)
      BY DEF given
    <3> QED
      BY <3>1, <3>2, <1>1, <1>3, <1>7, BehindEntered
  <2> QED
    BY <2>1, <1>7
<1>8. CASE /\ UNCHANGED handed /\ lastId' = a.lastId /\ conflicts' = conflicts + 1
           /\ completed' = Last(Append(a.completed, d.frame), CompletedMax)
  <2>1. Entered(d.frame, given, a.lastId, conflicts, given, lastId', conflicts')
    BY <1>8 DEF Entered
  <2>2. Behind(given, lastId', completed', conflicts')
    BY <2>1, <1>7, <1>8
  <2>3. seen' = seen /\ complete' = complete
    BY <1>8 DEF handed
  <2> QED
    BY <2>2, <2>3, <1>1 DEF given
<1>9. CASE Complete(d, a, fs, p)
  <2>1. /\ lastId' = IF d.frame > a.lastId THEN d.frame ELSE a.lastId
        /\ completed' = Last(Append(a.completed, d.frame), CompletedMax)
        /\ complete' = complete + 1 /\ seen' = seen \cup {<<d.session, d.frame>>}
        /\ conflicts' = conflicts
    BY <1>9 DEF Complete
  <2>2. GivenIn(d.session, seen') = given \cup {d.frame}
    <3>1. seen' \in SUBSET (Nat \X Nat)
      BY <2>1, <1>1
    <3>2. \A n : n \in GivenIn(d.session, seen') <=> <<d.session, n>> \in seen'
      BY <3>1, GivenIs
    <3> QED
      BY <3>2, <2>1, <1>2
  <2>3. Entered(d.frame, given, a.lastId, conflicts, given \cup {d.frame}, lastId', conflicts')
    BY <2>1 DEF Entered
  <2>4. Behind(GivenIn(d.session, seen'), lastId', completed', conflicts')
    BY <2>1, <2>2, <2>3, <1>7
  <2>5. RetiredOf(Stream(d), retired', seen')
    <3>1. Stream(d) # NoStream
      BY Sizes DEF Datagram, Stream, NoStream
    <3>2. \A x \in seen' : x \in seen \/ x[1] = Stream(d).session
      BY <2>1, <1>1
    <3> HIDE DEF Stream, NoStream
    <3> QED
      BY <3>1, <3>2 DEF RetiredOf
  <2>6. complete' = Cardinality(seen')
    <3>1. <<d.session, d.frame>> \notin seen
      BY <1>2, <1>4
    <3> QED
      BY <3>1, <2>1, <1>1, FS_AddElement
  <2> QED
    BY <2>4, <2>5, <2>6
<1>10. CASE Mismatch(d, a, fs)
  BY <1>10, <1>6 DEF Mismatch
<1>11. CASE Repeat(d, a, fs, p)
  BY <1>11, <1>6, <1>8 DEF Repeat
<1>12. CASE Store(d, a, fs, p)
  BY <1>12, <1>6 DEF Store
<1> QED
  BY <1>9, <1>10, <1>11, <1>12 DEF Taken

(* The table of what is known of the numbers keeps its type.               *)
LEMMA TakenStream ==
  ASSUME NEW d \in Datagram, NEW a, NEW b, NEW fs, NEW p, ReadyIs(d, a), Taken(d, a, b, fs, p)
  PROVE  lastId' \in Nat /\ completed' \in Seq(Nat) /\ Len(completed') <= CompletedMax
<1>1. /\ a.lastId \in Nat /\ a.completed \in Seq(Nat) /\ Len(a.completed) <= CompletedMax
      /\ d.frame \in Nat /\ CompletedMax \in Nat \ {0}
  BY Sizes DEF ReadyIs, Datagram
<1>2. lastId' \in {a.lastId, d.frame}
  BY DEF Taken, Mismatch, Repeat, Store, Complete
<1>3. \/ completed' = a.completed
      \/ completed' = Last(Append(a.completed, d.frame), CompletedMax)
  BY DEF Taken, Mismatch, Repeat, Store, Complete
<1>4. Appended(Last(Append(a.completed, d.frame), CompletedMax), a.completed, d.frame, CompletedMax)
  BY <1>1, LastNumber
<1> QED
  BY <1>1, <1>2, <1>3, <1>4 DEF Appended

(* "retired" keeps its type.                                               *)
LEMMA TurnedStream ==
  ASSUME StreamType, NEW d \in Datagram, Turned(d)
  PROVE  /\ active' \in [peer : Peers \cup {0}, session : Nat]
         /\ retired' \in Seq(Nat) /\ Len(retired') <= RetiredMax
<1>1. /\ active.session \in Nat /\ retired \in Seq(Nat) /\ Len(retired) <= RetiredMax
      /\ RetiredMax \in Nat \ {0}
  BY Sizes DEF StreamType
<1>2. Appended(Last(Append(retired, active.session), RetiredMax), retired, active.session, RetiredMax)
  BY <1>1, LastNumber
<1>3. active' \in [peer : Peers \cup {0}, session : Nat]
  BY Sizes DEF Turned, Datagram, Stream
<1>4. retired' = retired \/ retired' = Last(Append(retired, active.session), RetiredMax)
  BY DEF Turned
<1> QED
  BY <1>1, <1>2, <1>3, <1>4 DEF Appended

-----------------------------------------------------------------------------
(* What the Reassembler keeps to.                                          *)

(* The table shrinks.                                                      *)
LEMMA FewerConflicts ==
  ASSUME Received, FaultType, faults' \in Nat, faults' >= faults, conflicts' = conflicts,
         Damaged(pending') \subseteq Damaged(pending)
  PROVE  Conflicts'
<1>1. IsFiniteSet(Damaged(pending)) /\ Cardinality(Damaged(pending)) \in Nat
  <2>1. Damaged(pending) \subseteq pending /\ IsFiniteSet(pending)
    BY DEF Damaged, Received, PendingType
  <2> QED
    BY <2>1, FS_Subset, FS_CardinalityType
<1> HIDE DEF Damaged
<1>2. /\ Cardinality(Damaged(pending')) \in Nat
      /\ Cardinality(Damaged(pending')) <= Cardinality(Damaged(pending))
  BY <1>1, FS_Subset, FS_CardinalityType
<1>3. conflicts \in Nat /\ conflicts + Cardinality(Damaged(pending)) <= faults /\ faults \in Nat
  BY Sizes DEF Received, CountType, Conflicts, FaultType
<1> QED
  BY <1>1, <1>2, <1>3 DEF Conflicts

(* Old frames expire: at every datagram, and at every turn of the thread.  *)
LEMMA ReceivedExpiry ==
  ASSUME Received, FaultType, faults' \in Nat, faults' >= faults, NEW b, Expiry(b)
  PROVE  Received'
<1>1. /\ Kept(b) \subseteq pending /\ IsFiniteSet(Kept(b))
      /\ Cardinality(Kept(b)) \in Nat /\ Expired(b) \in Nat
      /\ Cardinality(pending) \in Nat
      /\ Cardinality(pending) = Cardinality(Kept(b)) + Expired(b)
      /\ OwnFrames(Kept(b), active)
      /\ Damaged(Kept(b)) \subseteq Damaged(pending)
  BY KeptIs DEF Received
<1>2. /\ pending' = Kept(b) /\ incomplete' = incomplete + Expired(b)
      /\ active' = active /\ lastId' = lastId /\ retired' = retired /\ completed' = completed
      /\ begun' = begun /\ conflicts' = conflicts /\ complete' = complete /\ gaps' = gaps
      /\ first' = first /\ seen' = seen /\ frames' = frames
  BY DEF Expiry, stream, handed
<1>3. StreamType'
  BY <1>2 DEF Received, StreamType
<1>4. CountType'
  BY <1>1, <1>2 DEF Received, CountType
<1>5. PendingType'
  <2>1. pending \subseteq Frame /\ Cardinality(pending) <= PendingMax
    BY DEF Received, PendingType
  <2> HIDE DEF Frame
  <2>2. Kept(b) \subseteq Frame /\ Cardinality(Kept(b)) <= PendingMax
    BY <2>1, <1>1, Sizes
  <2> QED
    BY <2>2, <1>1, <1>2 DEF PendingType
<1>6. HandedType'
  BY <1>2 DEF Received, HandedType
<1>7. Assembly'
  BY <1>1, <1>2 DEF Assembly
<1>8. NoMixedFrame'
  BY <1>2 DEF Received, NoMixedFrame
<1>9. Conflicts'
  BY <1>1, <1>2, FewerConflicts
<1>10. OnceInv'
  BY <1>2 DEF Received, OnceInv
<1>11. FramesAccounted'
  <2>1. /\ begun = Cardinality(pending) + complete + incomplete + conflicts
        /\ incomplete \in Nat /\ complete \in Nat /\ conflicts \in Nat
    BY DEF Received, FramesAccounted, CountType, HandedType
  <2> HIDE DEF Kept, Expired
  <2> QED
    BY <2>1, <1>1, <1>2 DEF FramesAccounted
<1>12. GapsCoverLosses'
  BY <1>2 DEF Received, GapsCoverLosses, Given
<1> QED
  BY <1>3, <1>4, <1>5, <1>6, <1>7, <1>8, <1>9, <1>10, <1>11, <1>12 DEF Received

(* A late frame leaves what is there, of its stream.                       *)
LEMMA ReceivedPassed ==
  ASSUME Received, FaultType, faults' \in Nat, faults' >= faults, NEW d \in Datagram,
         NEW a, NEW b, Version = 3 => ~Refused(d, FALSE), Turned(d), Going(d, a, b),
         Passed(a, b)
  PROVE  Received'
<1>1. /\ ReadyIs(d, a) /\ Expired(b) \in Nat /\ Cardinality(pending) \in Nat
      /\ Cardinality(pending) = Cardinality(a.pending) + Expired(b) + a.cleared
  BY DEF Going
<1>2. /\ a.pending \subseteq Frame /\ IsFiniteSet(a.pending)
      /\ Cardinality(a.pending) \in Nat /\ Cardinality(a.pending) <= PendingMax
      /\ OwnFrames(a.pending, Stream(d))
      /\ Damaged(a.pending) \subseteq Damaged(pending)
      /\ a.lastId \in Nat /\ a.completed \in Seq(Nat) /\ Len(a.completed) <= CompletedMax
      /\ a.cleared \in Nat
  BY <1>1 DEF ReadyIs
<1>3. /\ pending' = a.pending /\ lastId' = a.lastId /\ completed' = a.completed
      /\ incomplete' = incomplete + Expired(b) + a.cleared
      /\ begun' = begun /\ conflicts' = conflicts /\ active' = Stream(d)
      /\ UNCHANGED handed
  BY DEF Passed, Turned
<1>4. /\ complete' = complete /\ gaps' = gaps /\ first' = first /\ seen' = seen
      /\ frames' = frames
  BY <1>3 DEF handed
<1>5. StreamType'
  BY <1>2, <1>3, TurnedStream DEF Received, StreamType
<1>6. CountType'
  BY <1>1, <1>2, <1>3 DEF Received, CountType
<1>7. PendingType'
  BY <1>2, <1>3 DEF PendingType
<1>8. HandedType'
  BY <1>4 DEF Received, HandedType
<1>9. Assembly'
  BY <1>2, <1>3 DEF Assembly
<1>10. NoMixedFrame'
  BY <1>4 DEF Received, NoMixedFrame
<1>11. Conflicts'
  BY <1>2, <1>3, FewerConflicts
<1>12. OnceInv'
  <2> SUFFICES ASSUME Version = 3, Remembered PROVE OnceInv'
    BY DEF OnceInv
  <2>1. /\ Behind(GivenIn(d.session, seen), a.lastId, a.completed, conflicts)
        /\ RetiredOf(Stream(d), retired', seen)
    BY <1>1, TurnedOnce DEF Received, CountType
  <2>2. complete = Cardinality(seen) /\ Stream(d).session = d.session
    BY DEF Received, OnceInv, Stream
  <2> QED
    BY <2>1, <2>2, <1>3, <1>4 DEF OnceInv
<1>13. FramesAccounted'
  <2>1. /\ begun = Cardinality(pending) + complete + incomplete + conflicts
        /\ incomplete \in Nat /\ complete \in Nat /\ conflicts \in Nat
    BY DEF Received, FramesAccounted, CountType, HandedType
  <2>2. Cardinality(pending') = Cardinality(a.pending)
    BY <1>3
  <2>3. begun = Cardinality(a.pending) + complete + (incomplete + Expired(b) + a.cleared)
                  + conflicts
    <3>1. begun = (Cardinality(a.pending) + Expired(b) + a.cleared) + complete + incomplete
                    + conflicts
      BY <2>1, <1>1, Zenon
    <3>2. /\ Cardinality(a.pending) \in Nat /\ Expired(b) \in Nat /\ a.cleared \in Nat
          /\ complete \in Nat /\ incomplete \in Nat /\ conflicts \in Nat
      BY <2>1, <1>1, <1>2, Zenon
    <3> QED
      BY <3>1, <3>2
  <2> QED
    BY <2>2, <2>3, <1>3, <1>4, Zenon DEF FramesAccounted
<1>14. GapsCoverLosses'
  BY <1>1, <1>3, TurnedGaps DEF Received
<1> QED
  BY <1>5, <1>6, <1>7, <1>8, <1>9, <1>10, <1>11, <1>12, <1>13, <1>14 DEF Received

(* A frame that is not late takes its chunk.                               *)
LEMMA ReceivedTaken ==
  ASSUME Received, FaultType, FaultType', NEW d \in Datagram,
         faults' = faults + (IF d.val = "other" \/ d.meta = "other" THEN 1 ELSE 0),
         NEW a, NEW b, NEW fs, NEW p,
         Version = 3 => ~Refused(d, FALSE), Turned(d), Going(d, a, b), ~Late(d, a),
         Roomed(d, a, fs, p), Taken(d, a, b, fs, p)
  PROVE  Received'
<1>1. ReadyIs(d, a) /\ active' = Stream(d) /\ conflicts \in Nat /\ IsFiniteSet(pending)
  BY DEF Going, Turned, Received, CountType, PendingType
<1>2. /\ conflicts' \in Nat
      /\ conflicts' + Cardinality(Damaged(pending'))
           <= conflicts + Cardinality(Damaged(pending)) + (IF d.val = "other" THEN 1 ELSE 0)
  BY <1>1, TakenConflicts
<1>3. PendingType' /\ OwnFrames(pending', Stream(d)) /\ Cardinality(pending') \in Nat
  BY TakenFrames
<1>4. Conflicts' /\ conflicts' <= MaxFaults
  <2>1. Damaged(pending) \subseteq pending /\ Damaged(pending') \subseteq pending'
    BY DEF Damaged
  <2>2. Cardinality(Damaged(pending)) \in Nat /\ Cardinality(Damaged(pending')) \in Nat
    BY <2>1, <1>1, <1>3, FS_Subset, FS_CardinalityType DEF PendingType
  <2> HIDE DEF Damaged
  <2>3. conflicts + Cardinality(Damaged(pending)) <= faults /\ faults \in Nat
    BY Sizes DEF Received, Conflicts, FaultType
  <2>6. /\ d.val = "other" => faults' = faults + 1
        /\ faults' = faults \/ faults' = faults + 1
    BY <2>3
  <2>4. faults' \in Nat /\ faults' <= MaxFaults /\ MaxFaults \in Nat
    BY Sizes DEF FaultType
  <2>5. conflicts' + Cardinality(Damaged(pending')) <= faults'
    <3>1. CASE d.val = "other"
      BY <3>1, <2>2, <2>3, <2>6, <1>1, <1>2
    <3>2. CASE d.val # "other"
      BY <3>2, <2>2, <2>3, <2>6, <1>1, <1>2
    <3> QED
      BY <3>1, <3>2
  <2> QED
    BY <2>2, <2>4, <2>5, <1>2 DEF Conflicts
<1>5. HandedType' /\ NoMixedFrame'
  BY <1>1, TakenHanded DEF Received
<1>6. CountType' /\ FramesAccounted'
  BY <1>2, TakenCounts DEF Received
<1>7. StreamType'
  <2>1. lastId' \in Nat /\ completed' \in Seq(Nat) /\ Len(completed') <= CompletedMax
    BY <1>1, TakenStream
  <2>2. /\ active' \in [peer : Peers \cup {0}, session : Nat]
        /\ retired' \in Seq(Nat) /\ Len(retired') <= RetiredMax
    BY TurnedStream DEF Received
  <2> QED
    BY <2>1, <2>2 DEF StreamType
<1>8. Assembly'
  BY <1>1, <1>3 DEF Assembly
<1>9. OnceInv'
  <2> SUFFICES ASSUME Version = 3, Remembered PROVE OnceInv'
    BY DEF OnceInv
  <2>1. /\ Behind(GivenIn(d.session, seen), a.lastId, a.completed, conflicts)
        /\ RetiredOf(Stream(d), retired', seen)
    BY <1>1, TurnedOnce DEF Received
  <2> QED
    BY <2>1, <1>1, <1>2, <1>4, TakenOnce DEF Received
<1>10. GapsCoverLosses'
  <2>1. CASE Complete(d, a, fs, p)
    BY <2>1, <1>1, CompleteGaps DEF Received
  <2>2. CASE UNCHANGED handed /\ lastId' = a.lastId
    BY <2>2, <1>1, TurnedGaps DEF Received
  <2>3. Complete(d, a, fs, p) \/ (UNCHANGED handed /\ lastId' = a.lastId)
    BY DEF Taken, Mismatch, Repeat, Store
  <2> QED
    BY <2>1, <2>2, <2>3
<1> QED
  BY <1>3, <1>4, <1>5, <1>6, <1>7, <1>8, <1>9, <1>10 DEF Received

(* feed() keeps to it.                                                     *)
LEMMA ReceivedFeed ==
  ASSUME Received, FaultType, FaultType', NEW d \in Datagram, Feed(d),
         faults' = faults + (IF d.val = "other" \/ d.meta = "other" THEN 1 ELSE 0)
  PROVE  Received'
<1>1. faults' \in Nat /\ faults' >= faults
  BY Sizes DEF FaultType
<1>2. StreamType /\ PendingType /\ Assembly /\ begun \in Nat
  BY DEF Received, CountType
<1>3. PICK b \in Births :
        \/ Expiry(b)
        \/ /\ Version = 3 => ~Refused(d, FALSE)
           /\ Turned(d)
           /\ \E a : /\ Going(d, a, b)
                     /\ \/ Passed(a, b)
                        \/ /\ ~Late(d, a)
                           /\ \E fs, p : Roomed(d, a, fs, p) /\ Taken(d, a, b, fs, p)
  BY <1>2, FeedIs
<1>4. CASE Expiry(b)
  BY <1>1, <1>4, ReceivedExpiry
<1>5. ASSUME Version = 3 => ~Refused(d, FALSE), Turned(d), NEW a, Going(d, a, b), Passed(a, b)
      PROVE  Received'
  BY <1>1, <1>5, ReceivedPassed
<1>6. ASSUME Version = 3 => ~Refused(d, FALSE), Turned(d), NEW a, Going(d, a, b), ~Late(d, a),
             NEW fs, NEW p, Roomed(d, a, fs, p), Taken(d, a, b, fs, p)
      PROVE  Received'
  BY <1>6, ReceivedTaken
<1> QED
  BY <1>3, <1>4, <1>5, <1>6

(* So does all that leaves the Reassembler alone.                          *)
LEMMA ReceivedStays ==
  ASSUME Received, FaultType, faults' \in Nat, faults' >= faults, UNCHANGED <<stream, assembly>>
  PROVE  Received'
<1>1. /\ active' = active /\ lastId' = lastId /\ retired' = retired /\ completed' = completed
      /\ pending' = pending /\ incomplete' = incomplete
      /\ begun' = begun /\ conflicts' = conflicts /\ complete' = complete /\ gaps' = gaps
      /\ first' = first /\ seen' = seen /\ frames' = frames
  BY DEF stream, assembly, handed
<1>2. StreamType' /\ CountType' /\ PendingType' /\ HandedType'
  BY <1>1 DEF Received, StreamType, CountType, PendingType, HandedType
<1>3. Assembly' /\ NoMixedFrame' /\ OnceInv'
  BY <1>1 DEF Received, Assembly, NoMixedFrame, OnceInv
<1>4. Conflicts'
  BY <1>1, FewerConflicts
<1>5. FramesAccounted' /\ GapsCoverLosses'
  BY <1>1 DEF Received, FramesAccounted, GapsCoverLosses, Given
<1> QED
  BY <1>2, <1>3, <1>4, <1>5 DEF Received

-----------------------------------------------------------------------------
(* The steps.                                                              *)

LEMMA InitInv == Init => IInv
<1> SUFFICES ASSUME Init PROVE IInv
  OBVIOUS
<1> USE Sizes
<1>1. SenderType /\ FaultType /\ ThreadType
  <2>1. 1 \in 1 .. Sessions /\ 1 \in Nat \ {0} /\ 0 \in 0 .. Chunks - 1
        /\ 0 \in 0 .. MaxFaults /\ 0 \in 0 .. DrainMax
    OBVIOUS
  <2>2. SenderType
    BY <2>1 DEF Init, SenderType
  <2>3. FaultType /\ ThreadType
    BY <2>1 DEF Init, FaultType, ThreadType
  <2> QED
    BY <2>2, <2>3
<1>2. StreamType /\ CountType
  BY DEF Init, StreamType, CountType, NoStream
<1>3. IsFiniteSet({}) /\ Cardinality({}) = 0
  BY FS_EmptySet
<1>4. PendingType /\ HandedType
  BY <1>3 DEF Init, PendingType, HandedType
<1>5. Assembly /\ NoMixedFrame
  BY DEF Init, Assembly, OwnFrames, NoMixedFrame
<1>6. Conflicts
  <2>1. Damaged(pending) = {}
    BY DEF Init, Damaged
  <2>2. Cardinality(Damaged(pending)) = 0
    BY <1>3, <2>1
  <2> QED
    BY <2>2 DEF Init, Conflicts
<1>7. OnceInv
  <2>1. GivenIn(active.session, seen) = {}
    BY DEF Init, GivenIn
  <2>2. Behind(GivenIn(active.session, seen), lastId, completed, conflicts)
    BY <2>1, <1>2, BehindEmpty DEF CountType, Init
  <2>3. RetiredOf(active, retired, seen)
    BY DEF Init, RetiredOf
  <2> QED
    BY <2>2, <2>3, <1>3 DEF Init, OnceInv
<1>8. FramesAccounted
  BY <1>3 DEF Init, FramesAccounted
<1>9. GapsCoverLosses
  <2>1. (first .. lastId) \ Given = {}
    BY DEF Init
  <2> QED
    BY <2>1, <1>3 DEF Init, GapsCoverLosses
<1> QED
  BY <1>1, <1>2, <1>4, <1>5, <1>6, <1>7, <1>8, <1>9 DEF IInv, Received

LEMMA FaultIs ==
  ASSUME FaultType, Fault
  PROVE  FaultType' /\ faults' = faults + 1 /\ faults' \in Nat /\ faults' >= faults
BY Sizes DEF FaultType, Fault

(* The steps of the sender, and those of the thread that feed nothing.     *)
LEMMA OutsideInv ==
  ASSUME IInv, \/ SendChunk \/ AbandonFrame \/ NewSession
               \/ DrainEnds \/ SocketFails \/ Close \/ UNCHANGED vars
  PROVE  IInv'
<1> USE Sizes
<1>1. SenderType /\ FaultType /\ ThreadType /\ Received
  BY DEF IInv
<1>2. faults \in Nat /\ faults >= faults
  BY <1>1 DEF FaultType
<1>3. ASSUME UNCHANGED <<faults, receiver>>
      PROVE  FaultType' /\ ThreadType' /\ Received'
  <2>1. faults' = faults /\ UNCHANGED <<stream, assembly>> /\ UNCHANGED <<pc, drained, stop>>
    BY <1>3 DEF receiver, thread
  <2>2. Received'
    BY <2>1, <1>1, <1>2, ReceivedStays
  <2> QED
    BY <2>1, <2>2, <1>1 DEF FaultType, ThreadType
<1>4. CASE SendChunk
  <2>1. SenderType'
    <3>1. sent' = sent \cup {[session |-> session, frame |-> frame, idx |-> chunk]}
      BY <1>4 DEF SendChunk
    <3>2. [session |-> session, frame |-> frame, idx |-> chunk]
            \in [session : 1 .. Sessions, frame : Nat \ {0}, idx : 0 .. Chunks - 1]
      BY <1>1 DEF SenderType
    <3>3. session' = session /\ frame' \in Nat \ {0} /\ chunk' \in 0 .. Chunks - 1
      BY <1>1, <1>4 DEF SendChunk, SenderType
    <3> QED
      BY <3>1, <3>2, <3>3, <1>1 DEF SenderType
  <2> QED
    BY <2>1, <1>3, <1>4 DEF SendChunk, IInv
<1>5. CASE AbandonFrame
  <2>1. SenderType'
    BY <1>1, <1>5 DEF AbandonFrame, SenderType
  <2>2. FaultType' /\ faults' \in Nat /\ faults' >= faults
    BY <1>1, <1>5, FaultIs DEF AbandonFrame
  <2>3. UNCHANGED <<stream, assembly>> /\ UNCHANGED <<pc, drained, stop>>
    BY <1>5 DEF AbandonFrame, receiver, thread
  <2>4. ThreadType'
    BY <2>3, <1>1 DEF ThreadType
  <2>5. Received'
    BY <2>2, <2>3, <1>1, ReceivedStays
  <2> QED
    BY <2>1, <2>2, <2>4, <2>5 DEF IInv
<1>6. CASE NewSession
  <2>1. SenderType'
    BY <1>1, <1>6 DEF NewSession, SenderType
  <2> QED
    BY <2>1, <1>3, <1>6 DEF NewSession, IInv
<1>7. ASSUME UNCHANGED <<sender, faults, stream, assembly>>, ThreadType' PROVE IInv'
  <2>1. SenderType' /\ FaultType'
    BY <1>1, <1>7 DEF sender, SenderType, FaultType
  <2>2. Received'
    BY <1>1, <1>2, <1>7, ReceivedStays
  <2> QED
    BY <1>7, <2>1, <2>2 DEF IInv
<1>8. CASE DrainEnds
  <2>1. ThreadType'
    BY <1>1, <1>8 DEF DrainEnds, ThreadType
  <2> QED
    BY <2>1, <1>7, <1>8 DEF DrainEnds
<1>9. CASE SocketFails
  <2>1. FaultType' /\ faults' \in Nat /\ faults' >= faults
    BY <1>1, <1>9, FaultIs DEF SocketFails
  <2>2. ThreadType' /\ SenderType'
    BY <1>1, <1>9 DEF SocketFails, ThreadType, SenderType, sender
  <2>3. Received'
    BY <2>1, <1>1, <1>9, ReceivedStays DEF SocketFails
  <2> QED
    BY <2>1, <2>2, <2>3 DEF IInv
<1>10. CASE Close
  <2>1. ThreadType'
    BY <1>1, <1>10 DEF Close, ThreadType
  <2> QED
    BY <2>1, <1>7, <1>10 DEF Close
<1>11. CASE UNCHANGED vars
  <2>1. ThreadType'
    BY <1>1, <1>11 DEF vars, thread, ThreadType
  <2> QED
    BY <2>1, <1>7, <1>11 DEF vars
<1> QED
  BY <1>4, <1>5, <1>6, <1>8, <1>9, <1>10, <1>11

(* The turns of the thread: select, a drain and what it feeds.             *)
LEMMA ThreadInv ==
  ASSUME IInv, Select \/ Deliver \/ DeliverDamaged \/ ReceiveInvalid
  PROVE  IInv'
<1> USE Sizes
<1>1. SenderType /\ FaultType /\ ThreadType /\ Received
  BY DEF IInv
<1>2. faults \in Nat /\ faults >= faults
  BY <1>1 DEF FaultType
<1>3. CASE Select
  <2>1. ThreadType' /\ SenderType' /\ FaultType' /\ faults' = faults
    BY <1>1, <1>3 DEF Select, ThreadType, SenderType, FaultType, sender
  <2>2. CASE stop
    BY <2>1, <2>2, <1>1, <1>2, <1>3, ReceivedStays DEF Select, IInv
  <2>3. CASE ~stop
    <3>1. PICK b \in Births : Expiry(b)
      BY <2>3, <1>3 DEF Select, Expiry
    <3> QED
      BY <3>1, <2>1, <1>1, <1>2, ReceivedExpiry DEF IInv
  <2> QED
    BY <2>2, <2>3
<1>4. ASSUME NEW d, Receive(d)
      PROVE  SenderType' /\ ThreadType' /\ Feed(d)
  <2>1. /\ pc' = pc /\ stop' = stop /\ drained < DrainMax /\ drained' = drained + 1
        /\ UNCHANGED sender /\ Feed(d)
    BY <1>4 DEF Receive
  <2>2. SenderType'
    BY <2>1, <1>1 DEF sender, SenderType
  <2>3. ThreadType'
    BY <2>1, <1>1 DEF ThreadType
  <2> QED
    BY <2>1, <2>2, <2>3
<1>5. CASE Deliver
  <2>1. PICK d \in Arrivals("sent", "sent") : Receive(d) /\ UNCHANGED faults
    BY <1>5 DEF Deliver
  <2>2. d \in Datagram /\ d.meta = "sent" /\ d.val = "sent"
    BY <1>1, ArrivalIs DEF Data
  <2>3. FaultType' /\ faults' = faults + (IF d.val = "other" \/ d.meta = "other" THEN 1 ELSE 0)
    BY <2>1, <2>2, <1>1, <1>2 DEF FaultType
  <2>4. SenderType' /\ ThreadType' /\ Feed(d)
    BY <2>1, <1>4
  <2>5. Received'
    BY <2>2, <2>3, <2>4, <1>1, ReceivedFeed
  <2> QED
    BY <2>3, <2>4, <2>5 DEF IInv
<1>6. CASE DeliverDamaged
  <2>1. PICK d \in Arrivals("sent", "other") \cup Arrivals("other", "sent") : Receive(d) /\ Fault
    BY <1>6 DEF DeliverDamaged
  <2>2. d \in Datagram /\ (d.val = "other" \/ d.meta = "other")
    <3>1. CASE d \in Arrivals("sent", "other")
      BY <3>1, <1>1, ArrivalIs DEF Data
    <3>2. CASE d \in Arrivals("other", "sent")
      BY <3>2, <1>1, ArrivalIs DEF Data
    <3> QED
      BY <3>1, <3>2, <2>1
  <2>3. FaultType' /\ faults' = faults + (IF d.val = "other" \/ d.meta = "other" THEN 1 ELSE 0)
    BY <2>1, <2>2, <1>1, FaultIs
  <2>4. SenderType' /\ ThreadType' /\ Feed(d)
    BY <2>1, <1>4
  <2>5. Received'
    BY <2>2, <2>3, <2>4, <1>1, ReceivedFeed
  <2> QED
    BY <2>3, <2>4, <2>5 DEF IInv
<1>7. CASE ReceiveInvalid
  <2>1. PICK b \in Births : Expiry(b)
    BY <1>7 DEF ReceiveInvalid, FeedInvalid, Expiry
  <2>2. FaultType' /\ faults' \in Nat /\ faults' >= faults
    BY <1>1, <1>7, FaultIs DEF ReceiveInvalid
  <2>3. SenderType' /\ ThreadType'
    BY <1>1, <1>7 DEF ReceiveInvalid, SenderType, ThreadType, sender
  <2>4. Received'
    BY <2>1, <2>2, <1>1, ReceivedExpiry
  <2> QED
    BY <2>2, <2>3, <2>4 DEF IInv
<1> QED
  BY <1>3, <1>5, <1>6, <1>7

(* The reader takes all that is there.                                     *)
LEMMA TakeInv == ASSUME IInv, Take PROVE IInv'
<1>1. SenderType /\ FaultType /\ ThreadType /\ Received
  BY DEF IInv
<1>2. /\ active' = active /\ lastId' = lastId /\ retired' = retired /\ completed' = completed
      /\ pending' = pending /\ incomplete' = incomplete
      /\ begun' = begun /\ conflicts' = conflicts /\ complete' = complete /\ gaps' = gaps
      /\ first' = first /\ seen' = seen /\ faults' = faults /\ UNCHANGED <<sender, thread>>
  BY DEF Take, stream
<1>3. frames' = <<>>
  BY DEF Take
<1>4. SenderType' /\ FaultType' /\ ThreadType'
  BY <1>1, <1>2 DEF SenderType, FaultType, ThreadType, sender, thread
<1>5. StreamType' /\ CountType' /\ PendingType'
  BY <1>1, <1>2 DEF Received, StreamType, CountType, PendingType
<1>6. HandedType'
  BY <1>1, <1>2, <1>3, Sizes DEF Received, HandedType
<1>7. NoMixedFrame'
  BY <1>3 DEF NoMixedFrame
<1>8. Assembly' /\ OnceInv' /\ Conflicts'
  BY <1>1, <1>2 DEF Received, Assembly, OnceInv, Conflicts
<1>9. FramesAccounted' /\ GapsCoverLosses'
  BY <1>1, <1>2 DEF Received, FramesAccounted, GapsCoverLosses, Given
<1> QED
  BY <1>4, <1>5, <1>6, <1>7, <1>8, <1>9 DEF IInv, Received

LEMMA NextInv == ASSUME IInv, [Next]_vars PROVE IInv'
BY OutsideInv, ThreadInv, TakeInv DEF Next, Thread, Ended

-----------------------------------------------------------------------------
(* The theorems.                                                           *)

(* The invariant holds in every state that can be reached.                 *)
THEOREM Invariance == Spec => []IInv
<1>1. Init => IInv
  BY InitInv
<1>2. IInv /\ [Next]_vars => IInv'
  BY NextInv
<1> QED
  BY <1>1, <1>2, PTL DEF Spec

(* What the reader is handed is a frame: every chunk once, all of that     *)
(* frame of one session of one peer (Reassembler.feed), whatever was lost, *)
(* repeated, reordered, damaged or left over.                              *)
THEOREM FramesUnmixed == Spec => []NoMixedFrame
<1>1. IInv => NoMixedFrame
  BY DEF IInv, Received
<1> QED
  BY <1>1, Invariance, PTL

(* And no typed frame comes twice, for every window and every length of    *)
(* "completed" and "retired" that reaches over it.                         *)
THEOREM FramesOwn ==
  ASSUME Version = 3 => Remembered
  PROVE  Spec => []FramesAreOwn
<1>1. IInv => FramesAreOwn
  BY DEF IInv, Received, OnceInv, FramesAreOwn, AtMostOnce
<1> QED
  BY <1>1, Invariance, PTL

(* Every frame begun is pending, complete or counted, and frame_gaps is    *)
(* never less than the numbers that were not handed over.                  *)
THEOREM LossesCounted == Spec => []LossesAreCounted
<1>1. IInv => LossesAreCounted
  BY DEF IInv, Received, LossesAreCounted
<1> QED
  BY <1>1, Invariance, PTL

(* The variables keep their types, and every buffer its bound: pending,    *)
(* "completed", "retired", the reader's queue and the drain.               *)
THEOREM TypesKept == Spec => []TypeOK
<1>1. ASSUME IInv PROVE TypeOK
  <2> USE Sizes
  <2>1. SenderType /\ FaultType /\ ThreadType /\ Received
    BY <1>1 DEF IInv
  <2>2. session \in Nat /\ frame \in Nat /\ chunk \in Nat /\ faults \in Nat /\ drained \in Nat
    BY <2>1 DEF SenderType, FaultType, ThreadType
  <2>3. /\ lastId \in Nat /\ incomplete \in Nat /\ complete \in Nat /\ gaps \in Nat
        /\ begun \in Nat /\ conflicts \in Nat /\ first \in Nat
    BY <2>1 DEF Received, StreamType, CountType, HandedType
  <2>4. {session, frame, chunk, faults, lastId, incomplete, complete, gaps,
         drained, begun, conflicts, first} \subseteq Nat
    BY <2>2, <2>3
  <2>5. sent \subseteq [session : Nat, frame : Nat, idx : 0 .. Chunks - 1]
    BY <2>1 DEF SenderType
  <2>6. /\ active \in [peer : Peers \cup {0}, session : Nat]
        /\ retired \in Seq(Nat) /\ Len(retired) <= RetiredMax
        /\ completed \in Seq(Nat) /\ Len(completed) <= CompletedMax
    BY <2>1 DEF Received, StreamType
  <2>7. /\ pending \subseteq Frame /\ IsFiniteSet(pending)
        /\ Cardinality(pending) <= PendingMax
    BY <2>1 DEF Received, PendingType
  <2>8. /\ frames \in Seq(Handed) /\ Len(frames) <= FramesMax /\ seen \subseteq Nat \X Nat
    BY <2>1 DEF Received, HandedType
  <2>9. pc \in {"select", "drain", "done"} /\ stop \in BOOLEAN /\ drained <= DrainMax
    BY <2>1 DEF ThreadType
  <2> QED
    BY <2>4, <2>5, <2>6, <2>7, <2>8, <2>9 DEF TypeOK, Frame, Handed, Data
<1> QED
  BY <1>1, Invariance, PTL

-----------------------------------------------------------------------------
(***************************************************************************)
(* The joiner of Telemetry, for any number of streams, sessions and frames *)
(* and every capacity.                                                     *)
(*                                                                         *)
(* BaseInv: while a poll goes on, what can be emitted is still to be       *)
(* visited, and the visits go up, so last_id never passes an entry that    *)
(* has its anchor; the entries have different keys, so those that come and *)
(* go can be counted.  OrderInv: the frames that were emitted are of the   *)
(* active session, up to last_id, or of one that is retired, so that none  *)
(* comes back, as long as retired reaches over all sessions.  EvenInv: of  *)
(* an even batch, which is added in the order of stamps with the anchor    *)
(* first, a key is still to be added, has the one entry there is, or is    *)
(* out; so nothing is evicted, whatever the capacity.                      *)
(***************************************************************************)

Sess == Join!Elements(JoinSessions)

EmitRec == [key : Join!Keys, kinds : SUBSET Kinds, waited : BOOLEAN]
StartRec == [keys : SUBSET Join!Keys, emitted : Nat, last : Nat, active : Nat]

JoinTypes ==
  /\ arrived \subseteq Join!FrameRec /\ queued \subseteq arrived /\ batch \subseteq arrived
  /\ jActive \in Sess \cup {0} /\ jLastId \in Nat /\ jRetired \in Seq(Sess)
  /\ jPending \subseteq Join!EntryRec /\ IsFiniteSet(jPending)
  /\ {orphan, evicted, dropped} \subseteq Int /\ entered \in Nat
  /\ emitted \in Seq(EmitRec) /\ start \in StartRec

\* No two entries have a key or a place, of which n were given.
OneEach(p, n) ==
  /\ \A e, f \in p : e.key = f.key \/ e.born = f.born => e = f
  /\ \A e \in p : e.born <= n

\* Until the poll waits, what has its anchor is still to be visited.
ToVisit == jPc = "poll" /\ visit # {} => \A e \in jPending : Join!Anchored(e) => e.key \in visit

\* The last poll of the tick comes after the batch.
Finish == (final => jPc = "poll" /\ batch = {}) /\ (jPc = "idle" => batch = {})

Unlost == entered - evicted - dropped
CountInv == Unlost = Cardinality(jPending) + Len(emitted) + orphan

\* The even batch of the tick, what is out since, and what has to get out.
Fr(t, k) == [kind |-> t, key |-> k, stamp |-> Join!Stamp(k)]
EvenSet == {Fr(t, k) : t \in Kinds, k \in start.keys}
Out == {emitted[i] : i \in start.emitted + 1 .. Len(emitted)}
Prompt == \A e \in Out : ~e.waited
Wanted(k) == k \in start.keys /\ (k[1] # start.active \/ k[2] > start.last)

\* All frames of the key k were added.
Added(k) == \A t \in Kinds : Fr(t, k) \notin batch

\* The batch is its upper part still, of one session that is not retired.
EvenBatch ==
  /\ batch \subseteq EvenSet
  /\ \A x \in batch, y \in EvenSet : Join!Before(x, y) => y \in batch
  /\ \A k, l \in start.keys : k[1] = l[1]
  /\ \A k \in start.keys : k[1] \notin Join!Elements(jRetired)

\* Nothing was added yet, or the session is the active one.
EvenActive ==
  \/ batch = EvenSet /\ jActive = start.active /\ jLastId = start.last /\ jPending = {}
  \/ \A k \in start.keys : jActive = k[1] /\ (k[1] = start.active => jLastId >= start.last)

\* An entry has what is no longer in the batch, its anchor at least, and the
\* poll comes to it when that is all.
EvenEntry(e) ==
  /\ e.key \in start.keys /\ Fr(S12, e.key) \notin batch
  /\ e.streams = {[kind |-> t, stamp |-> Join!Stamp(e.key)]
                    : t \in {u \in Kinds : Fr(u, e.key) \notin batch}}
  /\ Added(e.key) => jPc = "poll" /\ e.key \in visit

\* A frame is to be added, or has an entry, or is out.
EvenKey(k) ==
  /\ \/ \A t \in Kinds : Fr(t, k) \in batch
     \/ k \in Join!KeysOf(jPending)
     \/ /\ Added(k)
        /\ [key |-> k, kinds |-> Kinds, waited |-> FALSE] \in Out
  /\ jActive = k[1] => jLastId < k[2] \/ Added(k)

EvenParts ==
  (\A e \in jPending : EvenEntry(e)) /\ (\A k \in start.keys : Wanted(k) => EvenKey(k))

EvenInv ==
  /\ start.emitted <= Len(emitted)
  /\ jPc = "idle" => Join!EvenBatchIsJoined
  /\ jPc # "idle" /\ start.keys # {} => EvenBatch /\ EvenActive /\ (Prompt => EvenParts)

BaseInv ==
  /\ JoinTypes /\ OneEach(jPending, entered) /\ ToVisit /\ Finish /\ CountInv
  /\ Join!NothingIsPassedOver

JoinInv == BaseInv /\ EvenInv

\* The frames that were emitted are of the active session, up to last_id, or
\* of one that is retired.
OrderOf(a, last, gone, out) ==
  /\ a = 0 => gone = <<>> /\ out = <<>>
  /\ a \notin Join!Elements(gone)
  /\ \A i, j \in 1 .. Len(gone) : gone[i] = gone[j] => i = j
  /\ \A i \in 1 .. Len(out) : \/ out[i].key[1] \in Join!Elements(gone)
                              \/ out[i].key[1] = a /\ out[i].key[2] <= last
  /\ \A i, j \in 1 .. Len(out) : i < j =>
       IF out[i].key[1] = out[j].key[1] THEN out[i].key[2] < out[j].key[2]
       ELSE /\ out[i].key[1] \in Join!Elements(gone)
            /\ \A k \in j .. Len(out) : out[k].key[1] # out[i].key[1]

OrderInv == OrderOf(jActive, jLastId, jRetired, emitted)

-----------------------------------------------------------------------------
(* The operators.                                                          *)

LEMMA JoinSizes ==
  ASSUME Join!JoinAssumption
  PROVE  /\ S12 \in Kinds /\ Kinds \subseteq Nat \ {0} /\ \A t \in Kinds : S12 <= t
         /\ Capacity \in Nat \ {0} /\ JoinRetiredMax \in Nat \ {0}
         /\ JoinMaxFrame \in Nat \ {0} /\ JoinSessions \in Seq(Nat \ {0})
<1>1. {Capacity, JoinRetiredMax, JoinMaxFrame, MaxArrived} \subseteq Nat \ {0}
  BY DEF Join!JoinAssumption
<1>2. Capacity \in Nat \ {0} /\ JoinRetiredMax \in Nat \ {0} /\ JoinMaxFrame \in Nat \ {0}
  BY <1>1, Zenon
<1>3. \A t \in Kinds : S12 <= t
  BY Zenon DEF Join!JoinAssumption
<1> QED
  BY <1>2, <1>3 DEF Join!JoinAssumption

LEMMA SessIs == ASSUME Join!JoinAssumption PROVE Sess \subseteq Nat \ {0}
<1>1. JoinSessions \in Seq(Nat \ {0})
  BY JoinSizes
<1> QED
  BY <1>1, LenProperties DEF Sess, Join!Elements

LEMMA KeyIs ==
  ASSUME Join!JoinAssumption, NEW k \in Join!Keys
  PROVE  /\ k = <<k[1], k[2]>> /\ k[1] \in Sess /\ k[1] \in Nat \ {0}
         /\ k[2] \in Nat \ {0} /\ k[2] <= JoinMaxFrame
  BY SessIs, JoinSizes DEF Join!Keys, Sess

LEMMA SameCount == ASSUME NEW S PROVE Join!Cardinality(S) = Cardinality(S)
  BY DEF Join!Cardinality, Cardinality

\* What a look at the clock leaves as it is.
LEMMA AgedIs ==
  ASSUME NEW p, p \subseteq Join!EntryRec, NEW q \in Join!Aged(p)
  PROVE  /\ q \subseteq Join!EntryRec
         /\ \A f \in q : \E e \in p : f.key = e.key /\ f.born = e.born /\ f.streams = e.streams
         /\ \A e \in p : \E f \in q : f.key = e.key /\ f.born = e.born /\ f.streams = e.streams
         /\ Join!KeysOf(q) = Join!KeysOf(p)
<1>1. PICK n : q = {[e EXCEPT !.old = @ \/ e.born <= n] : e \in p}
  BY DEF Join!Aged
<1> DEFINE g(e) == [e EXCEPT !.old = @ \/ e.born <= n]
<1>2. ASSUME NEW e \in p
      PROVE  /\ g(e) \in Join!EntryRec
             /\ g(e).key = e.key /\ g(e).born = e.born /\ g(e).streams = e.streams
  BY DEF Join!EntryRec
<1>3. q = {g(e) : e \in p}
  BY <1>1
<1> HIDE DEF g
<1>4. \A f \in q : \E e \in p : f = g(e)
  BY <1>3
<1>5. \A e \in p : g(e) \in q
  BY <1>3
<1>6. q \subseteq Join!EntryRec
  BY <1>4, <1>2
<1>7. \A f \in q : \E e \in p : f.key = e.key /\ f.born = e.born /\ f.streams = e.streams
  BY <1>4, <1>2
<1>8. \A e \in p : \E f \in q : f.key = e.key /\ f.born = e.born /\ f.streams = e.streams
  BY <1>5, <1>2
<1> QED
  BY <1>6, <1>7, <1>8 DEF Join!KeysOf

LEMMA PutIs ==
  ASSUME NEW e \in Join!EntryRec, NEW x \in Join!FrameRec
  PROVE  /\ Join!Put(x, e) \in Join!EntryRec
         /\ Join!Put(x, e).key = e.key /\ Join!Put(x, e).born = e.born
         /\ Join!Put(x, e).old = e.old /\ e.streams \subseteq Join!Put(x, e).streams
         /\ x.key # e.key => Join!Put(x, e) = e
<1>1. [kind |-> x.kind, stamp |-> x.stamp] \in [kind : Kinds, stamp : Nat]
  BY DEF Join!FrameRec
<1> QED
  BY <1>1 DEF Join!Put, Join!EntryRec

LEMMA KeysAre ==
  ASSUME NEW p, NEW k PROVE k \in Join!KeysOf(p) <=> \E e \in p : e.key = k
  BY DEF Join!KeysOf

LEMMA JoinElements ==
  ASSUME NEW T, NEW s \in Seq(T), NEW x \in T
  PROVE  /\ Join!Elements(s) \subseteq T
         /\ \A y : y \in Join!Elements(s) <=> \E i \in 1 .. Len(s) : y = s[i]
         /\ Join!Elements(Append(s, x)) = Join!Elements(s) \cup {x}
<1>1. Len(s) \in Nat /\ DOMAIN s = 1 .. Len(s) /\ \A i \in 1 .. Len(s) : s[i] \in T
  BY LenProperties
<1>2. /\ DOMAIN Append(s, x) = 1 .. Len(s) + 1 /\ Append(s, x)[Len(s) + 1] = x
      /\ \A i \in 1 .. Len(s) : Append(s, x)[i] = s[i]
  BY <1>1
<1>3. ASSUME NEW y \in Join!Elements(Append(s, x)) PROVE y \in Join!Elements(s) \cup {x}
  <2>1. PICK i \in 1 .. Len(s) + 1 : y = Append(s, x)[i]
    BY <1>2 DEF Join!Elements
  <2>2. i \in 1 .. Len(s) \/ i = Len(s) + 1
    BY <1>1
  <2> QED
    BY <2>1, <2>2, <1>1, <1>2 DEF Join!Elements
<1>4. ASSUME NEW y \in Join!Elements(s) \cup {x} PROVE y \in Join!Elements(Append(s, x))
  <2>1. CASE y = x
    BY <2>1, <1>1, <1>2 DEF Join!Elements
  <2>2. CASE y \in Join!Elements(s)
    <3>1. PICK i \in 1 .. Len(s) : y = s[i]
      BY <2>2, <1>1 DEF Join!Elements
    <3>2. i \in 1 .. Len(s) + 1 /\ y = Append(s, x)[i]
      BY <3>1, <1>1, <1>2
    <3> QED
      BY <3>2, <1>2 DEF Join!Elements
  <2> QED
    BY <2>1, <2>2
<1> QED
  BY <1>1, <1>3, <1>4 DEF Join!Elements

\* What deque(maxlen) keeps of what is appended.
LEMMA LastKept ==
  ASSUME NEW T, NEW s \in Seq(T), NEW x \in T, NEW n \in Nat \ {0}
  PROVE  LET r == Join!Last(Append(s, x), n) IN
         /\ r \in Seq(T)
         /\ Join!Elements(r) \subseteq Join!Elements(s) \cup {x}
         /\ Len(s) < n => r = Append(s, x)
<1> DEFINE t == Append(s, x)
           m == Len(t) - n
           r == Join!Last(t, n)
<1>1. /\ t \in Seq(T) /\ Len(t) = Len(s) + 1 /\ Len(s) \in Nat
      /\ \A i \in 1 .. Len(t) : t[i] \in T
  OBVIOUS
<1>2. CASE Len(t) <= n
  <2>1. r = t
    BY <1>2 DEF Join!Last
  <2> QED
    BY <2>1, <1>1, JoinElements
<1>3. CASE ~(Len(t) <= n)
  <2>1. r = SubSeq(t, m + 1, Len(t)) /\ m \in Nat /\ m + n = Len(t)
    BY <1>1, <1>3 DEF Join!Last
  <2> HIDE DEF t, m, r
  <2>2. r \in Seq(T) /\ Len(r) = n /\ \A i \in 1 .. n : r[i] = t[m + i]
    BY <2>1, <1>1
  <2>3. ASSUME NEW y \in Join!Elements(r) PROVE y \in Join!Elements(t)
    <3>1. PICK i \in 1 .. n : y = r[i]
      BY <2>2, LenProperties DEF Join!Elements
    <3>2. m + i \in 1 .. Len(t) /\ y = t[m + i]
      BY <3>1, <2>1, <2>2
    <3> QED
      BY <3>2, <1>1, LenProperties DEF Join!Elements
  <2>4. Join!Elements(t) = Join!Elements(s) \cup {x}
    BY JoinElements DEF t
  <2>5. ~(Len(s) < n)
    BY <1>1, <1>3
  <2> QED
    BY <2>2, <2>3, <2>4, <2>5 DEF r, t
<1> QED
  BY <1>2, <1>3

\* The two ways of a frame that is not of a retired session.
LEMMA TurnIs ==
  ASSUME Join!JoinAssumption, JoinTypes, NEW x \in Join!FrameRec
  PROVE  LET t == Join!Turn(x) IN
         \/ /\ ~(x.kind = S12 /\ x.key[1] # jActive)
            /\ t.active = jActive /\ t.last = jLastId /\ t.retired = jRetired
            /\ t.pending = jPending
         \/ /\ x.kind = S12 /\ x.key[1] # jActive
            /\ t.active = x.key[1] /\ t.active \in Sess /\ t.last = 0
            /\ t.retired \in Seq(Sess)
            /\ Join!Elements(t.retired) \subseteq Join!Elements(jRetired) \cup {jActive}
            /\ t.retired = IF jActive = 0 THEN jRetired
                           ELSE Join!Last(Append(jRetired, jActive), JoinRetiredMax)
            /\ t.pending \subseteq jPending
            /\ t.pending = Join!OfSession(jPending, x.key[1])
<1> DEFINE t == Join!Turn(x)
<1>1. CASE ~(x.kind = S12 /\ x.key[1] # jActive)
  BY <1>1 DEF Join!Turn
<1>2. CASE x.kind = S12 /\ x.key[1] # jActive
  <2> DEFINE g == IF jActive = 0 THEN jRetired
                  ELSE Join!Last(Append(jRetired, jActive), JoinRetiredMax)
  <2>1. /\ t.active = x.key[1] /\ t.last = 0 /\ t.retired = g
        /\ t.pending = Join!OfSession(jPending, x.key[1])
    BY <1>2 DEF Join!Turn
  <2>2. x.key[1] \in Sess
    BY KeyIs DEF Join!FrameRec
  <2>3. g \in Seq(Sess) /\ Join!Elements(g) \subseteq Join!Elements(jRetired) \cup {jActive}
    <3>1. CASE jActive = 0
      BY <3>1 DEF JoinTypes
    <3>2. CASE jActive # 0
      <4>1. jActive \in Sess /\ jRetired \in Seq(Sess) /\ JoinRetiredMax \in Nat \ {0}
        BY <3>2, JoinSizes DEF JoinTypes
      <4> QED
        BY <4>1, <3>2, LastKept
    <3> QED
      BY <3>1, <3>2
  <2>4. t.pending \subseteq jPending
    BY <2>1 DEF Join!OfSession
  <2> QED
    BY <2>1, <2>2, <2>3, <2>4, <1>2
<1> QED
  BY <1>1, <1>2

\* Entries that are changed one for one.
LEMMA Changed ==
  ASSUME NEW p, IsFiniteSet(p), NEW m, OneEach(p, m), NEW h,
         \A e \in p : h[e].key = e.key /\ h[e].born = e.born,
         NEW q, q = {h[e] : e \in p}
  PROVE  /\ OneEach(q, m) /\ IsFiniteSet(q) /\ Cardinality(q) = Cardinality(p)
         /\ Join!KeysOf(q) = Join!KeysOf(p)
<1> DEFINE F == [e \in p |-> h[e]]
<1>1. F \in Bijection(p, q)
  <2>1. F \in Surjection(p, q)
    BY DEF Surjection
  <2>2. \A d, e \in p : F[d] = F[e] => d = e
    BY DEF OneEach
  <2> QED
    BY <2>1, <2>2 DEF Bijection, Injection, Surjection, IsInjective
<1>2. IsFiniteSet(q) /\ Cardinality(q) = Cardinality(p)
  <2>1. ExistsBijection(p, q)
    BY <1>1 DEF ExistsBijection
  <2> QED
    BY <2>1, FS_Bijection
<1>3. OneEach(q, m)
  BY DEF OneEach
<1>4. Join!KeysOf(q) = Join!KeysOf(p)
  BY DEF Join!KeysOf
<1> QED
  BY <1>2, <1>3, <1>4

LEMMA AgedCount ==
  ASSUME NEW p, p \subseteq Join!EntryRec, IsFiniteSet(p), NEW m, OneEach(p, m),
         NEW q \in Join!Aged(p)
  PROVE  OneEach(q, m) /\ IsFiniteSet(q) /\ Cardinality(q) = Cardinality(p)
<1>1. PICK n : q = {[e EXCEPT !.old = @ \/ e.born <= n] : e \in p}
  BY DEF Join!Aged
<1> DEFINE h == [e \in p |-> [e EXCEPT !.old = @ \/ e.born <= n]]
<1>2. \A e \in p : h[e].key = e.key /\ h[e].born = e.born
  BY DEF Join!EntryRec
<1>3. q = {h[e] : e \in p}
  BY <1>1
<1> HIDE DEF h
<1> QED
  BY <1>2, <1>3, Changed

\* Taking an entry away, or several.
LEMMA FewerEntries ==
  ASSUME NEW p, IsFiniteSet(p), NEW m, OneEach(p, m), NEW q \in SUBSET p
  PROVE  /\ OneEach(q, m) /\ IsFiniteSet(q)
         /\ \A e \in p : q = p \ {e} => Cardinality(q) = Cardinality(p) - 1
<1>1. OneEach(q, m) /\ IsFiniteSet(q)
  BY FS_Subset DEF OneEach
<1>2. ASSUME NEW e \in p PROVE Cardinality(p \ {e}) = Cardinality(p) - 1
  BY FS_RemoveElement
<1> QED
  BY <1>1, <1>2

\* The entries with x added, as many as there were or one more than are left.
LEMMA EntryIs ==
  ASSUME Join!JoinAssumption, NEW x \in Join!FrameRec, NEW p, p \subseteq Join!EntryRec,
         IsFiniteSet(p), OneEach(p, entered), entered \in Nat
  PROVE  LET q == Join!Entry(x, p) IN
         /\ q \subseteq Join!EntryRec /\ IsFiniteSet(q)
         /\ x.key \in Join!KeysOf(p) =>
              /\ q = {Join!Put(x, e) : e \in p} /\ OneEach(q, entered)
              /\ Cardinality(q) = Cardinality(p) /\ Join!KeysOf(q) = Join!KeysOf(p)
         /\ x.key \notin Join!KeysOf(p) =>
              /\ OneEach(q, entered + 1)
              /\ Cardinality(q) = Cardinality(Join!Room(p)) + 1
              /\ IsFiniteSet(Join!Room(p)) /\ Join!Room(p) \subseteq p
              /\ q = Join!Room(p) \cup {[key |-> x.key, born |-> entered + 1, old |-> FALSE,
                                         streams |-> {[kind |-> x.kind, stamp |-> x.stamp]}]}
<1> DEFINE q == Join!Entry(x, p)
<1>1. CASE x.key \in Join!KeysOf(p)
  <2> DEFINE h == [e \in p |-> Join!Put(x, e)]
  <2>1. q = {Join!Put(x, e) : e \in p}
    BY <1>1 DEF Join!Entry
  <2>2. /\ \A e \in p : Join!Put(x, e) \in Join!EntryRec
        /\ \A e \in p : Join!Put(x, e).key = e.key /\ Join!Put(x, e).born = e.born
    BY PutIs
  <2>3. q = {h[e] : e \in p} /\ \A e \in p : h[e].key = e.key /\ h[e].born = e.born
    BY <2>1, <2>2
  <2> HIDE DEF q, h
  <2>4. /\ OneEach(q, entered) /\ IsFiniteSet(q) /\ Cardinality(q) = Cardinality(p)
        /\ Join!KeysOf(q) = Join!KeysOf(p)
    BY <2>3, Changed
  <2>5. q \subseteq Join!EntryRec
    BY <2>1, <2>2
  <2> QED
    BY <2>1, <2>4, <2>5, <1>1 DEF q
<1>2. CASE x.key \notin Join!KeysOf(p)
  <2> DEFINE n == [key |-> x.key, born |-> entered + 1, old |-> FALSE,
                   streams |-> {[kind |-> x.kind, stamp |-> x.stamp]}]
             r == Join!Room(p)
  <2>1. q = r \cup {n}
    BY <1>2 DEF Join!Entry
  <2>2. r \subseteq p
    BY DEF Join!Room
  <2>3. n \in Join!EntryRec
    BY DEF Join!FrameRec, Join!EntryRec
  <2>4. n.key = x.key /\ n.born = entered + 1
    OBVIOUS
  <2> HIDE DEF q, n, r
  <2>5. \A e \in p : e.key # x.key /\ e.born <= entered /\ e.born \in Nat
    BY <1>2, KeysAre DEF OneEach, Join!EntryRec
  <2>6. n \notin r
    BY <2>2, <2>4, <2>5
  <2>7. IsFiniteSet(r)
    BY <2>2, FS_Subset
  <2>8. IsFiniteSet(q) /\ Cardinality(q) = Cardinality(r) + 1
    BY <2>1, <2>6, <2>7, FS_AddElement
  <2>9. \A e, f \in p : e.key = f.key \/ e.born = f.born => e = f
    BY DEF OneEach
  <2>10. \A e, f \in q : e.key = f.key \/ e.born = f.born => e = f
    <3>1. \A e \in p : e.key # n.key /\ e.born # n.born
      BY <2>4, <2>5
    <3> QED
      BY <3>1, <2>1, <2>2, <2>9
  <2>11. \A e \in q : e.born <= entered + 1
    BY <2>1, <2>2, <2>4, <2>5
  <2>13. OneEach(q, entered + 1)
    BY <2>10, <2>11 DEF OneEach
  <2>12. q \subseteq Join!EntryRec
    BY <2>1, <2>2, <2>3
  <2> QED
    BY <2>1, <2>2, <2>7, <2>8, <2>13, <2>12, <1>2 DEF q, n, r
<1> QED
  BY <1>1, <1>2

-----------------------------------------------------------------------------
(* The steps.                                                              *)

\* What add() leaves to the poll after it.
Polled(x) ==
  IF x.key[1] \in Join!Elements(jRetired) THEN jPending
  ELSE LET t == Join!Turn(x)
       IN  IF Join!TooLate(x, t) THEN t.pending ELSE Join!Entry(x, t.pending)

LEMMA FewerTyped ==
  ASSUME JoinTypes, OneEach(jPending, entered), NEW q \in SUBSET jPending
  PROVE  q \subseteq Join!EntryRec /\ IsFiniteSet(q) /\ OneEach(q, entered)
  BY FewerEntries DEF JoinTypes

LEMMA CardInt == ASSUME NEW S, IsFiniteSet(S) PROVE Cardinality(S) \in Nat
  BY FS_CardinalityType

\* The frame x, the first of the batch, is added.
LEMMA AddIs ==
  ASSUME Join!JoinAssumption, JoinTypes, OneEach(jPending, entered), NEW x \in batch,
         Join!Add(x)
  PROVE  LET p == Polled(x) IN
         /\ p \subseteq Join!EntryRec /\ IsFiniteSet(p) /\ OneEach(p, entered')
         /\ jPending' \in Join!Aged(p) /\ visit' = Join!KeysOf(p) /\ jPc' = "poll"
         /\ entered' \in Nat /\ evicted' \in Int /\ dropped' \in Int
         /\ Unlost' - Cardinality(p) = Unlost - Cardinality(jPending)
<1> DEFINE p == Polled(x)
           t == Join!Turn(x)
<1>0. /\ x \in Join!FrameRec /\ entered \in Nat /\ evicted \in Int /\ dropped \in Int
      /\ jPending \subseteq Join!EntryRec /\ IsFiniteSet(jPending)
  BY DEF JoinTypes
<1>1. CASE x.key[1] \in Join!Elements(jRetired)
  <2>1. p = jPending
    BY <1>1 DEF Polled
  <2>2. /\ Join!StartPoll(jPending)
        /\ entered' = entered /\ evicted' = evicted /\ dropped' = dropped
    BY <1>1 DEF Join!Add
  <2>3. Cardinality(jPending) \in Nat
    BY <1>0, CardInt
  <2> QED
    BY <2>1, <2>2, <2>3, <1>0 DEF Join!StartPoll, Unlost
<1>2. CASE x.key[1] \notin Join!Elements(jRetired)
  <2>1. /\ jActive' = t.active /\ jLastId' = t.last /\ jRetired' = t.retired
        /\ dropped' = dropped + Cardinality(jPending) - Cardinality(t.pending)
    BY <1>2, SameCount DEF Join!Add
  <2>2. t.pending \subseteq jPending
    BY <1>0, TurnIs
  <2>3. t.pending \subseteq Join!EntryRec /\ IsFiniteSet(t.pending) /\ OneEach(t.pending, entered)
    BY <2>2, FewerTyped
  <2>4. Cardinality(t.pending) \in Nat /\ Cardinality(jPending) \in Nat
    BY <2>3, <1>0, CardInt
  <2>5. dropped' \in Int
    BY <2>1, <2>4, <1>0
  <2>6. CASE Join!TooLate(x, t)
    <3>1. p = t.pending
      BY <1>2, <2>6 DEF Polled
    <3>2. Join!StartPoll(t.pending) /\ evicted' = evicted /\ entered' = entered
      BY <1>2, <2>6 DEF Join!Add
    <3>3. Unlost' - Cardinality(p) = Unlost - Cardinality(jPending)
      BY <3>1, <3>2, <2>1, <2>4, <1>0 DEF Unlost
    <3> QED
      BY <3>1, <3>2, <3>3, <2>3, <2>5, <1>0 DEF Join!StartPoll
  <2>7. CASE ~Join!TooLate(x, t)
    <3>1. p = Join!Entry(x, t.pending)
      BY <1>2, <2>7 DEF Polled
    <3>2. Join!StartPoll(Join!Entry(x, t.pending))
      BY <1>2, <2>7 DEF Join!Add
    <3>3. p \subseteq Join!EntryRec /\ IsFiniteSet(p)
      BY <3>1, <2>3, <1>0, EntryIs
    <3>4. CASE x.key \in Join!KeysOf(t.pending)
      <4>1. evicted' = evicted /\ entered' = entered
        BY <1>2, <2>7, <3>4 DEF Join!Add
      <4>2. OneEach(p, entered) /\ Cardinality(p) = Cardinality(t.pending)
        BY <3>1, <3>4, <2>3, <1>0, EntryIs
      <4>3. Unlost' - Cardinality(p) = Unlost - Cardinality(jPending)
        BY <4>1, <4>2, <2>1, <2>4, <1>0 DEF Unlost
      <4> QED
        BY <3>1, <3>2, <3>3, <4>1, <4>2, <4>3, <2>5, <1>0 DEF Join!StartPoll
    <3>5. CASE x.key \notin Join!KeysOf(t.pending)
      <4>1. /\ entered' = entered + 1
            /\ evicted' = evicted + Cardinality(t.pending) - Cardinality(Join!Room(t.pending))
        BY <1>2, <2>7, <3>5, SameCount DEF Join!Add
      <4>2. /\ OneEach(p, entered + 1) /\ IsFiniteSet(Join!Room(t.pending))
            /\ Cardinality(p) = Cardinality(Join!Room(t.pending)) + 1
        BY <3>1, <3>5, <2>3, <1>0, EntryIs
      <4>3. Cardinality(Join!Room(t.pending)) \in Nat
        BY <4>2, CardInt
      <4>4. entered' \in Nat /\ evicted' \in Int /\ Unlost' - Cardinality(p) = Unlost - Cardinality(jPending)
        <5> DEFINE a == Cardinality(jPending)
                   b == Cardinality(t.pending)
                   r == Cardinality(Join!Room(t.pending))
        <5>1. /\ entered \in Nat /\ evicted \in Int /\ dropped \in Int
              /\ a \in Nat /\ b \in Nat /\ r \in Nat /\ Cardinality(p) = r + 1
              /\ entered' = entered + 1 /\ evicted' = evicted + b - r /\ dropped' = dropped + a - b
          BY <4>1, <4>2, <4>3, <2>1, <2>4, <1>0
        <5> HIDE DEF a, b, r
        <5>2. entered' \in Nat /\ evicted' \in Int /\ dropped' \in Int
          BY <5>1
        <5>3. evicted' + dropped' = evicted + dropped + a - r
          BY <5>1
        <5>4. Unlost' - Cardinality(p) = Unlost - a
          BY <5>1, <5>2, <5>3 DEF Unlost
        <5> QED
          BY <5>2, <5>4 DEF a
      <4>5. OneEach(p, entered')
        BY <4>1, <4>2
      <4> QED
        BY <3>1, <3>2, <3>3, <4>4, <4>5, <2>5 DEF Join!StartPoll
    <3> QED
      BY <3>4, <3>5
  <2> QED
    BY <2>6, <2>7
<1> QED
  BY <1>1, <1>2

LEMMA AddAnchored ==
  ASSUME Join!JoinAssumption, JoinTypes, OneEach(jPending, entered), Join!NothingIsPassedOver,
         NEW x \in batch, Join!Add(x), NEW e \in Polled(x),
         e.key[1] = jActive', S12 \in Join!KindsOf(e)
  PROVE  e.key[2] > jLastId'
<1> DEFINE t == Join!Turn(x)
<1>0. /\ x \in Join!FrameRec /\ x.key \in Join!Keys /\ jPending \subseteq Join!EntryRec
      /\ \A f \in jPending : f.key[1] = jActive /\ S12 \in Join!KindsOf(f) => f.key[2] > jLastId
  BY DEF JoinTypes, Join!FrameRec, Join!NothingIsPassedOver, Join!Anchored
<1>1. CASE x.key[1] \in Join!Elements(jRetired)
  <2>1. jActive' = jActive /\ jLastId' = jLastId /\ Polled(x) = jPending
    BY <1>1 DEF Join!Add, Polled
  <2> QED
    BY <2>1, <1>0
<1>2. CASE x.key[1] \notin Join!Elements(jRetired)
  <2>1. jActive' = t.active /\ jLastId' = t.last
    BY <1>2 DEF Join!Add
  <2>2. /\ t.pending \subseteq jPending
        /\ \/ t.active = jActive /\ t.last = jLastId
           \/ t.last = 0
    BY <1>0, TurnIs
  <2>3. ASSUME NEW f \in t.pending, f.key[1] = t.active, S12 \in Join!KindsOf(f)
        PROVE  f.key[2] > t.last
    <3>1. f.key \in Join!Keys /\ f \in jPending
      BY <2>2, <1>0 DEF Join!EntryRec
    <3>2. f.key[2] \in Nat \ {0}
      BY <3>1, KeyIs
    <3> QED
      BY <2>2, <2>3, <3>1, <3>2, <1>0
  <2>4. CASE Join!TooLate(x, t)
    <3>1. Polled(x) = t.pending
      BY <2>4, <1>2 DEF Polled
    <3> QED
      BY <3>1, <2>3, <2>1
  <2>5. CASE ~Join!TooLate(x, t)
    <3>1. Polled(x) = Join!Entry(x, t.pending)
      BY <2>5, <1>2 DEF Polled
    <3>2. x.key[1] = t.active => x.key[2] > t.last
      <4>1. x.key[2] \in Nat \ {0} /\ t.last \in Nat
        BY <1>0, <2>2, KeyIs DEF JoinTypes
      <4> QED
        BY <4>1, <2>5 DEF Join!TooLate
    <3>3. t.pending \subseteq Join!EntryRec /\ IsFiniteSet(t.pending) /\ OneEach(t.pending, entered)
      BY <2>2, FewerTyped
    <3>4. entered \in Nat
      BY DEF JoinTypes
    <3>5. CASE x.key \in Join!KeysOf(t.pending)
      <4>1. Join!Entry(x, t.pending) = {Join!Put(x, f) : f \in t.pending}
        BY <3>3, <3>4, <3>5, <1>0, EntryIs
      <4>2. PICK f \in t.pending : e = Join!Put(x, f)
        BY <4>1, <3>1
      <4>3. f \in Join!EntryRec
        BY <4>2, <3>3
      <4>4. CASE x.key = f.key
        BY <4>4, <4>2, <4>3, <3>2, <2>1, <1>0, PutIs
      <4>5. CASE x.key # f.key
        BY <4>5, <4>2, <4>3, <2>3, <2>1, <1>0, PutIs
      <4> QED
        BY <4>4, <4>5
    <3>6. CASE x.key \notin Join!KeysOf(t.pending)
      <4>1. /\ Join!Room(t.pending) \subseteq t.pending
            /\ Join!Entry(x, t.pending) = Join!Room(t.pending) \cup
                 {[key |-> x.key, born |-> entered + 1, old |-> FALSE,
                   streams |-> {[kind |-> x.kind, stamp |-> x.stamp]}]}
        BY <3>3, <3>4, <3>6, <1>0, EntryIs
      <4>2. e \in t.pending \/ e.key = x.key
        BY <4>1, <3>1
      <4> QED
        BY <4>2, <3>2, <2>3, <2>1
    <3> QED
      BY <3>5, <3>6
  <2> QED
    BY <2>4, <2>5
<1> QED
  BY <1>1, <1>2

\* What the poll is started with, and the state that it is started in.
LEMMA StartedPoll ==
  ASSUME NEW p, p \subseteq Join!EntryRec, IsFiniteSet(p), OneEach(p, entered'),
         jPending' \in Join!Aged(p), visit' = Join!KeysOf(p), jPc' = "poll",
         \A e \in p : e.key[1] = jActive' /\ S12 \in Join!KindsOf(e) => e.key[2] > jLastId'
  PROVE  /\ jPending' \subseteq Join!EntryRec /\ IsFiniteSet(jPending')
         /\ OneEach(jPending, entered)' /\ Cardinality(jPending') = Cardinality(p)
         /\ ToVisit' /\ Join!NothingIsPassedOver'
<1>1. /\ jPending' \subseteq Join!EntryRec
      /\ \A f \in jPending' : \E e \in p : f.key = e.key /\ f.streams = e.streams
      /\ Join!KeysOf(jPending') = Join!KeysOf(p)
  BY AgedIs
<1>2. /\ OneEach(jPending', entered') /\ IsFiniteSet(jPending')
      /\ Cardinality(jPending') = Cardinality(p)
  BY AgedCount
<1>3. OneEach(jPending, entered)'
  BY <1>2 DEF OneEach
<1>4. ToVisit'
  BY <1>1 DEF ToVisit, Join!KeysOf
<1>5. Join!NothingIsPassedOver'
  BY <1>1 DEF Join!NothingIsPassedOver, Join!Anchored, Join!KindsOf
<1> QED
  BY <1>1, <1>2, <1>3, <1>4, <1>5

LEMMA JoinInit == ASSUME Join!JoinAssumption, Join!Init PROVE BaseInv
<1> USE DEF Join!Init
<1>1. JoinTypes
  BY FS_EmptySet DEF JoinTypes, StartRec, Join!NoStart
<1>2. OneEach(jPending, entered) /\ ToVisit /\ Finish /\ Join!NothingIsPassedOver
  BY DEF OneEach, ToVisit, Finish, Join!NothingIsPassedOver
<1>3. CountInv
  BY FS_EmptySet DEF CountInv, Unlost
<1> QED
  BY <1>1, <1>2, <1>3 DEF BaseInv

LEMMA AddBase ==
  ASSUME Join!JoinAssumption, BaseInv, NEW x \in batch, Join!Add(x) PROVE BaseInv'
<1> DEFINE p == Polled(x)
<1> USE DEF BaseInv
<1>1. /\ p \subseteq Join!EntryRec /\ IsFiniteSet(p) /\ OneEach(p, entered')
      /\ jPending' \in Join!Aged(p) /\ visit' = Join!KeysOf(p) /\ jPc' = "poll"
      /\ entered' \in Nat /\ evicted' \in Int /\ dropped' \in Int
      /\ Unlost' - Cardinality(p) = Unlost - Cardinality(jPending)
  BY AddIs
<1>2. \A e \in p : e.key[1] = jActive' /\ S12 \in Join!KindsOf(e) => e.key[2] > jLastId'
  BY AddAnchored
<1>3. /\ jPending' \subseteq Join!EntryRec /\ IsFiniteSet(jPending')
      /\ OneEach(jPending, entered)' /\ Cardinality(jPending') = Cardinality(p)
      /\ ToVisit' /\ Join!NothingIsPassedOver'
  BY <1>1, <1>2, StartedPoll
<1>4. /\ batch' = batch \ {x} /\ jPc = "add"
      /\ UNCHANGED <<queued, arrived, orphan, final, emitted, start>>
  BY DEF Join!Add
<1>5. jActive' \in Sess \cup {0} /\ jLastId' \in Nat /\ jRetired' \in Seq(Sess)
  <2>1. CASE x.key[1] \in Join!Elements(jRetired)
    BY <2>1 DEF Join!Add, JoinTypes
  <2>2. CASE x.key[1] \notin Join!Elements(jRetired)
    <3>1. /\ jActive' = Join!Turn(x).active /\ jLastId' = Join!Turn(x).last
          /\ jRetired' = Join!Turn(x).retired
      BY <2>2 DEF Join!Add
    <3>2. x \in Join!FrameRec
      BY DEF JoinTypes
    <3> QED
      BY <3>1, <3>2, TurnIs DEF JoinTypes
  <2> QED
    BY <2>1, <2>2
<1>6. JoinTypes'
  BY <1>1, <1>3, <1>4, <1>5 DEF JoinTypes
<1>7. Finish'
  BY <1>1, <1>4 DEF Finish
<1>8. CountInv'
  <2>1. /\ Cardinality(jPending) \in Nat /\ Cardinality(p) \in Nat /\ Len(emitted) \in Nat
        /\ orphan \in Int
    BY <1>1, CardInt DEF JoinTypes
  <2>3. entered \in Nat /\ evicted \in Int /\ dropped \in Int
    BY DEF JoinTypes
  <2>4. Unlost \in Int /\ Unlost' \in Int
    BY <2>3, <1>1 DEF Unlost
  <2>2. Unlost' = Cardinality(p) + Len(emitted) + orphan
    <3> HIDE DEF p
    <3>1. Unlost' - Cardinality(p) = Unlost - Cardinality(jPending)
      BY <1>1, Zenon
    <3> QED
      BY <2>1, <2>4, <3>1 DEF CountInv
  <2> QED
    BY <2>2, <1>3, <1>4 DEF CountInv
<1> QED
  BY <1>3, <1>6, <1>7, <1>8

\* What is pending stays but for its age.
LEMMA AddsDoneBase ==
  ASSUME Join!JoinAssumption, BaseInv, Join!AddsDone PROVE BaseInv'
<1> USE DEF BaseInv
<1>1. /\ jPending' \in Join!Aged(jPending) /\ visit' = Join!KeysOf(jPending) /\ jPc' = "poll"
      /\ final' = TRUE /\ batch = {}
      /\ UNCHANGED <<queued, arrived, jActive, jLastId, jRetired, orphan, evicted, entered, dropped,
                     batch, emitted, start>>
  BY DEF Join!AddsDone, Join!StartPoll
<1>2. \A e \in jPending : e.key[1] = jActive' /\ S12 \in Join!KindsOf(e) => e.key[2] > jLastId'
  BY <1>1 DEF Join!NothingIsPassedOver, Join!Anchored
<1>3. jPending \subseteq Join!EntryRec /\ IsFiniteSet(jPending) /\ OneEach(jPending, entered')
  BY <1>1 DEF JoinTypes
<1>4. /\ jPending' \subseteq Join!EntryRec /\ IsFiniteSet(jPending')
      /\ OneEach(jPending, entered)' /\ Cardinality(jPending') = Cardinality(jPending)
      /\ ToVisit' /\ Join!NothingIsPassedOver'
  BY <1>1, <1>2, <1>3, StartedPoll
<1>5. JoinTypes'
  BY <1>1, <1>4 DEF JoinTypes
<1>6. Finish' /\ CountInv'
  BY <1>1, <1>4 DEF Finish, CountInv, Unlost
<1> QED
  BY <1>4, <1>5, <1>6

\* A poll's step at the entry e, the next one.
LEMMA VisitIs ==
  ASSUME BaseInv, NEW e \in jPending, Join!Visit(e)
  PROVE  /\ jPc = "poll" /\ jPc' = "poll" /\ e.key \in visit /\ visit' = visit \ {e.key}
         /\ \A k \in visit \ {e.key} : Join!Lower(e.key, k)
         /\ UNCHANGED <<queued, arrived, jActive, jRetired, evicted, entered, dropped,
                        batch, final, start>>
  BY DEF Join!Visit, Join!IsNext

LEMMA UnanchoredBase ==
  ASSUME Join!JoinAssumption, BaseInv, NEW e \in jPending, Join!PollUnanchored(e) PROVE BaseInv'
<1> USE DEF BaseInv
<1>1. /\ jPc = "poll" /\ jPc' = "poll" /\ visit' = visit \ {e.key} /\ e.key \in visit
      /\ UNCHANGED <<queued, arrived, jActive, jRetired, evicted, entered, dropped,
                     batch, final, start>>
  BY VisitIs DEF Join!PollUnanchored
<1>2. /\ ~Join!Anchored(e) /\ jLastId' = jLastId /\ emitted' = emitted
      /\ \/ jPending' = jPending \ {e} /\ orphan' = orphan + 1
         \/ jPending' = jPending /\ orphan' = orphan
  BY DEF Join!PollUnanchored
<1>3. jPending' \in SUBSET jPending
  BY <1>2
<1>4. /\ jPending' \subseteq Join!EntryRec /\ IsFiniteSet(jPending') /\ OneEach(jPending', entered)
      /\ jPending' = jPending \ {e} => Cardinality(jPending') = Cardinality(jPending) - 1
  BY <1>3, FewerTyped, FewerEntries DEF JoinTypes
<1>5. Cardinality(jPending) \in Nat /\ Len(emitted) \in Nat
  BY CardInt DEF JoinTypes
<1>6. JoinTypes'
  BY <1>1, <1>2, <1>4 DEF JoinTypes
<1>7. OneEach(jPending, entered)' /\ Finish'
  BY <1>1, <1>4 DEF OneEach, Finish
<1>8. CountInv'
  <2>1. /\ orphan \in Int /\ Cardinality(jPending) + Len(emitted) + orphan = Unlost
    BY DEF CountInv, Unlost, JoinTypes
  <2>2. Cardinality(jPending') + Len(emitted) + orphan' = Unlost
    BY <1>2, <1>4, <1>5, <2>1
  <2>3. Unlost' = Unlost
    BY <1>1 DEF Unlost
  <2> QED
    BY <2>2, <2>3, <1>2 DEF CountInv
<1>9. \A f \in jPending' : Join!Anchored(f)' => f \in jPending /\ Join!Anchored(f)
  BY <1>1, <1>3 DEF Join!Anchored, Join!KindsOf
<1>10. ToVisit'
  <2>1. ASSUME NEW f \in jPending', Join!Anchored(f)', visit' # {} PROVE f.key \in visit'
    <3>1. f \in jPending /\ Join!Anchored(f)
      BY <2>1, <1>9
    <3>2. f.key \in visit /\ f # e
      BY <3>1, <1>1, <1>2 DEF ToVisit
    <3>3. f.key # e.key
      BY <3>1, <3>2 DEF OneEach
    <3> QED
      BY <3>2, <3>3, <1>1
  <2> QED
    BY <2>1 DEF ToVisit
<1>11. Join!NothingIsPassedOver'
  BY <1>2, <1>9 DEF Join!NothingIsPassedOver
<1> QED
  BY <1>6, <1>7, <1>8, <1>10, <1>11

LEMMA WaitsBase ==
  ASSUME BaseInv, NEW e \in jPending, Join!PollWaits(e) PROVE BaseInv'
<1> USE DEF BaseInv
<1>1. /\ visit' = {}
      /\ UNCHANGED <<queued, arrived, jActive, jLastId, jRetired, jPending, orphan, evicted,
                     entered, dropped, jPc, batch, final, emitted, start>>
  BY DEF Join!PollWaits, Join!joiner
<1>2. JoinTypes' /\ OneEach(jPending, entered)' /\ Finish' /\ CountInv'
  BY <1>1 DEF JoinTypes, OneEach, Finish, CountInv, Unlost
<1>3. ToVisit' /\ Join!NothingIsPassedOver'
  BY <1>1 DEF ToVisit, Join!NothingIsPassedOver, Join!Anchored, Join!KindsOf
<1> QED
  BY <1>2, <1>3

LEMMA DoneBase ==
  ASSUME BaseInv, Join!PollDone PROVE BaseInv'
<1> USE DEF BaseInv
<1>1. /\ jPc = "poll" /\ visit = {} /\ jPc' = (IF final THEN "idle" ELSE "add") /\ final' = FALSE
      /\ UNCHANGED <<queued, arrived, jActive, jLastId, jRetired, jPending, orphan, evicted,
                     entered, dropped, batch, visit, emitted, start>>
  BY DEF Join!PollDone, Join!joiner
<1>2. JoinTypes' /\ OneEach(jPending, entered)' /\ CountInv'
  BY <1>1 DEF JoinTypes, OneEach, CountInv, Unlost
<1>3. ToVisit' /\ Finish' /\ Join!NothingIsPassedOver'
  BY <1>1 DEF ToVisit, Finish, Join!NothingIsPassedOver, Join!Anchored, Join!KindsOf
<1> QED
  BY <1>2, <1>3

LEMMA StampIs ==
  ASSUME Join!JoinAssumption, NEW k \in Join!Keys
  PROVE  /\ Join!Stamp(k) \in Nat
         /\ \A l \in Join!Keys : k[1] = l[1] => (Join!Stamp(k) < Join!Stamp(l) <=> k[2] < l[2])
<1> DEFINE c == Join!Run(k[1]) * (JoinMaxFrame + 1)
<1>1. Join!Run(k[1]) \in Nat
  <2>1. k[1] \in Sess /\ JoinSessions \in Seq(Nat \ {0})
    BY KeyIs, JoinSizes
  <2>2. DOMAIN JoinSessions \subseteq Nat /\ \E i \in DOMAIN JoinSessions : JoinSessions[i] = k[1]
    BY <2>1, LenProperties DEF Sess, Join!Elements
  <2> QED
    BY <2>2 DEF Join!Run
<1>2. c \in Nat
  BY <1>1, JoinSizes
<1>3. \A l \in Join!Keys : k[1] = l[1] => Join!Stamp(l) = c + l[2]
  BY DEF Join!Stamp
<1>4. \A l \in Join!Keys : l[2] \in Nat
  BY KeyIs
<1> HIDE DEF c
<1> QED
  BY <1>2, <1>3, <1>4

LEMMA ArriveBase ==
  ASSUME Join!JoinAssumption, BaseInv, Join!Network PROVE BaseInv'
<1> USE DEF BaseInv
<1>1. PICK kind \in Kinds, key \in Join!Keys, d \in {0, 1} : Join!Arrive(kind, key, Join!Stamp(key) + d)
  BY DEF Join!Network
<1>2. Join!Stamp(key) + d \in Nat
  BY StampIs
<1>3. PICK x \in Join!FrameRec : queued' = queued \cup {x} /\ arrived' = arrived \cup {x}
  BY <1>1, <1>2 DEF Join!Arrive, Join!FrameRec
<1>4. /\ start' = Join!NoStart
      /\ UNCHANGED <<jActive, jLastId, jRetired, jPending, orphan, evicted, entered, dropped,
                     jPc, batch, visit, final, emitted>>
  BY <1>1 DEF Join!Arrive, Join!joiner
<1>5. JoinTypes'
  BY <1>3, <1>4 DEF JoinTypes, Join!NoStart, StartRec
<1>6. OneEach(jPending, entered)' /\ CountInv' /\ ToVisit' /\ Finish' /\ Join!NothingIsPassedOver'
  BY <1>4 DEF OneEach, CountInv, Unlost, ToVisit, Finish, Join!NothingIsPassedOver, Join!Anchored,
              Join!KindsOf
<1> QED
  BY <1>5, <1>6

LEMMA TickBase == ASSUME Join!JoinAssumption, BaseInv, Join!Tick PROVE BaseInv'
<1> USE DEF BaseInv
<1>1. /\ jPc = "idle" /\ jPc' = "add" /\ batch' = queued /\ queued' = {}
      /\ UNCHANGED <<arrived, jActive, jLastId, jRetired, jPending, orphan, evicted, entered,
                     dropped, visit, final, emitted>>
  BY DEF Join!Tick, Join!joiner
<1>2. start' \in StartRec
  <2>1. /\ start' = Join!NoStart \/ start' = [keys |-> {x.key : x \in queued}, emitted |-> Len(emitted),
                                                last |-> jLastId, active |-> jActive]
    BY DEF Join!Tick
  <2>2. {x.key : x \in queued} \subseteq Join!Keys /\ Len(emitted) \in Nat /\ jActive \in Nat
        /\ jLastId \in Nat
    <3>1. \A x \in queued : x.key \in Join!Keys
      BY DEF JoinTypes, Join!FrameRec
    <3>2. jActive \in Nat
      BY SessIs DEF JoinTypes
    <3> QED
      BY <3>1, <3>2 DEF JoinTypes
  <2> QED
    BY <2>1, <2>2 DEF StartRec, Join!NoStart
<1>3. JoinTypes'
  BY <1>1, <1>2 DEF JoinTypes
<1>4. OneEach(jPending, entered)' /\ CountInv' /\ ToVisit' /\ Finish' /\ Join!NothingIsPassedOver'
  BY <1>1 DEF OneEach, CountInv, Unlost, ToVisit, Finish, Join!NothingIsPassedOver, Join!Anchored,
              Join!KindsOf
<1> QED
  BY <1>3, <1>4

\* Whatever is emitted is after the last one.
LEMMA EmitIs ==
  ASSUME Join!JoinAssumption, BaseInv, NEW e \in jPending, Join!PollEmits(e)
  PROVE  LET m == [key |-> e.key, kinds |-> Join!Matched(e), waited |-> e.old] IN
         /\ m \in EmitRec /\ emitted' = Append(emitted, m)
         /\ jLastId' = e.key[2] /\ e.key[2] > jLastId /\ e.key[1] = jActive
         /\ e.key \in Join!Keys /\ e.key[2] \in Nat \ {0}
         /\ jPending' = jPending \ {e} /\ orphan' = orphan
         /\ \A f \in jPending' : Join!Anchored(f)' =>
              f \in jPending /\ Join!Anchored(f) /\ f.key \in visit'
<1> USE DEF BaseInv
<1>1. Join!Anchored(e) /\ Join!Visit(e) /\ jPending' = jPending \ {e} /\ orphan' = orphan
  BY DEF Join!PollEmits
<1>2. e.key[2] > jLastId /\ e.key[1] = jActive
  BY <1>1 DEF Join!NothingIsPassedOver, Join!Anchored
<1>3. e \in Join!EntryRec /\ e.key \in Join!Keys /\ jLastId \in Nat
  BY DEF JoinTypes, Join!EntryRec
<1>4. e.key[2] \in Nat \ {0}
  BY <1>3, KeyIs
<1>5. ~(jLastId # 0 /\ e.key[2] <= jLastId)
  BY <1>2, <1>3, <1>4
<1> DEFINE m == [key |-> e.key, kinds |-> Join!Matched(e), waited |-> e.old]
<1>6. jLastId' = e.key[2] /\ emitted' = Append(emitted, m)
  BY <1>5 DEF Join!PollEmits
<1>7. m \in EmitRec
  <2>1. Join!Matched(e) \subseteq Kinds /\ e.old \in BOOLEAN
    BY <1>3 DEF Join!Matched, Join!EntryRec
  <2> QED
    BY <2>1, <1>3 DEF EmitRec
<1>8. ASSUME NEW f \in jPending', Join!Anchored(f)'
      PROVE  f \in jPending /\ Join!Anchored(f) /\ f.key \in visit'
  <2>1. /\ jActive' = jActive /\ jPc = "poll" /\ e.key \in visit /\ visit' = visit \ {e.key}
    BY <1>1, VisitIs
  <2>2. f \in jPending /\ f # e /\ Join!Anchored(f)
    BY <1>1, <1>8, <2>1 DEF Join!Anchored, Join!KindsOf
  <2>3. f.key \in visit /\ f.key # e.key
    BY <2>1, <2>2 DEF ToVisit, OneEach
  <2> QED
    BY <2>1, <2>2, <2>3
<1> QED
  BY <1>1, <1>2, <1>3, <1>4, <1>6, <1>7, <1>8

LEMMA EmitsBase ==
  ASSUME Join!JoinAssumption, BaseInv, NEW e \in jPending, Join!PollEmits(e) PROVE BaseInv'
<1> USE DEF BaseInv
<1> DEFINE m == [key |-> e.key, kinds |-> Join!Matched(e), waited |-> e.old]
<1>1. /\ m \in EmitRec /\ emitted' = Append(emitted, m)
      /\ jLastId' = e.key[2] /\ e.key[2] > jLastId /\ e.key[1] = jActive
      /\ e.key \in Join!Keys /\ e.key[2] \in Nat \ {0}
      /\ jPending' = jPending \ {e} /\ orphan' = orphan
      /\ \A f \in jPending' : Join!Anchored(f)' =>
           f \in jPending /\ Join!Anchored(f) /\ f.key \in visit'
  BY EmitIs
<1>2. /\ jPc = "poll" /\ jPc' = "poll" /\ visit' = visit \ {e.key} /\ e.key \in visit
      /\ \A k \in visit \ {e.key} : Join!Lower(e.key, k)
      /\ UNCHANGED <<queued, arrived, jActive, jRetired, evicted, entered, dropped,
                     batch, final, start>>
  BY VisitIs DEF Join!PollEmits
<1> HIDE DEF m
<1>3. /\ jPending' \subseteq Join!EntryRec /\ IsFiniteSet(jPending') /\ OneEach(jPending', entered)
      /\ Cardinality(jPending') = Cardinality(jPending) - 1
  BY <1>1, FewerTyped, FewerEntries DEF JoinTypes
<1>4. emitted' \in Seq(EmitRec) /\ Len(emitted') = Len(emitted) + 1
  BY <1>1 DEF JoinTypes
<1>5. JoinTypes'
  BY <1>1, <1>2, <1>3, <1>4 DEF JoinTypes
<1>6. OneEach(jPending, entered)' /\ Finish' /\ ToVisit'
  BY <1>1, <1>2, <1>3 DEF OneEach, Finish, ToVisit
<1>7. CountInv'
  <2>1. /\ orphan \in Int /\ Cardinality(jPending) + Len(emitted) + orphan = Unlost
        /\ Cardinality(jPending) \in Nat /\ Len(emitted) \in Nat
    BY CardInt DEF CountInv, JoinTypes
  <2>2. Cardinality(jPending') + Len(emitted') + orphan = Unlost
    BY <1>3, <1>4, <2>1
  <2>3. Unlost' = Unlost
    BY <1>2 DEF Unlost
  <2> QED
    BY <2>2, <2>3, <1>1 DEF CountInv
<1>8. Join!NothingIsPassedOver'
  <2>1. ASSUME NEW f \in jPending', Join!Anchored(f)' PROVE f.key[2] > e.key[2]
    <3>1. f \in jPending /\ f.key \in visit' /\ f.key[1] = jActive
      BY <2>1, <1>1 DEF Join!Anchored
    <3>2. Join!Lower(e.key, f.key)
      BY <3>1, <1>2
    <3>3. f.key[1] = e.key[1] /\ f.key \in Join!Keys
      BY <3>1, <1>1 DEF JoinTypes, Join!EntryRec
    <3>4. f.key[2] \in Nat /\ f.key[1] \in Nat
      BY <3>3, KeyIs
    <3> QED
      BY <3>2, <3>3, <3>4, <1>1 DEF Join!Lower
  <2> QED
    BY <2>1, <1>1 DEF Join!NothingIsPassedOver
<1> QED
  BY <1>5, <1>6, <1>7, <1>8

\* The steps of Next, one by one.
LEMMA StutterBase == ASSUME BaseInv, UNCHANGED Join!vars PROVE BaseInv'
  BY DEF Join!vars, Join!joiner, BaseInv, JoinTypes, OneEach, ToVisit, Finish, CountInv, Unlost,
         Join!NothingIsPassedOver, Join!Anchored, Join!KindsOf

LEMMA NextBase == ASSUME Join!JoinAssumption, BaseInv, [Join!Next]_(Join!vars) PROVE BaseInv'
<1>1. CASE Join!Network
  BY <1>1, ArriveBase
<1>2. CASE Join!Tick
  BY <1>2, TickBase
<1>3. CASE Join!AddsDone
  BY <1>3, AddsDoneBase
<1>4. CASE Join!PollDone
  BY <1>4, DoneBase
<1>5. CASE \E x \in batch : Join!Add(x)
  BY <1>5, AddBase
<1>6. ASSUME NEW e \in jPending, Join!PollUnanchored(e) \/ Join!PollWaits(e) \/ Join!PollEmits(e)
      PROVE  BaseInv'
  BY <1>6, UnanchoredBase, WaitsBase, EmitsBase
<1>7. CASE UNCHANGED Join!vars
  BY <1>7, StutterBase
<1> QED
  BY <1>1, <1>2, <1>3, <1>4, <1>5, <1>6, <1>7 DEF Join!Next, Join!Gui

-----------------------------------------------------------------------------
(* The order of what is emitted.                                           *)

\* Fewer sessions are retired than there are, the active one among them.
LEMMA RetiredFew ==
  ASSUME Join!JoinAssumption, NEW a \in Sess, NEW gone \in Seq(Sess), a \notin Join!Elements(gone),
         \A i, j \in 1 .. Len(gone) : gone[i] = gone[j] => i = j
  PROVE  Len(gone) < Len(JoinSessions)
<1>1. JoinSessions \in Seq(Nat \ {0}) /\ DOMAIN JoinSessions = 1 .. Len(JoinSessions)
  BY JoinSizes, LenProperties
<1>2. IsFiniteSet(Sess) /\ Cardinality(Sess) = Len(JoinSessions)
  <2>1. \A i, j \in 1 .. Len(JoinSessions) : JoinSessions[i] = JoinSessions[j] => i = j
    BY <1>1 DEF Join!JoinAssumption
  <2>2. IsFiniteSet(Elements(JoinSessions)) /\ Cardinality(Elements(JoinSessions)) = Len(JoinSessions)
    BY <1>1, <2>1, ManyElements
  <2> QED
    BY <2>2 DEF Sess, Elements, Join!Elements
<1> DEFINE E == Join!Elements(gone)
<1>3. IsFiniteSet(E) /\ Cardinality(E) = Len(gone)
  <2>1. IsFiniteSet(Elements(gone)) /\ Cardinality(Elements(gone)) = Len(gone)
    BY ManyElements
  <2> QED
    BY <2>1 DEF Elements, Join!Elements
<1>4. E \cup {a} \in SUBSET Sess /\ a \notin E
  BY JoinElements
<1> HIDE DEF E
<1>5. Cardinality(E \cup {a}) = Len(gone) + 1
  BY <1>3, <1>4, FS_AddElement
<1>6. Cardinality(E \cup {a}) <= Cardinality(Sess)
  BY <1>2, <1>4, FS_Subset
<1>7. Len(gone) \in Nat /\ Len(JoinSessions) \in Nat
  BY <1>1
<1> QED
  BY <1>2, <1>5, <1>6, <1>7

\* Another session begins.
LEMMA TurnOrder ==
  ASSUME Join!JoinAssumption, Join!Remembered, NEW a \in Sess \cup {0}, NEW last,
         NEW gone \in Seq(Sess), NEW out \in Seq(EmitRec), OrderOf(a, last, gone, out),
         NEW s \in Sess, s # a, s \notin Join!Elements(gone)
  PROVE  OrderOf(s, 0, IF a = 0 THEN gone ELSE Join!Last(Append(gone, a), JoinRetiredMax), out)
<1> USE DEF OrderOf
<1>0. s # 0
  BY SessIs
<1>1. CASE a = 0
  BY <1>0, <1>1
<1>2. CASE a # 0
  <2> DEFINE g == Append(gone, a)
  <2>1. Len(gone) < JoinRetiredMax
    <3>1. Len(gone) < Len(JoinSessions)
      BY <1>2, RetiredFew
    <3>2. Len(gone) \in Nat /\ Len(JoinSessions) \in Nat /\ JoinRetiredMax \in Nat \ {0}
      BY JoinSizes, LenProperties
    <3> QED
      BY <3>1, <3>2 DEF Join!Remembered
  <2>2. Join!Last(g, JoinRetiredMax) = g
    <3>1. Len(g) = Len(gone) + 1 /\ Len(gone) \in Nat /\ JoinRetiredMax \in Nat
      BY <1>2, JoinSizes
    <3>2. Len(g) <= JoinRetiredMax
      BY <3>1, <2>1
    <3> QED
      BY <3>2 DEF Join!Last
  <2>3. Join!Elements(g) = Join!Elements(gone) \cup {a}
    BY <1>2, JoinElements
  <2>4. \A i, j \in 1 .. Len(g) : g[i] = g[j] => i = j
    <3>1. /\ Len(g) = Len(gone) + 1 /\ Len(gone) \in Nat /\ g[Len(gone) + 1] = a
          /\ \A i \in 1 .. Len(gone) : g[i] = gone[i] /\ gone[i] # a
      BY <1>2, JoinElements
    <3> HIDE DEF g
    <3>2. ASSUME NEW i \in 1 .. Len(g), NEW j \in 1 .. Len(g), g[i] = g[j] PROVE i = j
      <4>1. (i \in 1 .. Len(gone) \/ i = Len(gone) + 1) /\ (j \in 1 .. Len(gone) \/ j = Len(gone) + 1)
        BY <3>1
      <4> QED
        BY <4>1, <3>1, <3>2
    <3> QED
      BY <3>2
  <2> HIDE DEF g
  <2>5. OrderOf(s, 0, g, out)
    BY <1>0, <1>2, <2>3, <2>4
  <2> QED
    BY <2>2, <2>5, <1>2 DEF g
<1> QED
  BY <1>1, <1>2

\* The next frame of the active session is emitted.
LEMMA EmitOrder ==
  ASSUME NEW a \in Nat \ {0}, NEW last \in Nat, NEW gone, NEW out \in Seq(EmitRec),
         OrderOf(a, last, gone, out), NEW m \in EmitRec, m.key[1] = a, m.key[2] \in Nat,
         m.key[2] > last, \A i \in 1 .. Len(out) : out[i].key[2] \in Nat
  PROVE  OrderOf(a, m.key[2], gone, Append(out, m))
<1> DEFINE o == Append(out, m)
           n == Len(out)
<1>1. /\ n \in Nat /\ Len(o) = n + 1 /\ o[n + 1] = m
      /\ \A i \in 1 .. n : o[i] = out[i]
  OBVIOUS
<1>2. \A i \in 1 .. Len(o) : i \in 1 .. n \/ i = n + 1
  BY <1>1
<1> HIDE DEF o, n
<1>3. /\ a \notin Join!Elements(gone)
      /\ \A i, j \in 1 .. Len(gone) : gone[i] = gone[j] => i = j
      /\ \A i \in 1 .. n : \/ out[i].key[1] \in Join!Elements(gone)
                           \/ out[i].key[1] = a /\ out[i].key[2] <= last
      /\ \A i, j \in 1 .. n : i < j =>
           IF out[i].key[1] = out[j].key[1] THEN out[i].key[2] < out[j].key[2]
           ELSE /\ out[i].key[1] \in Join!Elements(gone)
                /\ \A k \in j .. n : out[k].key[1] # out[i].key[1]
      /\ \A i \in 1 .. n : out[i].key[2] \in Nat
  BY DEF OrderOf, n
<1>4. \A i \in 1 .. Len(o) : \/ o[i].key[1] \in Join!Elements(gone)
                             \/ o[i].key[1] = a /\ o[i].key[2] <= m.key[2]
  BY <1>1, <1>2, <1>3
<1>5. ASSUME NEW i \in 1 .. Len(o), NEW j \in 1 .. Len(o), i < j
      PROVE  IF o[i].key[1] = o[j].key[1] THEN o[i].key[2] < o[j].key[2]
             ELSE /\ o[i].key[1] \in Join!Elements(gone)
                  /\ \A k \in j .. Len(o) : o[k].key[1] # o[i].key[1]
  <2>1. i \in 1 .. n
    BY <1>1, <1>2, <1>5
  <2>2. CASE j \in 1 .. n
    <3>1. /\ o[i] = out[i] /\ o[j] = out[j]
          /\ \A k \in j .. Len(o) : (k \in 1 .. n /\ o[k] = out[k]) \/ o[k] = m
      BY <2>1, <2>2, <1>1, <1>2
    <3>2. CASE out[i].key[1] = out[j].key[1]
      BY <3>1, <3>2, <2>1, <2>2, <1>3, <1>5
    <3>3. CASE out[i].key[1] # out[j].key[1]
      <4>1. /\ out[i].key[1] \in Join!Elements(gone) /\ out[i].key[1] # m.key[1]
            /\ \A k \in j .. n : out[k].key[1] # out[i].key[1]
        BY <3>3, <2>1, <2>2, <1>3, <1>5
      <4>2. \A k \in j .. Len(o) : (k \in j .. n /\ o[k] = out[k]) \/ o[k] = m
        BY <3>1
      <4> QED
        BY <3>1, <3>3, <4>1, <4>2
    <3> QED
      BY <3>2, <3>3
  <2>3. CASE j = n + 1
    <3>1. o[j] = m /\ o[i] = out[i]
      BY <2>1, <2>3, <1>1
    <3>2. CASE out[i].key[1] \in Join!Elements(gone)
      <4>1. \A k \in j .. Len(o) : o[k] = m
        BY <2>3, <1>1
      <4> QED
        BY <3>1, <3>2, <4>1, <1>3
    <3>3. CASE out[i].key[1] = a /\ out[i].key[2] <= last
      BY <3>1, <3>3, <2>1, <1>3
    <3> QED
      BY <3>2, <3>3, <2>1, <1>3
  <2> QED
    BY <2>2, <2>3, <1>2
<1>6. a # 0
  OBVIOUS
<1>7. OrderOf(a, m.key[2], gone, o)
  BY <1>3, <1>4, <1>5, <1>6 DEF OrderOf
<1> QED
  BY <1>7 DEF o

\* What the invariant says of the order is what is promised.
LEMMA OrderMeans ==
  ASSUME JoinTypes, OrderOf(jActive, jLastId, jRetired, emitted)
  PROVE  EmittedInOrder
<1>1. DOMAIN emitted = 1 .. Len(emitted) /\ Len(emitted) \in Nat
  BY LenProperties DEF JoinTypes
<1>2. \A i, j \in 1 .. Len(emitted) : i < j =>
        IF emitted[i].key[1] = emitted[j].key[1] THEN emitted[i].key[2] < emitted[j].key[2]
        ELSE \A k \in j .. Len(emitted) : emitted[k].key[1] # emitted[i].key[1]
  BY DEF OrderOf
<1> QED
  BY <1>1, <1>2 DEF EmittedInOrder, Join!EmittedInOrder

LEMMA OrderInit == ASSUME Join!Init PROVE OrderInv
  BY DEF Join!Init, OrderInv, OrderOf, Join!Elements

LEMMA AddOrder ==
  ASSUME Join!JoinAssumption, Join!Remembered, BaseInv, OrderInv, NEW x \in batch, Join!Add(x)
  PROVE  OrderInv'
<1> USE DEF BaseInv
<1>1. emitted' = emitted
  BY DEF Join!Add
<1>2. CASE x.key[1] \in Join!Elements(jRetired)
  <2>1. jActive' = jActive /\ jLastId' = jLastId /\ jRetired' = jRetired
    BY <1>2 DEF Join!Add
  <2> QED
    BY <1>1, <2>1 DEF OrderInv
<1>3. CASE x.key[1] \notin Join!Elements(jRetired)
  <2> DEFINE t == Join!Turn(x)
  <2>1. jActive' = t.active /\ jLastId' = t.last /\ jRetired' = t.retired
    BY <1>3 DEF Join!Add
  <2>2. x \in Join!FrameRec
    BY DEF JoinTypes
  <2>3. OrderOf(t.active, t.last, t.retired, emitted)
    <3>1. CASE t.active = jActive /\ t.last = jLastId /\ t.retired = jRetired
      BY <3>1 DEF OrderInv
    <3>2. CASE /\ x.key[1] # jActive /\ t.active = x.key[1] /\ t.active \in Sess /\ t.last = 0
               /\ t.retired = IF jActive = 0 THEN jRetired
                              ELSE Join!Last(Append(jRetired, jActive), JoinRetiredMax)
      <4>1. /\ jActive \in Sess \cup {0} /\ jRetired \in Seq(Sess) /\ emitted \in Seq(EmitRec)
            /\ OrderOf(jActive, jLastId, jRetired, emitted)
        BY DEF JoinTypes, OrderInv
      <4>2. OrderOf(x.key[1], 0, IF jActive = 0 THEN jRetired
                                 ELSE Join!Last(Append(jRetired, jActive), JoinRetiredMax), emitted)
        BY <4>1, <3>2, <1>3, TurnOrder
      <4> QED
        BY <4>2, <3>2
    <3> QED
      BY <3>1, <3>2, <2>2, TurnIs
  <2> QED
    BY <2>1, <2>3, <1>1 DEF OrderInv
<1> QED
  BY <1>2, <1>3

LEMMA EmitsOrder ==
  ASSUME Join!JoinAssumption, BaseInv, OrderInv, NEW e \in jPending, Join!PollEmits(e)
  PROVE  OrderInv'
<1> DEFINE m == [key |-> e.key, kinds |-> Join!Matched(e), waited |-> e.old]
<1>1. /\ m \in EmitRec /\ emitted' = Append(emitted, m)
      /\ jLastId' = e.key[2] /\ e.key[2] > jLastId /\ e.key[1] = jActive
      /\ e.key \in Join!Keys /\ e.key[2] \in Nat \ {0}
  BY EmitIs
<1>2. jActive' = jActive /\ jRetired' = jRetired
  BY VisitIs DEF Join!PollEmits
<1>3. jActive \in Nat \ {0}
  BY <1>1, KeyIs
<1>4. jLastId \in Nat /\ emitted \in Seq(EmitRec) /\ \A i \in 1 .. Len(emitted) : emitted[i].key[2] \in Nat
  <2>1. emitted \in Seq(EmitRec) /\ jLastId \in Nat
    BY DEF BaseInv, JoinTypes
  <2>2. \A i \in 1 .. Len(emitted) : emitted[i].key \in Join!Keys
    <3>1. \A i \in 1 .. Len(emitted) : emitted[i] \in EmitRec
      BY <2>1
    <3> QED
      BY <3>1 DEF EmitRec
  <2> QED
    BY <2>1, <2>2, KeyIs
<1>5. m.key = e.key
  OBVIOUS
<1> HIDE DEF m
<1>6. OrderOf(jActive, m.key[2], jRetired, Append(emitted, m))
  BY <1>1, <1>3, <1>4, <1>5, EmitOrder DEF OrderInv
<1> QED
  BY <1>1, <1>2, <1>5, <1>6 DEF OrderInv

LEMMA NextOrder ==
  ASSUME Join!JoinAssumption, Join!Remembered, BaseInv, OrderInv, [Join!Next]_(Join!vars)
  PROVE  OrderInv'
<1>1. CASE \E x \in batch : Join!Add(x)
  BY <1>1, AddOrder
<1>2. CASE \E e \in jPending : Join!PollEmits(e)
  BY <1>2, EmitsOrder
<1>3. CASE UNCHANGED <<jActive, jLastId, jRetired, emitted>>
  BY <1>3 DEF OrderInv
<1>4. CASE \/ Join!Network \/ Join!Tick \/ Join!AddsDone \/ Join!PollDone \/ UNCHANGED Join!vars
           \/ \E e \in jPending : Join!PollUnanchored(e) \/ Join!PollWaits(e)
  <2>1. UNCHANGED <<jActive, jLastId, jRetired, emitted>>
    BY <1>4 DEF Join!Network, Join!Arrive, Join!Tick, Join!AddsDone, Join!PollDone, Join!vars,
                Join!joiner, Join!PollUnanchored, Join!PollWaits, Join!Visit
  <2> QED
    BY <1>3, <2>1
<1> QED
  BY <1>1, <1>2, <1>4 DEF Join!Next, Join!Gui

\* The joiner emits in order, in every state of every behaviour in which the
\* retired sessions are remembered.
THEOREM EmittedInOrderAlways ==
  ASSUME Join!JoinAssumption, Join!Remembered PROVE Join!Spec => []EmittedInOrder
<1>1. Join!Init => BaseInv /\ OrderInv
  BY JoinInit, OrderInit
<1>2. BaseInv /\ OrderInv /\ [Join!Next]_(Join!vars) => (BaseInv /\ OrderInv)'
  BY NextBase, NextOrder
<1>3. BaseInv /\ OrderInv => EmittedInOrder
  BY OrderMeans DEF BaseInv, OrderInv
<1> QED
  BY <1>1, <1>2, <1>3, PTL DEF Join!Spec

-----------------------------------------------------------------------------
(* The even batch.                                                         *)

LEMMA EvenMeans ==
  Join!EvenBatchIsJoined <=>
    (jPc = "idle" /\ Prompt =>
       \A k \in start.keys : Wanted(k) => [key |-> k, kinds |-> Kinds, waited |-> FALSE] \in Out)
  BY DEF Join!EvenBatchIsJoined, Prompt, Out, Wanted

LEMMA BeforeIs ==
  ASSUME Join!JoinAssumption, NEW k \in Join!Keys, NEW l \in Join!Keys, k[1] = l[1],
         NEW t \in Kinds, NEW u \in Kinds
  PROVE  Join!Before(Fr(t, k), Fr(u, l)) <=> k[2] < l[2] \/ (k = l /\ t < u)
<1>1. /\ Join!Stamp(k) \in Nat /\ Join!Stamp(l) \in Nat
      /\ Join!Stamp(k) < Join!Stamp(l) <=> k[2] < l[2]
      /\ Join!Stamp(l) < Join!Stamp(k) <=> l[2] < k[2]
  BY StampIs
<1>2. /\ k = <<k[1], k[2]>> /\ l = <<l[1], l[2]>> /\ k[2] \in Nat /\ l[2] \in Nat /\ k[1] \in Nat
  BY KeyIs
<1>3. /\ Fr(t, k).kind = t /\ Fr(t, k).key = k /\ Fr(t, k).stamp = Join!Stamp(k)
      /\ Fr(u, l).kind = u /\ Fr(u, l).key = l /\ Fr(u, l).stamp = Join!Stamp(l)
  BY DEF Fr
<1>4. k[2] = l[2] => k = l
  BY <1>2
<1> QED
  BY <1>1, <1>2, <1>3, <1>4 DEF Join!Before

\* What comes after a frame of the batch is in it.
LEMMA LaterIs ==
  ASSUME Join!JoinAssumption, start \in StartRec, EvenBatch, NEW k \in start.keys,
         NEW l \in start.keys, NEW t \in Kinds, NEW u \in Kinds, Fr(t, k) \in batch,
         k[2] < l[2] \/ (k = l /\ t < u)
  PROVE  Fr(u, l) \in batch
<1>1. k \in Join!Keys /\ l \in Join!Keys /\ k[1] = l[1]
  BY DEF StartRec, EvenBatch
<1>2. Join!Before(Fr(t, k), Fr(u, l))
  BY <1>1, BeforeIs
<1>3. Fr(u, l) \in EvenSet
  BY DEF EvenSet
<1> QED
  BY <1>2, <1>3 DEF EvenBatch

\* A step that leaves the frames where they are.
LEMMA EvenKept ==
  ASSUME EvenInv, jPc # "idle", jPc' # "idle",
         UNCHANGED <<batch, start, emitted, jActive, jLastId, jRetired>>,
         Join!KeysOf(jPending)' = Join!KeysOf(jPending),
         \A f \in jPending' : \E e \in jPending : f.key = e.key /\ f.streams = e.streams,
         \A e \in jPending : start.keys # {} /\ EvenBatch /\ EvenParts /\ Added(e.key)
                               => jPc' = "poll" /\ e.key \in visit'
  PROVE  EvenInv'
<1>1. /\ Out' = Out /\ (Prompt <=> Prompt') /\ (EvenBatch <=> EvenBatch')
      /\ \A k : (Wanted(k) <=> Wanted(k)') /\ (Added(k) <=> Added(k)')
  BY DEF Out, Prompt, EvenBatch, EvenSet, Fr, Wanted, Added
<1>2. EvenActive => EvenActive'
  BY DEF EvenActive, EvenSet, Fr, Join!KeysOf
<1>3. ASSUME start.keys # {}, EvenBatch, EvenParts PROVE EvenParts'
  <2>1. ASSUME NEW f \in jPending' PROVE EvenEntry(f)'
    <3>1. PICK e \in jPending : f.key = e.key /\ f.streams = e.streams
      OBVIOUS
    <3>2. EvenEntry(e)
      BY <1>3 DEF EvenParts
    <3>3. Added(e.key) => jPc' = "poll" /\ e.key \in visit'
      BY <1>3
    <3> QED
      BY <3>1, <3>2, <3>3, <1>1 DEF EvenEntry, Fr
  <2>2. ASSUME NEW k \in start.keys, Wanted(k), EvenKey(k) PROVE EvenKey(k)'
    BY <2>2, <1>1 DEF EvenKey, Fr
  <2> QED
    BY <2>1, <2>2, <1>1, <1>3 DEF EvenParts
<1> QED
  BY <1>1, <1>2, <1>3 DEF EvenInv

LEMMA EvenInit == ASSUME Join!Init PROVE EvenInv
  BY DEF Join!Init, EvenInv, Join!NoStart, Join!EvenBatchIsJoined

LEMMA ArriveEven == ASSUME BaseInv, EvenInv, Join!Network PROVE EvenInv'
<1>1. jPc' = "idle" /\ start' = Join!NoStart /\ emitted' = emitted
  BY DEF Join!Network, Join!Arrive
<1>2. Len(emitted') \in Nat
  BY <1>1 DEF BaseInv, JoinTypes
<1> QED
  BY <1>1, <1>2, EvenMeans DEF EvenInv, Join!NoStart, Join!EvenBatchIsJoined

LEMMA StutterEven == ASSUME EvenInv, UNCHANGED Join!vars PROVE EvenInv'
<1>1. UNCHANGED <<jPc, visit, batch, start, emitted, jActive, jLastId, jRetired, jPending>>
  BY DEF Join!vars, Join!joiner
<1>2. CASE jPc = "idle"
  BY <1>1, <1>2 DEF EvenInv, Join!EvenBatchIsJoined
<1>3. CASE jPc # "idle"
  <2>1. \A e \in jPending : EvenParts /\ Added(e.key) => jPc' = "poll" /\ e.key \in visit'
    BY <1>1 DEF EvenParts, EvenEntry
  <2>2. Join!KeysOf(jPending)' = Join!KeysOf(jPending)
    BY <1>1 DEF Join!KeysOf
  <2> QED
    BY <1>1, <1>3, <2>1, <2>2, EvenKept
<1> QED
  BY <1>2, <1>3

LEMMA AddsDoneEven ==
  ASSUME Join!JoinAssumption, BaseInv, EvenInv, Join!AddsDone PROVE EvenInv'
<1>1. /\ jPending' \in Join!Aged(jPending) /\ visit' = Join!KeysOf(jPending) /\ jPc' = "poll"
      /\ jPc = "add" /\ UNCHANGED <<batch, start, emitted, jActive, jLastId, jRetired>>
  BY DEF Join!AddsDone, Join!StartPoll
<1>2. /\ \A f \in jPending' : \E e \in jPending : f.key = e.key /\ f.streams = e.streams
      /\ Join!KeysOf(jPending') = Join!KeysOf(jPending)
  BY <1>1, AgedIs DEF BaseInv, JoinTypes
<1>3. Join!KeysOf(jPending)' = Join!KeysOf(jPending)
  BY <1>2 DEF Join!KeysOf
<1> QED
  BY <1>1, <1>2, <1>3, EvenKept DEF Join!KeysOf

LEMMA DoneEven == ASSUME Join!JoinAssumption, BaseInv, EvenInv, Join!PollDone PROVE EvenInv'
<1>1. /\ jPc = "poll" /\ visit = {} /\ jPc' = (IF final THEN "idle" ELSE "add")
      /\ UNCHANGED <<batch, start, emitted, jActive, jLastId, jRetired, jPending>>
  BY DEF Join!PollDone, Join!joiner
<1>2. \A e \in jPending : EvenParts => ~Added(e.key)
  BY <1>1 DEF EvenParts, EvenEntry
<1>3. CASE ~final
  <2>1. Join!KeysOf(jPending)' = Join!KeysOf(jPending)
    BY <1>1 DEF Join!KeysOf
  <2> QED
    BY <1>1, <1>2, <1>3, <2>1, EvenKept
<1>4. CASE final
  <2>1. batch = {} /\ jPc' = "idle"
    BY <1>1, <1>4 DEF BaseInv, Finish
  <2>2. (Prompt <=> Prompt') /\ Out' = Out /\ \A k : Wanted(k) <=> Wanted(k)'
    BY <1>1 DEF Prompt, Out, Wanted
  <2>3. ASSUME Prompt, NEW k \in start.keys, Wanted(k)
        PROVE  [key |-> k, kinds |-> Kinds, waited |-> FALSE] \in Out
    <3>1. EvenParts
      BY <2>3, <1>1 DEF EvenInv
    <3>2. EvenKey(k) /\ S12 \in Kinds
      BY <2>3, <3>1, JoinSizes DEF EvenParts
    <3>3. Added(k)
      BY <2>1 DEF Added
    <3>4. k \notin Join!KeysOf(jPending)
      BY <1>2, <3>1, <3>3, KeysAre
    <3> QED
      BY <3>2, <3>4, <2>1 DEF EvenKey
  <2>4. Join!EvenBatchIsJoined'
    BY <2>2, <2>3, <1>1 DEF Join!EvenBatchIsJoined, Prompt, Out, Wanted
  <2> QED
    BY <2>1, <2>4, <1>1 DEF EvenInv
<1> QED
  BY <1>3, <1>4

\* The kinds of an entry whose streams have one stamp, and those that match its anchor.
LEMMA KindsIs ==
  ASSUME NEW e, NEW T, NEW s, e.streams = {[kind |-> t, stamp |-> s] : t \in T}
  PROVE  Join!KindsOf(e) = T /\ (S12 \in T => Join!Matched(e) = T)
<1>1. \A y \in e.streams : y.kind \in T /\ y.stamp = s
  OBVIOUS
<1>2. \A t \in T : \E y \in e.streams : y.kind = t
  <2> SUFFICES ASSUME NEW t \in T PROVE \E y \in e.streams : y.kind = t
    OBVIOUS
  <2>1. [kind |-> t, stamp |-> s] \in e.streams
    OBVIOUS
  <2> QED
    BY <2>1
<1>3. Join!KindsOf(e) = T
  BY <1>1, <1>2 DEF Join!KindsOf
<1>4. ASSUME S12 \in T PROVE Join!Matched(e) = T
  <2>1. PICK a \in e.streams : a.kind = S12 /\ a.stamp = s
    BY <1>1, <1>2, <1>4
  <2>2. {z \in e.streams : \E b \in e.streams : b.kind = S12 /\ z.stamp = b.stamp} = e.streams
    BY <1>1, <2>1
  <2>3. Join!Matched(e) = {y.kind : y \in e.streams}
    BY <2>2 DEF Join!Matched
  <2> QED
    BY <2>3, <1>3 DEF Join!KindsOf
<1> QED
  BY <1>3, <1>4

\* Of an even batch that is prompt every entry has its anchor.
LEMMA EvenAnchored ==
  ASSUME Join!JoinAssumption, EvenBatch, EvenActive, NEW e \in jPending, EvenEntry(e)
  PROVE  /\ Join!Anchored(e) /\ e.key[1] = jActive
         /\ Join!KindsOf(e) = {t \in Kinds : Fr(t, e.key) \notin batch}
<1>1. e.key[1] = jActive
  BY DEF EvenActive, EvenEntry
<1>2. Join!KindsOf(e) = {t \in Kinds : Fr(t, e.key) \notin batch}
  <2> DEFINE T == {u \in Kinds : Fr(u, e.key) \notin batch}
  <2>1. e.streams = {[kind |-> t, stamp |-> Join!Stamp(e.key)] : t \in T}
    BY DEF EvenEntry
  <2> HIDE DEF T
  <2>2. Join!KindsOf(e) = T
    BY <2>1, KindsIs
  <2> QED
    BY <2>2 DEF T
<1>3. S12 \in Join!KindsOf(e)
  BY <1>2, JoinSizes DEF EvenEntry
<1> QED
  BY <1>1, <1>2, <1>3 DEF Join!Anchored

LEMMA UnanchoredEven ==
  ASSUME Join!JoinAssumption, BaseInv, EvenInv, NEW e \in jPending, Join!PollUnanchored(e)
  PROVE  EvenInv'
<1>1. /\ jPc = "poll" /\ jPc' = "poll"
      /\ UNCHANGED <<batch, start, emitted, jActive, jLastId, jRetired>>
      /\ ~Join!Anchored(e) /\ jPending' \in SUBSET jPending
  BY VisitIs DEF Join!PollUnanchored
<1>2. ASSUME start.keys # {} PROVE ~Prompt
  BY <1>1, <1>2, EvenAnchored DEF EvenInv, EvenParts
<1>3. /\ (Prompt <=> Prompt') /\ (EvenBatch <=> EvenBatch')
  BY <1>1 DEF Out, Prompt, EvenBatch, EvenSet, Fr
<1>4. EvenActive => EvenActive'
  BY <1>1 DEF EvenActive, EvenSet, Fr
<1> QED
  BY <1>1, <1>2, <1>3, <1>4 DEF EvenInv

\* No entry that has all waits behind one that has not.
LEMMA WaitsEven ==
  ASSUME Join!JoinAssumption, BaseInv, EvenInv, NEW e \in jPending, Join!PollWaits(e)
  PROVE  EvenInv'
<1>1. /\ jPc = "poll" /\ jPc' = "poll" /\ visit' = {}
      /\ UNCHANGED <<batch, start, emitted, jActive, jLastId, jRetired, jPending>>
      /\ Join!Anchored(e) /\ Join!MustWait(e)
      /\ \A k \in visit \ {e.key} : Join!Lower(e.key, k)
  BY DEF Join!PollWaits, Join!IsNext, Join!joiner
<1>2. ASSUME start.keys # {}, EvenBatch, EvenParts, NEW f \in jPending, Added(f.key) PROVE FALSE
  <2>1. EvenEntry(e) /\ EvenEntry(f) /\ EvenActive
    BY <1>1, <1>2 DEF EvenParts, EvenInv
  <2>2. e.key[1] = jActive /\ f.key[1] = jActive
    BY <1>2, <2>1, EvenAnchored
  <2>3. PICK t \in Kinds : Fr(t, e.key) \in batch
    BY <1>1, <1>2, <2>1, EvenAnchored DEF Join!MustWait
  <2>4. f.key \in visit /\ f.key # e.key
    BY <1>2, <2>1, <2>3 DEF EvenEntry, Added
  <2>5. e.key \in Join!Keys /\ f.key \in Join!Keys
    BY DEF BaseInv, JoinTypes, Join!EntryRec
  <2>6. e.key[2] < f.key[2]
    <3>1. Join!Lower(e.key, f.key)
      BY <1>1, <2>4
    <3>2. e.key[1] \in Nat /\ e.key[1] = f.key[1]
      BY <2>2, <2>5, KeyIs
    <3> QED
      BY <3>1, <3>2 DEF Join!Lower
  <2>7. Fr(t, f.key) \in batch
    <3>1. start \in StartRec /\ e.key \in start.keys /\ f.key \in start.keys
      BY <2>1 DEF EvenEntry, BaseInv, JoinTypes
    <3> QED
      BY <3>1, <2>3, <2>6, <1>2, LaterIs
  <2> QED
    BY <2>7, <1>2 DEF Added
<1>3. Join!KeysOf(jPending)' = Join!KeysOf(jPending)
  BY <1>1 DEF Join!KeysOf
<1>4. jPc # "idle" /\ jPc' # "idle"
  BY <1>1
<1>5. \A d \in jPending : \E c \in jPending : d.key = c.key /\ d.streams = c.streams
  OBVIOUS
<1> QED
  BY <1>1, <1>2, <1>3, <1>4, <1>5, EvenKept

\* The entry that is emitted has all, or was waited for.
LEMMA EmitsEven ==
  ASSUME Join!JoinAssumption, BaseInv, EvenInv, NEW e \in jPending, Join!PollEmits(e)
  PROVE  EvenInv'
<1> DEFINE m == [key |-> e.key, kinds |-> Join!Matched(e), waited |-> e.old]
<1>1. /\ m \in EmitRec /\ emitted' = Append(emitted, m)
      /\ jLastId' = e.key[2] /\ e.key[2] > jLastId /\ e.key[1] = jActive
      /\ e.key \in Join!Keys /\ e.key[2] \in Nat \ {0}
      /\ jPending' = jPending \ {e}
  BY EmitIs
<1>2. /\ jPc = "poll" /\ jPc' = "poll" /\ visit' = visit \ {e.key}
      /\ UNCHANGED <<batch, start, jActive, jRetired>>
      /\ Join!Anchored(e) /\ ~Join!MustWait(e)
  BY VisitIs DEF Join!PollEmits
<1>3. m.key = e.key /\ m.kinds = Join!Matched(e) /\ m.waited = e.old /\ e.old \in BOOLEAN
  BY DEF BaseInv, JoinTypes, Join!EntryRec
<1> HIDE DEF m
<1>4. Len(emitted) \in Nat /\ Len(emitted') = Len(emitted) + 1 /\ start \in StartRec
      /\ start.emitted \in Nat /\ jLastId \in Nat
  BY <1>1 DEF BaseInv, JoinTypes, StartRec
<1>5. start.emitted <= Len(emitted) => Out' = Out \cup {m}
  <2>1. /\ emitted'[Len(emitted) + 1] = m
        /\ \A i \in 1 .. Len(emitted) : emitted'[i] = emitted[i]
    BY <1>1 DEF BaseInv, JoinTypes
  <2>2. start.emitted <= Len(emitted) =>
          /\ start'.emitted + 1 .. Len(emitted') = (start.emitted + 1 .. Len(emitted)) \cup {Len(emitted) + 1}
          /\ start.emitted + 1 .. Len(emitted) \subseteq 1 .. Len(emitted)
    BY <1>2, <1>4
  <2> QED
    BY <2>1, <2>2 DEF Out
<1>6. /\ (EvenBatch <=> EvenBatch')
      /\ \A k : (Wanted(k) <=> Wanted(k)') /\ (Added(k) <=> Added(k)')
  BY <1>2 DEF EvenBatch, EvenSet, Fr, Wanted, Added
<1>7. start'.emitted <= Len(emitted')
  BY <1>2, <1>4 DEF EvenInv
<1>8. ASSUME start.keys # {} PROVE EvenBatch' /\ EvenActive'
  <2>1. EvenBatch /\ EvenActive
    BY <1>2, <1>8 DEF EvenInv
  <2>2. \A k \in start.keys : jActive = k[1] /\ (k[1] = start.active => jLastId >= start.last)
    BY <2>1 DEF EvenActive
  <2>3. start.last \in Nat
    BY <1>4 DEF StartRec
  <2>4. jLastId >= start.last => jLastId' >= start'.last
    BY <1>1, <1>2, <1>4, <2>3
  <2> QED
    BY <2>1, <2>2, <2>4, <1>2, <1>6 DEF EvenActive
<1>9. ASSUME start.keys # {}, Prompt' PROVE EvenParts'
  <2>1. Out' = Out \cup {m} /\ Prompt /\ ~e.old
    BY <1>3, <1>5, <1>9 DEF EvenInv, Prompt
  <2>2. EvenBatch /\ EvenActive /\ EvenParts
    BY <1>2, <1>9, <2>1 DEF EvenInv
  <2>3. EvenEntry(e)
    BY <2>2 DEF EvenParts
  <2>4. Added(e.key) /\ Join!KindsOf(e) = Kinds
    <3>1. Join!KindsOf(e) = {t \in Kinds : Fr(t, e.key) \notin batch}
      BY <2>2, <2>3, EvenAnchored
    <3>2. Kinds \subseteq Join!KindsOf(e)
      BY <1>2, <2>1 DEF Join!MustWait
    <3> QED
      BY <3>1, <3>2 DEF Added
  <2>5. m = [key |-> e.key, kinds |-> Kinds, waited |-> FALSE]
    <3>1. e.streams = {[kind |-> t, stamp |-> Join!Stamp(e.key)] : t \in Kinds}
      BY <2>3, <2>4 DEF EvenEntry, Added
    <3>2. Join!Matched(e) = Kinds
      BY <3>1, JoinSizes, KindsIs
    <3>3. e.old = FALSE
      BY <1>3, <2>1
    <3> QED
      BY <3>2, <3>3 DEF m
  <2>6. ASSUME NEW f \in jPending' PROVE EvenEntry(f)'
    <3>1. f \in jPending /\ f # e /\ EvenEntry(f)
      BY <1>1, <2>2 DEF EvenParts
    <3>2. f.key # e.key
      BY <3>1 DEF BaseInv, OneEach
    <3> QED
      BY <3>1, <3>2, <1>2, <1>6 DEF EvenEntry, Fr
  <2>7. ASSUME NEW k \in start.keys, Wanted(k) PROVE EvenKey(k)'
    <3>1. EvenKey(k) /\ k \in Join!Keys
      BY <2>2, <2>7, <1>4 DEF EvenParts, StartRec
    <3>2. k \in Join!KeysOf(jPending) => k \in Join!KeysOf(jPending') \/ k = e.key
      BY <1>1 DEF Join!KeysOf
    <3>3. \/ \A t \in Kinds : Fr(t, k) \in batch
          \/ k \in Join!KeysOf(jPending')
          \/ Added(k) /\ [key |-> k, kinds |-> Kinds, waited |-> FALSE] \in Out'
      BY <3>1, <3>2, <2>1, <2>4, <2>5 DEF EvenKey
    <3>4. jLastId' < k[2] \/ Added(k)
      <4> SUFFICES ASSUME ~Added(k) PROVE jLastId' < k[2]
        OBVIOUS
      <4>1. PICK t \in Kinds : Fr(t, k) \in batch
        BY DEF Added
      <4>2. k[1] = e.key[1] /\ k # e.key /\ e.key \in start.keys
        BY <2>2, <2>3, <2>4 DEF EvenBatch, EvenEntry
      <4>3. k = <<k[1], k[2]>> /\ e.key = <<e.key[1], e.key[2]>> /\ k[2] \in Nat
        BY <3>1, <1>1, KeyIs
      <4>4. ~(k[2] < e.key[2])
        <5>1. k[2] < e.key[2] => Fr(t, e.key) \in batch
          BY <1>4, <2>2, <4>1, <4>2, LaterIs
        <5> QED
          BY <5>1, <2>4 DEF Added
      <4>5. k[2] # e.key[2]
        BY <4>2, <4>3
      <4> QED
        BY <1>1, <4>3, <4>4, <4>5
    <3> QED
      BY <3>3, <3>4, <1>2, <1>6 DEF EvenKey, Fr, Join!KeysOf
  <2> QED
    BY <2>6, <2>7, <1>2, <1>6 DEF EvenParts
<1> QED
  BY <1>2, <1>7, <1>8, <1>9 DEF EvenInv

LEMMA TickEven == ASSUME Join!JoinAssumption, BaseInv, EvenInv, Join!Tick PROVE EvenInv'
<1>1. /\ jPc' = "add" /\ batch' = queued
      /\ UNCHANGED <<jActive, jLastId, jRetired, jPending, emitted>>
  BY DEF Join!Tick, Join!joiner
<1>2. Len(emitted) \in Nat /\ jLastId \in Nat
  BY DEF BaseInv, JoinTypes
<1>3. CASE Join!Even(queued) /\ jPending = {}
  <2>1. /\ start'.keys = {x.key : x \in queued} /\ start'.emitted = Len(emitted)
        /\ start'.last = jLastId /\ start'.active = jActive
    BY <1>3 DEF Join!Tick
  <2>2. EvenSet' = queued
    BY <1>3, <2>1 DEF EvenSet, Fr, Join!Even
  <2>3. \A x, y \in queued : x.key[1] = y.key[1] /\ x.key[1] \notin Join!Elements(jRetired)
    BY <1>3 DEF Join!Even
  <2>4. EvenBatch' /\ EvenActive'
    BY <1>1, <1>3, <2>1, <2>2, <2>3 DEF EvenBatch, EvenActive
  <2>5. EvenParts'
    <3>1. ASSUME NEW k \in start'.keys, Wanted(k)' PROVE EvenKey(k)'
      <4>1. \A t \in Kinds : Fr(t, k) \in batch'
        BY <1>1, <2>2 DEF EvenSet, Fr
      <4>2. k \in Join!Keys
        BY <2>1 DEF BaseInv, JoinTypes, Join!FrameRec
      <4>3. jActive = k[1] => jLastId < k[2]
        BY <3>1, <2>1, <1>2, <4>2, KeyIs DEF Wanted
      <4> QED
        BY <4>1, <4>3, <1>1 DEF EvenKey, Fr
    <3> QED
      BY <3>1, <1>1, <1>3 DEF EvenParts
  <2> QED
    BY <2>1, <2>4, <2>5, <1>1, <1>2 DEF EvenInv
<1>4. CASE ~(Join!Even(queued) /\ jPending = {})
  <2>1. start'.keys = {} /\ start'.emitted = 0
    BY <1>4 DEF Join!Tick, Join!NoStart
  <2> QED
    BY <2>1, <1>1, <1>2 DEF EvenInv
<1> QED
  BY <1>3, <1>4

\* The first of the batch: of its key the lower kinds were added, of the keys
\* after it none.
LEMMA FirstIs ==
  ASSUME Join!JoinAssumption, start \in StartRec, EvenBatch, NEW x \in batch, Join!Add(x)
  PROVE  /\ x.kind \in Kinds /\ x.key \in start.keys /\ x.key \in Join!Keys
         /\ x = Fr(x.kind, x.key)
         /\ \A u \in Kinds : u < x.kind => Fr(u, x.key) \notin batch
         /\ \A k \in start.keys, t \in Kinds :
              Fr(t, k) \in batch /\ k # x.key => x.key[2] < k[2] /\ \A u \in Kinds : Fr(u, k) \in batch
<1>1. PICK t \in Kinds, k \in start.keys : x = Fr(t, k)
  BY DEF EvenBatch, EvenSet
<1>2. x.kind = t /\ x.key = k /\ k \in Join!Keys /\ Kinds \subseteq Nat
  BY <1>1, JoinSizes DEF Fr, StartRec
<1>3. \A y \in batch \ {x} : Join!Before(x, y)
  BY DEF Join!Add
<1>4. ASSUME NEW u \in Kinds, u < t, Fr(u, k) \in batch PROVE FALSE
  <2>1. Fr(u, k) # x
    BY <1>1, <1>2, <1>4 DEF Fr
  <2>2. Join!Before(Fr(t, k), Fr(u, k))
    BY <1>1, <1>3, <1>4, <2>1
  <2>3. k[2] < k[2] \/ t < u
    BY <2>2, <1>2, BeforeIs
  <2>4. k[2] \in Nat
    BY <1>2, KeyIs
  <2> QED
    BY <2>3, <2>4, <1>2, <1>4
<1>5. ASSUME NEW l \in start.keys, NEW u \in Kinds, Fr(u, l) \in batch, l # k
      PROVE  k[2] < l[2] /\ \A w \in Kinds : Fr(w, l) \in batch
  <2>1. l \in Join!Keys /\ k[1] = l[1]
    BY <1>5 DEF StartRec, EvenBatch
  <2>2. Fr(u, l) # x
    BY <1>1, <1>5 DEF Fr
  <2>3. Join!Before(Fr(t, k), Fr(u, l))
    BY <1>1, <1>3, <1>5, <2>2
  <2>4. k[2] < l[2]
    BY <2>1, <2>3, <1>2, <1>5, BeforeIs
  <2>5. \A w \in Kinds : Fr(w, l) \in batch
    BY <2>4, <1>1, LaterIs
  <2> QED
    BY <2>4, <2>5
<1> QED
  BY <1>1, <1>2, <1>4, <1>5

\* The session of the batch becomes the active one, or is it.
LEMMA EvenTurn ==
  ASSUME Join!JoinAssumption, BaseInv, EvenBatch, EvenActive, NEW x \in batch, Join!Add(x)
  PROVE  LET t == Join!Turn(x) IN
         /\ x.key[1] \notin Join!Elements(jRetired)
         /\ jActive' = t.active /\ jLastId' = t.last /\ jRetired' = t.retired
         /\ t.active = x.key[1] /\ t.pending = jPending
         /\ x.key[1] = start.active => t.last >= start.last
         /\ \/ jActive = x.key[1] /\ t.last = jLastId /\ t.retired = jRetired
            \/ /\ x.kind = S12 /\ jActive # x.key[1] /\ t.last = 0
               /\ Join!Elements(t.retired) \subseteq Join!Elements(jRetired) \cup {jActive}
<1> DEFINE t == Join!Turn(x)
<1>0. start \in StartRec /\ start.last \in Nat /\ jLastId \in Nat /\ x \in Join!FrameRec
  BY DEF BaseInv, JoinTypes, StartRec
<1>1. /\ x.kind \in Kinds /\ x.key \in start.keys /\ x.key \in Join!Keys
      /\ \A u \in Kinds : u < x.kind => Fr(u, x.key) \notin batch
  BY <1>0, FirstIs
<1>2. x.key[1] \notin Join!Elements(jRetired)
  BY <1>1 DEF EvenBatch
<1>3. jActive' = t.active /\ jLastId' = t.last /\ jRetired' = t.retired
  BY <1>2 DEF Join!Add
<1>4. x.kind = S12 \/ jActive = x.key[1]
  <2> SUFFICES ASSUME x.kind # S12, jActive # x.key[1] PROVE FALSE
    OBVIOUS
  <2>1. batch = EvenSet
    BY <1>1 DEF EvenActive
  <2>2. S12 \in Kinds /\ Kinds \subseteq Nat /\ S12 <= x.kind
    BY <1>1, JoinSizes
  <2>3. Fr(S12, x.key) \in batch
    BY <1>1, <2>1, <2>2 DEF EvenSet
  <2>4. S12 < x.kind
    <3>1. x.kind \in Nat /\ S12 \in Nat /\ S12 <= x.kind /\ x.kind # S12
      BY <1>1, <2>2
    <3> QED
      BY ONLY <3>1
  <2> QED
    BY <1>1, <2>2, <2>3, <2>4
<1>5. CASE jActive = x.key[1]
  <2>1. /\ t.active = jActive /\ t.last = jLastId /\ t.retired = jRetired /\ t.pending = jPending
    BY <1>5 DEF Join!Turn
  <2>2. x.key[1] = start.active => jLastId >= start.last
    BY <1>0, <1>1 DEF EvenActive
  <2> QED
    BY <1>2, <1>3, <1>5, <2>1, <2>2
<1>6. CASE jActive # x.key[1]
  <2>1. x.kind = S12
    BY <1>4, <1>6
  <2>2. jActive = start.active /\ jPending = {}
    BY <1>1, <1>6 DEF EvenActive
  <2>3. /\ t.active = x.key[1] /\ t.last = 0 /\ t.pending \subseteq jPending
        /\ Join!Elements(t.retired) \subseteq Join!Elements(jRetired) \cup {jActive}
    BY <1>0, <1>6, <2>1, TurnIs DEF BaseInv
  <2> QED
    BY <1>2, <1>3, <1>6, <2>1, <2>2, <2>3
<1> QED
  BY <1>5, <1>6

LEMMA AddEvenBatch ==
  ASSUME Join!JoinAssumption, BaseInv, EvenBatch, EvenActive, NEW x \in batch, Join!Add(x)
  PROVE  EvenBatch' /\ EvenActive'
<1> DEFINE t == Join!Turn(x)
<1>0. start \in StartRec /\ batch' = batch \ {x} /\ start' = start
  BY DEF BaseInv, JoinTypes, Join!Add
<1>1. /\ jActive' = t.active /\ jLastId' = t.last /\ jRetired' = t.retired
      /\ t.active = x.key[1]
      /\ x.key[1] = start.active => t.last >= start.last
      /\ \/ jActive = x.key[1] /\ t.retired = jRetired
         \/ /\ jActive # x.key[1]
            /\ Join!Elements(t.retired) \subseteq Join!Elements(jRetired) \cup {jActive}
  BY EvenTurn
<1>2. /\ x.kind \in Kinds /\ x.key \in start.keys /\ x.key \in Join!Keys /\ x = Fr(x.kind, x.key)
  BY <1>0, FirstIs
<1>3. \A k \in start.keys : k[1] = x.key[1] /\ k[1] \notin Join!Elements(jRetired')
  BY <1>1, <1>2 DEF EvenBatch
<1>4. EvenActive'
  BY <1>0, <1>1, <1>3 DEF EvenActive
<1>5. ASSUME NEW z \in batch', NEW y \in EvenSet, Join!Before(z, y) PROVE y \in batch'
  <2>1. z \in batch /\ z # x /\ y \in batch /\ Join!Before(x, z)
    BY <1>0, <1>5 DEF EvenBatch, Join!Add
  <2>2. y # x
    <3> SUFFICES ASSUME y = x PROVE FALSE
      OBVIOUS
    <3>1. PICK u \in Kinds, l \in start.keys : z = Fr(u, l)
      BY <2>1 DEF EvenBatch, EvenSet
    <3>2. l \in Join!Keys /\ l[1] = x.key[1] /\ x.key[1] = l[1]
      BY <1>0, <1>3, <3>1 DEF StartRec
    <3>3. l[2] < x.key[2] \/ (l = x.key /\ u < x.kind)
      BY <1>2, <1>5, <3>1, <3>2, BeforeIs
    <3>4. x.key[2] < l[2] \/ (x.key = l /\ x.kind < u)
      BY <1>2, <2>1, <3>1, <3>2, BeforeIs
    <3>5. l[2] \in Nat /\ x.key[2] \in Nat /\ u \in Nat /\ x.kind \in Nat
      BY <1>2, <3>1, <3>2, KeyIs, JoinSizes
    <3> QED
      BY <3>3, <3>4, <3>5
  <2> QED
    BY <1>0, <2>1, <2>2
<1>6. EvenSet' = EvenSet
  BY <1>0 DEF EvenSet, Fr
<1>7. EvenBatch'
  BY <1>0, <1>1, <1>3, <1>5, <1>6 DEF EvenBatch
<1> QED
  BY <1>4, <1>7

\* What an entry has to have when x is out of the batch.
HasAll(f, x) ==
  /\ f.key \in start.keys /\ Fr(S12, f.key) \notin batch \ {x}
  /\ f.streams = {[kind |-> u, stamp |-> Join!Stamp(f.key)]
                    : u \in {w \in Kinds : Fr(w, f.key) \notin batch \ {x}}}

LEMMA OtherHasAll ==
  ASSUME NEW e \in jPending, EvenEntry(e), NEW x \in batch, x = Fr(x.kind, x.key), e.key # x.key
  PROVE  HasAll(e, x)
<1>1. \A u : Fr(u, e.key) # x
  BY DEF Fr
<1>2. \A u : Fr(u, e.key) \notin batch \ {x} <=> Fr(u, e.key) \notin batch
  BY <1>1
<1> QED
  BY <1>2 DEF EvenEntry, HasAll

\* The entry of its key gets the frame.
LEMMA PutHasAll ==
  ASSUME Join!JoinAssumption, BaseInv, NEW e \in jPending, EvenEntry(e), NEW x \in batch,
         x.kind \in Kinds, x = Fr(x.kind, x.key), e.key = x.key
  PROVE  HasAll(Join!Put(x, e), x)
<1> DEFINE S(u) == [kind |-> u, stamp |-> Join!Stamp(x.key)]
           A == {u \in Kinds : Fr(u, x.key) \notin batch}
           B == {u \in Kinds : Fr(u, x.key) \notin batch \ {x}}
<1>1. e.streams = {S(u) : u \in A} /\ e \in Join!EntryRec /\ x \in Join!FrameRec
  BY DEF EvenEntry, BaseInv, JoinTypes
<1>2. \A u : Fr(u, x.key) = x => u = x.kind
  BY DEF Fr
<1>3. B = A \cup {x.kind} /\ x.kind \notin A
  BY <1>2
<1>4. \A y \in e.streams : y.kind # x.kind
  BY <1>1, <1>3
<1>5. Join!Put(x, e) = [e EXCEPT !.streams = @ \cup {[kind |-> x.kind, stamp |-> x.stamp]}]
  BY <1>4 DEF Join!Put
<1>6. x.stamp = Join!Stamp(x.key)
  BY DEF Fr
<1>7. Join!Put(x, e).streams = e.streams \cup {S(x.kind)} /\ Join!Put(x, e).key = x.key
  BY <1>1, <1>5, <1>6 DEF Join!EntryRec
<1>8. Join!Put(x, e).streams = {S(u) : u \in B}
  <2> HIDE DEF A, B, S
  <2> QED
    BY <1>1, <1>3, <1>7
<1>9. x.key \in start.keys /\ Fr(S12, x.key) \notin batch \ {x}
  BY DEF EvenEntry
<1> QED
  BY <1>7, <1>8, <1>9 DEF HasAll

\* A new entry begins with the anchor, alone.
LEMMA NewHasAll ==
  ASSUME Join!JoinAssumption, NEW x \in batch, x = Fr(S12, x.key), x.key \in start.keys,
         \A u \in Kinds : Fr(u, x.key) \in batch,
         NEW f, f.key = x.key, f.streams = {[kind |-> S12, stamp |-> x.stamp]}
  PROVE  HasAll(f, x)
<1>1. x.stamp = Join!Stamp(x.key) /\ \A u : Fr(u, x.key) = x => u = S12
  BY DEF Fr
<1>2. {w \in Kinds : Fr(w, x.key) \notin batch \ {x}} = {S12}
  BY <1>1, JoinSizes
<1>3. {[kind |-> u, stamp |-> Join!Stamp(x.key)] : u \in {S12}} = {[kind |-> S12, stamp |-> x.stamp]}
  BY <1>1
<1> QED
  BY <1>2, <1>3 DEF HasAll

\* What is polled after x was added.
LEMMA AddEvenPolled ==
  ASSUME Join!JoinAssumption, BaseInv, EvenBatch, EvenActive, EvenParts, NEW x \in batch,
         Join!Add(x), jPc = "add"
  PROVE  LET p == Polled(x) IN
         /\ \A f \in p : HasAll(f, x)
         /\ \A k \in Join!KeysOf(jPending) : k \in Join!KeysOf(p)
         /\ Wanted(x.key) => x.key \in Join!KeysOf(p) /\ jLastId' < x.key[2]
<1> DEFINE t == Join!Turn(x)
           p == Polled(x)
<1>0. start \in StartRec /\ jLastId \in Nat /\ x \in Join!FrameRec
  BY DEF BaseInv, JoinTypes
<1>1. /\ x.kind \in Kinds /\ x.key \in start.keys /\ x.key \in Join!Keys
      /\ x = Fr(x.kind, x.key)
      /\ \A u \in Kinds : u < x.kind => Fr(u, x.key) \notin batch
      /\ \A k \in start.keys, w \in Kinds :
           Fr(w, k) \in batch /\ k # x.key => \A u \in Kinds : Fr(u, k) \in batch
  BY <1>0, FirstIs
<1>2. /\ x.key[1] \notin Join!Elements(jRetired) /\ jLastId' = t.last
      /\ t.active = x.key[1] /\ t.pending = jPending
      /\ x.key[1] = start.active => t.last >= start.last
      /\ (jActive = x.key[1] /\ t.last = jLastId) \/ (jActive # x.key[1] /\ t.last = 0)
  BY EvenTurn
<1>3. x.key[2] \in Nat \ {0} /\ t.last \in Nat /\ start.last \in Nat /\ S12 \in Kinds
  BY <1>0, <1>1, <1>2, KeyIs, JoinSizes DEF StartRec
<1>4. Join!TooLate(x, t) <=> x.key[2] <= t.last
  BY <1>2, <1>3 DEF Join!TooLate
<1>5. ~Added(x.key)
  BY <1>1 DEF Added
<1>6. Wanted(x.key) => t.last < x.key[2]
  <2>1. ASSUME Wanted(x.key), jActive = x.key[1] PROVE jLastId < x.key[2]
    BY <2>1, <1>1, <1>5 DEF EvenParts, EvenKey
  <2> QED
    BY <2>1, <1>2, <1>3
<1>7. ~Wanted(x.key) => x.key[2] <= t.last
  BY <1>1, <1>2, <1>3 DEF Wanted
<1>8. \A e \in jPending : EvenEntry(e) /\ (e.key # x.key => HasAll(e, x))
  BY <1>1, OtherHasAll DEF EvenParts
<1>9. CASE x.key \in Join!KeysOf(jPending)
  <2>1. PICK e \in jPending : e.key = x.key
    BY <1>9, KeysAre
  <2>2. Join!Anchored(e) /\ e.key[1] = jActive
    BY <1>8, EvenAnchored
  <2>3. e.key[2] > jLastId
    BY <2>2 DEF BaseInv, Join!NothingIsPassedOver
  <2>4. ~Join!TooLate(x, t)
    BY <2>1, <2>2, <2>3, <1>0, <1>2, <1>3, <1>4
  <2>5. p = Join!Entry(x, jPending)
    BY <1>2, <2>4 DEF Polled
  <2>6. p = {Join!Put(x, f) : f \in jPending} /\ Join!KeysOf(p) = Join!KeysOf(jPending)
    BY <1>0, <1>9, <2>5, EntryIs DEF BaseInv, JoinTypes
  <2>7. ASSUME NEW f \in p PROVE HasAll(f, x)
    <3>1. PICK d \in jPending : f = Join!Put(x, d)
      BY <2>6
    <3>2. d \in Join!EntryRec
      BY DEF BaseInv, JoinTypes
    <3>3. CASE d.key = x.key
      BY <3>1, <3>3, <1>1, <1>8, PutHasAll
    <3>4. CASE d.key # x.key
      BY <3>1, <3>2, <3>4, <1>0, <1>8, PutIs
    <3> QED
      BY <3>3, <3>4
  <2> QED
    BY <2>6, <2>7, <1>2, <1>6, <1>9
<1>10. CASE x.key \notin Join!KeysOf(jPending) /\ Join!TooLate(x, t)
  <2>1. p = jPending
    BY <1>2, <1>10 DEF Polled
  <2>2. ~Wanted(x.key)
    BY <1>3, <1>4, <1>6, <1>10
  <2>3. \A e \in jPending : e.key # x.key
    BY <1>10, KeysAre
  <2> QED
    BY <2>1, <2>2, <2>3, <1>8
<1>11. CASE x.key \notin Join!KeysOf(jPending) /\ ~Join!TooLate(x, t)
  <2>1. p = Join!Entry(x, jPending)
    BY <1>2, <1>11 DEF Polled
  <2>2. Wanted(x.key)
    BY <1>4, <1>7, <1>11
  <2>3. \A u \in Kinds : Fr(u, x.key) \in batch
    BY <2>2, <1>1, <1>5, <1>11 DEF EvenParts, EvenKey
  <2>4. x.kind = S12
    BY <2>3, <1>1, <1>3, JoinSizes
  <2>5. jPending = {}
    <3> SUFFICES ASSUME NEW e \in jPending PROVE FALSE
      OBVIOUS
    <3>1. EvenEntry(e) /\ e.key # x.key
      BY <1>8, <1>11, KeysAre
    <3>2. PICK u \in Kinds : Fr(u, e.key) \in batch
      BY <3>1 DEF EvenEntry, Added
    <3>3. Fr(S12, e.key) \in batch
      BY <3>1, <3>2, <1>1, <1>3 DEF EvenEntry
    <3> QED
      BY <3>1, <3>3 DEF EvenEntry
  <2> DEFINE f == [key |-> x.key, born |-> entered + 1, old |-> FALSE,
                   streams |-> {[kind |-> x.kind, stamp |-> x.stamp]}]
  <2>6. p = {f}
    <3>1. /\ Join!Room(jPending) \subseteq jPending
          /\ p = Join!Room(jPending) \cup {f}
      BY <1>0, <1>11, <2>1, EntryIs DEF BaseInv, JoinTypes
    <3> QED
      BY <3>1, <2>5
  <2>7. f.key = x.key /\ f.streams = {[kind |-> S12, stamp |-> x.stamp]}
    BY <2>4
  <2> HIDE DEF f
  <2>8. HasAll(f, x)
    BY <2>3, <2>4, <2>7, <1>1, NewHasAll
  <2>9. x.key \in Join!KeysOf(p) /\ Join!KeysOf(jPending) = {}
    BY <2>5, <2>6, <2>7 DEF Join!KeysOf
  <2> QED
    BY <2>6, <2>8, <2>9, <1>2, <1>6
<1> QED
  BY <1>9, <1>10, <1>11

LEMMA AddEven ==
  ASSUME Join!JoinAssumption, BaseInv, EvenInv, NEW x \in batch, Join!Add(x) PROVE EvenInv'
<1> DEFINE p == Polled(x)
<1>1. /\ jPc = "add" /\ jPc' = "poll" /\ batch' = batch \ {x} /\ UNCHANGED <<start, emitted>>
      /\ p \subseteq Join!EntryRec /\ jPending' \in Join!Aged(p) /\ visit' = Join!KeysOf(p)
  BY AddIs DEF BaseInv, Join!Add
<1>2. /\ Out' = Out /\ (Prompt <=> Prompt') /\ \A k : Wanted(k) <=> Wanted(k)'
  BY <1>1 DEF Out, Prompt, Wanted
<1>3. ASSUME start.keys # {} PROVE EvenBatch' /\ EvenActive'
  BY <1>1, <1>3, AddEvenBatch DEF EvenInv
<1>4. ASSUME start.keys # {}, Prompt PROVE EvenParts'
  <2>0. EvenBatch /\ EvenActive /\ EvenParts /\ start \in StartRec
    BY <1>1, <1>4 DEF EvenInv, BaseInv, JoinTypes
  <2>1. /\ \A f \in p : HasAll(f, x)
        /\ \A k \in Join!KeysOf(jPending) : k \in Join!KeysOf(p)
        /\ Wanted(x.key) => x.key \in Join!KeysOf(p) /\ jLastId' < x.key[2]
    BY <1>1, <2>0, AddEvenPolled
  <2>2. /\ \A f \in jPending' : \E e \in p : f.key = e.key /\ f.streams = e.streams
        /\ Join!KeysOf(jPending') = Join!KeysOf(p)
    BY <1>1, AgedIs
  <2>3. ASSUME NEW f \in jPending' PROVE EvenEntry(f)'
    <3>1. PICK e \in p : f.key = e.key /\ f.streams = e.streams
      BY <2>2
    <3>2. HasAll(e, x) /\ e.key \in visit'
      BY <1>1, <2>1, KeysAre
    <3> QED
      BY <3>1, <3>2, <1>1 DEF HasAll, EvenEntry, Fr
  <2>4. x = Fr(x.kind, x.key) /\ x.key \in start.keys
    BY <2>0, FirstIs
  <2>5. ASSUME NEW k \in start.keys, Wanted(k) PROVE EvenKey(k)'
    <3>1. CASE k = x.key
      <4>1. k \in Join!KeysOf(jPending') /\ jLastId' < k[2]
        BY <2>1, <2>2, <2>5, <3>1
      <4> QED
        BY <4>1 DEF EvenKey, Join!KeysOf
    <3>2. CASE k # x.key
      <4>1. \A u : Fr(u, k) # x
        BY <3>2 DEF Fr
      <4>2. EvenKey(k)
        BY <2>0, <2>5 DEF EvenParts
      <4>3. (\A u : Fr(u, k) \in batch <=> Fr(u, k) \in batch') /\ (Added(k) <=> Added(k)')
        BY <1>1, <4>1 DEF Added, Fr
      <4>4. jLastId' < k[2] \/ Added(k)
        <5>1. /\ x.key[1] = k[1] /\ k[2] \in Nat \ {0}
          BY <2>0, <2>4, KeyIs DEF EvenBatch, StartRec
        <5>2. (jActive = x.key[1] /\ jLastId' = jLastId) \/ jLastId' = 0
          BY <2>0, EvenTurn
        <5> QED
          BY <4>2, <5>1, <5>2 DEF EvenKey
      <4>5. k \in Join!KeysOf(jPending) => k \in Join!KeysOf(jPending')
        BY <2>1, <2>2
      <4> QED
        BY <4>2, <4>3, <4>4, <4>5, <1>2 DEF EvenKey, Join!KeysOf, Fr
    <3> QED
      BY <3>1, <3>2
  <2> QED
    BY <2>3, <2>5, <1>1, <1>2 DEF EvenParts
<1> QED
  BY <1>1, <1>2, <1>3, <1>4 DEF EvenInv

LEMMA NextEven ==
  ASSUME Join!JoinAssumption, BaseInv, EvenInv, [Join!Next]_(Join!vars) PROVE EvenInv'
<1>1. CASE Join!Network
  BY <1>1, ArriveEven
<1>2. CASE Join!Tick
  BY <1>2, TickEven
<1>3. CASE Join!AddsDone
  BY <1>3, AddsDoneEven
<1>4. CASE Join!PollDone
  BY <1>4, DoneEven
<1>5. CASE \E x \in batch : Join!Add(x)
  BY <1>5, AddEven
<1>6. ASSUME NEW e \in jPending, Join!PollUnanchored(e) \/ Join!PollWaits(e) \/ Join!PollEmits(e)
      PROVE  EvenInv'
  BY <1>6, UnanchoredEven, WaitsEven, EmitsEven
<1>7. CASE UNCHANGED Join!vars
  BY <1>7, StutterEven
<1> QED
  BY <1>1, <1>2, <1>3, <1>4, <1>5, <1>6, <1>7 DEF Join!Next, Join!Gui

\* What the invariant says is what is promised.
LEMMA InvMeans == ASSUME JoinInv PROVE NothingIsForgotten
<1>1. Join!NothingIsPassedOver
  BY DEF JoinInv, BaseInv
<1>2. Join!KeysAccounted
  <2>1. /\ entered \in Nat /\ evicted \in Int /\ dropped \in Int /\ orphan \in Int
        /\ Cardinality(jPending) \in Nat /\ Len(emitted) \in Nat
    BY CardInt DEF JoinInv, BaseInv, JoinTypes
  <2>2. entered - evicted - dropped = Cardinality(jPending) + Len(emitted) + orphan
    BY DEF JoinInv, BaseInv, CountInv, Unlost
  <2> DEFINE c == Cardinality(jPending)
             n == Len(emitted)
  <2>3. c \in Int /\ n \in Int /\ entered \in Int /\ entered - evicted - dropped = c + n + orphan
    BY <2>1, <2>2
  <2> HIDE DEF c, n
  <2>4. entered = c + n + orphan + evicted + dropped
    BY <2>1, <2>3
  <2> QED
    BY <2>4, SameCount DEF Join!KeysAccounted, c, n
<1>3. Join!EvenBatchIsJoined
  <2>1. CASE jPc = "idle"
    BY <2>1 DEF JoinInv, EvenInv
  <2>2. CASE jPc # "idle"
    BY <2>2 DEF Join!EvenBatchIsJoined
  <2> QED
    BY <2>1, <2>2
<1> QED
  BY <1>1, <1>2, <1>3 DEF NothingIsForgotten, Join!NothingIsForgotten

\* The joiner forgets no frame, in every state of every behaviour: none is
\* passed over, each is counted, and an even batch comes out whole.
THEOREM NothingIsForgottenEver ==
  ASSUME Join!JoinAssumption PROVE Join!Spec => []NothingIsForgotten
<1>1. Join!Init => JoinInv
  BY JoinInit, EvenInit DEF JoinInv
<1>2. JoinInv /\ [Join!Next]_(Join!vars) => JoinInv'
  BY NextBase, NextEven DEF JoinInv
<1>3. JoinInv => NothingIsForgotten
  BY InvMeans
<1> QED
  BY <1>1, <1>2, <1>3, PTL DEF Join!Spec

-----------------------------------------------------------------------------
(***************************************************************************)
(* The waterfalls of one and of two streams, for every number of rows, of  *)
(* frames that wait, of sessions and of frames.  Both take NextRow: a ring *)
(* that was moved on by what is missing, and then by a row, shows the      *)
(* frames by number up to that row.  DualOk says besides that what waits   *)
(* is ahead of what was committed, one for a number, and that the rows of  *)
(* a number are of one cycle.                                              *)
(***************************************************************************)

LEMMA MaxIs == ASSUME NEW a \in Int PROVE Max({0, a}) = IF a > 0 THEN a ELSE 0
<1>1. \E m \in {0, a} : \A y \in {0, a} : m >= y
  OBVIOUS
<1> QED
  BY <1>1 DEF Max

LEMMA MinOfTwo == ASSUME NEW a \in Int, NEW b \in Int PROVE Min({a, b}) = IF a < b THEN a ELSE b
<1>1. \E m \in {a, b} : \A y \in {a, b} : m <= y
  OBVIOUS
<1> QED
  BY <1>1 DEF Min

\* A place on the ring, one turn later or one turn before.
LEMMA RingTurnIs ==
  ASSUME HISTORY \in Nat \ {0}, NEW k \in Int, k < 2 * HISTORY, k > -HISTORY
  PROVE  k % HISTORY = IF k < 0 THEN k + HISTORY ELSE IF k < HISTORY THEN k ELSE k - HISTORY
OBVIOUS

-----------------------------------------------------------------------------
(* The ring of a waterfall.                                                *)

RowRec == [session : Nat, frame : Nat, stamp : Nat]
Rings == [row : [Slots -> RowRec], write : Slots]
IsHistory == HISTORY \in Nat \ {0}

LEMMA PlacesIs ==
  ASSUME IsHistory, NEW a \in Slots, NEW b \in Slots
  PROVE  /\ (a + b) % HISTORY \in Slots
         /\ (a + b) % HISTORY = IF a + b < HISTORY THEN a + b ELSE a + b - HISTORY
<1>1. a + b \in Int /\ a + b >= 0 /\ a + b < 2 * HISTORY
  BY DEF Slots, IsHistory
<1>2. \A k \in Int : k >= 0 /\ k < 2 * HISTORY => k % HISTORY = IF k < HISTORY THEN k ELSE k - HISTORY
  BY RingTurnIs DEF IsHistory
<1>3. (a + b) % HISTORY = IF a + b < HISTORY THEN a + b ELSE a + b - HISTORY
  BY <1>1, <1>2 DEF Slots, IsHistory
<1> QED
  BY <1>1, <1>3 DEF Slots, IsHistory

LEMMA RowIs == Blank \in RowRec /\ Blank.frame = 0
BY DEF Blank, Row, RowRec

LEMMA EmptyIs ==
  ASSUME IsHistory
  PROVE  EmptyRing \in Rings /\ Display(EmptyRing) = [i \in Slots |-> Blank]
<1>1. EmptyRing \in Rings
  BY RowIs DEF EmptyRing, Rings, Slots, IsHistory
<1>2. \A i \in Slots : (0 + i) % HISTORY \in Slots
  BY DEF Slots, IsHistory
<1> QED
  BY <1>1, <1>2 DEF Display, EmptyRing

LEMMA FilledIs ==
  ASSUME IsHistory, NEW ring \in Rings
  PROVE  Filled(ring) \in Rings /\ Display(Filled(ring)) = [i \in Slots |-> Blank]
<1>1. EmptyRing.row = [i \in Slots |-> Blank]
  BY DEF EmptyRing
<1>2. Filled(ring) \in Rings /\ Filled(ring).row = EmptyRing.row /\ Filled(ring).write = ring.write
  BY <1>1, RowIs DEF Filled, Rings
<1>3. \A i \in Slots : (ring.write + i) % HISTORY \in Slots
  BY DEF Slots, Rings, IsHistory
<1> QED
  BY <1>1, <1>2, <1>3 DEF Display

LEMMA AppendIs ==
  ASSUME IsHistory, NEW ring \in Rings, NEW row \in RowRec
  PROVE  /\ AppendRow(ring, row) \in Rings
         /\ \A i \in Slots : Display(AppendRow(ring, row))[i] =
              IF i = HISTORY - 1 THEN row ELSE Display(ring)[i + 1]
<1> DEFINE w == ring.write
           next == (w + 1) % HISTORY
           new == AppendRow(ring, row)
<1>1. w \in Slots /\ next \in Slots /\ next = IF w + 1 < HISTORY THEN w + 1 ELSE 0
  BY DEF Slots, Rings, IsHistory
<1>2. new.write = next /\ new.row = [ring.row EXCEPT ![w] = row] /\ new \in Rings
  BY <1>1 DEF AppendRow, Rings
<1>3. ASSUME NEW i \in Slots
      PROVE  Display(new)[i] = IF i = HISTORY - 1 THEN row ELSE Display(ring)[i + 1]
  <2> DEFINE j == (next + i) % HISTORY
  <2>1. Display(new)[i] = new.row[j]
    BY <1>2 DEF Display
  <2>2. j \in Slots /\ (i = HISTORY - 1 <=> j = w)
    BY <1>1, <1>3 DEF Slots, IsHistory
  <2>3. i # HISTORY - 1 => i + 1 \in Slots /\ j = (w + (i + 1)) % HISTORY
    BY <1>1, <1>3 DEF Slots, IsHistory
  <2>4. new.row[j] = IF j = w THEN row ELSE ring.row[j]
    BY <1>1, <1>2, <2>2 DEF Rings
  <2> QED
    BY <2>1, <2>2, <2>3, <2>4 DEF Display
<1> QED
  BY <1>2, <1>3

\* A ring whose rows went up by n.
Raised(ring, new, n) ==
  \A i \in Slots : Display(new)[i] = IF i + n >= HISTORY THEN Blank ELSE Display(ring)[i + n]

LEMMA BlanksAre ==
  ASSUME IsHistory, NEW ring \in Rings, NEW n \in 0 .. HISTORY - 1
  PROVE  AppendBlanks(ring, n) \in Rings /\ Raised(ring, AppendBlanks(ring, n), n)
<1> DEFINE w == ring.write
           next == (w + n) % HISTORY
           new == AppendBlanks(ring, n)
<1>1. w \in Slots /\ next \in Slots /\ next = IF w + n < HISTORY THEN w + n ELSE w + n - HISTORY
  BY DEF Slots, Rings, IsHistory
<1>2. /\ new.write = next /\ new \in Rings
      /\ \A j \in Slots : new.row[j] = IF (j - w) % HISTORY < n THEN Blank ELSE ring.row[j]
  BY <1>1, RowIs DEF AppendBlanks, Rings
<1> HIDE DEF next
<1>3. ASSUME NEW i \in Slots
      PROVE  Display(new)[i] = IF i + n >= HISTORY THEN Blank ELSE Display(ring)[i + n]
  <2> DEFINE j == (next + i) % HISTORY
  <2>1. Display(new)[i] = new.row[j]
    BY <1>2 DEF Display
  <2>2. j \in Slots /\ j = IF next + i < HISTORY THEN next + i ELSE next + i - HISTORY
    BY <1>1, <1>3, PlacesIs
  <2>3. (j - w) % HISTORY = IF j < w THEN j - w + HISTORY ELSE j - w
    BY <1>1, <2>2, RingTurnIs DEF Slots, IsHistory
  <2>4. (j - w) % HISTORY < n <=> i + n >= HISTORY
    BY <1>1, <1>3, <2>2, <2>3 DEF Slots, IsHistory
  <2>5. i + n < HISTORY => i + n \in Slots /\ j = (w + (i + n)) % HISTORY
    <3> SUFFICES ASSUME i + n < HISTORY PROVE i + n \in Slots /\ j = (w + (i + n)) % HISTORY
      OBVIOUS
    <3> DEFINE k == w + (i + n)
    <3>1. k \in Int /\ k >= 0 /\ k < 2 * HISTORY /\ i + n \in Slots
      BY <1>1, <1>3 DEF Slots, IsHistory
    <3> HIDE DEF k
    <3>2. k % HISTORY = IF k < HISTORY THEN k ELSE k - HISTORY
      BY <3>1, RingTurnIs DEF IsHistory
    <3>3. j = IF k < HISTORY THEN k ELSE k - HISTORY
      <4> HIDE DEF j
      <4> QED
        BY <1>1, <1>3, <2>2 DEF Slots, IsHistory, k
    <3> QED
      BY <3>1, <3>2, <3>3 DEF k
  <2>6. i + n < HISTORY \/ i + n >= HISTORY
    BY <1>3 DEF Slots, IsHistory
  <2>7. CASE i + n >= HISTORY
    BY <1>2, <2>1, <2>2, <2>4, <2>7
  <2>8. CASE ~(i + n >= HISTORY)
    <3>1. Display(ring)[i + n] = ring.row[j]
      BY <2>5, <2>6, <2>8 DEF Display
    <3> QED
      BY <1>2, <2>1, <2>2, <2>4, <2>8, <3>1
  <2> QED
    BY <2>7, <2>8
<1> QED
  BY <1>2, <1>3 DEF Raised

LEMMA BlankIsRaised ==
  ASSUME IsHistory, NEW ring \in Rings, NEW new \in Rings, NEW n \in Nat,
         n >= HISTORY, Display(new) = [i \in Slots |-> Blank]
  PROVE  Raised(ring, new, n)
BY DEF Raised, Slots, IsHistory

-----------------------------------------------------------------------------
(* The frames by number.                                                   *)

\* given, of which the newest is the row of frame, over the last rows.
Joined(given, new, num, row) ==
  \A r \in given \cup new \cup {row} :
    r.frame > num - HISTORY => (r \in new <=> r \in given \/ (r = row /\ row # Blank))

LEMMA NextRow ==
  ASSUME IsHistory, NEW last \in Nat, NEW num \in Nat, num > last,
         NEW given, given \subseteq RowRec, \A r \in given : r.frame <= last,
         NEW row \in RowRec, row = Blank \/ row.frame = num,
         NEW new, new \subseteq RowRec, Joined(given, new, num, row),
         NEW ring \in Rings, NEW moved \in Rings, Display(ring) = RowsUpTo(last, given),
         Raised(ring, moved, num - last - 1)
  PROVE  Display(AppendRow(moved, row)) = RowsUpTo(num, new)
<1> DEFINE drawn2 == Display(AppendRow(moved, row))
           gap == num - last - 1
<1>1. ASSUME NEW i \in Slots PROVE drawn2[i] = RowsUpTo(num, new)[i]
  <2> DEFINE f == num - (HISTORY - 1 - i)
             of == {r \in given : r.frame = f}
             ofNew == {r \in new : r.frame = f}
  <2>1. f > num - HISTORY /\ f <= num /\ f \in Int /\ (f = num <=> i = HISTORY - 1)
    BY <1>1 DEF Slots, IsHistory
  <2>2. RowsUpTo(num, new)[i] = IF ofNew = {} THEN Blank ELSE CHOOSE r \in ofNew : TRUE
    BY <1>1 DEF RowsUpTo
  <2>3. CASE i = HISTORY - 1
    <3>1. f = num /\ drawn2[i] = row
      BY <1>1, <2>1, <2>3, AppendIs
    <3>2. ofNew = IF row = Blank THEN {} ELSE {row}
      <4>1. ASSUME NEW r \in ofNew PROVE r = row /\ row # Blank
        <5>1. r \in new /\ r.frame = num /\ r \notin given
          BY <3>1, <4>1
        <5> QED
          BY <2>1, <3>1, <5>1 DEF Joined
      <4>2. row # Blank => row \in ofNew
        BY <2>1, <3>1 DEF Joined
      <4> QED
        BY <4>1, <4>2
    <3> QED
      BY <2>2, <3>1, <3>2
  <2>4. CASE i # HISTORY - 1
    <3>1. i + 1 \in Slots /\ drawn2[i] = Display(moved)[i + 1]
      BY <1>1, <2>4, AppendIs DEF Slots, IsHistory
    <3>2. drawn2[i] = IF i + 1 + gap >= HISTORY THEN Blank ELSE Display(ring)[i + 1 + gap]
      BY <3>1 DEF Raised
    <3>3. f < num
      BY <2>1, <2>4
    <3>4. ofNew = of
      <4>1. \A r \in given \cup new : r.frame = f => (r \in new <=> r \in given)
        <5> SUFFICES ASSUME NEW r \in given \cup new, r.frame = f PROVE r \in new <=> r \in given
          OBVIOUS
        <5>1. r = row => row = Blank
          BY <3>3
        <5> QED
          BY <2>1, <5>1 DEF Joined
      <4> QED
        BY <4>1
    <3>5. CASE i + 1 + gap >= HISTORY
      <4>1. f > last
        BY <1>1, <3>5 DEF Slots, IsHistory
      <4>2. of = {}
        BY <2>1, <4>1 DEF RowRec
      <4> QED
        BY <2>2, <3>2, <3>4, <3>5, <4>2
    <3>6. CASE ~(i + 1 + gap >= HISTORY)
      <4>1. i + 1 + gap \in Slots /\ last - (HISTORY - 1 - (i + 1 + gap)) = f
        BY <1>1, <3>6 DEF Slots, IsHistory
      <4> DEFINE k == i + 1 + gap
      <4>2. {r \in given : r.frame = last - (HISTORY - 1 - k)} = of
        BY <4>1
      <4> HIDE DEF k
      <4>3. RowsUpTo(last, given)[k] = IF of = {} THEN Blank ELSE CHOOSE r \in of : TRUE
        <5>1. k \in Slots
          BY <4>1 DEF k
        <5> HIDE DEF of
        <5>2. RowsUpTo(last, given)[k] =
                IF {r \in given : r.frame = last - (HISTORY - 1 - k)} = {} THEN Blank
                ELSE CHOOSE r \in {r \in given : r.frame = last - (HISTORY - 1 - k)} : TRUE
          BY <5>1 DEF RowsUpTo
        <5> QED
          BY <4>2, <5>2
      <4> QED
        BY <2>2, <3>2, <3>4, <3>6, <4>3 DEF k
    <3> QED
      BY <3>5, <3>6
  <2> QED
    BY <2>3, <2>4
<1>2. drawn2 = [i \in Slots |-> drawn2[i]] /\ RowsUpTo(num, new) = [i \in Slots |-> RowsUpTo(num, new)[i]]
  BY DEF Display, RowsUpTo
<1> QED
  BY <1>1, <1>2

LEMMA NothingGiven ==
  ASSUME IsHistory, NEW last
  PROVE  RowsUpTo(last, {}) = [i \in Slots |-> Blank]
BY DEF RowsUpTo

-----------------------------------------------------------------------------
(* The waterfall of one stream.                                            *)

\* Rows of a session up to last, one for a number.
OfSession(given, session2, last) ==
  /\ given \subseteq RowRec
  /\ \A r \in given : r.session = session2 /\ session2 > 0 /\ r.frame > 0 /\ r.frame <= last
  /\ \A r, q \in given : r.frame = q.frame => r = q

SingleInv ==
  /\ view \in [ring : Rings, session : Nat, last : Nat, display : [Slots -> RowRec]]
  /\ drawn \in BOOLEAN
  /\ OfSession(received, view.session, view.last)
  /\ view.last = 0 => view.session = 0
  /\ Display(view.ring) = RowsUpTo(view.last, received)
  /\ drawn => view.display = Display(view.ring)

LEMMA DisplayTyped ==
  ASSUME IsHistory, NEW ring \in Rings
  PROVE  Display(ring) \in [Slots -> RowRec]
<1>1. \A i \in Slots : (ring.write + i) % HISTORY \in Slots
  BY DEF Slots, Rings, IsHistory
<1> QED
  BY <1>1 DEF Display, Rings

LEMMA SingleBegins == HistoryAssumption /\ SingleInit => SingleInv
<1> SUFFICES ASSUME IsHistory, SingleInit PROVE SingleInv
  BY DEF HistoryAssumption, IsHistory
<1>1. EmptyRing \in Rings /\ Display(EmptyRing) = RowsUpTo(0, {})
  BY EmptyIs, NothingGiven
<1> QED
  BY <1>1, DisplayTyped DEF SingleInit, SingleInv, OfSession

\* The missing rows, whether they are fewer than the ring has or not.
LEMMA WithGapIs ==
  ASSUME IsHistory, NEW ring \in Rings, NEW n \in Nat
  PROVE  WithGap(ring, n) \in Rings /\ Raised(ring, WithGap(ring, n), n)
<1>1. CASE n >= HISTORY
  BY <1>1, FilledIs, BlankIsRaised DEF WithGap
<1>2. CASE ~(n >= HISTORY)
  <2>1. n \in 0 .. HISTORY - 1
    BY <1>2 DEF IsHistory
  <2> QED
    BY <1>2, <2>1, BlanksAre DEF WithGap
<1> QED
  BY <1>1, <1>2

LEMMA TakeKept ==
  ASSUME IsHistory, SingleInv, TakeFrame
  PROVE  SingleInv'
<1> PICK row \in Sent({1}) :
      /\ Follows(Row(view.session, view.last, 0), row)
      /\ view' = Push(view, row)
      /\ received' = {r \in received : r.session = row.session} \cup {row}
      /\ drawn' = FALSE
  BY DEF TakeFrame
<1>1. row \in RowRec /\ row.frame > 0 /\ row.session > 0 /\ row # Blank
  BY RowIs DEF Sent, RowRec
<1>2. /\ row.session >= view.session
      /\ row.session = view.session => row.frame > view.last /\ view.last # 0
  BY <1>1 DEF Follows, Row, SingleInv, RowRec
<1> DEFINE same == row.session = view.session
           ring == IF same THEN view.ring ELSE EmptyRing
           last == IF same THEN view.last ELSE row.frame - 1
           given == IF same THEN received ELSE {}
           gap == row.frame - last - 1
           moved == WithGap(ring, gap)
<1>3. ring \in Rings /\ Display(ring) = RowsUpTo(last, given) /\ last \in Nat /\ last < row.frame
  BY <1>1, <1>2, EmptyIs, NothingGiven DEF SingleInv, RowRec
<1>4. given \subseteq RowRec /\ \A r \in given : r.frame <= last
  BY DEF SingleInv, OfSession
<1>5. received' = given \cup {row}
  BY DEF SingleInv, OfSession
<1>6. /\ view'.ring = AppendRow(moved, row) /\ view'.session = row.session /\ view'.last = row.frame
      /\ view'.display = view.display /\ view' = [ring |-> AppendRow(moved, row), session |-> row.session,
                                               last |-> row.frame, display |-> view.display]
  <2>1. (IF same /\ view.last # 0 THEN Gap(view.last, row.frame) ELSE 0) = gap
    <3>1. CASE same
      <4>1. row.frame - view.last - 1 \in Nat
        BY <1>1, <1>2, <3>1 DEF SingleInv, RowRec
      <4> QED
        BY <1>2, <3>1, <4>1, MaxIs DEF Gap
    <3>2. CASE ~same
      BY <1>1, <3>2 DEF RowRec
    <3> QED
      BY <3>1, <3>2
  <2> QED
    BY <2>1 DEF Push, SingleInv
<1> HIDE DEF ring, last, given
<1>7. gap \in Nat
  BY <1>1, <1>3 DEF RowRec
<1>8. moved \in Rings /\ Raised(ring, moved, gap)
  BY <1>3, <1>7, WithGapIs
<1>9. Joined(given, given \cup {row}, row.frame, row)
  BY <1>1 DEF Joined
<1>10. Display(AppendRow(moved, row)) = RowsUpTo(row.frame, given \cup {row})
  <2>1. row.frame \in Nat /\ row.frame > last /\ given \cup {row} \subseteq RowRec
    BY <1>1, <1>3, <1>4 DEF RowRec
  <2> HIDE DEF moved
  <2> QED
    BY <1>1, <1>3, <1>4, <1>8, <1>9, <2>1, NextRow
<1>11. AppendRow(moved, row) \in Rings
  BY <1>1, <1>8, AppendIs
<1>12. OfSession(given \cup {row}, row.session, row.frame)
  <2>1. \A r, q \in given : r.frame = q.frame => r = q
    BY DEF given, SingleInv, OfSession
  <2>2. \A r \in given : r.session = row.session /\ r.frame > 0 /\ r.frame \in Nat
    BY DEF given, SingleInv, OfSession, RowRec
  <2>3. row.frame \in Nat
    BY <1>1 DEF RowRec
  <2> QED
    BY <1>1, <1>3, <1>4, <2>1, <2>2, <2>3 DEF OfSession
<1> HIDE DEF moved
<1>13. view' \in [ring : Rings, session : Nat, last : Nat, display : [Slots -> RowRec]]
  BY <1>1, <1>6, <1>11 DEF SingleInv, RowRec
<1>14. OfSession(received', view'.session, view'.last)
  BY <1>5, <1>6, <1>12
<1>15. Display(view'.ring) = RowsUpTo(view'.last, received')
  BY <1>5, <1>6, <1>10
<1>16. view'.last # 0 /\ drawn' = FALSE
  BY <1>1, <1>6
<1> QED
  BY <1>13, <1>14, <1>15, <1>16 DEF SingleInv

LEMMA SingleStep == HistoryAssumption /\ SingleInv /\ [SingleNext]_singleVars => SingleInv'
<1> SUFFICES ASSUME IsHistory, SingleInv, [SingleNext]_singleVars PROVE SingleInv'
  BY DEF HistoryAssumption, IsHistory
<1>1. CASE TakeFrame
  BY <1>1, TakeKept
<1>2. CASE Draw
  <2>1. /\ view'.ring = view.ring /\ view'.session = view.session /\ view'.last = view.last
        /\ view'.display = Display(view.ring) /\ drawn' = TRUE /\ received' = received
        /\ view' = [view EXCEPT !.display = Display(view.ring)]
    BY <1>2 DEF Draw, SingleInv
  <2>2. Display(view.ring) \in [Slots -> RowRec]
    BY DisplayTyped DEF SingleInv
  <2>3. view' \in [ring : Rings, session : Nat, last : Nat, display : [Slots -> RowRec]]
    BY <2>1, <2>2 DEF SingleInv
  <2> QED
    BY <2>1, <2>3 DEF SingleInv
<1>3. CASE UNCHANGED singleVars
  BY <1>3 DEF singleVars, SingleInv
<1> QED
  BY <1>1, <1>2, <1>3 DEF SingleNext

-----------------------------------------------------------------------------
(* The waterfalls of two streams.                                          *)

PendRec == [row : RowRec, age : Nat]

DualTyped(s) ==
  s \in [session : [Channels -> Nat], heard : [Channels -> Nat],
         pending : [Channels -> SUBSET PendRec], committed : Nat, delta : Nat,
         ring : [Channels -> Rings], latest : [Channels -> RowRec],
         given : [Channels -> SUBSET RowRec]]

\* What waits in a channel of this session: ahead of what was committed, one
\* for a number.
WaitsOk(p, of, heard, committed) ==
  /\ IsFiniteSet(p) /\ Cardinality(p) <= PairMax
  /\ \A x \in p : /\ x.row.session = of /\ of > 0
                  /\ x.row.frame > committed /\ x.row.frame <= heard
  /\ \A x, y \in p : x.row.frame = y.row.frame => x = y

ShowsOk(ring, given, of, committed) ==
  OfSession(given, of, committed) /\ Display(ring) = RowsUpTo(committed, given)

\* No line has two cycles.
OneStamp(given) == \A r \in given[1], q \in given[2] : r.frame = q.frame => r.stamp = q.stamp

Compared(s) == s.delta # 0 => \A c \in Channels : s.latest[c] # Blank /\ s.latest[c].frame = s.delta

DualOk(s) ==
  /\ DualTyped(s)
  /\ \A c \in Channels : /\ WaitsOk(s.pending[c], s.session[c], s.heard[c], s.committed)
                         /\ ShowsOk(s.ring[c], s.given[c], s.session[c], s.committed)
  /\ OneStamp(s.given) /\ Compared(s)

LEMMA NothingWaits ==
  ASSUME PairMax \in Nat, NEW of, NEW heard, NEW committed
  PROVE  WaitsOk({}, of, heard, committed)
BY FS_EmptySet DEF WaitsOk

LEMMA NothingShown ==
  ASSUME IsHistory, NEW of, NEW committed
  PROVE  ShowsOk(EmptyRing, {}, of, committed)
BY EmptyIs, NothingGiven DEF ShowsOk, OfSession

LEMMA DualBegins ==
  ASSUME IsHistory, PairMax \in Nat
  PROVE  DualOk(NewView)
<1>1. DualTyped(NewView)
  BY EmptyIs, RowIs DEF DualTyped, NewView, NoPending, NoRing
<1> QED
  BY <1>1, NothingWaits, NothingShown DEF DualOk, NewView, NoPending, NoRing, OneStamp, Compared, Channels

LEMMA ResetIs ==
  ASSUME IsHistory, PairMax \in Nat, NEW s, DualOk(s)
  PROVE  /\ DualOk(ResetPairing(s)) /\ ResetPairing(s).session = s.session
         /\ ResetPairing(s).pending = NoPending /\ ResetPairing(s).given = NoPending
<1> DEFINE t == ResetPairing(s)
<1>1. /\ t.session = s.session /\ t.pending = NoPending /\ t.committed = 0 /\ t.delta = 0
      /\ t.ring = NoRing /\ t.given = NoPending /\ DualTyped(t)
  BY EmptyIs, RowIs DEF DualOk, DualTyped, ResetPairing, NoPending, NoRing
<1> QED
  BY <1>1, NothingWaits, NothingShown DEF DualOk, NoPending, NoRing, OneStamp, Compared, Channels

LEMMA OtherSessionIs ==
  ASSUME IsHistory, PairMax \in Nat, NEW s, DualOk(s), NEW c \in Channels,
         NEW of \in Nat, of > s.session[c]
  PROVE  LET t == OtherSession(s, c, of)
         IN  DualOk(t) /\ t.session[c] = of /\ t.heard[c] = 0
<1> DEFINE r == IF s.session[c] = 0 THEN s ELSE ResetPairing(s)
           t == OtherSession(s, c, of)
<1>1. DualOk(r) /\ r.session = s.session
  BY ResetIs
<1>2. r.pending[c] = {} /\ r.given[c] = {}
  <2>1. CASE s.session[c] = 0
    BY <2>1 DEF DualOk, WaitsOk, ShowsOk, OfSession
  <2>2. CASE ~(s.session[c] = 0)
    BY <2>2, ResetIs DEF NoPending
  <2> QED
    BY <2>1, <2>2
<1> HIDE DEF r
<1>3. t = [r EXCEPT !.session[c] = of, !.heard[c] = 0]
  BY DEF OtherSession, r
<1>5. DualTyped(r)
  BY <1>1 DEF DualOk
<1> HIDE DEF t
<1>4. /\ t.session = [r.session EXCEPT ![c] = of] /\ t.heard = [r.heard EXCEPT ![c] = 0]
      /\ t.pending = r.pending /\ t.committed = r.committed /\ t.delta = r.delta /\ t.ring = r.ring
      /\ t.latest = r.latest /\ t.given = r.given
  BY <1>3, <1>5 DEF DualTyped
<1>9. DualTyped(t)
  BY <1>3, <1>5 DEF DualTyped
<1>6. /\ t.session[c] = of /\ t.heard[c] = 0
      /\ \A d \in Channels \ {c} : t.session[d] = r.session[d] /\ t.heard[d] = r.heard[d]
  BY <1>4, <1>5 DEF DualTyped
<1>7. \A d \in Channels : WaitsOk(t.pending[d], t.session[d], t.heard[d], t.committed)
  <2>1. ASSUME NEW d \in Channels PROVE WaitsOk(t.pending[d], t.session[d], t.heard[d], t.committed)
    <3>1. CASE d = c
      <4>1. t.pending[d] = {}
        BY <1>2, <1>4, <3>1
      <4> QED
        BY <4>1, NothingWaits
    <3>2. CASE d # c
      BY <1>1, <1>4, <1>6, <3>2 DEF DualOk
    <3> QED
      BY <3>1, <3>2
  <2> QED
    BY <2>1
<1>8. \A d \in Channels : ShowsOk(t.ring[d], t.given[d], t.session[d], t.committed)
  BY <1>1, <1>2, <1>4, <1>6 DEF DualOk, ShowsOk, OfSession
<1> QED
  BY <1>1, <1>4, <1>6, <1>7, <1>8, <1>9 DEF DualOk, OneStamp, Compared, t

\* Of the frames that wait, one is first.
LEMMA FirstWaits ==
  ASSUME NEW p \in SUBSET PendRec, p # {}
  PROVE  \E x \in p : \A y \in p : x.row.frame <= y.row.frame
<1> DEFINE numbers == {x.row.frame : x \in p}
<1>1. numbers \subseteq Nat /\ numbers # {}
  BY DEF PendRec, RowRec
<1>2. PICK m \in numbers : \A n \in numbers : <<n, m>> \notin OpToRel(<, Nat)
  BY <1>1, WFMin, NatLessThanWellFounded, Zenon
<1>3. \A n \in numbers : ~(n < m)
  BY <1>1, <1>2, Zenon DEF OpToRel
<1>4. PICK x \in p : x.row.frame = m
  BY <1>2
<1>5. ASSUME NEW y \in p PROVE x.row.frame <= y.row.frame
  <2>1. y.row.frame \in numbers
    BY <1>5
  <2>2. y.row.frame \in Nat /\ m \in Nat
    BY <1>1, <1>2, <2>1
  <2> HIDE DEF numbers
  <2> QED
    BY <1>3, <1>4, <2>1, <2>2
<1> QED
  BY <1>5

\* One that comes pushes the first out of a channel that is full.
LEMMA BoundedIs ==
  ASSUME PairMax \in Nat \ {0}, NEW p \in SUBSET PendRec, IsFiniteSet(p), Cardinality(p) <= PairMax,
         NEW x \in PendRec
  PROVE  LET b == Bounded(p \cup {x})
         IN  b \subseteq p \cup {x} /\ IsFiniteSet(b) /\ Cardinality(b) <= PairMax
<1> DEFINE all == p \cup {x}
           b == Bounded(all)
<1>1. b \subseteq all
  BY DEF Bounded
<1>2. IsFiniteSet(all) /\ Cardinality(all) <= PairMax + 1 /\ Cardinality(all) \in Nat
  <2>1. Cardinality(p) \in Nat /\ IsFiniteSet(all)
    BY FS_AddElement, FS_CardinalityType
  <2>2. Cardinality(all) = IF x \in p THEN Cardinality(p) ELSE Cardinality(p) + 1
    BY FS_AddElement
  <2> HIDE DEF all
  <2> QED
    BY <2>1, <2>2
<1>3. IsFiniteSet(b) /\ Cardinality(b) <= Cardinality(all) /\ Cardinality(b) \in Nat
      /\ (Cardinality(all) = Cardinality(b) => all = b)
  BY <1>1, <1>2, FS_Subset, FS_CardinalityType
<1>4. Cardinality(b) <= PairMax
  <2>1. CASE Cardinality(all) <= PairMax
    BY <1>2, <1>3, <2>1
  <2>2. CASE ~(Cardinality(all) <= PairMax)
    <3>1. b = {y \in all : \E q \in all : q.row.frame < y.row.frame}
      BY <2>2 DEF Bounded
    <3>2. all \in SUBSET PendRec /\ all # {}
      OBVIOUS
    <3>3. PICK y \in all : \A q \in all : y.row.frame <= q.row.frame
      BY <3>2, FirstWaits
    <3>4. y \notin b
      <4>1. \A q \in all : q.row.frame \in Nat
        BY <3>2 DEF PendRec, RowRec
      <4> HIDE DEF all, b
      <4> QED
        BY <3>1, <3>3, <4>1
    <3>5. Cardinality(b) # Cardinality(all)
      BY <1>3, <3>4
    <3> QED
      BY <1>2, <1>3, <2>2, <3>5
  <2> QED
    BY <2>1, <2>2
<1> QED
  BY <1>1, <1>3, <1>4

LEMMA AcceptIs ==
  ASSUME PairMax \in Nat \ {0}, NEW s, DualOk(s), NEW c \in Channels, NEW row \in RowRec,
         row.session = s.session[c], row.session > 0, row.frame > s.heard[c]
  PROVE  DualOk(Accept(s, c, row))
<1> DEFINE t == Accept(s, c, row)
           new == [row |-> row, age |-> 0]
           held == s.committed # 0 /\ row.frame <= s.committed
           b == Bounded(s.pending[c] \cup {new})
           p == IF held THEN s.pending[c] ELSE b
<1>1. DualTyped(s) /\ WaitsOk(s.pending[c], s.session[c], s.heard[c], s.committed)
  BY DEF DualOk
<1>2. new \in PendRec /\ s.pending[c] \in SUBSET PendRec /\ s.heard[c] \in Nat /\ row.frame \in Nat
      /\ s.committed \in Nat
  BY <1>1 DEF PendRec, DualTyped, RowRec
<1>3. b \subseteq s.pending[c] \cup {new} /\ IsFiniteSet(b) /\ Cardinality(b) <= PairMax
  BY <1>1, <1>2, BoundedIs DEF WaitsOk
<1>4. t = [s EXCEPT !.heard[c] = row.frame, !.pending[c] = p]
  <2>1. s.pending = [s.pending EXCEPT ![c] = s.pending[c]]
    BY <1>1 DEF DualTyped
  <2>2. CASE held
    <3>1. t = [s EXCEPT !.heard[c] = row.frame]
      BY <2>2 DEF Accept
    <3>2. [s EXCEPT !.heard[c] = row.frame].pending = s.pending
      BY <1>1 DEF DualTyped
    <3> QED
      BY <1>1, <2>1, <2>2, <3>1 DEF DualTyped
  <2>3. CASE ~held
    BY <2>3 DEF Accept
  <2> QED
    BY <2>2, <2>3
<1>5. WaitsOk(p, s.session[c], row.frame, s.committed)
  <2>1. CASE held
    BY <1>1, <1>2, <2>1 DEF WaitsOk, PendRec, RowRec
  <2>2. CASE ~held
    <3>1. row.frame > s.committed
      BY <1>2, <2>2
    <3>2. new.row = row
      OBVIOUS
    <3>3. \A x \in s.pending[c] : x.row.frame <= s.heard[c] /\ x.row.frame \in Nat
      BY <1>1, <1>2 DEF WaitsOk, PendRec, RowRec
    <3>4. \A x \in s.pending[c] : x.row.frame < row.frame
      BY <1>2, <3>3
    <3> HIDE DEF new
    <3>5. \A x \in s.pending[c] \cup {new} :
            /\ x.row.session = s.session[c] /\ s.session[c] > 0
            /\ x.row.frame > s.committed /\ x.row.frame <= row.frame
      BY <1>1, <1>2, <3>1, <3>2, <3>3, <3>4 DEF WaitsOk
    <3>6. \A x, y \in s.pending[c] \cup {new} : x.row.frame = y.row.frame => x = y
      BY <1>1, <1>2, <3>2, <3>3, <3>4 DEF WaitsOk
    <3> HIDE DEF b
    <3>7. p = b
      BY <2>2
    <3> QED
      BY <1>3, <3>5, <3>6, <3>7 DEF WaitsOk
  <2> QED
    BY <2>1, <2>2
<1>6. p \in SUBSET PendRec
  BY <1>2, <1>3
<1> HIDE DEF p, t
<1>7. /\ t.session = s.session /\ t.heard = [s.heard EXCEPT ![c] = row.frame]
      /\ t.pending = [s.pending EXCEPT ![c] = p] /\ t.committed = s.committed /\ t.delta = s.delta
      /\ t.ring = s.ring /\ t.latest = s.latest /\ t.given = s.given
  BY <1>1, <1>4 DEF DualTyped
<1>8. DualTyped(t)
  BY <1>1, <1>2, <1>4, <1>6 DEF DualTyped
<1>9. ASSUME NEW d \in Channels PROVE WaitsOk(t.pending[d], t.session[d], t.heard[d], t.committed)
  <2>1. CASE d = c
    <3>1. t.pending[c] = p /\ t.heard[c] = row.frame
      BY <1>1, <1>7 DEF DualTyped
    <3> QED
      BY <1>5, <1>7, <2>1, <3>1
  <2>2. CASE d # c
    <3>1. t.pending[d] = s.pending[d] /\ t.heard[d] = s.heard[d]
      BY <1>1, <1>7, <2>2 DEF DualTyped
    <3> QED
      BY <1>7, <3>1 DEF DualOk
  <2> QED
    BY <2>1, <2>2
<1> QED
  BY <1>7, <1>8, <1>9 DEF DualOk, OneStamp, Compared, t

LEMMA IngestIs ==
  ASSUME IsHistory, PairMax \in Nat \ {0}, NEW s, DualOk(s), NEW c \in Channels, NEW row \in RowRec,
         row.session > 0, row.frame > 0, Follows(Row(s.session[c], s.heard[c], 0), row)
  PROVE  DualOk(IngestFrame(s, c, row))
<1>1. s.session[c] \in Nat /\ s.heard[c] \in Nat /\ row.session \in Nat /\ row.frame \in Nat
  BY DEF DualOk, DualTyped, RowRec
<1>2. \/ row.session = s.session[c] /\ row.frame > s.heard[c]
      \/ row.session > s.session[c]
  BY DEF Follows, Row
<1> DEFINE t == IF row.session = s.session[c] THEN s ELSE OtherSession(s, c, row.session)
<1>3. DualOk(t) /\ t.session[c] = row.session /\ row.frame > t.heard[c]
  <2>1. CASE row.session = s.session[c]
    BY <1>1, <1>2, <2>1
  <2>2. CASE row.session # s.session[c]
    <3>1. row.session > s.session[c]
      BY <1>1, <1>2, <2>2
    <3> QED
      BY <1>1, <2>2, <3>1, OtherSessionIs
  <2> QED
    BY <2>1, <2>2
<1>4. IngestFrame(s, c, row) = Accept(t, c, row)
  <2>1. t.heard[c] \in Nat
    BY <1>3 DEF DualOk, DualTyped
  <2>2. ~(t.heard[c] # 0 /\ row.frame <= t.heard[c])
    <3> HIDE DEF t
    <3> QED
      BY <1>1, <1>3, <2>1
  <2> QED
    BY <2>2 DEF IngestFrame
<1> HIDE DEF t
<1> QED
  BY <1>3, <1>4, AcceptIs

LEMMA AgedKept ==
  ASSUME PairMax \in Nat, PairWait \in Nat, NEW s, DualOk(s), NEW dt \in Nat
  PROVE  DualOk(Aged(s, dt))
<1> DEFINE Older(x) == [x EXCEPT !.age = Min({PairWait, x.age + dt})]
           Of(p) == {Older(x) : x \in p}
           t == Aged(s, dt)
<1>1. DualTyped(s)
  BY DEF DualOk
<1>2. \A x \in PendRec : Older(x) \in PendRec /\ Older(x).row = x.row
  <2>1. ASSUME NEW x \in PendRec PROVE Older(x) \in PendRec /\ Older(x).row = x.row
    <3>1. x.age + dt \in Nat
      BY DEF PendRec
    <3>2. Min({PairWait, x.age + dt}) \in Nat
      BY <3>1, MinOfTwo
    <3> QED
      BY <3>2 DEF PendRec
  <2> QED
    BY <2>1
<1>3. t = [s EXCEPT !.pending = [c \in Channels |-> Of(s.pending[c])]]
  BY DEF Aged
<1> HIDE DEF Older
<1>4. ASSUME NEW p \in SUBSET PendRec, NEW of, NEW heard, NEW committed, WaitsOk(p, of, heard, committed)
      PROVE  WaitsOk(Of(p), of, heard, committed)
  <2> DEFINE f == [x \in p |-> Older(x)]
  <2>1. f \in Surjection(p, Of(p))
    BY DEF Surjection
  <2>2. IsFiniteSet(p) /\ Cardinality(p) <= PairMax /\ Cardinality(p) \in Nat
    BY <1>4, FS_CardinalityType DEF WaitsOk
  <2> HIDE DEF f
  <2>3. IsFiniteSet(Of(p)) /\ Cardinality(Of(p)) <= Cardinality(p)
    <3> HIDE DEF Of
    <3> QED
      BY <2>1, <2>2, FS_Surjection
  <2>4. Cardinality(Of(p)) <= PairMax
    <3>1. Cardinality(Of(p)) \in Nat
      <4> HIDE DEF Of
      <4> QED
        BY <2>3, FS_CardinalityType
    <3> HIDE DEF Of
    <3> QED
      BY <2>2, <2>3, <3>1
  <2>5. \A x \in Of(p) : /\ x.row.session = of /\ of > 0
                        /\ x.row.frame > committed /\ x.row.frame <= heard
    BY <1>2, <1>4 DEF WaitsOk
  <2>6. \A x, y \in Of(p) : x.row.frame = y.row.frame => x = y
    <3> SUFFICES ASSUME NEW x \in p, NEW y \in p, Older(x).row.frame = Older(y).row.frame
                 PROVE  Older(x) = Older(y)
      OBVIOUS
    <3>1. x.row.frame = y.row.frame
      BY <1>2
    <3>2. x = y
      BY <1>4, <3>1 DEF WaitsOk
    <3> QED
      BY <3>2
  <2> HIDE DEF Of
  <2> QED
    BY <2>3, <2>4, <2>5, <2>6 DEF WaitsOk
<1>5. \A c \in Channels : Of(s.pending[c]) \in SUBSET PendRec /\ s.pending[c] \in SUBSET PendRec
  BY <1>1, <1>2 DEF DualTyped
<1> HIDE DEF Of, t
<1>6. /\ t.session = s.session /\ t.heard = s.heard /\ t.committed = s.committed /\ t.delta = s.delta
      /\ t.ring = s.ring /\ t.latest = s.latest /\ t.given = s.given
      /\ \A c \in Channels : t.pending[c] = Of(s.pending[c])
  BY <1>1, <1>3 DEF DualTyped
<1>7. DualTyped(t)
  BY <1>1, <1>3, <1>5 DEF DualTyped
<1>8. ASSUME NEW c \in Channels PROVE WaitsOk(t.pending[c], t.session[c], t.heard[c], t.committed)
  <2>1. WaitsOk(s.pending[c], s.session[c], s.heard[c], s.committed)
    BY DEF DualOk
  <2> QED
    BY <1>4, <1>5, <1>6, <2>1
<1> QED
  BY <1>6, <1>7, <1>8 DEF DualOk, OneStamp, Compared, t

-----------------------------------------------------------------------------
(* A frame is committed.                                                   *)

LEMMA WaitingRowIs ==
  ASSUME NEW s, DualOk(s), NEW c \in Channels, NEW n \in Nat
  PROVE  LET w == WaitingRow(s, c, n)
         IN  w # Blank => /\ w \in RowRec /\ w.frame = n /\ w.session = s.session[c]
                          /\ s.session[c] > 0 /\ n > s.committed
<1> DEFINE of == {p \in s.pending[c] : p.row.frame = n}
<1>1. s.pending[c] \in SUBSET PendRec
  BY DEF DualOk, DualTyped
<1>2. CASE of = {}
  BY <1>2 DEF WaitingRow
<1>3. CASE of # {}
  <2> DEFINE x == CHOOSE p \in of : TRUE
  <2>1. x \in of
    BY <1>3
  <2>2. WaitingRow(s, c, n) = x.row
    BY <1>3 DEF WaitingRow
  <2> HIDE DEF x
  <2>3. x \in PendRec /\ x.row.frame = n /\ x \in s.pending[c]
    BY <1>1, <2>1
  <2>4. x.row \in RowRec
    BY <2>3 DEF PendRec
  <2> QED
    BY <2>2, <2>3, <2>4 DEF DualOk, WaitsOk
<1> QED
  BY <1>2, <1>3

LEMMA WithGapAnewIs ==
  ASSUME IsHistory, NEW ring \in Rings, NEW n \in Nat
  PROVE  WithGapAnew(ring, n) \in Rings /\ Raised(ring, WithGapAnew(ring, n), n)
<1>1. CASE n >= HISTORY
  BY <1>1, EmptyIs, BlankIsRaised DEF WithGapAnew
<1>2. CASE ~(n >= HISTORY)
  <2>1. n \in 0 .. HISTORY - 1
    BY <1>2 DEF IsHistory
  <2> QED
    BY <1>2, <2>1, BlanksAre DEF WithGapAnew
<1> QED
  BY <1>1, <1>2

LEMMA WithoutIs ==
  ASSUME PairMax \in Nat, NEW s, DualOk(s), NEW n \in Nat, NEW c \in Channels,
         \A x \in s.pending[1] \cup s.pending[2] : n <= x.row.frame, NEW k \in {s.committed, n}
  PROVE  /\ Without(s, n).pending[c] \in SUBSET PendRec
         /\ WaitsOk(Without(s, n).pending[c], s.session[c], s.heard[c], k)
<1> DEFINE p == s.pending[c]
           left == {x \in p : x.row.frame # n}
<1>1. Without(s, n).pending[c] = left /\ left \subseteq p /\ p \in SUBSET PendRec
  BY DEF Without, DualOk, DualTyped
<1>2. WaitsOk(p, s.session[c], s.heard[c], s.committed) /\ c \in {1, 2}
  BY DEF DualOk, Channels
<1>3. IsFiniteSet(left) /\ Cardinality(left) <= Cardinality(p) /\ Cardinality(left) \in Nat /\ Cardinality(p) \in Nat
  BY <1>2, FS_Subset, FS_CardinalityType DEF WaitsOk
<1>4. Cardinality(left) <= PairMax
  <2> HIDE DEF left, p
  <2> QED
    BY <1>2, <1>3 DEF WaitsOk
<1>5. \A x \in left : x.row.frame > k
  <2> SUFFICES ASSUME NEW x \in left PROVE x.row.frame > k
    OBVIOUS
  <2>1. x.row.frame \in Nat /\ x.row.frame > s.committed /\ n <= x.row.frame /\ x.row.frame # n
    BY <1>1, <1>2 DEF WaitsOk, PendRec, RowRec
  <2> QED
    BY <2>1
<1>6. WaitsOk(left, s.session[c], s.heard[c], k)
  BY <1>2, <1>3, <1>4, <1>5 DEF WaitsOk
<1> QED
  BY <1>1, <1>6

\* The rows of a frame: what waits, or nothing when it is of two cycles.
LEMMA ShownIs ==
  ASSUME NEW one \in RowRec, NEW two \in RowRec
  PROVE  /\ Shown(one, two, 1) \in {one, Blank} /\ Shown(one, two, 2) \in {two, Blank}
         /\ Shown(one, two, 1) # Blank /\ Shown(one, two, 2) # Blank =>
              Shown(one, two, 1).stamp = Shown(one, two, 2).stamp
         /\ Matched(one, two) => Shown(one, two, 1) = one /\ Shown(one, two, 2) = two
BY DEF Shown, Matched

LEMMA CommitIs ==
  ASSUME IsHistory, PairMax \in Nat, NEW s, DualOk(s), NEW n \in Waiting(s),
         \A m \in Waiting(s) : n <= m
  PROVE  DualOk(Drawn(s, n))
<1> DEFINE one == WaitingRow(s, 1, n)
           two == WaitingRow(s, 2, n)
           row == [c \in Channels |-> Shown(one, two, c)]
           t == Drawn(s, n)
           last == IF s.committed = 0 THEN n - 1 ELSE s.committed
           gap == n - last - 1
<1>1. DualTyped(s) /\ s.committed \in Nat
  BY DEF DualOk, DualTyped
<1>2. n \in Nat /\ n > s.committed /\ \A x \in s.pending[1] \cup s.pending[2] : n <= x.row.frame
  <2>1. PICK c \in Channels : \E x \in s.pending[c] : x.row.frame = n
    BY DEF Waiting, Channels
  <2>2. PICK x \in s.pending[c] : x.row.frame = n
    BY <2>1
  <2>3. x \in PendRec /\ n > s.committed
    BY <1>1, <2>2 DEF DualOk, DualTyped, WaitsOk
  <2> QED
    BY <2>2, <2>3 DEF PendRec, RowRec, Waiting
<1>3. /\ one \in RowRec /\ (one # Blank => one.frame = n /\ one.session = s.session[1] /\ s.session[1] > 0)
      /\ two \in RowRec /\ (two # Blank => two.frame = n /\ two.session = s.session[2] /\ s.session[2] > 0)
  <2>1. one # Blank => one \in RowRec /\ one.frame = n /\ one.session = s.session[1] /\ s.session[1] > 0
    BY <1>2, WaitingRowIs DEF Channels
  <2>2. two # Blank => two \in RowRec /\ two.frame = n /\ two.session = s.session[2] /\ s.session[2] > 0
    BY <1>2, WaitingRowIs DEF Channels
  <2> HIDE DEF one, two
  <2> QED
    BY <2>1, <2>2, RowIs
<1>4. /\ t = [Without(s, n) EXCEPT !.ring = Rows(s, n, row), !.latest = row,
               !.delta = Delta(s, n, Matched(one, two)), !.committed = n, !.given = NowGiven(s, n, row)]
  BY DEF Drawn
<1>5. /\ Without(s, n) = [s EXCEPT !.pending = Without(s, n).pending]
      /\ Without(s, n).pending = [c \in Channels |-> Without(s, n).pending[c]]
  BY <1>1 DEF Without, DualTyped
<1> HIDE DEF one, two
<1>6. /\ \A c \in Channels : row[c] \in RowRec /\ (row[c] # Blank => /\ row[c].frame = n
                                                                   /\ row[c].session = s.session[c] /\ s.session[c] > 0)
      /\ row \in [Channels -> RowRec]
      /\ row[1] # Blank /\ row[2] # Blank => row[1].stamp = row[2].stamp
      /\ Matched(one, two) => row[1] # Blank /\ row[2] # Blank
  <2>1. row[1] = Shown(one, two, 1) /\ row[2] = Shown(one, two, 2)
    BY DEF Channels
  <2>2. row[1] \in {one, Blank} /\ row[2] \in {two, Blank}
    BY <1>3, <2>1, ShownIs
  <2>3. \A c \in Channels : row[c] \in RowRec /\ (row[c] # Blank => /\ row[c].frame = n
                                                                 /\ row[c].session = s.session[c] /\ s.session[c] > 0)
    <3> HIDE DEF row
    <3> QED
      BY <1>3, <2>2, RowIs DEF Channels
  <2>4. row \in [Channels -> RowRec]
    BY <2>3
  <2>5. row[1] # Blank /\ row[2] # Blank => row[1].stamp = row[2].stamp
    BY <1>3, <2>1, ShownIs
  <2>6. Matched(one, two) => row[1] # Blank /\ row[2] # Blank
    BY <1>3, <2>1, ShownIs DEF Matched
  <2> QED
    BY <2>3, <2>4, <2>5, <2>6
<1> HIDE DEF row, t
<1>7. last \in Nat /\ last < n /\ gap \in Nat /\ gap = IF s.committed = 0 THEN 0 ELSE n - s.committed - 1
  BY <1>1, <1>2
<1> DEFINE moved(c) == WithGapAnew(s.ring[c], gap)
           given(c) == {r \in (s.given[c] \cup {row[c]}) \ {Blank} : r.frame > n - HISTORY}
<1>8. ASSUME NEW c \in Channels
      PROVE  /\ Rows(s, n, row)[c] = AppendRow(moved(c), row[c]) /\ NowGiven(s, n, row)[c] = given(c)
             /\ Rows(s, n, row)[c] \in Rings /\ given(c) \in SUBSET RowRec
             /\ ShowsOk(AppendRow(moved(c), row[c]), given(c), s.session[c], n)
  <2>1. Rows(s, n, row)[c] = AppendRow(moved(c), row[c]) /\ NowGiven(s, n, row)[c] = given(c)
    <3> HIDE DEF last
    <3> QED
      BY <1>7 DEF Rows, NowGiven
  <2>2. /\ ShowsOk(s.ring[c], s.given[c], s.session[c], s.committed)
        /\ s.ring[c] \in Rings /\ s.given[c] \in SUBSET RowRec
    BY <1>1 DEF DualOk, DualTyped
  <2>3. /\ \A r \in s.given[c] : /\ r.session = s.session[c] /\ s.session[c] > 0 /\ r.frame > 0
                                 /\ r.frame <= s.committed /\ r.frame \in Nat /\ r # Blank
        /\ \A r, q \in s.given[c] : r.frame = q.frame => r = q
    BY <2>2, RowIs DEF ShowsOk, OfSession, RowRec
  <2>4. \A r \in s.given[c] : r.frame <= last
    BY <1>1, <1>7, <2>3
  <2>5. Display(s.ring[c]) = RowsUpTo(last, s.given[c])
    <3>1. CASE s.committed = 0
      <4>1. s.given[c] = {}
        BY <2>3, <3>1
      <4> QED
        BY <2>2, <4>1, NothingGiven DEF ShowsOk
    <3>2. CASE s.committed # 0
      BY <2>2, <3>2 DEF ShowsOk
    <3> QED
      BY <3>1, <3>2
  <2> HIDE DEF last
  <2>6. moved(c) \in Rings /\ Raised(s.ring[c], moved(c), gap)
    BY <1>7, <2>2, WithGapAnewIs
  <2>7. given(c) \subseteq RowRec /\ Joined(s.given[c], given(c), n, row[c])
    BY <1>6, <2>2, <2>3 DEF Joined
  <2> HIDE DEF moved, given
  <2>8. row[c] \in RowRec /\ (row[c] = Blank \/ row[c].frame = n)
    BY <1>6
  <2>9. Display(AppendRow(moved(c), row[c])) = RowsUpTo(n, given(c))
    BY <1>2, <1>7, <2>2, <2>4, <2>5, <2>6, <2>7, <2>8, NextRow
  <2>10. AppendRow(moved(c), row[c]) \in Rings
    BY <2>6, <2>8, AppendIs
  <2>11. OfSession(given(c), s.session[c], n)
    <3>1. \A r \in given(c) : r \in s.given[c] \/ (r = row[c] /\ row[c] # Blank)
      BY DEF given
    <3>2. \A r \in given(c) : r.session = s.session[c] /\ s.session[c] > 0 /\ r.frame > 0 /\ r.frame <= n
      BY <1>1, <1>2, <1>6, <2>3, <3>1
    <3>3. \A r, q \in given(c) : r.frame = q.frame => r = q
      BY <1>1, <1>2, <1>6, <2>3, <3>1
    <3> QED
      BY <2>7, <3>2, <3>3 DEF OfSession
  <2> QED
    BY <2>1, <2>7, <2>9, <2>10, <2>11 DEF ShowsOk
<1>9. /\ t.session = s.session /\ t.heard = s.heard /\ t.pending = Without(s, n).pending
      /\ t.ring = Rows(s, n, row) /\ t.latest = row /\ t.delta = Delta(s, n, Matched(one, two))
      /\ t.committed = n /\ t.given = NowGiven(s, n, row)
  BY <1>1, <1>4, <1>5 DEF DualTyped
<1>10. \A c \in Channels : /\ Without(s, n).pending[c] \in SUBSET PendRec
                           /\ WaitsOk(Without(s, n).pending[c], s.session[c], s.heard[c], n)
  BY <1>2, WithoutIs
<1>11. DualTyped(t)
  <2>1. Rows(s, n, row) \in [Channels -> Rings]
    BY <1>8 DEF Rows
  <2>2. NowGiven(s, n, row) \in [Channels -> SUBSET RowRec]
    BY <1>8 DEF NowGiven
  <2>3. Without(s, n).pending \in [Channels -> SUBSET PendRec]
    BY <1>5, <1>10
  <2>4. Delta(s, n, Matched(one, two)) \in Nat
    BY <1>2 DEF Delta
  <2> QED
    BY <1>1, <1>2, <1>4, <1>5, <1>6, <2>1, <2>2, <2>3, <2>4 DEF DualTyped
<1>12. OneStamp(t.given)
  <2> SUFFICES ASSUME NEW r \in given(1), NEW q \in given(2), r.frame = q.frame PROVE r.stamp = q.stamp
    BY <1>8, <1>9 DEF OneStamp, Channels
  <2>1. ASSUME NEW c \in Channels, NEW x \in given(c)
        PROVE  \/ x = row[c] /\ row[c] # Blank /\ x.frame = n
               \/ x \in s.given[c] /\ x.frame < n
    <3>1. x \in s.given[c] => x.frame <= s.committed /\ x.frame \in Nat
      BY <1>1 DEF DualOk, ShowsOk, OfSession, RowRec
    <3> QED
      BY <1>1, <1>2, <1>6, <2>1, <3>1
  <2>2. 1 \in Channels /\ 2 \in Channels
    BY DEF Channels
  <2>3. /\ \/ r = row[1] /\ row[1] # Blank /\ r.frame = n
           \/ r \in s.given[1] /\ r.frame < n
        /\ \/ q = row[2] /\ row[2] # Blank /\ q.frame = n
           \/ q \in s.given[2] /\ q.frame < n
    BY <2>1, <2>2
  <2> HIDE DEF given
  <2>4. CASE r = row[1] /\ row[1] # Blank /\ r.frame = n
    BY <1>2, <1>6, <2>3, <2>4
  <2>5. CASE r \in s.given[1] /\ r.frame < n
    BY <1>2, <2>3, <2>5 DEF DualOk, OneStamp
  <2> QED
    BY <2>3, <2>4, <2>5
<1>13. Compared(t)
  BY <1>6, <1>9 DEF Compared, Delta, Channels
<1>14. \A c \in Channels : /\ WaitsOk(t.pending[c], t.session[c], t.heard[c], t.committed)
                           /\ ShowsOk(t.ring[c], t.given[c], t.session[c], t.committed)
  <2> HIDE DEF moved, given
  <2> QED
    BY <1>8, <1>9, <1>10
<1> QED
  BY <1>11, <1>12, <1>13, <1>14 DEF DualOk, t

LEMMA DualStep ==
  HistoryAssumption /\ DualAssumption /\ DualOk(dual) /\ [DualNext]_dualVars => DualOk(dual')
<1> SUFFICES ASSUME IsHistory, PairMax \in Nat \ {0}, PairWait \in Nat, Stamps \in [Channels -> SUBSET Nat],
                    DualOk(dual), [DualNext]_dualVars
             PROVE  DualOk(dual')
  BY DEF HistoryAssumption, IsHistory, DualAssumption
<1>1. CASE Tick
  <2> PICK dt \in 0 .. PairWait : dual' = Aged(dual, dt)
    BY <1>1 DEF Tick
  <2> QED
    BY AgedKept
<1>2. ASSUME NEW c \in Channels, Ingest(c) PROVE DualOk(dual')
  <2> PICK row \in Sent(Stamps[c]) :
        /\ Follows(Row(dual.session[c], dual.heard[c], 0), row)
        /\ dual' = IngestFrame(dual, c, row)
    BY <1>2 DEF Ingest
  <2>1. row \in RowRec /\ row.session > 0 /\ row.frame > 0
    BY DEF Sent, RowRec
  <2> QED
    BY <2>1, IngestIs
<1>3. CASE Commit
  <2> PICK n \in Waiting(dual) :
        /\ Due(n)
        /\ dual' = IF dual.committed # 0 /\ n <= dual.committed THEN Without(dual, n)
                   ELSE Drawn(dual, n)
    BY <1>3 DEF Commit
  <2>1. \A m \in Waiting(dual) : n <= m
    BY DEF Due
  <2>2. n > dual.committed /\ n \in Nat /\ dual.committed \in Nat
    BY DEF Waiting, DualOk, DualTyped, WaitsOk, PendRec, RowRec, Channels
  <2> QED
    BY <2>1, <2>2, CommitIs
<1>4. CASE UNCHANGED dual
  BY <1>4
<1> QED
  BY <1>1, <1>2, <1>3, <1>4 DEF DualNext, Ingested, Committed, dualVars

LEMMA DualShows ==
  ASSUME IsHistory, DualOk(dual)
  PROVE  PanelsAgree
<1>1. \A c \in Channels : ShowsOk(dual.ring[c], dual.given[c], dual.session[c], dual.committed)
  BY DEF DualOk
<1>2. PendingAhead
  BY DEF DualOk, WaitsOk, PendingAhead
<1>3. PanelsShowHistory
  BY <1>1 DEF ShowsOk, PanelsShowHistory
<1>4. OneCycle
  <2> SUFFICES ASSUME NEW i \in Slots
               PROVE  LET one == Display(dual.ring[1])[i]
                          two == Display(dual.ring[2])[i]
                      IN  /\ one # Blank /\ two # Blank => one.frame = two.frame /\ one.stamp = two.stamp
                          /\ one # Blank => one.session = dual.session[1]
                          /\ two # Blank => two.session = dual.session[2]
    BY DEF OneCycle
  <2> DEFINE n == dual.committed - (HISTORY - 1 - i)
             line(c) == Display(dual.ring[c])[i]
  <2>1. ASSUME NEW c \in Channels, line(c) # Blank
        PROVE  line(c) \in dual.given[c] /\ line(c).frame = n
    <3>1. Display(dual.ring[c])[i] = RowsUpTo(dual.committed, dual.given[c])[i]
      BY <1>1 DEF ShowsOk
    <3> DEFINE of == {r \in dual.given[c] : r.frame = n}
    <3>2. line(c) = IF of = {} THEN Blank ELSE CHOOSE r \in of : TRUE
      <4>1. RowsUpTo(dual.committed, dual.given[c])[i] = IF of = {} THEN Blank ELSE CHOOSE r \in of : TRUE
        BY DEF RowsUpTo
      <4> QED
        BY <3>1, <4>1
    <3> HIDE DEF of, line
    <3>3. of # {} /\ line(c) \in of
      BY <2>1, <3>2
    <3> QED
      BY <3>3 DEF of
  <2>2. \A c \in Channels : \A r \in dual.given[c] : r.session = dual.session[c]
    BY <1>1 DEF ShowsOk, OfSession
  <2>3. 1 \in Channels /\ 2 \in Channels
    BY DEF Channels
  <2>4. OneStamp(dual.given)
    BY DEF DualOk
  <2> HIDE DEF line, n
  <2>5. /\ line(1) # Blank => line(1) \in dual.given[1] /\ line(1).frame = n
        /\ line(2) # Blank => line(2) \in dual.given[2] /\ line(2).frame = n
    BY <2>1, <2>3
  <2>6. /\ line(1) # Blank /\ line(2) # Blank => line(1).frame = line(2).frame /\ line(1).stamp = line(2).stamp
        /\ line(1) # Blank => line(1).session = dual.session[1]
        /\ line(2) # Blank => line(2).session = dual.session[2]
    BY <2>2, <2>3, <2>4, <2>5 DEF OneStamp
  <2> QED
    BY <2>6 DEF line
<1>5. DeltaIsDrawn
  BY DEF DualOk, Compared, DeltaIsDrawn
<1> QED
  BY <1>2, <1>3, <1>4, <1>5 DEF PanelsAgree

\* The waterfalls of one and of two streams show the frames by number, whatever
\* is lost, comes late or is of another session, and no line has two cycles
\* (viewer.py update_data(), viewer_dual.py ingest() and commit_ready()).
THEOREM ShownByNumber ==
  ASSUME HistoryAssumption, DualAssumption
  PROVE  SingleSpec /\ DualSpec => []WaterfallsAreHistory
<1> DEFINE Inv == SingleInv /\ DualOk(dual)
<1>0. IsHistory /\ PairMax \in Nat
  BY DEF HistoryAssumption, DualAssumption, IsHistory
<1>1. SingleInit /\ DualInit => Inv
  BY <1>0, SingleBegins, DualBegins DEF DualInit
<1>2. Inv /\ [SingleNext]_singleVars /\ [DualNext]_dualVars => Inv'
  BY SingleStep, DualStep
<1>3. Inv => WaterfallsAreHistory
  BY <1>0, DualShows DEF SingleInv, DisplayIsHistory, WaterfallsAreHistory
<1> QED
  BY <1>1, <1>2, <1>3, PTL DEF SingleSpec, DualSpec
=============================================================================
