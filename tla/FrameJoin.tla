------------------------------ MODULE FrameJoin ------------------------------
(***************************************************************************)
(* FrameJoiner (src/viewer/telemetry_protocol.py) under the timer of the   *)
(* live viewer (update_data, src/viewer/viewer_fx.py): every 50 ms the GUI *)
(* takes what the receivers of the five streams have completed, sorts it   *)
(* by (stamp, session, frame, kind), and adds it frame by frame, with a    *)
(* poll after each and one at the end.  The emitted frames are final.      *)
(*                                                                         *)
(* The receivers' queues are what Reassembly leaves of the streams: of     *)
(* each typed stream a frame comes at most once, perhaps never, in any     *)
(* order.  That no session comes back is left to the joiner.  Time is      *)
(* "old": the entry has waited for the timeout.  The ordered dictionary    *)
(* pending is a set whose entries carry their place among all that were    *)
(* made (born); with an old entry, those born before it are old.  The loop *)
(* of poll() is split at each key.                                         *)
(***************************************************************************)
EXTENDS Integers, Sequences, FiniteSets

CONSTANTS Kinds,       \* enabled, S12 among them
          S12,         \* the anchor, the lowest of them
          Capacity,    \* capacity, 32
          RetiredMax,  \* retired.maxlen, 32
          Sessions,    \* the sender's sessions, in the order it ran them: random numbers
          MaxFrame,    \* bound on the frame numbers of a session
          MaxArrived,  \* bound on the frames that arrive
          MaxWrong     \* bound on frames whose stamp differs between streams

JoinAssumption ==
  /\ S12 \in Kinds /\ Kinds \subseteq Nat \ {0} /\ IsFiniteSet(Kinds)
  /\ \A t \in Kinds : S12 <= t
  /\ {Capacity, RetiredMax, MaxFrame, MaxArrived} \subseteq Nat \ {0} /\ MaxWrong \in Nat
  /\ Sessions \in Seq(Nat \ {0})
  /\ \A i, j \in DOMAIN Sessions : Sessions[i] = Sessions[j] => i = j

\* What is retired reaches over every session that may still come.
Remembered == RetiredMax >= Len(Sessions)

VARIABLES
  queued,    \* receivers' frames
  arrived,   \* history: frames that were queued
  active, lastId,    \* active and last_id, 0: None
  retired,
  pending,   \* ordered dictionary: key, value and place
  orphan, evicted,
  pc, batch, \* update_data: incoming
  visit,     \* keys the poll has not come to
  final,     \* this poll is the last of the tick
  emitted,   \* history: what the model is given
  entered, dropped,  \* history: keys made, keys dropped by another session
  start      \* history: the tick began with the same frames in every receiver

joiner == <<active, lastId, retired, pending, orphan, evicted, entered, dropped>>
vars == <<queued, arrived, joiner, pc, batch, visit, final, emitted, start>>

Elements(s) == {s[i] : i \in DOMAIN s}
Last(s, n) == IF Len(s) <= n THEN s ELSE SubSeq(s, Len(s) - n + 1, Len(s))
Keys == {<<s, f>> : s \in Elements(Sessions), f \in 1 .. MaxFrame}
Run(s) == CHOOSE i \in DOMAIN Sessions : Sessions[i] = s
\* The sender's clock goes on over a restart.
Stamp(k) == Run(k[1]) * (MaxFrame + 1) + k[2]

NoStart == [keys |-> {}, emitted |-> 0, last |-> 0, active |-> 0]

Init ==
  /\ queued = {} /\ arrived = {}
  /\ active = 0 /\ lastId = 0 /\ retired = <<>> /\ pending = {}
  /\ orphan = 0 /\ evicted = 0 /\ entered = 0 /\ dropped = 0
  /\ pc = "idle" /\ batch = {} /\ visit = {} /\ final = FALSE
  /\ emitted = <<>>
  /\ start = NoStart

-----------------------------------------------------------------------------
(* The receivers.                                                          *)

Wrong == {x \in arrived : x.stamp # Stamp(x.key)}

\* The streams are independent, so what arrives while the tick takes or adds
\* could as well have come just before it or after it.
Arrive(kind, key, stamp) ==
  /\ pc = "idle"
  /\ \A x \in arrived : ~(x.kind = kind /\ x.key = key)
  /\ Cardinality(arrived) < MaxArrived
  /\ stamp = Stamp(key) \/ (stamp = Stamp(key) + 1 /\ Cardinality(Wrong) < MaxWrong)
  /\ LET x == [kind |-> kind, key |-> key, stamp |-> stamp]
     IN  queued' = queued \cup {x} /\ arrived' = arrived \cup {x}
  /\ start' = NoStart
  /\ UNCHANGED <<joiner, pc, batch, visit, final, emitted>>

-----------------------------------------------------------------------------
(* update_data.                                                            *)

\* Every receiver has the same frames, of one session that was not left.
Even(frames) ==
  /\ frames = {[kind |-> t, key |-> k, stamp |-> Stamp(k)] : t \in Kinds, k \in {x.key : x \in frames}}
  /\ \A x, y \in frames : x.key[1] = y.key[1] /\ x.key[1] \notin Elements(retired)

\* The timer fires: all that is there is taken.
Tick ==
  /\ pc = "idle" /\ pc' = "add"
  /\ batch' = queued /\ queued' = {}
  /\ start' = IF Even(queued) /\ pending = {}
              THEN [keys |-> {x.key : x \in queued}, emitted |-> Len(emitted),
                    last |-> lastId, active |-> active]
              ELSE NoStart
  /\ UNCHANGED <<arrived, joiner, visit, final, emitted>>

\* The order of the batch.
Before(x, y) ==
  \/ x.stamp < y.stamp
  \/ x.stamp = y.stamp /\ x.key[1] < y.key[1]
  \/ x.stamp = y.stamp /\ x.key[1] = y.key[1] /\ x.key[2] < y.key[2]
  \/ x.stamp = y.stamp /\ x.key = y.key /\ x.kind < y.kind

KeysOf(p) == {e.key : e \in p}

\* poll() looks at the clock: what has waited enough is old.
Aged(p) == {{[e EXCEPT !.old = @ \/ e.born <= n] : e \in p} : n \in {0} \cup {e.born : e \in p}}

StartPoll(p) == pending' \in Aged(p) /\ visit' = KeysOf(p) /\ pc' = "poll"

OfSession(p, s) == {e \in p : e.key[1] = s}

\* Mutant: another session leaves the old one's frames where they are.
TurnKeeping(x) ==
  IF x.kind = S12 /\ x.key[1] # active
  THEN [active |-> x.key[1], last |-> 0, retired |-> retired, pending |-> pending]
  ELSE [active |-> active, last |-> lastId, retired |-> retired, pending |-> pending]

\* An S12 frame of another session makes it the active one; its AUX frames that
\* came before it stay.
Turn(x) ==
  IF x.kind = S12 /\ x.key[1] # active
  THEN [active |-> x.key[1], last |-> 0,
        retired |-> IF active = 0 THEN retired ELSE Last(Append(retired, active), RetiredMax),
        pending |-> OfSession(pending, x.key[1])]
  ELSE [active |-> active, last |-> lastId, retired |-> retired, pending |-> pending]

TooLate(x, t) == x.key[1] = t.active /\ t.last # 0 /\ x.key[2] <= t.last

\* Into the entry of its key, the first of a kind.
Put(x, e) ==
  IF x.key = e.key /\ \A y \in e.streams : y.kind # x.kind
  THEN [e EXCEPT !.streams = @ \cup {[kind |-> x.kind, stamp |-> x.stamp]}]
  ELSE e

\* A new key may put the oldest out.
Room(p) ==
  IF Cardinality(p) < Capacity THEN p ELSE {e \in p : \E f \in p : f.born < e.born}

Entry(x, p) ==
  IF x.key \in KeysOf(p)
  THEN {Put(x, e) : e \in p}
  ELSE Room(p) \cup {[key |-> x.key, born |-> entered + 1, old |-> FALSE,
                      streams |-> {[kind |-> x.kind, stamp |-> x.stamp]}]}

\* add(), then the poll begins.
Add(x) ==
  /\ pc = "add" /\ x \in batch /\ \A y \in batch \ {x} : Before(x, y)
  /\ batch' = batch \ {x}
  /\ IF x.key[1] \in Elements(retired)
     THEN StartPoll(pending) /\ UNCHANGED <<active, lastId, retired, evicted, entered, dropped>>
     ELSE LET t == Turn(x) IN
          /\ active' = t.active /\ lastId' = t.last /\ retired' = t.retired
          /\ dropped' = dropped + Cardinality(pending) - Cardinality(t.pending)
          /\ IF TooLate(x, t)
             THEN StartPoll(t.pending) /\ UNCHANGED <<evicted, entered>>
             ELSE /\ StartPoll(Entry(x, t.pending))
                  /\ IF x.key \in KeysOf(t.pending)
                     THEN UNCHANGED <<evicted, entered>>
                     ELSE /\ entered' = entered + 1
                          /\ evicted' = evicted + Cardinality(t.pending)
                                                - Cardinality(Room(t.pending))
  /\ UNCHANGED <<queued, arrived, orphan, final, emitted, start>>

\* The last poll of the tick.
AddsDone ==
  /\ pc = "add" /\ batch = {}
  /\ StartPoll(pending) /\ final' = TRUE
  /\ UNCHANGED <<queued, arrived, active, lastId, retired, orphan, evicted, entered, dropped,
                 batch, emitted, start>>

-----------------------------------------------------------------------------
(* poll(), key by key.                                                     *)

Lower(k, l) == k[1] < l[1] \/ (k[1] = l[1] /\ k[2] < l[2])

\* Mutant: in the order of arrival.
FirstIn(e) ==
  /\ e \in pending /\ e.key \in visit
  /\ \A f \in pending : f.key \in visit => e.born <= f.born

\* The next key in the sorted order.
IsNext(e) ==
  /\ e \in pending /\ e.key \in visit
  /\ \A k \in visit \ {e.key} : Lower(e.key, k)

Visit(e) ==
  /\ pc = "poll" /\ IsNext(e) /\ visit' = visit \ {e.key}
  /\ UNCHANGED <<queued, arrived, active, retired, evicted, entered, dropped,
                 pc, batch, final, start>>

KindsOf(e) == {y.kind : y \in e.streams}
Anchored(e) == e.key[1] = active /\ S12 \in KindsOf(e)

\* Without its anchor: given up when it is old.
PollUnanchored(e) ==
  /\ Visit(e) /\ ~Anchored(e)
  /\ IF e.old
     THEN pending' = pending \ {e} /\ orphan' = orphan + 1
     ELSE UNCHANGED <<pending, orphan>>
  /\ UNCHANGED <<lastId, emitted>>

\* The timeout is what it waits for at most.
MustWait(e) == ~(Kinds \subseteq KindsOf(e)) /\ ~e.old

\* The frame is given the time to get complete, and those after it wait.
PollWaits(e) ==
  /\ pc = "poll" /\ IsNext(e)
  /\ Anchored(e) /\ MustWait(e)
  /\ visit' = {}
  /\ UNCHANGED <<queued, arrived, joiner, pc, batch, final, emitted, start>>

Matched(e) ==
  {y.kind : y \in {z \in e.streams : \E a \in e.streams : a.kind = S12 /\ z.stamp = a.stamp}}

\* Out with it; what carries another stamp than the anchor is left away.
PollEmits(e) ==
  /\ Visit(e) /\ Anchored(e) /\ ~MustWait(e)
  /\ pending' = pending \ {e}
  /\ IF lastId # 0 /\ e.key[2] <= lastId
     THEN UNCHANGED <<lastId, emitted>>
     ELSE /\ lastId' = e.key[2]
          /\ emitted' = Append(emitted, [key |-> e.key, kinds |-> Matched(e), waited |-> e.old])
  /\ UNCHANGED orphan

PollDone ==
  /\ pc = "poll" /\ visit = {}
  /\ pc' = (IF final THEN "idle" ELSE "add") /\ final' = FALSE
  /\ UNCHANGED <<queued, arrived, joiner, batch, visit, emitted, start>>

Gui == \/ Tick \/ AddsDone \/ PollDone
       \/ \E x \in batch : Add(x)
       \/ \E e \in pending : PollUnanchored(e) \/ PollWaits(e) \/ PollEmits(e)

Network == \E kind \in Kinds, key \in Keys : \E d \in {0, 1} : Arrive(kind, key, Stamp(key) + d)

Next == Network \/ Gui

Spec == Init /\ [][Next]_vars

-----------------------------------------------------------------------------
(* Properties.                                                             *)

FrameRec == [kind : Kinds, key : Keys, stamp : Nat]
EntryRec ==
  [key : Keys, born : Nat, old : BOOLEAN, streams : SUBSET [kind : Kinds, stamp : Nat]]

\* Every variable keeps its type, the ordered dictionary its capacity.
TypeOK ==
  /\ queued \subseteq arrived /\ arrived \subseteq FrameRec
  /\ active \in Elements(Sessions) \cup {0} /\ lastId \in 0 .. MaxFrame
  /\ retired \in Seq(Elements(Sessions)) /\ Len(retired) <= RetiredMax
  /\ pending \subseteq EntryRec /\ Cardinality(pending) <= Capacity
  /\ {orphan, evicted, entered, dropped} \subseteq Nat
  /\ pc \in {"idle", "add", "poll"}
  /\ batch \subseteq arrived /\ visit \subseteq Keys /\ final \in BOOLEAN
  /\ emitted \in Seq([key : Keys, kinds : SUBSET Kinds, waited : BOOLEAN])

\* What the model is given is in order: in a session every frame is after the
\* ones before it, and a session that was left does not come back, whatever
\* order the streams arrive in (ObservationHistory.push clears on a change).
EmittedInOrder ==
  \A i, j \in DOMAIN emitted : i < j =>
    LET a == emitted[i].key
        b == emitted[j].key
    IN  IF a[1] = b[1] THEN a[2] < b[2]
        ELSE \A k \in j .. Len(emitted) : emitted[k].key[1] # a[1]

\* An entry that could still be emitted is after the last one that was: the
\* branch of poll() that throws a frame away uncounted is never taken.
NothingIsPassedOver ==
  \A e \in pending : Anchored(e) => e.key[2] > lastId

\* Every key that was made is pending, was emitted, or is counted, but for what
\* another session drops.
KeysAccounted ==
  entered = Cardinality(pending) + Len(emitted) + orphan + evicted + dropped

\* A tick that finds the same frames in every receiver evicts none of them and
\* emits each with all its streams, however many there are, unless the timeout
\* passes within the tick ("draining one entire port first can otherwise evict
\* all matching S12 frames before AUX is visited").
EvenBatchIsJoined ==
  LET out == {emitted[i] : i \in start.emitted + 1 .. Len(emitted)}
  IN  pc = "idle" /\ (\A e \in out : ~e.waited)
        => \A key \in start.keys : key[1] # start.active \/ key[2] > start.last =>
             [key |-> key, kinds |-> Kinds, waited |-> FALSE] \in out

NothingIsForgotten == NothingIsPassedOver /\ KeysAccounted /\ EvenBatchIsJoined

=============================================================================
