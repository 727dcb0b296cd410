----------------------------- MODULE Reassembly -----------------------------
(***************************************************************************)
(* SOL2 over UDP, from the sender to the viewer's queue: send_spectrum     *)
(* cuts a spectrum into chunks, one datagram each (src/src/                *)
(* telemetry_sender.hpp); the network loses, repeats, reorders and damages *)
(* them; the receiver thread feeds a Reassembler and queues what it        *)
(* completes (src/viewer/telemetry_protocol.py).                           *)
(*                                                                         *)
(* A datagram is its session, frame and chunk index; meta and val stand    *)
(* for its stamp and samples, and say whether they are as sent.  What is   *)
(* sent may arrive at any time, and any number of times.  Of the counters  *)
(* those are kept that count frames.                                       *)
(***************************************************************************)
EXTENDS Integers, Sequences, FiniteSets

CONSTANTS Version,       \* 2: one legacy stream, 3: a typed stream
          Chunks,        \* CHUNKS
          PendingMax,    \* frames under assembly, 8
          CompletedMax,  \* completed.maxlen, 64
          Window,        \* how far behind last_id a v3 frame may be, 8
          RetiredMax,    \* retired.maxlen, 32
          FramesMax,     \* frames.maxlen, 300
          DrainMax,      \* datagrams in a drain, 512
          Peers,         \* source addresses under which datagrams arrive
          Sessions,      \* bound on the sender's sessions
          MaxFrame,      \* bound on the frame numbers
          MaxBegun,      \* bound on the frames whose assembly is begun
          MaxFaults      \* bound on failing sends and damaged datagrams

ASSUME ReassemblyAssumption ==
  /\ Version \in {2, 3}
  /\ {Chunks, PendingMax, CompletedMax, RetiredMax, FramesMax, DrainMax,
      Sessions, MaxFrame, MaxBegun} \subseteq Nat \ {0}
  /\ {Window, MaxFaults} \subseteq Nat

VARIABLES
  \* the sender
  session, frame, chunk,   \* session_, id, c
  sent,        \* datagrams the kernel took
  faults,
  \* the Reassembler
  active,      \* stream of the last frame begun: peer and session
  lastId,      \* last_id, 0: None
  retired, completed,
  pending,     \* the frames under assembly
  incomplete, complete, gaps,
  \* the receiver thread and its reader
  pc, drained, stop,
  frames,      \* frames completed and not taken
  begun, conflicts, seen,  \* history: frames begun, given up, delivered
  first                    \* history: the one that last_id began with

sender   == <<session, frame, chunk, sent>>
stream   == <<active, lastId, retired, completed>>
handed   == <<complete, gaps, first, seen, frames>>
assembly == <<pending, incomplete, begun, conflicts, handed>>
thread   == <<pc, drained, stop>>
vars == <<sender, faults, stream, assembly, thread>>

NoStream == [peer |-> 0, session |-> 0]
Elements(s) == {s[i] : i \in DOMAIN s}
Last(s, n) == IF Len(s) <= n THEN s ELSE SubSeq(s, Len(s) - n + 1, Len(s))

Init ==
  /\ session = 1 /\ frame = 1 /\ chunk = 0 /\ sent = {} /\ faults = 0
  /\ active = NoStream /\ lastId = 0 /\ retired = <<>> /\ completed = <<>>
  /\ pending = {} /\ incomplete = 0 /\ complete = 0 /\ gaps = 0
  /\ pc = "select" /\ drained = 0 /\ stop = FALSE
  /\ frames = <<>>
  /\ begun = 0 /\ conflicts = 0 /\ seen = {} /\ first = 1

-----------------------------------------------------------------------------
(* The sender.                                                             *)

receiver == <<stream, assembly, thread>>

Fault == faults < MaxFaults /\ faults' = faults + 1

\* sendto takes a datagram; after the last one the frame is queued.
SendChunk ==
  /\ frame <= MaxFrame
  /\ sent' = sent \cup {[session |-> session, frame |-> frame, idx |-> chunk]}
  /\ IF chunk + 1 < Chunks
     THEN chunk' = chunk + 1 /\ UNCHANGED frame
     ELSE chunk' = 0 /\ frame' = frame + 1
  /\ UNCHANGED <<session, faults, receiver>>

\* It fails: the remainder of the frame is abandoned.
AbandonFrame ==
  /\ frame <= MaxFrame /\ Fault
  /\ chunk' = 0 /\ frame' = frame + 1
  /\ UNCHANGED <<session, sent, receiver>>

\* The program starts again, with a session and frame numbers of its own.
NewSession ==
  /\ session < Sessions
  /\ session' = session + 1 /\ frame' = 1 /\ chunk' = 0
  /\ UNCHANGED <<sent, faults, receiver>>

-----------------------------------------------------------------------------
(* The Reassembler.                                                        *)

\* expire: the frames begun up to b were born too long ago.  A frame is born
\* with its place among the frames begun.
Births == {0} \cup {p.born : p \in pending}
Kept(b) == {p \in pending : p.born > b}
Expired(b) == Cardinality(pending \ Kept(b))

Stream(d) == [peer |-> d.peer, session |-> d.session]

Refused(d, quiet) ==
  \/ Version = 3 /\ d.session \in Elements(retired)
  \/ /\ active \notin {NoStream, Stream(d)}
     /\ IF Version = 2 THEN ~quiet ELSE d.session = active.session

\* Mutant: the frames that another stream drops are not counted.
AnchoredUncounted(d, b) ==
  IF Stream(d) = active
  THEN [pending |-> Kept(b), lastId |-> lastId, completed |-> completed, cleared |-> 0]
  ELSE [pending |-> {}, lastId |-> 0, completed |-> <<>>, cleared |-> 0]

\* Mutant: the frames of the stream before are kept.
AnchoredKeepingFrames(d, b) ==
  IF Stream(d) = active
  THEN [pending |-> Kept(b), lastId |-> lastId, completed |-> completed, cleared |-> 0]
  ELSE [pending |-> Kept(b), lastId |-> 0, completed |-> <<>>, cleared |-> 0]

\* What the handler goes on with: another stream than the active one drops
\* all that is pending.
Anchored(d, b) ==
  IF Stream(d) = active
  THEN [pending |-> Kept(b), lastId |-> lastId, completed |-> completed, cleared |-> 0]
  ELSE [pending |-> {}, lastId |-> 0, completed |-> <<>>,
        cleared |-> Cardinality(Kept(b))]

Late(d, a) ==
  IF Version = 2 THEN a.lastId # 0 /\ d.frame <= a.lastId
  ELSE \/ d.frame \in Elements(a.completed)
       \/ a.lastId # 0 /\ d.frame < a.lastId - Window

Slot(fs, n) == {p \in fs : p.frame = n}
New(d, a) == Slot(a.pending, d.frame) = {}

\* A frame not seen yet takes the place of the oldest when there are too many.
Full(d, a) == New(d, a) /\ Cardinality(a.pending) >= PendingMax
Oldest(fs) == CHOOSE p \in fs : \A q \in fs : p.born <= q.born
Room(d, a) ==
  IF ~New(d, a) THEN a.pending
  ELSE (IF Full(d, a) THEN a.pending \ {Oldest(a.pending)} ELSE a.pending)
       \cup {[frame |-> d.frame, meta |-> d.meta, parts |-> {}, born |-> begun + 1]}

\* A legacy stream shows the latest frame: older ones are dropped.
Newer(fs) == {p \in fs : Version = 3 \/ p.frame >= lastId'}

Part(d) == [peer |-> d.peer, session |-> d.session, frame |-> d.frame,
            idx |-> d.idx, val |-> d.val]

\* The chunk is in the frame already; another content gives the frame up.
Repeat(d, a, fs, p) ==
  /\ \E x \in p.parts : x.idx = d.idx
  /\ IF \E x \in p.parts : x.idx = d.idx /\ x.val = d.val
     THEN pending' = fs /\ completed' = a.completed /\ UNCHANGED conflicts
     ELSE /\ pending' = fs \ {p}
          /\ completed' = IF Version = 3 THEN Last(Append(a.completed, d.frame), CompletedMax)
                          ELSE a.completed
          /\ conflicts' = conflicts + 1
  /\ lastId' = a.lastId
  /\ UNCHANGED handed

\* A chunk that is not the last one missing.
Store(d, a, fs, p) ==
  /\ \A x \in p.parts : x.idx # d.idx
  /\ Cardinality(p.parts) + 1 < Chunks
  /\ pending' = (fs \ {p}) \cup {[p EXCEPT !.parts = @ \cup {Part(d)}]}
  /\ lastId' = a.lastId /\ completed' = a.completed
  /\ UNCHANGED <<conflicts, handed>>

\* The numbers between the last frame and a complete one are gaps.
Skipped(d, a) == IF a.lastId # 0 /\ d.frame > a.lastId THEN d.frame - a.lastId - 1 ELSE 0

\* The last chunk: the thread queues the frame, over the oldest if need be.
Complete(d, a, fs, p) ==
  /\ \A x \in p.parts : x.idx # d.idx
  /\ Cardinality(p.parts) + 1 = Chunks
  /\ gaps' = gaps + Skipped(d, a)
  /\ lastId' = IF d.frame > a.lastId THEN d.frame ELSE a.lastId
  /\ first' = IF a.lastId = 0 THEN d.frame ELSE first
  /\ completed' = Last(Append(a.completed, d.frame), CompletedMax)
  /\ pending' = Newer(fs \ {p})
  /\ complete' = complete + 1 /\ seen' = seen \cup {<<d.session, d.frame>>}
  /\ frames' = Last(Append(frames, [session |-> d.session, frame |-> d.frame,
                                    parts |-> p.parts \cup {Part(d)}]), FramesMax)
  /\ UNCHANGED conflicts

\* A chunk whose stamp is not that of its frame.
Mismatch(d, a, fs) ==
  /\ pending' = fs /\ lastId' = a.lastId /\ completed' = a.completed
  /\ UNCHANGED <<conflicts, handed>>

\* feed() of a datagram that is well formed.
Feed(d) ==
  \E b \in Births, quiet \in BOOLEAN :
    /\ quiet => Version = 2 /\ Kept(b) = {}    \* 1 s without a chunk, 0.75 s to live
    /\ IF Refused(d, quiet)
       THEN /\ pending' = Kept(b) /\ incomplete' = incomplete + Expired(b)
            /\ UNCHANGED <<stream, begun, conflicts, handed>>
       ELSE LET a  == Anchored(d, b)
                fs == Room(d, a)
                p  == CHOOSE q \in Slot(fs, d.frame) : TRUE
            IN
            /\ active' = Stream(d)
            /\ retired' = IF Version = 3 /\ active \notin {NoStream, Stream(d)}
                          THEN Last(Append(retired, active.session), RetiredMax)
                          ELSE retired
            /\ IF Late(d, a)
               THEN /\ pending' = a.pending /\ lastId' = a.lastId /\ completed' = a.completed
                    /\ incomplete' = incomplete + Expired(b) + a.cleared
                    /\ UNCHANGED <<begun, conflicts, handed>>
               ELSE /\ begun' = begun + IF New(d, a) THEN 1 ELSE 0
                    /\ IF p.meta # d.meta THEN Mismatch(d, a, fs)
                       ELSE Repeat(d, a, fs, p) \/ Store(d, a, fs, p) \/ Complete(d, a, fs, p)
                    /\ incomplete' = incomplete + Expired(b) + a.cleared
                         + (IF Full(d, a) THEN 1 ELSE 0)
                         + (IF complete' > complete
                            THEN Cardinality(fs) - 1 - Cardinality(pending') ELSE 0)

\* feed() of one that is not: foreign, of a wrong size, version, type or
\* layout, or with values out of range.
FeedInvalid ==
  \E b \in Births :
    /\ pending' = Kept(b) /\ incomplete' = incomplete + Expired(b)
    /\ UNCHANGED <<stream, begun, conflicts, handed>>

-----------------------------------------------------------------------------
(* The receiver thread and its reader.                                     *)

\* The loop: select answers, or times out.
Select ==
  /\ pc = "select"
  /\ IF stop THEN pc' = "done" /\ UNCHANGED assembly
     ELSE /\ \E b \in Births :
               pending' = Kept(b) /\ incomplete' = incomplete + Expired(b)
          /\ pc' \in {"select", "drain"}
          /\ UNCHANGED <<begun, conflicts, handed>>
  /\ drained' = 0
  /\ UNCHANGED <<sender, faults, stream, stop>>

\* A datagram is there.
Receive(d) ==
  /\ pc = "drain" /\ drained < DrainMax /\ ~stop
  /\ drained' = drained + 1
  /\ Feed(d) /\ begun' <= MaxBegun
  /\ UNCHANGED <<sender, pc, stop>>

ReceiveInvalid ==
  /\ pc = "drain" /\ drained < DrainMax /\ ~stop
  /\ drained' = drained + 1
  /\ FeedInvalid /\ Fault
  /\ UNCHANGED <<sender, pc, stop>>

\* There is none, or enough were read, or the thread is to stop.
DrainEnds ==
  /\ pc = "drain"
  /\ pc' = "select" /\ drained' = 0
  /\ UNCHANGED <<sender, faults, stream, assembly, stop>>

\* An OSError of the socket ends the thread.
SocketFails ==
  /\ pc \in {"select", "drain"} /\ Fault
  /\ pc' = "done"
  /\ UNCHANGED <<sender, stream, assembly, drained, stop>>

Take ==
  /\ frames # <<>>
  /\ frames' = <<>>
  /\ UNCHANGED <<sender, faults, stream, thread, pending, incomplete, begun, conflicts,
                 complete, gaps, first, seen>>

\* close() sets the event, then waits for the thread.
Close ==
  /\ ~stop
  /\ stop' = TRUE
  /\ UNCHANGED <<sender, faults, stream, assembly, pc, drained>>

\* What arrives: a datagram that was sent, as it was or damaged.
Arrivals(meta, val) ==
  {[peer |-> p, session |-> s.session, frame |-> s.frame, idx |-> s.idx,
    meta |-> meta, val |-> val] : s \in sent, p \in Peers}

Deliver == \E d \in Arrivals("sent", "sent") : Receive(d) /\ UNCHANGED faults
DeliverDamaged ==
  \E d \in Arrivals("sent", "other") \cup Arrivals("other", "sent") : Receive(d) /\ Fault

Thread == Select \/ Deliver \/ DeliverDamaged \/ ReceiveInvalid \/ DrainEnds
          \/ SocketFails

Ended == pc = "done" /\ stop /\ UNCHANGED vars

Next == SendChunk \/ AbandonFrame \/ NewSession \/ Thread \/ Take \/ Close \/ Ended

Spec == Init /\ [][Next]_vars

-----------------------------------------------------------------------------
(* Properties.                                                             *)

PartRec == [peer : Peers, session : Nat, frame : Nat, idx : Nat, val : {"sent", "other"}]

\* Every variable keeps its type, every buffer its bound.
TypeOK ==
  /\ {session, frame, chunk, faults, lastId, incomplete, complete, gaps,
      drained, begun, conflicts, first} \subseteq Nat
  /\ sent \subseteq [session : Nat, frame : Nat, idx : 0 .. Chunks - 1]
  /\ active \in [peer : Peers \cup {0}, session : Nat]
  /\ retired \in Seq(Nat) /\ Len(retired) <= RetiredMax
  /\ completed \in Seq(Nat) /\ Len(completed) <= CompletedMax
  /\ pending \subseteq [frame : Nat, meta : {"sent", "other"}, parts : SUBSET PartRec,
                        born : Nat]
  /\ IsFiniteSet(pending) /\ Cardinality(pending) <= PendingMax
  /\ frames \in Seq([session : Nat, frame : Nat, parts : SUBSET PartRec])
  /\ Len(frames) <= FramesMax
  /\ pc \in {"select", "drain", "done"} /\ stop \in BOOLEAN
  /\ drained <= DrainMax
  /\ seen \subseteq Nat \X Nat

\* A frame that is handed over has every chunk once, and all of them come from
\* that frame of that session of one peer, whatever was lost, repeated,
\* reordered or left over from a session before (Reassembler.feed).
NoMixedFrame ==
  \A n \in DOMAIN frames :
    LET f == frames[n] IN
    /\ {p.idx : p \in f.parts} = 0 .. Chunks - 1 /\ Cardinality(f.parts) = Chunks
    /\ \E peer \in Peers : \A p \in f.parts :
         p.peer = peer /\ p.session = f.session /\ p.frame = f.frame

\* "completed" and "retired" reach over what may still arrive: as many numbers
\* before a frame as after it, those given up for a conflict, and every session
\* that was left.
Remembered == CompletedMax > 2 * Window + MaxFaults /\ RetiredMax >= Sessions - 1

\* A typed frame is handed over once, if so much is remembered.
AtMostOnce == Version = 3 => complete = Cardinality(seen)

\* What the reader is handed is a frame, and no frame twice.
FramesAreOwn == NoMixedFrame /\ AtMostOnce

\* Every frame begun is under assembly, complete, given up for a conflict, or
\* counted incomplete: by expiry, by a newer frame, by a full table or by
\* another session.
FramesAccounted == begun = Cardinality(pending) + complete + incomplete + conflicts

\* The numbers of the active session that were handed over.
Given == {x[2] : x \in {y \in seen : y[1] = active.session}}

\* From the first frame handed over to the last one, every number that was not
\* is in frame_gaps: the loss the viewer shows is never too small, whatever the
\* window lets in late.  What comes late before the first adds nothing to it.
GapsCoverLosses == Cardinality((first .. lastId) \ Given) <= gaps

\* No frame is lost unseen.
LossesAreCounted == FramesAccounted /\ GapsCoverLosses

=============================================================================
