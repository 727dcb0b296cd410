------------------------------ MODULE DualView ------------------------------
(***************************************************************************)
(* The two waterfalls of src/viewer/viewer_dual.py: the frames of two      *)
(* receivers are paired by number, stamp and count, and committed to both  *)
(* panels in order, one that has no partner after pair_wait.               *)
(*                                                                         *)
(* The senders are apart: each has sessions and losses of its own, and a   *)
(* frame number may stand for another cycle (stamp) in the other stream.   *)
(***************************************************************************)
EXTENDS Waterfall

CONSTANTS PairMax,   \* frames that wait in a channel, 32
          PairWait,     \* pair_wait, in units of time
          Stamps        \* of the frames of each channel

Channels == {1, 2}

DualAssumption == {PairMax, PairWait} \subseteq Nat \ {0} /\ Stamps \in [Channels -> SUBSET Nat]

VARIABLES
  dual,   \* the viewer
  turn    \* where the timer's call is: in which receiver's frames, or in
          \* commit_ready()

dualVars == <<dual, turn>>

NoRing == [c \in Channels |-> EmptyRing]
NoPending == [c \in Channels |-> {}]

\* session, heard: sessions and last_received; ring, latest: of the panels;
\* pending: rows that wait, with the time since they came; given: history,
\* the last rows the panels were given since they were reset.
NewView ==
  [session |-> [c \in Channels |-> 0], heard |-> [c \in Channels |-> 0],
   pending |-> NoPending, committed |-> 0, delta |-> 0,
   ring |-> NoRing, latest |-> [c \in Channels |-> Blank],
   given |-> NoPending]

ResetPairing(s) ==
  [s EXCEPT !.pending = NoPending, !.committed = 0, !.delta = 0,
            !.ring = NoRing, !.latest = [c \in Channels |-> Blank], !.given = NoPending]

OtherSession(s, c, session) ==
  [(IF s.session[c] = 0 THEN s ELSE ResetPairing(s)) EXCEPT
     !.session[c] = session, !.heard[c] = 0]

Bounded(pending) ==
  IF Cardinality(pending) <= PairMax THEN pending
  ELSE {p \in pending : \E q \in pending : q.row.frame < p.row.frame}

Accept(s, c, row) ==
  IF s.committed # 0 /\ row.frame <= s.committed
  THEN [s EXCEPT !.heard[c] = row.frame]
  ELSE [s EXCEPT !.heard[c] = row.frame,
                 !.pending[c] = Bounded(@ \cup {[row |-> row, age |-> 0]})]

\* One frame of ingest().
IngestFrame(s, c, row) ==
  LET t == IF row.session = s.session[c] THEN s ELSE OtherSession(s, c, row.session)
  IN  IF t.heard[c] # 0 /\ row.frame <= t.heard[c] THEN t ELSE Accept(t, c, row)

Matched(one, two) == one # Blank /\ two # Blank /\ one.stamp = two.stamp

WaitingRow(s, c, frame) ==
  LET of == {p \in s.pending[c] : p.row.frame = frame}
  IN  IF of = {} THEN Blank ELSE (CHOOSE p \in of : TRUE).row

Waiting(s) == {p.row.frame : p \in s.pending[1] \cup s.pending[2]}

\* A frame is committed once it is paired or has waited.
Ready(s, frame) ==
  \/ Matched(WaitingRow(s, 1, frame), WaitingRow(s, 2, frame))
  \/ \E p \in s.pending[1] \cup s.pending[2] : p.row.frame = frame /\ p.age >= PairWait

\* What a panel shows of a frame: nothing when the two are of two cycles.
Shown(one, two, c) ==
  IF one # Blank /\ two # Blank /\ ~Matched(one, two) THEN Blank ELSE <<one, two>>[c]

NowGiven(s, frame, row) ==
  [c \in Channels |-> {r \in (s.given[c] \cup {row[c]}) \ {Blank} : r.frame > frame - HISTORY}]

WithGapAnew(ring, gap) == IF gap >= HISTORY THEN EmptyRing ELSE AppendBlanks(ring, gap)

\* Mutant: the panel that has no row of a frame is not moved on.
RowsOne(s, frame, row) ==
  LET gap == IF s.committed = 0 THEN 0 ELSE frame - s.committed - 1
  IN  [c \in Channels |-> IF row[c] = Blank THEN s.ring[c]
                          ELSE AppendRow(WithGapAnew(s.ring[c], gap), row[c])]

\* The panels with what was missed since the last frame, and this one.
Rows(s, frame, row) ==
  LET gap == IF s.committed = 0 THEN 0 ELSE frame - s.committed - 1
  IN  [c \in Channels |-> AppendRow(WithGapAnew(s.ring[c], gap), row[c])]

\* The frame whose peaks are compared.
Delta(s, frame, paired) == IF paired THEN frame ELSE 0

Without(s, frame) ==
  [s EXCEPT !.pending = [c \in Channels |-> {p \in s.pending[c] : p.row.frame # frame}]]

Drawn(s, frame) ==
  LET one == WaitingRow(s, 1, frame)
      two == WaitingRow(s, 2, frame)
      row == [c \in Channels |-> Shown(one, two, c)]
  IN  [Without(s, frame) EXCEPT
         !.ring = Rows(s, frame, row),
         !.latest = row,
         !.delta = Delta(s, frame, Matched(one, two)),
         !.committed = frame,
         !.given = NowGiven(s, frame, row)]

Aged(s, dt) ==
  [s EXCEPT !.pending =
     [c \in Channels |-> {[p EXCEPT !.age = Min({PairWait, @ + dt})] : p \in @[c]}]]

DualInit == dual = NewView /\ turn = "idle"

\* The timer of the viewer, some time after it was last here.
Tick ==
  /\ turn = "idle" /\ turn' = "first"
  /\ \E dt \in 0..PairWait : dual' = Aged(dual, dt)

\* update_data(): both receivers are read, then what is ready is committed.
Ingest(c) ==
  /\ turn = IF c = 1 THEN "first" ELSE "second"
  /\ \E row \in Sent(Stamps[c]) :
       /\ Follows(Row(dual.session[c], dual.heard[c], 0), row)
       /\ dual' = IngestFrame(dual, c, row)
  /\ UNCHANGED turn

Ingested ==
  /\ turn \in {"first", "second"}
  /\ turn' = IF turn = "first" THEN "second" ELSE "commit"
  /\ UNCHANGED dual

\* The frame the loop of commit_ready() is at.
Due(frame) == (\A f \in Waiting(dual) : frame <= f) /\ Ready(dual, frame)

Commit ==
  /\ turn = "commit"
  /\ \E frame \in Waiting(dual) :
       /\ Due(frame)
       /\ dual' = IF dual.committed # 0 /\ frame <= dual.committed THEN Without(dual, frame)
                  ELSE Drawn(dual, frame)
  /\ UNCHANGED turn

Committed ==
  /\ turn = "commit" /\ turn' = "idle"
  /\ ~ \E frame \in Waiting(dual) : Due(frame)
  /\ UNCHANGED dual

DualNext == Tick \/ (\E c \in Channels : Ingest(c)) \/ Ingested \/ Commit \/ Committed

DualSpec == DualInit /\ [][DualNext]_dualVars

-----------------------------------------------------------------------------
(* Properties.                                                             *)

\* What waits is bounded, is of the session of its channel, and is ahead of
\* what was committed (ingest()).
PendingAhead ==
  \A c \in Channels :
    /\ Cardinality(dual.pending[c]) <= PairMax
    /\ \A p \in dual.pending[c] : p.row.session = dual.session[c] /\ p.row.frame > dual.committed

\* Both panels show the frames by number up to the one committed last, each
\* in the same line, and a blank row for each one missed.
PanelsShowHistory ==
  \A c \in Channels : Display(dual.ring[c]) = RowsUpTo(dual.committed, dual.given[c])

\* The rows drawn in a line are of one cycle, and all those of a panel are of
\* the session its channel is in ("Equal id but unequal timestamp/count is not
\* the same cycle").
OneCycle ==
  \A i \in Slots :
    LET one == Display(dual.ring[1])[i]
        two == Display(dual.ring[2])[i]
    IN  /\ one # Blank /\ two # Blank => one.frame = two.frame /\ one.stamp = two.stamp
        /\ one # Blank => one.session = dual.session[1]
        /\ two # Blank => two.session = dual.session[2]

\* The peaks that are compared are those of the two rows drawn last.
DeltaIsDrawn ==
  dual.delta # 0 => \A c \in Channels : dual.latest[c] # Blank /\ dual.latest[c].frame = dual.delta

\* The two panels are one picture of one history.
PanelsAgree == PendingAhead /\ PanelsShowHistory /\ OneCycle /\ DeltaIsDrawn
=============================================================================
