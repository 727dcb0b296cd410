----------------------------- MODULE Waterfall -----------------------------
(***************************************************************************)
(* The ring of rows behind a waterfall (src/viewer/viewer.py,              *)
(* viewer_dual.py and WaterfallBuffer of viewer_fx.py): rows are written   *)
(* round a ring, missing frames as blank ones, and drawn oldest first.  A  *)
(* row is the session, frame and stamp of its spectrum.                    *)
(***************************************************************************)
EXTENDS Integers, FiniteSets, FiniteSetsExt

CONSTANTS HISTORY,   \* rows of a waterfall, 300
          ViewSessions, ViewFrames   \* bounds on what a sender sends

HistoryAssumption == {HISTORY, ViewSessions, ViewFrames} \subseteq Nat \ {0}

Slots == 0..(HISTORY - 1)
Row(session, frame, stamp) == [session |-> session, frame |-> frame, stamp |-> stamp]
Blank == Row(0, 0, 0)

EmptyRing == [row |-> [i \in Slots |-> Blank], write |-> 0]

Filled(ring) == [ring EXCEPT !.row = EmptyRing.row]

AppendRow(ring, row) ==
  [row |-> [ring.row EXCEPT ![ring.write] = row], write |-> (ring.write + 1) % HISTORY]

Sent(stamps) == [session : 1..ViewSessions, frame : 1..ViewFrames, stamp : stamps]

\* What a receiver may give after a row: later frames of its session, then
\* those of a later one.
Follows(a, b) ==
  \/ b.session = a.session /\ b.frame > a.frame
  \/ b.session > a.session

\* n times a blank row, n < HISTORY.
AppendBlanks(ring, n) ==
  [row |-> [i \in Slots |-> IF (i - ring.write) % HISTORY < n THEN Blank ELSE ring.row[i]],
   write |-> (ring.write + n) % HISTORY]

\* The rows as they are drawn: from the write position round to it.
Display(ring) == [i \in Slots |-> ring.row[(ring.write + i) % HISTORY]]

Gap(last, frame) == Max({0, frame - last - 1})

WithGap(ring, gap) == IF gap >= HISTORY THEN Filled(ring) ELSE AppendBlanks(ring, gap)

-----------------------------------------------------------------------------
(* What a waterfall should show.                                           *)

\* Rows of the frames up to last, the newest at the end, and a blank row for
\* each that is not among given.
RowsUpTo(last, given) ==
  [i \in Slots |->
     LET of == {r \in given : r.frame = last - (HISTORY - 1 - i)}
     IN  IF of = {} THEN Blank ELSE CHOOSE r \in of : TRUE]
=============================================================================
