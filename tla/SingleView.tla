----------------------------- MODULE SingleView -----------------------------
(***************************************************************************)
(* The waterfall of one legacy stream (src/viewer/viewer.py).  The         *)
(* receiver gives the frames of a session in increasing order; those that  *)
(* came since the last call of the timer are taken one by one, then drawn. *)
(***************************************************************************)
EXTENDS Waterfall

VARIABLES
  view,      \* the ring, last_session, last_id and display
  drawn,     \* whether the timer's call has drawn what it took
  received   \* history: the rows of the session, as the receiver gave them

singleVars == <<view, drawn, received>>

\* One turn of update_data()'s loop, and push_frame() of WaterfallBuffer.
Push(was, row) ==
  LET same == row.session = was.session
      ring == IF same THEN was.ring ELSE EmptyRing
      gap  == IF same /\ was.last # 0 THEN Gap(was.last, row.frame) ELSE 0
  IN  [was EXCEPT !.ring = AppendRow(WithGap(ring, gap), row),
                  !.session = row.session, !.last = row.frame]

SingleInit ==
  /\ view = [ring |-> EmptyRing, session |-> 0, last |-> 0, display |-> Display(EmptyRing)]
  /\ drawn = TRUE /\ received = {}

TakeFrame ==
  \E row \in Sent({1}) :
    /\ Follows(Row(view.session, view.last, 0), row)
    /\ view' = Push(view, row)
    /\ received' = {r \in received : r.session = row.session} \cup {row}
    /\ drawn' = FALSE

Draw ==
  /\ ~drawn /\ drawn' = TRUE
  /\ view' = [view EXCEPT !.display = Display(view.ring)]
  /\ UNCHANGED received

SingleNext == TakeFrame \/ Draw

SingleSpec == SingleInit /\ [][SingleNext]_singleVars

-----------------------------------------------------------------------------
(* Properties.                                                             *)

\* The waterfall is the frames of this session by number: a row for each of
\* the last HISTORY of them, blank when it was missed (update_data()).
DisplayIsHistory == drawn => view.display = RowsUpTo(view.last, received)
=============================================================================
