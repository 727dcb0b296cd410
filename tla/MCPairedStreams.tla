-------------------------- MODULE MCPairedStreams --------------------------
(* PairedStreams with a ring of three batches and a snapshot of two.       *)
EXTENDS PairedStreams

\* A channel that has lost samples ends the acquisition, and start-up comes to
\* an end in any case (main.cpp, the loops that test check_children_alive()).
AcquisitionEnds == LossStops /\ StartupEnds
=============================================================================
