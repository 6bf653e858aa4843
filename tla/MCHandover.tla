----------------------------- MODULE MCHandover -----------------------------
(* The handover experiment with two APs and one station. *)
EXTENDS Handover, TLC

CONSTANTS ap1, ap2

\* Both APs above the threshold, one at it, and none seen.
Scans == {<<>>,
          <<[mac |-> ap1, signal |-> -60], [mac |-> ap2, signal |-> -60]>>,
          <<[mac |-> ap2, signal |-> -89], [mac |-> ap1, signal |-> -90]>>}

\* Bound: one restart, one failed exchange, or a connection during a hello.
Bounded == restarts + faults + (IF shared THEN 1 ELSE 0) <= 1

\* DEFAULT_SIGNAL_THRESHOLD
DefaultSignalThreshold == -90

Symmetry == Permutations(Thread) \cup Permutations(Address)

=============================================================================
