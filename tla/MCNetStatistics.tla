--------------------------- MODULE MCNetStatistics ---------------------------
(* Two interfaces and as many cells; INT_MAX is scaled down to 31 and a     *)
(* millisecond to three microseconds, so that 11 ms overflow to a negative  *)
(* period.                                                                  *)
EXTENDS NetStatistics

\* Nothing is said of what follows an access to freed memory or past the end
\* of an array, or of malloc failing (only additions that meet leak cells); one
\* kind of meeting at a time is enough to see what it breaks.
Bounded ==
    /\ ~undefined /\ ~overrun
    /\ Cardinality(overlap) <= 1
    /\ Node \subseteq allocated => \A s \in Servlet : ~At(s, "insert")
=============================================================================
