---------------------------- MODULE InterfaceSet ----------------------------
(***************************************************************************)
(* What the list of net_statistics.c promises its callers: the set of the  *)
(* interfaces added and not removed, of which "get mean values for each    *)
(* added interface" returns every one.  Nothing is promised once callers   *)
(* have disturbed each other (damaged): the list has no lock.              *)
(***************************************************************************)
CONSTANT Intf

VARIABLES added,    \* the interfaces with statistics
          got,      \* those get_all_mean_net_statistics has returned
          damaged   \* callers have met in a way the list does not support

Init == added = {} /\ got = {} /\ ~damaged

Add == \E i \in Intf : added' = added \cup {i} /\ UNCHANGED got

Remove == \E i \in Intf : added' = added \ {i} /\ UNCHANGED got

GetAll == got' = added /\ UNCHANGED added

\* The caller has used the answer.
Forget == got' = {} /\ UNCHANGED added

Next == ~damaged' => Add \/ Remove \/ GetAll \/ Forget

Spec == Init /\ [][Next]_<<added, got, damaged>>
=============================================================================
