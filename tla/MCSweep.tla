------------------------------ MODULE MCSweep ------------------------------
(***************************************************************************)
(* Two configurations, two metric values.  The worker and a request for    *)
(* the results read the same records and write none that the other reads,  *)
(* so that each of them is followed while the other one rests; a request   *)
(* looks at the children only, so that it is followed while the parent     *)
(* runs, before a restart, which ends it, and with one user act.           *)
(***************************************************************************)
EXTENDS Sweep
MCMetrics == {1, 2}

Apart == \/ query'.at = "rest"
         \/ worker'.at = "rest" /\ parent'.status = "RUNNING"
            /\ restarts' = 0 /\ acts' < MaxUserActs
MCSpec == Init /\ [][Next /\ Apart]_vars /\ Fairness
=============================================================================
