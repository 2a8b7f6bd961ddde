--------------------------- MODULE SerialLauncher ---------------------------
(***************************************************************************)
(* What the local launch queue promises to the rest of the server: jobs    *)
(* are launched one at a time, in the order their requests arrived, the    *)
(* launcher is idle only when nobody waits, and every launch ends.  A      *)
(* restart forgets whatever had arrived.                                   *)
(***************************************************************************)
EXTENDS Naturals, Sequences

CONSTANT Jobs

VARIABLES
    arrived,   \* jobs in order of arrival, since the last restart
    started,   \* how many of them were started
    idle       \* no launch is going on

vars == <<arrived, started, idle>>

Init == arrived = <<>> /\ started = 0 /\ idle = TRUE

Arrive(j) ==
    /\ \A i \in 1..Len(arrived) : arrived[i] # j
    /\ arrived' = Append(arrived, j)
    /\ started' = IF idle THEN started + 1 ELSE started
    /\ idle' = FALSE

\* A launch ends: the next in line starts, if there is one.
Finish ==
    /\ ~ idle
    /\ \/ started < Len(arrived) /\ started' = started + 1 /\ idle' = FALSE
       \/ started = Len(arrived) /\ started' = started /\ idle' = TRUE
    /\ UNCHANGED arrived

Restart == arrived' = <<>> /\ started' = 0 /\ idle' = TRUE

Next == (\E j \in Jobs : Arrive(j)) \/ Finish \/ Restart

Spec == Init /\ [][Next]_vars /\ WF_vars(Finish)

=============================================================================
