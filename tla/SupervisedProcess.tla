-------------------------- MODULE SupervisedProcess --------------------------
(***************************************************************************)
(* What every child supervisor of the ground station promises its caller,  *)
(* however it is written: a child runs only between the operator's start   *)
(* and stop, it is brought back after it exits, and giving up is final     *)
(* until the next start.  GsSupervision implements it three times.         *)
(***************************************************************************)
VARIABLES
    want,    \* the operator asked for the child to run
    st       \* "on": a process is alive, "off": none is, "fault": given up

svars == <<want, st>>

Init == want = FALSE /\ st = "off"

Start ==
    /\ ~want
    /\ want' = TRUE
    /\ st' = "off"

Up ==
    /\ want
    /\ st = "off"
    /\ st' = "on"
    /\ UNCHANGED want

Down ==
    /\ st = "on"
    /\ st' = "off"
    /\ UNCHANGED want

GiveUp ==
    /\ want
    /\ st # "fault"
    /\ st' = "fault"
    /\ UNCHANGED want

Stop ==
    /\ want
    /\ want' = FALSE
    /\ UNCHANGED st

Next == Start \/ Up \/ Down \/ GiveUp \/ Stop

Spec == Init /\ [][Next]_svars

=============================================================================
