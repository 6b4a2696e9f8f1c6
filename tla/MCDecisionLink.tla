--------------------------- MODULE MCDecisionLink ---------------------------
(***************************************************************************)
(* The adaptive loop with a unit of 50 ms: a decision every two units.     *)
(***************************************************************************)
EXTENDS DecisionLink

CONSTANTS f0, r0, Timeout

MCCap == [m \in Mcs |-> 2 * m + 2]
MCDbm == [m \in Mcs |-> 29 - m]

MCConfigs == {[flags |-> f0, probe |-> FALSE, stagger |-> TRUE, txctl |-> TRUE,
               timeout |-> Timeout, roi |-> r0, rate |-> MCCap,
               fec |-> [m \in Mcs |-> "wide"]]}

MCStatics == {[radio |-> [mcs |-> 1, flags |-> f0], fec |-> "wide", power |-> 20,
               enc |-> [rate |-> 6, roi |-> r0]]}

MCFecs == {"wide"}
=============================================================================
