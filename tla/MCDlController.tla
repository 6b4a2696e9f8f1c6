--------------------------- MODULE MCDlController ---------------------------
(***************************************************************************)
(* Small instances of DlController: two or three rungs and configurations  *)
(* that differ in every knob the loop reads.                               *)
(***************************************************************************)
EXTENDS DlController

CONSTANTS f0, f1, r0, r1

MCCap == [m \in Mcs |-> 2 * m + 2]
MCDbm == [m \in Mcs |-> 29 - m]

Base == [flags |-> f0, probe |-> TRUE, stagger |-> TRUE, txctl |-> TRUE,
         timeout |-> 1, roi |-> r0, rate |-> MCCap,
         fec |-> [m \in Mcs |-> IF m = 0 THEN "narrow" ELSE "wide"]]

\* The clamp of maxBitrateKbps makes two rungs produce the same bitrate.
Clamped == [Base EXCEPT !.flags = f1, !.probe = FALSE, !.txctl = FALSE,
                        !.roi = r1,
                        !.rate = [m \in Mcs |-> IF m = 0 THEN 2 ELSE 3]]

Reflagged == [Base EXCEPT !.flags = f1]

TwoConfigs == {Base, Clamped}
FlagConfigs == {Base, Reflagged}
OneConfig == {Base}

\* A static configuration whose bitrate its rung does not carry.
MCStatics == {[radio |-> [mcs |-> 1, flags |-> f0], fec |-> "wide", power |-> 20,
               enc |-> [rate |-> 6, roi |-> r0]]}

MCFecs == {"narrow", "wide"}
=============================================================================
