----------------------------- MODULE MCGsConfig -----------------------------
EXTENDS GsConfig

MCDefaults ==
    [chan |-> 1, width |-> 20, cards |-> "local", wfb |-> 1, host |-> 1, bf |-> FALSE,
     dl |-> "off", pp |-> "a", idr |-> "p", ok |-> TRUE]

\* One patch per way apply treats a field, and two that are only refused by
\* validate_effective.
MCPatches ==
    { [chan |-> 2], [width |-> 10], [width |-> 40, dl |-> "off"], [cards |-> "remote"],
      [wfb |-> 2], [host |-> 2], [bf |-> TRUE], [bf |-> FALSE], [dl |-> "x"],
      [dl |-> "off", pp |-> "b"], [pp |-> "off", idr |-> "q"], [idr |-> "off"],
      [ok |-> FALSE], [width |-> 40, dl |-> "x"] }

=============================================================================
