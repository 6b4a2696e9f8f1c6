------------------------------ MODULE MCDaemon ------------------------------
EXTENDS Daemon

\* The code defaults, one value of each class of settings.
Base == [f \in Fields |->
            CASE f \in {"enabled", "probe"} -> FALSE
              [] f = "width" -> 20
              [] OTHER -> 0]

With(c, changes) == [f \in Fields |-> IF f \in DOMAIN changes THEN changes[f] ELSE c[f]]

\* Settings changed with dynamic link off, and with it on; the last one is
\* invalid, 40 MHz under dynamic link.
Static == With(Base, [mcs |-> 1, fec |-> 1, txPower |-> 1, bitrate |-> 1,
                      radiotap |-> 1, channel |-> 1])
Narrow == With(Base, [width |-> 10, mtu |-> 1, gop |-> 1])
Moved  == With(Base, [linkId |-> 1, beamforming |-> 1])
Armed       == With(Base, [enabled |-> TRUE])
ArmedStatic == With(Static, [enabled |-> TRUE, size |-> 1])
ArmedNarrow == With(Narrow, [enabled |-> TRUE, probe |-> TRUE, fps |-> 1])
ArmedMoved  == With(Moved, [enabled |-> TRUE, tree |-> 1])
ArmedWide   == With(Base, [enabled |-> TRUE, width |-> 40])

AllConfigs == {Base, Static, Narrow, Moved,
               Armed, ArmedStatic, ArmedNarrow, ArmedMoved, ArmedWide}
FewConfigs == {Base, Moved, Armed, ArmedNarrow, ArmedMoved}
=============================================================================
