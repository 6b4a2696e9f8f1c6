----------------------------- MODULE MCGsSession -----------------------------
EXTENDS GsSession

MCDrones == {1, 2}

=============================================================================
