----------------------------- MODULE MCGsEngine -----------------------------
EXTENDS GsEngine

=============================================================================
