--------------------------- MODULE MCGsSupervision ---------------------------
EXTENDS GsSupervision

MCKinds == {"rx", "tx", "node", "process"}

=============================================================================
