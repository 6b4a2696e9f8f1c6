------------------------------ MODULE MCGsPolicy ------------------------------
EXTENDS GsPolicy

=============================================================================
