--------------------------- MODULE MCGcController ---------------------------
EXTENDS GcController
=============================================================================
