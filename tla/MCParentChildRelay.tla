------------------------ MODULE MCParentChildRelay ------------------------
EXTENDS ParentChildRelay
=============================================================================
