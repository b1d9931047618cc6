--------------------------- MODULE MCSpaceManager ---------------------------
EXTENDS SpaceManager
=============================================================================
