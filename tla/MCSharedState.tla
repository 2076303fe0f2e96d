--------------------------- MODULE MCSharedState ---------------------------
\* SharedState, with the programs of MCPrograms.
EXTENDS SharedState, MCPrograms
=============================================================================
