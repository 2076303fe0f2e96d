------------------------------ MODULE MCAgent ------------------------------
\* Agent, with the programs of MCPrograms.
EXTENDS Agent, MCPrograms

\* The first question of dangling and the second one of confirm1.
MCAgentOddYields == {"ref", "value"}
=============================================================================
