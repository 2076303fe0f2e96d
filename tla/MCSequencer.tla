---------------------------- MODULE MCSequencer ----------------------------
\* Sequencer, with the programs of MCPrograms.
EXTENDS Sequencer, MCPrograms
=============================================================================
