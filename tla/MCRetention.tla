---------------------------- MODULE MCRetention ----------------------------
\* Retention, with the programs of MCPrograms.
EXTENDS Retention, MCPrograms
=============================================================================
