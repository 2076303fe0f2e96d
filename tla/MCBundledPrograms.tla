------------------------- MODULE MCBundledPrograms -------------------------
\* BundledPrograms, for lists of up to three names and up to three rounds.
EXTENDS BundledPrograms, SequencesExt

CONSTANTS ann, bob, hi, hey

MCPeople    == {ann, bob, World}
MCNameLists == BoundedSeq({ann, bob}, 3) \cup {Absent, NoList}
MCLimits    == {-1, 0, 1, 3, Absent, NoInteger}
=============================================================================
