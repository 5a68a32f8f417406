--------------------------- MODULE MCObjectModel ---------------------------
EXTENDS ObjectModel, TLC

\* The threads that call are interchangeable, and so are the field names; the
\* properties of the runs are invariants.
ObjectSymmetry == Permutations(Mutators) \cup Permutations(Fields)
=============================================================================
