--------------------------- MODULE MCConsoleLists ---------------------------
EXTENDS ConsoleLists, TLC

\* The handlers are interchangeable.
Symmetry == Permutations(Handlers)
=============================================================================
