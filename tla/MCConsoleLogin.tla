--------------------------- MODULE MCConsoleLogin ---------------------------
EXTENDS ConsoleLogin, TLC

\* The handlers, the passwords and the keys are interchangeable.
Symmetry ==
  {h @@ o @@ k : h \in Permutations(Handlers), o \in Permutations(Otps), k \in Permutations(Keys)}
=============================================================================
