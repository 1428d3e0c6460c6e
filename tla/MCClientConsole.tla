-------------------------- MODULE MCClientConsole --------------------------
EXTENDS ClientConsole, TLC

CONSTANTS mock, deactivated

\* The two kinds of ids that the registry has of its own.
MCBuiltIn == [c \in {mock, deactivated} |-> c = mock]

\* The handlers are interchangeable, and so are the secrets and the redirect URIs.
Symmetry ==
  {h @@ s @@ u : h \in Permutations(Handlers), s \in Permutations(Secrets), u \in Permutations(Uris)}
=============================================================================
