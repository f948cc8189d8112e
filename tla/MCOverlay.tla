------------------------------ MODULE MCOverlay ------------------------------
\* An instance of OverlayApply for TLC.
EXTENDS OverlayApply, TLC

CONSTANTS t1, t2, h1, h2, c1, c2

\* Files, hooks and configurations differ in nothing but their names.
Symmetry == Permutations(Targets) \cup Permutations(Hooks) \cup Permutations(Configs)

=============================================================================
