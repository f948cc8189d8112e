------------------------------ MODULE MCInbound ------------------------------
\* An instance of InboundPipeline for TLC.
EXTENDS InboundPipeline, TLC

CONSTANTS m1, m2, m3

\* Messages differ in nothing but their event id.
Symmetry == Permutations(Messages)

\* At most one relay fails or one job dies in a behaviour.
OneFailure == Cardinality(unheard) + Cardinality(lost) <= 1

=============================================================================
