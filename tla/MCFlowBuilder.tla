--------------------------- MODULE MCFlowBuilder ---------------------------
EXTENDS FlowBuilder, TLC
CONSTANTS a, b, c, d
MCNode == {a, b, c, d}
Symmetry == Permutations(MCNode)
============================================================================
