----------------------------- MODULE MCPipeline -----------------------------
EXTENDS UpdatePipeline, TLC

Symmetry == Permutations(Tasks) \cup Permutations(Workers)
=============================================================================
