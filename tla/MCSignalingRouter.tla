------------------------- MODULE MCSignalingRouter -------------------------
EXTENDS SignalingRouter, TLC

Symmetry == Permutations(Conns) \cup Permutations(Devices) \cup Permutations(Viewers)
=============================================================================
