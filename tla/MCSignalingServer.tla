------------------------- MODULE MCSignalingServer -------------------------
\* In the safety run one address has three slots, so that a device's old socket,
\* its overlapping successor and a watching viewer are connected at once; who is
\* refused comes with the empty address.  (Connections has the full address.)
EXTENDS SignalingServer, TLC

Symmetry == Permutations(Conns)
=============================================================================
