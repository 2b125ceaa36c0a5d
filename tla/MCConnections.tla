---------------------------- MODULE MCConnections ---------------------------
\* Three connections, two addresses and the empty one, and a limit of two: an
\* address can be full while another has room, and so can the empty address,
\* whose count only grows.  No symmetry, because liveness is checked too.
EXTENDS Connections
=============================================================================
