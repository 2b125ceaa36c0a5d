---------------------------- MODULE MCAgentLink ----------------------------
\* The agent process with the back-off values of signaling_client.cpp:101-102; no two
\* values of this model are interchangeable, so there is no symmetry.
EXTENDS AgentLink
=============================================================================
