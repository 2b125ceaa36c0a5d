----------------------------- MODULE ConnSlots -----------------------------
(***************************************************************************)
(* What the connection limiter promises, without counters or sockets: each *)
(* address owns Max slots; a newcomer takes a free one or is refused, and  *)
(* one without a usable address is always refused.                         *)
(***************************************************************************)
EXTENDS Integers, FiniteSets

CONSTANTS
    Conns, IPs, Max,
    Nameless    \* the addresses that are granted nothing

VARIABLES
    held,    \* address -> connections holding one of its slots
    refused  \* the connections turned away, each with its address

slotVars == <<held, refused>>

Init ==
    /\ held = [i \in IPs |-> {}]
    /\ refused = {}

Newcomer(c) == \A i \in IPs : c \notin held[i] /\ <<c, i>> \notin refused

Acquire(c, i) ==
    /\ Newcomer(c)
    /\ i \notin Nameless
    /\ Cardinality(held[i]) < Max
    /\ held' = [held EXCEPT ![i] = @ \cup {c}]
    /\ UNCHANGED refused

Refuse(c, i) ==
    /\ Newcomer(c)
    /\ i \in Nameless \/ Cardinality(held[i]) >= Max
    /\ refused' = refused \cup {<<c, i>>}
    /\ UNCHANGED held

Release(c, i) ==
    /\ c \in held[i]
    /\ held' = [held EXCEPT ![i] = @ \ {c}]
    /\ UNCHANGED refused

\* The process that keeps the table ends.
ReleaseAll ==
    /\ held' = [i \in IPs |-> {}]
    /\ UNCHANGED refused

Next ==
    \/ \E c \in Conns, i \in IPs : Acquire(c, i) \/ Refuse(c, i) \/ Release(c, i)
    \/ ReleaseAll

Spec == Init /\ [][Next]_slotVars
=============================================================================
