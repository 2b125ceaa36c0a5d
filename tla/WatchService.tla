---------------------------- MODULE WatchService ---------------------------
(***************************************************************************)
(* What the signaling server promises of presence and watching, without    *)
(* sockets, roles or the three maps: a device is listed exactly while some *)
(* connection serves it; a viewer watches at most one listed device.       *)
(***************************************************************************)
CONSTANTS Conns, Devices, Viewers

VARIABLES
    serving,   \* device -> connections that serve it
    listed,    \* devices a viewer may watch
    watching   \* set of <<viewer, device>>

serviceVars == <<serving, listed, watching>>

Init ==
    /\ serving = [d \in Devices |-> {}]
    /\ listed = {}
    /\ watching = {}

Of(v)       == {v} \X Devices
Watchers(d) == Viewers \X {d}

\* listed follows serving in every step.
Listing == listed' = {d \in Devices : serving'[d] # {}}

Arrive(c, d) ==
    /\ serving' = [serving EXCEPT ![d] = @ \cup {c}]
    /\ Listing
    /\ UNCHANGED watching

\* The last connection takes the watchers with it; an earlier one takes nobody.
Leave(c, d) ==
    /\ c \in serving[d]
    /\ serving' = [serving EXCEPT ![d] = @ \ {c}]
    /\ Listing
    /\ watching' = IF serving'[d] = {} THEN watching \ Watchers(d) ELSE watching

Watch(v, d) ==
    /\ d \in listed
    /\ watching' = (watching \ Of(v)) \cup {<<v, d>>}
    /\ UNCHANGED <<serving, listed>>

Unwatch(v) ==
    /\ watching' = watching \ Of(v)
    /\ UNCHANGED <<serving, listed>>

\* The server process ends.
Reset ==
    /\ serving' = [d \in Devices |-> {}]
    /\ Listing
    /\ watching' = {}

Next ==
    \/ \E c \in Conns, d \in Devices : Arrive(c, d) \/ Leave(c, d)
    \/ \E v \in Viewers, d \in Devices : Watch(v, d)
    \/ \E v \in Viewers : Unwatch(v)
    \/ Reset

Spec == Init /\ [][Next]_serviceVars
=============================================================================
