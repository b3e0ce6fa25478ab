------------------------------ MODULE MCGateway ------------------------------
(***************************************************************************)
(* Instances of Gateway for TLC.  Namespace n1 has the backends b1 and b2; *)
(* k1 is a credential bound to b1, k2 a legacy access credential whose     *)
(* hello may resolve to either, d1 a device credential.  d2 is a device    *)
(* credential of another namespace, n2.                                    *)
(***************************************************************************)
EXTENDS Gateway, TLC

CONSTANTS b1, b2, k1, k2, d1, d2

MCCredNs == [c \in Creds |-> IF c = d2 THEN "n2" ELSE "n1"]

MCBackendNs == [b \in Backends |-> "n1"]

MCIdentity ==
    [c \in Creds |-> Backends \cap (CASE c = k1 -> {b1}
                                      [] c = k2 -> {b1, b2}
                                      [] OTHER  -> {})]

\* Session ids are interchangeable, and so are channel ids.
Symmetry == Permutations(Sessions) \cup Permutations(ChannelIds)

\* Channels and topics, one or the other: their handlers share no state but
\* the sessions, leases and credentials, which they only read.
Apart ==
    \/ topicVars = <<{}, [b \in Backends |-> NoRetained]>>
    \/ \A ch \in ChannelIds : channels[ch].status = "new"

=============================================================================
