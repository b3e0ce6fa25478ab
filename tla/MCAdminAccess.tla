---------------------------- MODULE MCAdminAccess ----------------------------
(***************************************************************************)
(* Instances of AdminAccess for TLC.                                       *)
(***************************************************************************)
EXTENDS AdminAccess, TLC

Symmetry == Permutations(Ips) \cup Permutations(Tenants) \cup Permutations(SessionIds)

\* A behaviour uses the proxy, or it fails to authenticate and logs in: the
\* two share no bucket and no session.
OneSide ==
    \/ \A i \in Ips, x \in Time : askedFrom[i][x] = 0
    \/ /\ \A s \in SessionIds : sessions[s] = None /\ created[s] = None
       /\ \A i \in Ips : authFailures[i] = None /\ \A x \in Time : rejected[i][x] = 0

=============================================================================
