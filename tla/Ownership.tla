------------------------------ MODULE Ownership ------------------------------
(***************************************************************************)
(* What the gateway promises about the ownership of backends, without      *)
(* sockets, leases or timers.  A backend has at most one holder.  Terms    *)
(* (the epochs of the program) are handed out once, in increasing order.   *)
(* A session becomes a holder only by taking a fresh term, it holds one    *)
(* backend at most, and it loses it to a newer term or altogether.         *)
(***************************************************************************)
EXTENDS Naturals

CONSTANTS Sessions, NoSession, Backends

VARIABLES
    term,    \* the last term handed out
    holder,  \* the session that holds each backend, or NoSession
    termOf   \* the term it holds the backend for, 0 if nobody holds it

ownVars == <<term, holder, termOf>>

OwnInit ==
    /\ term = 0
    /\ holder = [b \in Backends |-> NoSession]
    /\ termOf = [b \in Backends |-> 0]

\* Session s, which holds nothing, takes backend b from whoever has it.
Acquire(b, s) ==
    /\ \A d \in Backends : holder[d] # s
    /\ term' = term + 1
    /\ holder' = [holder EXCEPT ![b] = s]
    /\ termOf' = [termOf EXCEPT ![b] = term + 1]

\* A session takes a term for backend b and does not survive it.
Squander(b) ==
    /\ term' = term + 1
    /\ holder' = [holder EXCEPT ![b] = NoSession]
    /\ termOf' = [termOf EXCEPT ![b] = 0]

\* The holders of the backends of B are gone.
Release(B) ==
    /\ term' = term
    /\ holder' = [b \in Backends |-> IF b \in B THEN NoSession ELSE holder[b]]
    /\ termOf' = [b \in Backends |-> IF b \in B THEN 0 ELSE termOf[b]]

OwnNext ==
    \/ \E b \in Backends : Squander(b) \/ \E s \in Sessions : Acquire(b, s)
    \/ \E B \in SUBSET Backends : Release(B)

OwnSpec == OwnInit /\ [][OwnNext]_ownVars

\* No two backends are held by one session or for one term: whoever can
\* show a term names one backend and one session.
TermsIdentify ==
    \A b, d \in Backends :
        /\ holder[b] # NoSession /\ b # d =>
              holder[b] # holder[d] /\ termOf[b] # termOf[d]
        /\ holder[b] # NoSession <=> termOf[b] # 0

=============================================================================
