----------------------------- MODULE MCSessions -----------------------------
(***************************************************************************)
(* Instances for TLC of what connects, stops and comes back: the           *)
(* connections of the three SDKs (BackendSession, PythonSession,           *)
(* ClientSession) and the sockets and the shutdown of the server           *)
(* (Lifecycle).  They share no state: a behaviour is of one part, the      *)
(* others stay as they began.                                              *)
(***************************************************************************)
EXTENDS Naturals

CONSTANTS
    Slots, NoSlot, Exchanging, MaxConnects, MaxFaults, MaxClientConnects,
    MaxRuns, Impatient,
    Sockets, Ips, MaxPerIp, MaxCalls

VARIABLES
    part,   \* "backend", "python", "client" or "server"
    closing, closed, state, failure, token, current, beating, beats, timers, attempts,
    owner, rejected, calls, faults,
    pyClosed, event, pyClosing, pyState, pyFailure, ws, reader, supervisor, starter,
    used, runs, pyFaults,
    clClosing, slow, userClosed, clState, clSocket, sockets, clTimers, channels,
    clRejected, connects, clFaults,
    vitest, socket, perIp, peers, listening, cleanedUp, closes, lateUse

backendVars == <<closing, closed, state, failure, token, current, beating, beats, timers,
                 attempts, owner, rejected, calls, faults>>
pythonVars == <<pyClosed, event, pyClosing, pyState, pyFailure, ws, reader, supervisor,
                starter, used, runs, pyFaults>>
clientVars == <<clClosing, slow, userClosed, clState, clSocket, sockets, clTimers,
                channels, clRejected, connects, clFaults>>
serverVars == <<vitest, socket, perIp, peers, listening, cleanedUp, closes, lateUse>>

Backend == INSTANCE BackendSession
Python == INSTANCE PythonSession WITH
    closed <- pyClosed, closing <- pyClosing, state <- pyState, failure <- pyFailure,
    faults <- pyFaults
Client == INSTANCE ClientSession WITH
    MaxConnects <- MaxClientConnects, closing <- clClosing, state <- clState,
    socket <- clSocket, timers <- clTimers, rejected <- clRejected, faults <- clFaults
Server == INSTANCE Lifecycle WITH calls <- closes

ASSUME SessionsConstants ==
    /\ Backend!ConstantsOK /\ Python!ConstantsOK
    /\ Client!ConstantsOK /\ Server!ConstantsOK

Init ==
    /\ part \in {"backend", "python", "client", "server"}
    /\ Backend!Init /\ Python!Init /\ Client!Init /\ Server!Init
    /\ part # "backend" => ~closing
    /\ part # "client" => ~clClosing /\ ~slow
    /\ part # "server" => ~vitest

Next ==
    \/ /\ part = "backend" /\ Backend!Next
       /\ UNCHANGED <<part, pythonVars, clientVars, serverVars>>
    \/ /\ part = "python" /\ Python!Next
       /\ UNCHANGED <<part, backendVars, clientVars, serverVars>>
    \/ /\ part = "client" /\ Client!Next
       /\ UNCHANGED <<part, backendVars, pythonVars, serverVars>>
    \/ /\ part = "server" /\ Server!Next
       /\ UNCHANGED <<part, backendVars, pythonVars, clientVars>>

\* The fairness of each part, while it is the one that runs.
Fairness ==
    /\ WF_backendVars(part = "backend" /\ \E s \in Slots : Backend!TimerFires(s))
    /\ WF_pythonVars(part = "python" /\ Python!CloseEnds)
    /\ WF_clientVars(part = "client" /\ \E s \in Slots : Client!TimerFires(s))
    /\ \A s \in Slots :
          /\ WF_backendVars(part = "backend" /\ Backend!Progress(s))
          /\ WF_backendVars(part = "backend" /\ Backend!GatewaySeesClose(s))
          /\ WF_clientVars(part = "client" /\ Client!Progress(s))
    /\ \A i \in 1..MaxRuns : WF_pythonVars(part = "python" /\ Python!Progress(i))
    /\ \A c \in Sockets :
          /\ WF_serverVars(part = "server" /\ Server!AuthTimeout(c))
          /\ WF_serverVars(part = "server" /\ socket[c].at \in {"closing", "dying"}
                              /\ Server!Gone(c))
    /\ WF_serverVars(part = "server" /\ Server!WssClosed)
    /\ WF_serverVars(part = "server" /\ Server!HttpClosed)

Spec ==
    /\ Init /\ [][Next]_<<part, backendVars, pythonVars, clientVars, serverVars>>
    /\ Fairness

-----------------------------------------------------------------------------
(* Properties: those of the parts.                                         *)

\* Between two callbacks of a backend SDK.  TypeScript: one thread of attempts,
\* no half-open socket, and "connecting" means something is under way.  Python:
\* one run of tasks, and nothing up after close().
BackendsInv ==
    /\ part = "backend" => Backend!BackendInv
    /\ part = "python" => Python!PythonInv

\* Between two callbacks of the client SDK: one thread, one session at the
\* gateway, and a connected client has the live socket.
ClientInv == part = "client" => Client!ClientInv

\* Between two events of the server: exact places, watched strangers, and a
\* shutdown that calls back once, after everything.
LifecycleInv == part = "server" => Server!LifecycleInv

\* What no callback of an SDK does: revive a peer that was replaced or closed,
\* end channels other than its connection's own, reconnect without a loss.
StaysDown == Backend!StaysDown /\ Python!PythonStaysDown /\ Client!ClientSteps

\* What was dropped comes back, what was closed ends, every close() of the
\* server calls back, and strangers leave it: nothing stays in between.
Recovers ==
    /\ part = "backend" => Backend!Recovers
    /\ part = "python" => Python!PythonRecovers
    /\ part = "client" => Client!ClientSettles
    /\ part = "server" => Server!ShutdownEnds /\ Server!StrangersLeave

=============================================================================
