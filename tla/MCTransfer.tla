----------------------------- MODULE MCTransfer -----------------------------
(***************************************************************************)
(* Instances for TLC of what moves bytes: the relay of a channel (Relay),  *)
(* the gateway's side of a proxied request (HttpBridge), and a backend's   *)
(* side of it in the two SDKs (ServeChannel, HttpServe).  They share no    *)
(* state: a behaviour is of one part, the others stay as they began.       *)
(***************************************************************************)
EXTENDS Naturals

CONSTANTS
    Limits, HighWater, LowWater, MaxFrame, MaxChunk, MaxBuffer, MaxTimers, MaxWindows,
    UploadHighWater, MaxUpload, SameTick, MaxBody,
    Styles, Readers, MaxOut, EarlyLimit

VARIABLES
    part,   \* "relay", "bridge", "serve" or "python"
    limit, keepsUp, chunk, paused, used, over, armed, ripe, drains, buffered, wired,
    windows, relayed,
    channel, socket, held, frames, sender, sent, meta, status, response, complete,
    closing, running,
    registered, control, carrier, closed, offer, offered, flow, size, left, wire, dial,
    head, chunks, served, reply,
    style, encodable, upload, uploaded, open, lost, inbox, serve, exchange, body, ended,
    disconnected, reader, bodyDone, got, ends, handled, handler, started, out

relayVars == <<limit, keepsUp, chunk, paused, used, over, armed, ripe, drains, buffered,
               wired, windows, relayed>>
bridgeVars == <<channel, socket, held, frames, sender, sent, meta, status, response,
                complete, closing, running>>
serveVars == <<registered, control, carrier, closed, offer, offered, flow, size, left,
               wire, dial, head, chunks, served, reply>>
pythonVars == <<style, encodable, upload, uploaded, open, lost, inbox, serve, exchange,
                body, ended, disconnected, reader, bodyDone, got, ends, handled, handler,
                started, out>>

Relaying == INSTANCE Relay
Bridge == INSTANCE HttpBridge WITH paused <- held, wire <- frames
Serve == INSTANCE ServeChannel WITH
    MaxBody <- MaxUpload, HighWater <- UploadHighWater,
    channel <- offered, meta <- head, handler <- served, out <- reply
Python == INSTANCE HttpServe WITH sent <- uploaded

ASSUME TransferConstants ==
    /\ Relaying!ConstantsOK /\ Bridge!ConstantsOK
    /\ Serve!ConstantsOK /\ Python!ConstantsOK

Init ==
    /\ part \in {"relay", "bridge", "serve", "python"}
    /\ Relaying!Init /\ Bridge!Init /\ Serve!Init /\ Python!Init
    /\ part # "relay" => limit = 0 /\ keepsUp
    /\ part # "serve" => size = 0 /\ registered
    /\ part # "python" => style = "buffered" /\ encodable

Next ==
    \/ part = "relay" /\ Relaying!Next /\ UNCHANGED <<part, bridgeVars, serveVars, pythonVars>>
    \/ part = "bridge" /\ Bridge!Next /\ UNCHANGED <<part, relayVars, serveVars, pythonVars>>
    \/ part = "serve" /\ Serve!Next /\ UNCHANGED <<part, relayVars, bridgeVars, pythonVars>>
    \/ part = "python" /\ Python!Next /\ UNCHANGED <<part, relayVars, bridgeVars, serveVars>>

Fairness ==
    /\ WF_relayVars(part = "relay" /\ Relaying!WindowEnds)
    /\ WF_relayVars(part = "relay" /\ Relaying!RateTimer)
    /\ WF_relayVars(part = "relay" /\ Relaying!DrainTick)
    /\ WF_relayVars(part = "relay" /\ Relaying!Flush)
    /\ WF_bridgeVars(part = "bridge" /\ Bridge!Expire)
    /\ WF_bridgeVars(part = "bridge" /\ Bridge!ResponseClosed)
    /\ WF_bridgeVars(part = "bridge" /\ Bridge!Bridge)
    /\ WF_bridgeVars(part = "bridge" /\ Bridge!SocketTimesOut)
    /\ WF_serveVars(part = "serve" /\ Serve!Deliver)
    /\ WF_serveVars(part = "serve" /\ Serve!DrainTick)
    /\ WF_serveVars(part = "serve" /\ (Serve!DialOpens \/ Serve!DialFails))
    /\ WF_serveVars(part = "serve" /\ Serve!Teardown)
    /\ WF_serveVars(part = "serve" /\ offered = "gone" /\ Serve!DialCloses)
    /\ WF_pythonVars(part = "python" /\ Python!Listen)
    /\ WF_pythonVars(part = "python" /\ Python!Consume)
    /\ WF_pythonVars(part = "python" /\ Python!WoundDown)
    /\ WF_pythonVars(part = "python" /\ Python!Cancel)
    /\ WF_pythonVars(part = "python" /\ Python!Finish)
    /\ \A r \in Readers :
          /\ WF_pythonVars(part = "python" /\ (Python!ReadChunk(r) \/ Python!ReadEnd(r)))
          /\ WF_pythonVars(part = "python" /\ Python!SeeDisconnect(r))

Spec == Init /\ [][Next]_<<part, relayVars, bridgeVars, serveVars, pythonVars>> /\ Fairness

-----------------------------------------------------------------------------
(* Properties: those of the parts.                                         *)

\* Between two callbacks of a relay: a paused sender is waited for, whatever
\* pauses and resumptions there were, the buffer is bounded by back-pressure
\* alone and the throughput by the rate limit alone.
RelayInv == part = "relay" => Relaying!RelayInv /\ Relaying!ThroughputBounded

\* Between two events of a bridged request: once its channel is torn down the
\* caller has been answered or cut.
BridgeInv == part = "bridge" => Bridge!BridgeInv

\* Between two events at a backend, of either SDK: the handler of a whole-body
\* server gets the whole request or is not called, an upload stays bounded, a
\* response has one head, and a caller who is there is answered.
ServeInv == (part = "serve" => Serve!ServeInv) /\ (part = "python" => Python!ServeInv)

\* No step of the bridge, however late, sends a second status line.
StatusFinal == Bridge!StatusFinal

\* Whatever is under way comes to an end: a pause of the relay, a bridged
\* request, an upload and its dial, an exchange of the Python SDK.
TransfersEnd ==
    /\ part = "relay" => Relaying!PausesEnd
    /\ part = "bridge" => Bridge!RequestEnds
    /\ part = "serve" => Serve!ServeEnds
    /\ part = "python" => Python!ExchangeEnds

=============================================================================
