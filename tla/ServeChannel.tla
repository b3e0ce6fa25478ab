---------------------------- MODULE ServeChannel ----------------------------
(***************************************************************************)
(* One proxied request served by the TypeScript backend SDK: the offer and *)
(* the dial (handleOffer), the request as the gateway uploads it (the      *)
(* request direction of bridgeHttpChannel, with its back-pressure), and    *)
(* the handler of serveHttp, while the backend's control connection drops, *)
(* is dialled again or is closed.  What the gateway does with the answer   *)
(* is in HttpBridge, the control connection itself in BackendSession.      *)
(***************************************************************************)
EXTENDS Naturals, Sequences, FiniteSets

CONSTANTS
    MaxBody,     \* bound: how many chunks the request has
    HighWater,   \* HIGH_WATER of the bridge, in chunks
    SameTick     \* a frame that comes with the upgrade is emitted before the
                 \* dial is awaited (the ws package; WHATWG sockets never do)

ConstantsOK ==
    MaxBody \in Nat /\ HighWater \in Nat \ {0} /\ SameTick \in BOOLEAN

VARIABLES
    registered,  \* serveHttp was called
    control,     \* this.socket: "open" (it carries the offer), "none",
                 \* "connecting" or "next" (open, a later connection)
    carrier,     \* the connection that carries the offer still delivers
    closed,      \* GatewayBackend.closed
    offer,       \* "sent", "dialling", "accepted", "rejected", "dropped" (no
                 \* reject is sent) or "threw"
    channel,     \* the gateway's record and socket: "offered", "paired", "gone"
    flow,        \* the caller's request: "idle" (nobody reads it yet),
                 \* "flowing", "paused", "ended" or "gone"
    size, left,  \* the chunks of the request, those the caller has still to send
    wire,        \* ws.bufferedAmount and the network: "head", "chunk", "end"
    dial,        \* the backend's end: "none", "open", "closed"
    meta, chunks,  \* serveHttp: the head arrived, the chunks that did
    handler,     \* "none", "run", "over"
    out          \* the frames of the answer: "head", "500", "body"

controlVars == <<registered, control, carrier, closed>>
uploadVars == <<flow, size, left>>
serveVars == <<meta, chunks, handler, out>>
vars == <<controlVars, offer, channel, wire, dial, uploadVars, serveVars>>

ServeTypeOK ==
    /\ {registered, carrier, closed, meta} \subseteq BOOLEAN
    /\ control \in {"open", "none", "connecting", "next"}
    /\ offer \in {"sent", "dialling", "accepted", "rejected", "dropped", "threw"}
    /\ channel \in {"offered", "paired", "gone"}
    /\ flow \in {"idle", "flowing", "paused", "ended", "gone"}
    /\ size \in 0..MaxBody /\ left \in 0..size
    /\ wire \in Seq({"head", "chunk", "end"}) /\ dial \in {"none", "open", "closed"}
    /\ chunks \in 0..MaxBody /\ handler \in {"none", "run", "over"}
    /\ out \in Seq({"head", "500", "body"})

\* proxyViaChannel has sent the offer; the request is read once it is paired.
Init ==
    /\ registered \in BOOLEAN /\ control = "open" /\ carrier = TRUE /\ closed = FALSE
    /\ offer = "sent" /\ channel = "offered"
    /\ flow = "idle" /\ size \in 0..MaxBody /\ left = size /\ wire = <<>>
    /\ dial = "none" /\ meta = FALSE /\ chunks = 0 /\ handler = "none" /\ out = <<>>

-----------------------------------------------------------------------------
(* The control connection of the backend.                                  *)

\* It drops, or an attempt to get it back fails.
Drop ==
    /\ control # "none" /\ control' = "none"
    /\ carrier' = (carrier /\ control # "open")
    /\ UNCHANGED <<registered, closed, offer, channel, wire, dial, uploadVars, serveVars>>

\* The reconnect timer, or connect() after close(): attempt() assigns a socket
\* that is connecting.
Redial ==
    /\ control = "none" /\ control' = "connecting" /\ closed' = FALSE
    /\ UNCHANGED <<registered, carrier, offer, channel, wire, dial, uploadVars, serveVars>>

Reconnected ==
    /\ control = "connecting" /\ control' = "next"
    /\ UNCHANGED <<registered, carrier, closed, offer, channel, wire, dial, uploadVars, serveVars>>

\* close(): the channels are left to the gateway, and the connection delivers
\* what was on its way.
Close ==
    /\ ~closed /\ closed' = TRUE /\ control' = "none"
    /\ UNCHANGED <<registered, carrier, offer, channel, wire, dial, uploadVars, serveVars>>

\* teardownChannel: the gateway lost the connection it made the offer on, got
\* the reject, saw the data socket close, or a timer fired.
Teardown ==
    /\ channel # "gone" /\ channel' = "gone"
    /\ UNCHANGED <<controlVars, offer, wire, dial, uploadVars, serveVars>>

\* The caller goes away, in the middle of its request or after it.
CallerAborts ==
    /\ flow # "gone" /\ channel' = "gone"
    /\ flow' = IF flow = "ended" THEN flow ELSE "gone"
    /\ UNCHANGED <<controlVars, offer, size, left, wire, dial, serveVars>>

-----------------------------------------------------------------------------
(* The offer.                                                              *)

\* this.socket?.send(channel_reject): a connecting socket throws.
Reject ==
    offer' = CASE control \in {"open", "next"} -> "rejected"
               [] control = "none" -> "dropped"
               [] OTHER -> "threw"

\* handleOffer up to the dial.
TakeOffer ==
    /\ offer = "sent" /\ carrier
    /\ IF closed THEN offer' = "dropped"
       ELSE IF registered THEN offer' = "dialling"
       ELSE Reject
    /\ UNCHANGED <<controlVars, channel, wire, dial, uploadVars, serveVars>>

\* An offer that was still on its way when the connection broke.
LoseOffer ==
    /\ offer = "sent" /\ control # "open" /\ offer' = "dropped"
    /\ UNCHANGED <<controlVars, channel, wire, dial, uploadVars, serveVars>>

\* The gateway accepts the dial, hands the socket to the bridge, which sends
\* the head of the request and reads on.
Pair ==
    /\ offer = "dialling" /\ channel = "offered"
    /\ channel' = "paired" /\ wire' = <<"head">>
    /\ flow' = "flowing"
    /\ UNCHANGED <<controlVars, offer, size, left, dial, serveVars>>

\* The dial succeeds and the handler listens, even if the gateway has closed
\* the socket by now.  A close() in the meantime is not noticed.
DialOpens ==
    /\ offer = "dialling" /\ wire # <<>>
    /\ offer' = "accepted" /\ dial' = "open"
    /\ \/ UNCHANGED wire
       \/ SameTick /\ \E n \in 1..Len(wire) : wire' = SubSeq(wire, n + 1, Len(wire))
    /\ UNCHANGED <<controlVars, channel, uploadVars, serveVars>>

\* The ticket is refused or the connection fails.
DialFails ==
    /\ offer = "dialling" /\ Reject
    /\ UNCHANGED <<controlVars, channel, wire, dial, uploadVars, serveVars>>

\* The data socket closes: after the gateway has closed it, or it breaks.
DialCloses ==
    /\ dial = "open" /\ dial' = "closed"
    /\ UNCHANGED <<controlVars, offer, channel, wire, uploadVars, serveVars>>

-----------------------------------------------------------------------------
(* The upload (req.on('data'), req.on('end')).                             *)

\* The chunks among frames
ChunksOf(queue) == Cardinality({i \in DOMAIN queue : queue[i] = "chunk"})

Buffered == ChunksOf(wire)

\* Mutant: the chunk that meets the high-water mark is not sent.
SendChunkUnlessFull ==
    LET full == Buffered + 1 > HighWater IN
    /\ wire' = IF full THEN wire ELSE Append(wire, "chunk")
    /\ flow' = IF full THEN "paused" ELSE flow

\* The chunk is sent; if that exceeds the high-water mark, the request pauses.
SendChunk ==
    /\ wire' = Append(wire, "chunk")
    /\ flow' = IF Buffered + 1 > HighWater THEN "paused" ELSE flow

\* A chunk for a socket that is not open is dropped.
Upload ==
    /\ flow = "flowing" /\ left > 0 /\ left' = left - 1
    /\ IF channel = "paired" THEN SendChunk ELSE UNCHANGED <<wire, flow>>
    /\ UNCHANGED <<controlVars, offer, channel, size, dial, serveVars>>

UploadEnds ==
    /\ flow = "flowing" /\ left = 0 /\ flow' = "ended"
    /\ wire' = IF channel = "paired" THEN Append(wire, "end") ELSE wire
    /\ UNCHANGED <<controlVars, offer, channel, size, left, dial, serveVars>>

\* Mutant: the request of a socket that is not open stays paused.
DrainedWhileOpen == Buffered <= HighWater \div 4 /\ channel = "paired"

Drained == Buffered <= HighWater \div 4 \/ channel # "paired"

\* The interval of a paused request.
DrainTick ==
    /\ flow = "paused" /\ Drained /\ flow' = "flowing"
    /\ UNCHANGED <<controlVars, offer, channel, size, left, wire, dial, serveVars>>

-----------------------------------------------------------------------------
(* serveHttp.                                                              *)

Arrives(frame) ==
    /\ dial = "open" /\ wire # <<>> /\ Head(wire) = frame /\ wire' = Tail(wire)
    /\ UNCHANGED <<controlVars, offer, channel, dial, uploadVars, out>>

TakeHead == Arrives("head") /\ meta' = TRUE /\ UNCHANGED <<chunks, handler>>

TakeChunk == Arrives("chunk") /\ chunks' = chunks + 1 /\ UNCHANGED <<meta, handler>>

\* The end of a request whose head was seen starts the handler.
TakeEnd ==
    /\ Arrives("end")
    /\ handler' = IF meta THEN "run" ELSE handler
    /\ UNCHANGED <<meta, chunks>>

\* The handler answers, throws, or answers with a body that cannot be sent: the
\* failure is caught after the head is out.  Then the channel is closed; on a
\* closed channel nothing is sent.
HandlerReturns ==
    /\ handler = "run" /\ handler' = "over" /\ dial' = "closed"
    /\ \E answer \in {<<"head">>, <<"head", "body">>, <<"500">>, <<"head", "500">>} :
          out' = IF dial = "open" THEN answer ELSE <<>>
    /\ UNCHANGED <<controlVars, offer, channel, wire, uploadVars, meta, chunks>>

-----------------------------------------------------------------------------
Deliver == TakeHead \/ TakeChunk \/ TakeEnd

Next ==
    \/ Drop \/ Redial \/ Reconnected \/ Close \/ Teardown \/ CallerAborts
    \/ TakeOffer \/ LoseOffer \/ Pair \/ DialOpens \/ DialFails \/ DialCloses
    \/ Upload \/ UploadEnds \/ DrainTick \/ Deliver \/ HandlerReturns

\* Frames arrive, intervals fire, a dial ends; the gateway tears down every
\* channel in the end (HttpBridge, RequestEnds) and the close arrives.
Fairness ==
    /\ WF_vars(Deliver) /\ WF_vars(DrainTick)
    /\ WF_vars(DialOpens \/ DialFails) /\ WF_vars(Teardown)
    /\ WF_vars(channel = "gone" /\ DialCloses)

Spec == Init /\ [][Next]_vars /\ Fairness

-----------------------------------------------------------------------------
(* Properties.                                                             *)

\* The handler gets the whole request or is not called: chunks dropped because
\* the socket was closing are never followed by the end, and a pause loses none.
WholeRequest == handler # "none" => flow = "ended" /\ chunks = size

\* A slow backend does not make the gateway buffer an upload: one chunk at most
\* above the high-water mark.
UploadBounded == Buffered <= HighWater + 1

\* A request that was uploaded and has arrived is served.  The code breaks it
\* with sockets that emit a frame before the dial is awaited: its listener comes
\* too late for the head, and the request times out.
ArrivedIsServed ==
    (channel = "paired" /\ dial = "open" /\ flow = "ended" /\ wire = <<>>)
        => handler # "none"

HeadWaits == wire # <<>> /\ wire[1] = "head"

EndWaits == wire # <<>> /\ wire[Len(wire)] = "end"

\* Why a request is whole: the frames on the wire are the rest of one request
\* in its order, and every chunk the caller has sent was taken, is on the wire,
\* or was dropped for good, in which case no end follows.
UploadAccounted ==
    /\ \A i \in DOMAIN wire :
          (wire[i] = "head" => i = 1) /\ (wire[i] = "end" => i = Len(wire))
    /\ channel = "offered" => wire = <<>> /\ flow = "idle" /\ left = size
    /\ channel = "offered" \/ offer \in {"sent", "dialling"} => dial = "none"
    /\ dial = "none" => ~meta /\ handler = "none"
    /\ dial = "none" \/ HeadWaits => ~meta /\ chunks = 0
    /\ EndWaits => flow = "ended" /\ left = 0
    /\ chunks + Buffered + left <= size
    /\ meta \/ HeadWaits =>
          (channel = "paired" \/ EndWaits => chunks + Buffered + left = size)
    /\ handler # "none" => wire = <<>>

\* Why an upload is bounded and served: the request flows below the high-water
\* mark only, and what a listener that is in time has not seen is on the wire.
UploadWatched ==
    channel = "paired" =>
        /\ flow = "flowing" => Buffered <= HighWater
        /\ ~SameTick => /\ HeadWaits \/ meta
                        /\ flow = "ended" => EndWaits \/ handler # "none"

\* What holds between two events.
ServeInv ==
    /\ ServeTypeOK /\ WholeRequest /\ UploadBounded
    /\ ~SameTick => ArrivedIsServed
    /\ UploadAccounted /\ UploadWatched

\* A paused upload goes on, if only to be discarded, and a channel ends even if
\* close() overtook its dial, which SDK and application know nothing of.
ServeEnds == (flow = "paused" ~> flow # "paused") /\ (dial = "open" ~> dial = "closed")

\* An offer that cannot be accepted costs that offer: it is rejected, or nobody
\* is there to be told.  The code breaks it: while the control connection is
\* being dialled again, sending the reject throws out of handleOffer, whose
\* promise nobody handles.
RejectsQuietly == offer # "threw"

=============================================================================
