------------------------------ MODULE HttpBridge ------------------------------
(***************************************************************************)
(* One request of the HTTP proxy, bridged onto an internal channel         *)
(* (proxyViaChannel, bridgeHttpChannel and teardownChannel in              *)
(* src/server.ts): the response the caller waits for, the channel record,  *)
(* the data socket the backend dials, its frames, and the three timers.    *)
(*                                                                         *)
(* A frame is "meta" (the response head), "bad" (anything else where a     *)
(* head is expected), "body", "last" (the body frame after which the       *)
(* backend has nothing more to send), "close" (the backend closes its end) *)
(* or "lost" (the connection breaks; nothing follows).                     *)
(***************************************************************************)
EXTENDS Naturals, Sequences

CONSTANT MaxBody   \* bound: how many body frames the backend sends before "last"

ConstantsOK == MaxBody \in Nat

VARIABLES
    channel,   \* whether channels still has the record
    socket,    \* the data socket: "none", "open", "closing", "closed"
    paused,    \* ws.pause() is in force until the response drains
    wire,      \* frames the backend has sent and the gateway has not handled
    sender,    \* the backend: what it sends next
    sent,      \* how many body frames it has sent
    meta,      \* metaReceived
    status,    \* the status line of the response: "none", "backend", "502", "504"
    response,  \* "pending", "streaming", "ended" (complete), "cut" (destroyed)
    complete,  \* history: the gateway handled the "last" frame
    closing,   \* the 'close' event of the response has not been handled yet
    running    \* the gateway process

vars == <<channel, socket, paused, wire, sender, sent, meta, status, response,
          complete, closing, running>>

Frames == {"meta", "bad", "body", "last", "close", "lost"}

BridgeTypeOK ==
    /\ channel \in BOOLEAN /\ paused \in BOOLEAN /\ meta \in BOOLEAN
    /\ complete \in BOOLEAN /\ closing \in BOOLEAN /\ running \in BOOLEAN
    /\ socket \in {"none", "open", "closing", "closed"}
    /\ wire \in Seq(Frames)
    /\ sender \in {"head", "body", "done", "gone"} /\ sent \in 0..MaxBody
    /\ status \in {"none", "backend", "502", "504"}
    /\ response \in {"pending", "streaming", "ended", "cut"}

\* proxyViaChannel has offered the channel to the backend.
Init ==
    /\ channel = TRUE /\ socket = "none" /\ paused = FALSE
    /\ wire = <<>> /\ sender = "head" /\ sent = 0
    /\ meta = FALSE /\ status = "none" /\ response = "pending"
    /\ complete = FALSE /\ closing = FALSE /\ running = TRUE

Settled == response \in {"ended", "cut"}

-----------------------------------------------------------------------------
(* Tear-down.                                                              *)

\* Mutant: the failure is written over whatever was answered before.
AnswerAnyway(reason) ==
    /\ status' = IF reason = "timeout" THEN "504" ELSE "502"
    /\ response' = "ended"
    /\ closing' = TRUE

\* The failure of the channel on the response: an error while no head was
\* sent, otherwise the stream is cut, unless it is over already.
Answer(reason) ==
    IF status = "none" /\ response = "pending"
    THEN /\ status' = IF reason = "timeout" THEN "504" ELSE "502"
         /\ response' = "ended"
         /\ closing' = TRUE
    ELSE /\ response' = IF Settled THEN response ELSE "cut"
         /\ closing' = (closing \/ ~Settled)
         /\ UNCHANGED status

\* teardownChannel: nothing if the record is gone.  The data socket is
\* resumed and closed; frames already on the wire still arrive.
Teardown(reason) ==
    IF channel
    THEN /\ channel' = FALSE
         /\ Answer(reason)
         /\ paused' = FALSE
         /\ socket' = IF socket = "open" THEN "closing" ELSE socket
    ELSE UNCHANGED <<channel, status, response, closing, paused, socket>>

-----------------------------------------------------------------------------
(* The backend.                                                            *)

\* The backend dials in; onBackendSocket wires the bridge.
Dial ==
    /\ running /\ channel /\ socket = "none"
    /\ socket' = "open"
    /\ UNCHANGED <<channel, paused, wire, sender, sent, meta, status, response,
                   complete, closing, running>>

Send(frame, next) ==
    /\ running /\ socket \in {"open", "closing"}
    /\ sent' = IF frame = "body" THEN sent + 1 ELSE sent
    /\ wire' = Append(wire, frame)
    /\ sender' = next
    /\ UNCHANGED <<channel, socket, paused, meta, status, response, complete,
                   closing, running>>

\* The backend answers with a head, then body frames, then closes.
BackendSends ==
    \/ sender = "head" /\ (Send("meta", "body") \/ Send("bad", "body"))
    \/ sender = "body" /\ sent < MaxBody /\ Send("body", "body")
    \/ sender = "body" /\ Send("last", "done")
    \/ sender = "done" /\ Send("close", "gone")

\* It gives up early, or its connection breaks.
BackendStops ==
    \/ sender \in {"head", "body"} /\ Send("close", "gone")
    \/ sender # "gone" /\ Send("lost", "gone")

\* The gateway ends a channel for another reason: channel_reject,
\* channel_close, a takeover, the loss of the lease or of the owner.
ChannelEnds ==
    /\ running /\ channel
    /\ Teardown("closed")
    /\ UNCHANGED <<wire, sender, sent, meta, complete, running>>

-----------------------------------------------------------------------------
(* The bridge.                                                             *)

Arrives(frame) ==
    /\ running /\ ~paused /\ socket \in {"open", "closing"}
    /\ wire # <<>> /\ Head(wire) = frame
    /\ wire' = Tail(wire)

\* A head opens the response.
HandleMeta ==
    /\ Arrives("meta") /\ ~meta /\ status = "none"
    /\ meta' = TRUE
    /\ status' = IF response = "pending" THEN "backend" ELSE status
    /\ response' = IF response = "pending" THEN "streaming" ELSE response
    /\ UNCHANGED <<channel, socket, paused, sender, sent, complete, closing, running>>

\* A head for a response that was already answered: setHeader throws
\* ERR_HTTP_HEADERS_SENT in the listener, and nothing catches it.
HandleLateMeta ==
    /\ Arrives("meta") /\ ~meta /\ status # "none"
    /\ running' = FALSE
    /\ response' = IF Settled THEN response ELSE "cut"
    /\ socket' = "closed"
    /\ UNCHANGED <<channel, paused, sender, sent, meta, status, complete, closing>>

\* The same without a header to set, once the response is closed: harmless.
HandleLateBareMeta ==
    /\ Arrives("meta") /\ ~meta /\ status # "none" /\ ~closing
    /\ meta' = TRUE
    /\ UNCHANGED <<channel, socket, paused, sender, sent, status, response, complete,
                   closing, running>>

\* Anything else where a head is expected ends the channel.
HandleBadMeta ==
    /\ \E frame \in {"bad", "body", "last"} : Arrives(frame)
    /\ ~meta
    /\ Teardown("closed")
    /\ UNCHANGED <<sender, sent, meta, complete, running>>

\* A body frame; the socket is paused when the response is not writable,
\* which a destroyed response never is.
HandleBody ==
    \E frame \in {"body", "last"} :
        /\ Arrives(frame) /\ meta
        /\ complete' = (complete \/ frame = "last")
        /\ paused' \in IF response = "streaming" THEN BOOLEAN ELSE {TRUE}
        /\ UNCHANGED <<channel, socket, sender, sent, meta, status, response, closing, running>>

\* 'drain' of the response
Drain ==
    /\ running /\ paused /\ response = "streaming"
    /\ paused' = FALSE
    /\ UNCHANGED <<channel, socket, wire, sender, sent, meta, status, response,
                   complete, closing, running>>

\* Mutant: a socket that closes before the head says nothing to the caller.
SocketGoneQuiet ==
    /\ socket' = "closed"
    /\ response' = IF meta /\ ~Settled THEN "ended" ELSE response
    /\ closing' = (closing \/ (meta /\ ~Settled))
    /\ channel' = FALSE
    /\ paused' = FALSE
    /\ UNCHANGED <<sender, sent, meta, status, complete, running>>

\* 'close' of the data socket.  After a head it is the end of the response,
\* before one the tear-down answers.
SocketGone ==
    /\ socket' = "closed"
    /\ IF meta
       THEN /\ response' = IF Settled THEN response ELSE "ended"
            /\ closing' = (closing \/ ~Settled)
            /\ UNCHANGED status
       ELSE IF channel THEN Answer("closed")
       ELSE UNCHANGED <<status, response, closing>>
    /\ channel' = FALSE
    /\ paused' = FALSE
    /\ UNCHANGED <<sender, sent, meta, complete, running>>

SocketClosed ==
    /\ \E frame \in {"close", "lost"} : Arrives(frame)
    /\ SocketGone

\* The ws library destroys a socket whose close handshake takes 30 seconds.
SocketTimesOut ==
    /\ running /\ socket = "closing"
    /\ wire' = <<>>
    /\ SocketGone

-----------------------------------------------------------------------------
(* Timers and the caller.                                                  *)

\* The pairing timer until the backend dials, the response timer until the
\* head, the idle timer after it: at each moment one of them is armed.
Expire ==
    /\ running /\ channel
    /\ Teardown("timeout")
    /\ UNCHANGED <<wire, sender, sent, meta, complete, running>>

\* Tear-down of a channel whose response is already over
Abandon ==
    /\ channel' = FALSE
    /\ paused' = (paused /\ ~channel)
    /\ socket' = IF channel /\ socket = "open" THEN "closing" ELSE socket
    /\ UNCHANGED <<wire, sender, sent, meta, status, complete, running>>

\* The caller goes away: the response is destroyed and closed at once.
CallerAborts ==
    /\ running /\ ~Settled
    /\ response' = "cut"
    /\ Abandon
    /\ UNCHANGED closing

\* 'close' of a response the gateway has ended or destroyed
ResponseClosed ==
    /\ running /\ closing
    /\ closing' = FALSE
    /\ Abandon
    /\ UNCHANGED response

-----------------------------------------------------------------------------

Bridge ==
    \/ HandleMeta \/ HandleLateMeta \/ HandleLateBareMeta \/ HandleBadMeta
    \/ HandleBody \/ SocketClosed

Next ==
    \/ Dial \/ BackendSends \/ BackendStops \/ ChannelEnds
    \/ Bridge \/ Drain \/ SocketTimesOut
    \/ Expire \/ CallerAborts \/ ResponseClosed

Spec == Init /\ [][Next]_vars

\* Timers fire, the close event of a finished response is emitted, frames
\* that arrived are handled, and the ws library bounds its close handshake.
Fairness ==
    WF_vars(Expire) /\ WF_vars(ResponseClosed) /\ WF_vars(Bridge) /\ WF_vars(SocketTimesOut)

FairSpec == Spec /\ Fairness

-----------------------------------------------------------------------------
(* Properties.                                                             *)

\* A request whose channel is torn down has been answered or cut: no path
\* through the tear-down leaves the caller waiting.
TornDownIsSettled == ~channel => Settled

\* What holds between two events of a bridged request.
BridgeInv == BridgeTypeOK /\ TornDownIsSettled

\* The status line is sent once.  Whatever fails later, in whatever order,
\* never answers the request a second time.
StatusFinal == [][status # "none" => status' = status]_vars

\* Every request is settled, whether the backend dials, answers, stalls or
\* disappears, and however slowly the caller reads.
RequestSettles == ~Settled /\ running ~> Settled \/ ~running

\* The slot a request takes in the quota of its backend and its data socket
\* are given back.
BridgeFreed ==
    running ~> (~channel /\ socket \in {"none", "closed"}) \/ ~running

\* Every request ends, for its caller and for the gateway.
RequestEnds == RequestSettles /\ BridgeFreed

\* A response that ends cleanly is the whole response: a failure in the
\* middle of the stream is never passed on as a normal end.
CleanEndIsComplete == status = "backend" /\ response = "ended" => complete

\* A data socket being closed is not paused, so that the close handshake of
\* the backend is read.
ClosingNotPaused == running /\ socket = "closing" => ~paused

\* A request that failed is over with its 502 or 504: it takes nothing else
\* with it.
FailureIsAnswered == status \in {"502", "504"} => running

=============================================================================
