------------------------------ MODULE HttpServe ------------------------------
(***************************************************************************)
(* One http channel served by the Python backend SDK: the GatewayChannel,  *)
(* the task that consumes its frames (serve_http_channel), the HttpExchange *)
(* and the handler's task (_run_handler), for the three kinds of handler:  *)
(* "buffered" (build_http_handler), "asgi" (asgi_http_handler) and         *)
(* "stream" (any other handler of build_http_stream_handler), which reads  *)
(* the body from several tasks and answers as it likes.                    *)
(*                                                                         *)
(* A frame of the request is "head", "chunk" or "end"; "stop" is the       *)
(* marker that ends the iteration of the channel.                          *)
(***************************************************************************)
EXTENDS Naturals, Sequences, FiniteSets

CONSTANTS
    Styles,       \* the kinds of handler considered
    Readers,      \* the tasks of a handler that read the request
    MaxBody,      \* bound: how many chunks the request has
    MaxOut,       \* bound: how many frames the response has
    EarlyLimit    \* _EARLY_BUFFER_LIMIT

ConstantsOK ==
    /\ Styles \subseteq {"buffered", "stream", "asgi"}
    /\ MaxBody \in Nat /\ MaxOut \in Nat /\ EarlyLimit \in Nat

VARIABLES
    style,         \* the kind of handler registered
    encodable,     \* whether json.dumps accepts the headers it answers with
    upload, sent,  \* the gateway: what it sends next, the chunks it has sent
    open, lost,    \* the channel is not closed; history: the gateway ended it
    inbox,         \* the frames received and not consumed (_pending, then _inbox)
    serve,         \* serve_http_channel: "begin", "reading", "grace", "done"
    exchange,      \* the HttpExchange exists
    body,          \* its queue: "chunk" and the end marker "end"
    ended,         \* history: http_request_end was consumed
    disconnected,  \* HttpExchange.disconnected
    reader,        \* where each reader is: "idle", "queue", "watch"
    bodyDone,      \* body_done of the ASGI adapter
    got, ends,     \* history: chunks handed over, ends of the body told
    handled,       \* history: the handler of serve_http was called
    handler,       \* its task: "none", "run", "aborted", "closing", "over"
    started,       \* HttpExchange.started
    out            \* the frames of the response: "head", "500", "chunk"

channelVars == <<upload, sent, open, lost, inbox, serve>>
bodyVars == <<body, ended, disconnected, reader, bodyDone, got, ends, handled>>
replyVars == <<started, out>>
vars == <<style, encodable, exchange, handler, channelVars, bodyVars, replyVars>>

ServeTypeOK ==
    /\ style \in Styles /\ encodable \in BOOLEAN
    /\ upload \in {"head", "body", "none"} /\ sent \in 0..MaxBody
    /\ {open, lost, exchange, ended, disconnected, bodyDone, handled, started}
          \subseteq BOOLEAN
    /\ inbox \in Seq({"head", "chunk", "end", "stop"})
    /\ serve \in {"begin", "reading", "grace", "done"}
    /\ body \in Seq({"chunk", "end"})
    /\ reader \in [Readers -> {"idle", "queue", "watch"}]
    /\ got \in 0..MaxBody /\ ends \in Nat
    /\ handler \in {"none", "run", "aborted", "closing", "over"}
    /\ out \in Seq({"head", "500", "chunk"})

\* The channel was dialled and on_channel has scheduled serve_http_channel.
Init ==
    /\ style \in Styles /\ encodable \in BOOLEAN
    /\ upload = "head" /\ sent = 0 /\ open = TRUE /\ lost = FALSE
    /\ inbox = <<>> /\ serve = "begin" /\ exchange = FALSE
    /\ body = <<>> /\ ended = FALSE /\ disconnected = FALSE
    /\ reader = [r \in Readers |-> "idle"]
    /\ bodyDone = FALSE /\ got = 0 /\ ends = 0 /\ handled = FALSE
    /\ handler = "none" /\ started = FALSE /\ out = <<>>

-----------------------------------------------------------------------------
(* The channel.                                                            *)

\* The read loop: to the consumer, or to the early buffer while it has room.
Receive(frame) ==
    /\ open
    /\ inbox' = IF serve # "begin" \/ Len(inbox) < EarlyLimit
                THEN Append(inbox, frame) ELSE inbox
    /\ UNCHANGED <<style, encodable, exchange, handler, open, lost, serve, bodyVars,
                   replyVars>>

\* The gateway forwards the caller's request.
ReceiveHead ==
    upload = "head" /\ upload' = "body" /\ UNCHANGED sent /\ Receive("head")

ReceiveChunk ==
    /\ upload = "body" /\ sent < MaxBody
    /\ sent' = sent + 1 /\ UNCHANGED upload /\ Receive("chunk")

ReceiveEnd ==
    upload = "body" /\ upload' = "none" /\ UNCHANGED sent /\ Receive("end")

\* _mark_closed: the first time, a registered consumer gets the marker.
MarkClosed ==
    /\ open' = FALSE
    /\ inbox' = IF open /\ serve # "begin" THEN Append(inbox, "stop") ELSE inbox

\* The gateway closes the data socket, or the connection breaks.
Lose ==
    /\ open /\ lost' = TRUE /\ MarkClosed
    /\ UNCHANGED <<style, encodable, exchange, handler, upload, sent, serve, bodyVars,
                   replyVars>>

\* __aiter__: the iteration begins, at its end if the channel is closed.
Listen ==
    /\ serve = "begin" /\ serve' = "reading"
    /\ inbox' = IF open THEN inbox ELSE Append(inbox, "stop")
    /\ UNCHANGED <<style, encodable, exchange, handler, upload, sent, open, lost, bodyVars,
                   replyVars>>

-----------------------------------------------------------------------------
(* serve_http_channel.                                                     *)

Arrived(frame) == serve = "reading" /\ inbox # <<>> /\ Head(inbox) = frame

\* The head starts the handler at once; the buffered one reads the body.
TakeHead ==
    /\ Arrived("head") /\ ~exchange
    /\ inbox' = Tail(inbox)
    /\ exchange' = TRUE /\ handler' = "run"
    /\ reader' = IF style = "buffered"
                 THEN [r \in Readers |-> IF r = CHOOSE x \in Readers : TRUE
                                         THEN "queue" ELSE "idle"]
                 ELSE reader
    /\ UNCHANGED <<style, encodable, upload, sent, open, lost, serve, body, ended,
                   disconnected, bodyDone, got, ends, handled, replyVars>>

\* A chunk, or the end of the body, goes to the queue of the exchange; it is
\* dropped if there is none.
TakeBody ==
    \E frame \in {"chunk", "end"} :
        /\ Arrived(frame)
        /\ inbox' = Tail(inbox)
        /\ body' = IF exchange THEN Append(body, frame) ELSE body
        /\ ended' = (ended \/ (exchange /\ frame = "end"))
        /\ UNCHANGED <<style, encodable, exchange, handler, upload, sent, open, lost, serve,
                       disconnected, reader, bodyDone, got, ends, handled,
                       replyVars>>

\* _abort.
Abort == disconnected' = TRUE /\ body' = Append(body, "end")

\* The channel ended: abort, then wait for the handler or close.
TakeStop ==
    /\ Arrived("stop")
    /\ IF exchange THEN Abort ELSE UNCHANGED <<disconnected, body>>
    /\ serve' = IF handler \in {"none", "over"} THEN "done" ELSE "grace"
    /\ inbox' = Tail(inbox)
    /\ UNCHANGED <<style, encodable, exchange, handler, upload, sent, open, lost, ended,
                   reader, bodyDone, got, ends, handled, replyVars>>

\* The handler wound down within the grace period.
WoundDown ==
    /\ serve = "grace" /\ handler = "over" /\ serve' = "done"
    /\ UNCHANGED <<style, encodable, exchange, handler, upload, sent, open, lost, inbox,
                   bodyVars, replyVars>>

\* It did not, and is cancelled (with the tasks it waits for).
Cancel ==
    /\ serve = "grace" /\ handler # "over"
    /\ serve' = "done" /\ handler' = "over"
    /\ reader' = [r \in Readers |-> "idle"]
    /\ UNCHANGED <<style, encodable, exchange, upload, sent, open, lost, inbox, body, ended,
                   disconnected, bodyDone, got, ends, handled, replyVars>>

-----------------------------------------------------------------------------
(* Reading the body.                                                       *)

\* A task of a streaming handler asks for the next chunk, or (ASGI, once the
\* body is done) for the disconnect.
Ask(r) ==
    /\ handler = "run" /\ style # "buffered" /\ reader[r] = "idle"
    /\ reader' = [reader EXCEPT ![r] = IF bodyDone THEN "watch" ELSE "queue"]
    /\ UNCHANGED <<style, encodable, exchange, handler, channelVars, body, ended,
                   disconnected, bodyDone, got, ends, handled, replyVars>>

ReadChunk(r) ==
    /\ reader[r] = "queue" /\ body # <<>> /\ Head(body) = "chunk"
    /\ body' = Tail(body) /\ got' = got + 1
    /\ reader' = [reader EXCEPT ![r] = IF style = "buffered" THEN @ ELSE "idle"]
    /\ UNCHANGED <<style, encodable, exchange, handler, channelVars, ended, disconnected,
                   bodyDone, ends, handled, replyVars>>

\* The end marker is put back for the next reader.
StickyEnd == Append(Tail(body), "end")

\* receive(): the first reader to meet the marker reports the end of the body,
\* a later one goes on to wait for the disconnect.
TellEnd(r) ==
    /\ bodyDone' = (bodyDone \/ style = "asgi")
    /\ ends' = IF bodyDone THEN ends ELSE IF style = "asgi" THEN ends + 1 ELSE 1
    /\ reader' = [reader EXCEPT ![r] = IF bodyDone THEN "watch" ELSE "idle"]

\* build_http_handler: the body is complete, or the client is gone.
Collected ==
    IF style = "buffered"
    THEN IF disconnected THEN handler' = "aborted" /\ UNCHANGED handled
                         ELSE handled' = TRUE /\ UNCHANGED handler
    ELSE UNCHANGED <<handled, handler>>

ReadEnd(r) ==
    /\ reader[r] = "queue" /\ body # <<>> /\ Head(body) = "end"
    /\ body' = StickyEnd
    /\ TellEnd(r) /\ Collected
    /\ UNCHANGED <<style, encodable, exchange, channelVars, ended, disconnected, got,
                   replyVars>>

\* http.disconnect.
SeeDisconnect(r) ==
    /\ reader[r] = "watch" /\ disconnected
    /\ reader' = [reader EXCEPT ![r] = "idle"]
    /\ UNCHANGED <<style, encodable, exchange, handler, channelVars, body, ended,
                   disconnected, bodyDone, got, ends, handled, replyVars>>

-----------------------------------------------------------------------------
(* Answering.                                                              *)

\* _send: a closed channel marks the exchange (and raises).
Send(frame) ==
    /\ out' = IF open /\ ~disconnected THEN Append(out, frame) ELSE out
    /\ disconnected' = (disconnected \/ ~open)

\* A handler runs; that of serve_http once the body is complete.
Answers == handler = "run" /\ (style = "buffered" => handled)

\* start() by the handler; the ASGI adapter drops it after a disconnect.
Start ==
    /\ Answers /\ ~started /\ ~(style = "asgi" /\ disconnected)
    /\ started' = TRUE /\ Send("head")
    /\ UNCHANGED <<style, encodable, exchange, handler, channelVars, body, ended, reader,
                   bodyDone, got, ends, handled>>

\* start() with headers that cannot be encoded: it raises, after it has noted
\* that the response is started.  The ASGI adapter only passes strings; a
\* streaming handler may catch the exception and go on.
StartFails ==
    /\ Answers /\ ~started /\ ~encodable /\ style # "asgi"
    /\ started' = TRUE
    /\ handler' = "closing" \/ (style = "stream" /\ UNCHANGED handler)
    /\ UNCHANGED <<style, encodable, exchange, channelVars, bodyVars, out>>

\* write() by the handler.
Write ==
    /\ Answers /\ started /\ Len(out) < MaxOut
    /\ Send("chunk")
    /\ UNCHANGED <<style, encodable, exchange, handler, channelVars, body, ended, reader,
                   bodyDone, got, ends, handled, started>>

\* The handler returns or raises; a response that was not started is a 500.
Leave ==
    /\ Answers \/ handler = "aborted"
    /\ handler' = "closing" /\ started' = TRUE
    /\ IF started THEN UNCHANGED <<out, disconnected>> ELSE Send("500")
    /\ UNCHANGED <<style, encodable, exchange, channelVars, body, ended, reader, bodyDone,
                   got, ends, handled>>

\* _run_handler closes the channel, which ends the response.
Finish ==
    /\ handler = "closing" /\ handler' = "over"
    /\ MarkClosed
    /\ reader' = [r \in Readers |-> "idle"]
    /\ UNCHANGED <<style, encodable, exchange, upload, sent, lost, serve, body, ended,
                   disconnected, bodyDone, got, ends, handled, replyVars>>

-----------------------------------------------------------------------------
Consume == TakeHead \/ TakeBody \/ TakeStop

Next ==
    \/ ReceiveHead \/ ReceiveChunk \/ ReceiveEnd \/ Lose \/ Listen
    \/ Consume \/ WoundDown \/ Cancel
    \/ \E r \in Readers : Ask(r) \/ ReadChunk(r) \/ ReadEnd(r) \/ SeeDisconnect(r)
    \/ Start \/ StartFails \/ Write \/ Leave \/ Finish

\* The event loop runs what is scheduled; the handler's code promises nothing.
Fairness ==
    /\ WF_vars(Listen) /\ WF_vars(Consume) /\ WF_vars(WoundDown) /\ WF_vars(Cancel)
    /\ \A r \in Readers : WF_vars(ReadChunk(r) \/ ReadEnd(r)) /\ WF_vars(SeeDisconnect(r))
    /\ WF_vars(Finish)

Spec == Init /\ [][Next]_vars /\ Fairness

-----------------------------------------------------------------------------
(* Properties.                                                             *)

\* "The handler is called once the request body is complete" (backend.py:342):
\* the handler of serve_http never sees a part of a request whose caller left.
WholeBody == handled => ended /\ got = sent /\ upload = "none"

\* A handler told that the body is over while it is not can find out: the
\* exchange says the caller is gone.
TruncationShows == (ends > 0 /\ ~ended) => disconnected

\* However many tasks poll receive(), an ASGI application is told once that
\* the body is over.
OneEnd == style = "asgi" => ends <= 1

\* Whatever the handler does and however it fails, the head comes first and
\* there is one, as long as its headers can be encoded.
HeadFirst == encodable => \A i \in 1..Len(out) : (out[i] # "chunk") <=> (i = 1)

\* A caller who is still there is answered, even if the handler failed, as
\* long as the headers of the answer can be encoded.
Answered == (handler = "over" /\ ~lost /\ encodable) => out # <<>>

\* The same for any headers.  The code breaks it: it notes that the response
\* is started before it encodes the head, and then sends no 500.
AlwaysAnswered == (handler = "over" /\ ~lost) => out # <<>>

Chunks(queue) == Cardinality({i \in DOMAIN queue : queue[i] = "chunk"})

\* Why a body is whole: a channel has one exchange and one marker of its end,
\* the frames that wait are in the order of the request, and (as long as the
\* early buffer holds a request) every chunk was handed over or waits.
BodyAccounted ==
    /\ exchange <=> handler # "none"
    /\ \A i, j \in DOMAIN inbox : i < j =>
          inbox[j] # "head" /\ inbox[i] # "stop" /\ (inbox[i] = "end" => inbox[j] = "stop")
    /\ \A i, j \in DOMAIN body : i < j /\ body[i] = "end" => body[j] = "end"
    /\ \A i \in DOMAIN inbox :
          /\ inbox[i] = "stop" => ~open /\ serve # "begin"
          /\ inbox[i] # "stop" => upload # "head" /\ serve \in {"begin", "reading"}
          /\ inbox[i] = "end" => upload = "none"
          /\ inbox[i] = "head" => ~exchange
    /\ upload = "head" => ~exchange
    /\ upload # "head" /\ ~exchange => inbox # <<>> /\ inbox[1] = "head"
    /\ serve = "begin" =>
          Len(inbox) <= CASE upload = "head" -> 0 [] upload = "body" -> sent + 1
                          [] OTHER -> sent + 2
    /\ got + Chunks(body) + Chunks(inbox) = sent
    /\ ended => upload = "none" /\ \A i \in DOMAIN inbox : inbox[i] = "stop"
    /\ \A i \in DOMAIN body :
          body[i] = "end" => ended \/ (disconnected /\ serve \in {"grace", "done"})
    /\ handled => ended /\ Chunks(body) = 0

\* Why a caller is answered: it is the closing of the channel that a handler
\* learns of as a disconnect, and only that keeps a head from being sent.
ReplyAccounted ==
    /\ disconnected => ~open
    /\ ~open => lost \/ handler = "over"
    /\ serve \in {"grace", "done"} => ~open
    /\ serve = "grace" => handler # "none"
    /\ ends > 0 => ended \/ disconnected
    /\ style = "asgi" => ends = IF bodyDone THEN 1 ELSE 0
    /\ ~started => out = <<>>
    /\ handler = "closing" => started
    /\ encodable /\ started /\ out = <<>> => ~open
    /\ handler \in {"none", "over"} => \A r \in Readers : reader[r] = "idle"

\* What holds between two steps of the event loop.
ServeInv ==
    /\ ServeTypeOK /\ WholeBody /\ TruncationShows /\ OneEnd /\ HeadFirst /\ Answered
    /\ MaxBody + 2 <= EarlyLimit => BodyAccounted
    /\ ReplyAccounted

\* Once the channel is closed or the handler is done, everything about the
\* request comes to an end: a handler that goes on is cancelled.
ServeEnds == (~open \/ handler = "closing") ~> (~open /\ serve = "done")

\* No task keeps waiting for a body that ended or was aborted, however many
\* tasks read it.
ReadersWake ==
    \A r \in Readers :
        (reader[r] = "queue" /\ (ended \/ disconnected)) ~> reader[r] # "queue"

\* An exchange comes to an end, for the gateway and for every task of its own.
ExchangeEnds == ServeEnds /\ ReadersWake

=============================================================================
