--------------------------- MODULE TransferProofs ---------------------------
(***************************************************************************)
(* Proofs about what moves bytes, in the composition that is checked       *)
(* (MCTransfer): the relay of a channel (Relay), the gateway's         *)
(* side of a proxied request (HttpBridge), and the two backend SDKs that   *)
(* serve it (ServeChannel, HttpServe).                                     *)
(***************************************************************************)
EXTENDS MCTransfer, Sequences, FiniteSetTheorems, TLAPS

-----------------------------------------------------------------------------
(***************************************************************************)
(* The bridge.  A response that is about to be closed is over, so that     *)
(* giving its channel up leaves nobody waiting; and whoever tears the      *)
(* channel down first, an answered response is only ever cut.              *)
(***************************************************************************)

\* The 'close' event of a response comes after its end.
ClosedIsSettled == closing => Bridge!Settled

BridgeIInv == Bridge!BridgeTypeOK /\ Bridge!TornDownIsSettled /\ ClosedIsSettled

LEMMA BridgeInitCorrect == Bridge!Init => BridgeIInv
<1> SUFFICES ASSUME Bridge!Init PROVE BridgeIInv
  OBVIOUS
<1>1. 0 \in 0..MaxBody
  BY TransferConstants DEF Bridge!ConstantsOK
<1>2. frames = <<>> /\ <<>> \in Seq(Bridge!Frames)
  BY DEF Bridge!Init
<1>3. Bridge!BridgeTypeOK
  BY <1>1, <1>2 DEF Bridge!Init, Bridge!BridgeTypeOK
<1> QED
  BY <1>3 DEF Bridge!Init, BridgeIInv, Bridge!TornDownIsSettled, ClosedIsSettled

\* Frames come and go, and stay frames.
LEMMA FramesStay ==
  ASSUME frames \in Seq(Bridge!Frames), Bridge!Next
  PROVE  frames' \in Seq(Bridge!Frames)
<1>1. ASSUME NEW frame \in Bridge!Frames, NEW next, Bridge!Send(frame, next)
      PROVE  frames' \in Seq(Bridge!Frames)
  BY <1>1 DEF Bridge!Send
<1>2. CASE Bridge!BackendSends \/ Bridge!BackendStops
  BY <1>1, <1>2 DEF Bridge!BackendSends, Bridge!BackendStops, Bridge!Frames
<1>3. ASSUME NEW frame \in Bridge!Frames, Bridge!Arrives(frame)
      PROVE  frames' \in Seq(Bridge!Frames)
  BY <1>3 DEF Bridge!Arrives
<1>4. CASE Bridge!Bridge
  BY <1>3, <1>4 DEF Bridge!Bridge, Bridge!HandleMeta, Bridge!HandleLateMeta,
     Bridge!HandleLateBareMeta, Bridge!HandleBadMeta, Bridge!HandleBody, Bridge!SocketClosed,
     Bridge!Frames
<1>5. CASE Bridge!SocketTimesOut
  BY <1>5 DEF Bridge!SocketTimesOut
<1>6. CASE Bridge!Dial \/ Bridge!ChannelEnds \/ Bridge!Drain \/ Bridge!Expire
             \/ Bridge!CallerAborts \/ Bridge!ResponseClosed
  BY <1>6 DEF Bridge!Dial, Bridge!ChannelEnds, Bridge!Drain, Bridge!Expire,
     Bridge!CallerAborts, Bridge!ResponseClosed, Bridge!Abandon
<1> QED
  BY <1>2, <1>4, <1>5, <1>6 DEF Bridge!Next

\* A tear-down, by whoever it is, settles the response of its channel, and
\* sends a status line only if none was sent.
LEMMA TeardownSettles ==
  ASSUME BridgeIInv, NEW reason \in {"timeout", "closed"}, Bridge!Teardown(reason)
  PROVE  /\ channel' \in BOOLEAN /\ held' \in BOOLEAN /\ closing' \in BOOLEAN
         /\ socket' \in {"none", "open", "closing", "closed"}
         /\ status' \in {"none", "backend", "502", "504"}
         /\ response' \in {"pending", "streaming", "ended", "cut"}
         /\ Bridge!TornDownIsSettled' /\ ClosedIsSettled'
         /\ status # "none" => status' = status
<1> USE DEF BridgeIInv, Bridge!BridgeTypeOK, Bridge!TornDownIsSettled, ClosedIsSettled,
        Bridge!Settled
<1>1. CASE ~channel
  BY <1>1 DEF Bridge!Teardown
<1>2. CASE channel
  <2>1. /\ channel' = FALSE /\ held' = FALSE /\ Bridge!Answer(reason)
        /\ socket' = IF socket = "open" THEN "closing" ELSE socket
    BY <1>2 DEF Bridge!Teardown
  <2>2. CASE status = "none" /\ response = "pending"
    BY <2>1, <2>2 DEF Bridge!Answer
  <2>3. CASE ~(status = "none" /\ response = "pending")
    <3>1. /\ response' = IF Bridge!Settled THEN response ELSE "cut"
          /\ closing' = (closing \/ ~Bridge!Settled)
          /\ status' = status
      BY <2>1, <2>3 DEF Bridge!Answer
    <3> QED
      BY <2>1, <3>1
  <2> QED
    BY <2>2, <2>3
<1> QED
  BY <1>1, <1>2

\* The end of the data socket settles the response too.
LEMMA SocketGoneSettles ==
  ASSUME BridgeIInv, Bridge!SocketGone
  PROVE  /\ channel' = FALSE /\ held' = FALSE /\ closing' \in BOOLEAN /\ socket' = "closed"
         /\ status' \in {"none", "backend", "502", "504"}
         /\ response' \in {"pending", "streaming", "ended", "cut"}
         /\ Bridge!TornDownIsSettled' /\ ClosedIsSettled'
         /\ status # "none" => status' = status
<1> USE DEF BridgeIInv, Bridge!BridgeTypeOK, Bridge!TornDownIsSettled, ClosedIsSettled,
        Bridge!Settled
<1>1. channel' = FALSE /\ held' = FALSE /\ socket' = "closed"
  BY DEF Bridge!SocketGone
<1>2. CASE meta
  <2>1. /\ response' = IF Bridge!Settled THEN response ELSE "ended"
        /\ closing' = (closing \/ ~Bridge!Settled)
        /\ status' = status
    BY <1>2 DEF Bridge!SocketGone
  <2> QED
    BY <1>1, <2>1
<1>3. CASE ~meta /\ channel /\ status = "none" /\ response = "pending"
  <2>1. Bridge!Answer("closed")
    BY <1>3 DEF Bridge!SocketGone
  <2>2. status' = "502" /\ response' = "ended" /\ closing' = TRUE
    BY <1>3, <2>1 DEF Bridge!Answer
  <2> QED
    BY <1>1, <1>3, <2>2
<1>4. CASE ~meta /\ channel /\ ~(status = "none" /\ response = "pending")
  <2>1. Bridge!Answer("closed")
    BY <1>4 DEF Bridge!SocketGone
  <2>2. /\ response' = IF Bridge!Settled THEN response ELSE "cut"
        /\ closing' = (closing \/ ~Bridge!Settled)
        /\ status' = status
    BY <1>4, <2>1 DEF Bridge!Answer
  <2> QED
    BY <1>1, <2>2
<1>5. CASE ~meta /\ ~channel
  BY <1>1, <1>5 DEF Bridge!SocketGone
<1> QED
  BY <1>2, <1>3, <1>4, <1>5

LEMMA BridgeInductive ==
  ASSUME BridgeIInv, Bridge!Next
  PROVE  BridgeIInv' /\ (status # "none" => status' = status)
<1> DEFINE Rest == /\ sender' \in {"head", "body", "done", "gone"} /\ sent' \in 0..MaxBody
                   /\ meta' \in BOOLEAN /\ complete' \in BOOLEAN /\ running' \in BOOLEAN
           Core == /\ channel' \in BOOLEAN /\ held' \in BOOLEAN /\ closing' \in BOOLEAN
                   /\ socket' \in {"none", "open", "closing", "closed"}
                   /\ status' \in {"none", "backend", "502", "504"}
                   /\ response' \in {"pending", "streaming", "ended", "cut"}
                   /\ Bridge!TornDownIsSettled' /\ ClosedIsSettled'
                   /\ status # "none" => status' = status
<1>0. SUFFICES Rest /\ Core
  <2>1. frames' \in Seq(Bridge!Frames)
    BY FramesStay DEF BridgeIInv, Bridge!BridgeTypeOK
  <2> QED
    BY <2>1 DEF BridgeIInv, Bridge!BridgeTypeOK
<1>1. /\ sender \in {"head", "body", "done", "gone"} /\ sent \in 0..MaxBody
      /\ meta \in BOOLEAN /\ complete \in BOOLEAN /\ running \in BOOLEAN
  BY DEF BridgeIInv, Bridge!BridgeTypeOK
<1>2. UNCHANGED <<channel, held, closing, socket, status, response>> => Core
  BY DEF BridgeIInv, Bridge!BridgeTypeOK, Bridge!TornDownIsSettled, ClosedIsSettled,
     Bridge!Settled
<1>3. CASE Bridge!Dial
  BY <1>1, <1>3 DEF Bridge!Dial, BridgeIInv, Bridge!BridgeTypeOK, Bridge!TornDownIsSettled,
     ClosedIsSettled, Bridge!Settled
<1>4. CASE Bridge!BackendSends \/ Bridge!BackendStops
  <2>1. MaxBody \in Nat
    BY TransferConstants DEF Bridge!ConstantsOK
  <2>2. sent' \in 0..MaxBody
    BY <1>1, <1>4, <2>1 DEF Bridge!BackendSends, Bridge!BackendStops, Bridge!Send
  <2>3. sender' \in {"head", "body", "done", "gone"}
    BY <1>1, <1>4 DEF Bridge!BackendSends, Bridge!BackendStops, Bridge!Send
  <2>4. UNCHANGED <<channel, held, closing, socket, status, response, meta, complete, running>>
    BY <1>4 DEF Bridge!BackendSends, Bridge!BackendStops, Bridge!Send
  <2> QED
    BY <1>1, <1>2, <2>2, <2>3, <2>4
<1>5. CASE Bridge!ChannelEnds
  <2>1. Bridge!Teardown("closed") /\ UNCHANGED <<sender, sent, meta, complete, running>>
    BY <1>5 DEF Bridge!ChannelEnds
  <2> QED
    BY <1>1, <2>1, TeardownSettles
<1>6. CASE Bridge!Expire
  <2>1. Bridge!Teardown("timeout") /\ UNCHANGED <<sender, sent, meta, complete, running>>
    BY <1>6 DEF Bridge!Expire
  <2> QED
    BY <1>1, <2>1, TeardownSettles
<1>7. CASE Bridge!HandleBadMeta
  <2>1. Bridge!Teardown("closed") /\ UNCHANGED <<sender, sent, meta, complete, running>>
    BY <1>7 DEF Bridge!HandleBadMeta
  <2> QED
    BY <1>1, <2>1, TeardownSettles
<1>8. CASE Bridge!SocketClosed \/ Bridge!SocketTimesOut
  <2>1. Bridge!SocketGone
    BY <1>8 DEF Bridge!SocketClosed, Bridge!SocketTimesOut
  <2>2. UNCHANGED <<sender, sent, meta, complete, running>>
    BY <2>1 DEF Bridge!SocketGone
  <2> QED
    BY <1>1, <2>1, <2>2, SocketGoneSettles
<1>9. CASE Bridge!HandleMeta
  BY <1>1, <1>9 DEF Bridge!HandleMeta, Bridge!Arrives, BridgeIInv, Bridge!BridgeTypeOK,
     Bridge!TornDownIsSettled, ClosedIsSettled, Bridge!Settled
<1>10. CASE Bridge!HandleLateMeta
  BY <1>1, <1>10 DEF Bridge!HandleLateMeta, Bridge!Arrives, BridgeIInv, Bridge!BridgeTypeOK,
     Bridge!TornDownIsSettled, ClosedIsSettled, Bridge!Settled
<1>11. CASE Bridge!HandleLateBareMeta
  <2>1. /\ UNCHANGED <<channel, held, closing, socket, status, response>>
        /\ UNCHANGED <<sender, sent, complete, running>> /\ meta' = TRUE
    BY <1>11 DEF Bridge!HandleLateBareMeta, Bridge!Arrives
  <2> QED
    BY <1>1, <1>2, <2>1
<1>12. CASE Bridge!HandleBody
  <2>1. /\ UNCHANGED <<channel, socket, sender, sent, meta, status, response, closing, running>>
        /\ held' \in BOOLEAN
    BY <1>12 DEF Bridge!HandleBody
  <2>2. complete' \in BOOLEAN
    BY <1>12 DEF Bridge!HandleBody
  <2> QED
    BY <1>1, <2>1, <2>2 DEF BridgeIInv, Bridge!BridgeTypeOK, Bridge!TornDownIsSettled,
       ClosedIsSettled, Bridge!Settled
<1>13. CASE Bridge!Drain
  BY <1>1, <1>13 DEF Bridge!Drain, BridgeIInv, Bridge!BridgeTypeOK, Bridge!TornDownIsSettled,
     ClosedIsSettled, Bridge!Settled
<1>14. CASE Bridge!CallerAborts
  <2>1. Bridge!Abandon /\ response' = "cut" /\ closing' = closing
    BY <1>14 DEF Bridge!CallerAborts
  <2> QED
    BY <1>1, <2>1 DEF Bridge!Abandon, BridgeIInv, Bridge!BridgeTypeOK, Bridge!TornDownIsSettled,
       ClosedIsSettled, Bridge!Settled
<1>15. CASE Bridge!ResponseClosed
  <2>1. Bridge!Abandon /\ closing /\ response' = response /\ closing' = FALSE
    BY <1>15 DEF Bridge!ResponseClosed
  <2> QED
    BY <1>1, <2>1 DEF Bridge!Abandon, BridgeIInv, Bridge!BridgeTypeOK, Bridge!TornDownIsSettled,
       ClosedIsSettled, Bridge!Settled
<1> QED
  BY <1>3, <1>4, <1>5, <1>6, <1>7, <1>8, <1>9, <1>10, <1>11, <1>12, <1>13, <1>14, <1>15
     DEF Bridge!Next, Bridge!Bridge

-----------------------------------------------------------------------------
(***************************************************************************)
(* The composition: a step is one of a single part.                        *)
(***************************************************************************)

everything == <<part, relayVars, bridgeVars, serveVars, pythonVars>>

LEMMA BridgeSteps == [Next]_everything => [Bridge!Next]_(Bridge!vars)
BY DEF Next, everything, bridgeVars, Bridge!vars

LEMMA BridgeVarsKept == UNCHANGED Bridge!vars /\ BridgeIInv => BridgeIInv'
BY DEF Bridge!vars, BridgeIInv, Bridge!BridgeTypeOK, Bridge!TornDownIsSettled, ClosedIsSettled,
   Bridge!Settled

LEMMA BridgeAlways == Spec => []BridgeIInv
<1>1. Init => BridgeIInv
  BY BridgeInitCorrect DEF Init
<1>2. BridgeIInv /\ [Next]_everything => BridgeIInv'
  BY BridgeSteps, BridgeInductive, BridgeVarsKept
<1> QED
  BY <1>1, <1>2, PTL DEF Spec, everything

\* Once the record of its channel is gone the caller of a proxied request has
\* been answered or cut: by the tear-down, the end of the data socket, a timer
\* or its own leaving, in whatever order they come, for any number of frames.
THEOREM BridgeCorrect == Spec => []BridgeInv
<1>1. BridgeIInv => BridgeInv
  BY DEF BridgeIInv, BridgeInv, Bridge!BridgeInv
<1> QED
  BY <1>1, BridgeAlways, PTL

\* No step of the bridge answers a request whose status line was sent.
THEOREM StatusFinalHolds == Spec => StatusFinal
<1>1. BridgeIInv /\ [Next]_everything
        => [status # "none" => status' = status]_(Bridge!vars)
  BY BridgeSteps, BridgeInductive
<1> QED
  BY <1>1, BridgeAlways, PTL DEF Spec, everything, StatusFinal, Bridge!StatusFinal

-----------------------------------------------------------------------------
(***************************************************************************)
(* The relay, for every rate limit, high-water mark and size of frames and *)
(* reads.                                                                  *)
(***************************************************************************)

\* The most that the frames of one read add up to.
Overshoot == MaxChunk * MaxFrame

-----------------------------------------------------------------------------
(***************************************************************************)
(* Arithmetic.                                                             *)
(***************************************************************************)

LEMMA Products ==
  ASSUME NEW a \in Nat, NEW b \in Nat
  PROVE  /\ a * b \in Nat /\ 0 * b = 0
         /\ (a + 1) * b = a * b + b
         /\ a > 0 => (a - 1) * b = a * b - b
  OBVIOUS

LEMMA ProductsOrdered ==
  ASSUME NEW a \in Nat, NEW c \in Nat, NEW b \in Nat, a <= c
  PROVE  a * b <= c * b
  OBVIOUS

LEMMA Sums ==
  ASSUME NEW a \in Nat, NEW b \in Nat, NEW c \in Nat
  PROVE  a + b + c > 0 <=> a > 0 \/ b > 0 \/ c > 0
  OBVIOUS

LEMMA SumsOrdered ==
  ASSUME NEW a \in Nat, NEW b \in Nat, NEW c \in Nat, NEW d \in Nat, a <= c, b <= d
  PROVE  a + b <= c + d
  OBVIOUS

LEMMA SumLeft ==
  ASSUME NEW a \in Nat, NEW b \in Nat, NEW c \in Nat, a + b <= c
  PROVE  a <= c
  OBVIOUS

\* A frame that comes out of what is left of a read keeps the sum.
LEMMA FrameFits ==
  ASSUME NEW charged \in Nat, NEW piece \in Nat, NEW remains \in Nat, NEW rest \in Nat,
         NEW bound \in Nat, piece + rest <= remains, charged + remains <= bound
  PROVE  (charged + piece) + rest <= bound /\ charged + piece <= bound
  OBVIOUS

\* The sizes the constants stand for, and what is left of a read.
LEMMA RelaySizes ==
  ASSUME Relaying!ConstantsOK, Relaying!RelayTypeOK
  PROVE  /\ limit \in Nat /\ HighWater \in Nat /\ LowWater \in Nat /\ LowWater < HighWater
         /\ MaxFrame \in Nat /\ MaxFrame > 0 /\ MaxChunk \in Nat /\ Overshoot \in Nat
         /\ chunk \in Nat /\ chunk <= MaxChunk /\ chunk * MaxFrame \in Nat
         /\ chunk * MaxFrame <= Overshoot
         /\ windows * limit \in Nat
  BY Products, ProductsOrdered DEF Relaying!ConstantsOK, Relaying!RelayTypeOK, Overshoot

-----------------------------------------------------------------------------

LEMMA RelayInitCorrect == Relaying!ConstantsOK /\ Relaying!Init => Relaying!RelayInv
<1> SUFFICES ASSUME Relaying!ConstantsOK, Relaying!Init PROVE Relaying!RelayInv
  OBVIOUS
<1>1. Relaying!RelayTypeOK
  <2>1. 0 \in 0..MaxChunk /\ 0 \in Nat
    BY DEF Relaying!ConstantsOK
  <2> QED
    BY <2>1 DEF Relaying!Init, Relaying!RelayTypeOK
<1>2. Overshoot \in Nat /\ HighWater \in Nat /\ chunk * MaxFrame = 0 /\ limit \in Nat
  BY <1>1, RelaySizes, Products DEF Relaying!Init
<1>3. Relaying!PausesAreWatched /\ Relaying!BufferBounded /\ Relaying!BackPressureKept
  BY <1>1, <1>2
     DEF Relaying!Init, Relaying!PausesAreWatched, Relaying!BufferBounded,
         Relaying!BackPressureKept, Overshoot
<1>4. Relaying!BucketKept
  BY <1>1, <1>2 DEF Relaying!Init, Relaying!BucketKept, Overshoot
<1> QED
  BY <1>1, <1>3, <1>4 DEF Relaying!RelayInv

LEMMA RelayTypeInductive ==
  ASSUME Relaying!ConstantsOK, Relaying!RelayTypeOK, [Relaying!Next]_(Relaying!vars)
  PROVE  Relaying!RelayTypeOK'
<1> USE DEF Relaying!RelayTypeOK, Relaying!settings
<1>0. /\ MaxChunk \in Nat /\ MaxFrame \in Nat /\ limit \in Nat
  BY DEF Relaying!ConstantsOK
<1>1. CASE Relaying!Read
  BY <1>0, <1>1 DEF Relaying!Read
<1>2. ASSUME NEW piece \in 1..MaxFrame, Relaying!Deliver(piece) PROVE Relaying!RelayTypeOK'
  <2>1. Relaying!Carry \in Nat /\ Relaying!UsedAfter(piece) \in Nat
        /\ Relaying!Queued(piece) \in Nat
    BY <1>0 DEF Relaying!Carry, Relaying!UsedAfter, Relaying!Queued
  <2>2. chunk' \in 0..MaxChunk /\ UNCHANGED <<limit, keepsUp, ripe, wired>>
    BY <1>0, <1>2 DEF Relaying!Deliver
  <2>3. used' \in Nat /\ over' \in BOOLEAN /\ armed' \in Nat /\ windows' \in Nat
        /\ relayed' \in Nat
    <3>1. Relaying!Charge(piece) /\ piece \in Nat
      BY <1>2 DEF Relaying!Deliver
    <3>2. CASE limit = 0
      BY <3>1, <3>2 DEF Relaying!Charge
    <3>3. CASE limit # 0
      <4>1. used' = Relaying!UsedAfter(piece) /\ relayed' = relayed + piece
        BY <3>1, <3>3 DEF Relaying!Charge
      <4>2. over' \in BOOLEAN
        BY <3>1, <3>3 DEF Relaying!Charge
      <4>3. windows' \in Nat /\ armed' \in Nat
        BY <3>1, <3>3 DEF Relaying!Charge
      <4> QED
        BY <2>1, <3>1, <4>1, <4>2, <4>3
    <3> QED
      BY <3>2, <3>3
  <2>4. buffered' \in Nat /\ drains' \in Nat /\ paused' \in BOOLEAN
    <3>1. Relaying!Buffer(piece)
      BY <1>2 DEF Relaying!Deliver
    <3> QED
      BY <2>1, <3>1 DEF Relaying!Buffer
  <2> QED
    BY <2>2, <2>3, <2>4
<1>3. CASE Relaying!WindowEnds
  BY <1>3 DEF Relaying!WindowEnds
<1>4. CASE Relaying!RateTimer
  BY <1>4 DEF Relaying!RateTimer
<1>5. CASE Relaying!DrainTick
  <2>1. drains' \in Nat /\ paused' = FALSE
    BY <1>5 DEF Relaying!DrainTick
  <2>2. UNCHANGED <<limit, keepsUp, chunk, used, over, armed, ripe, buffered, wired,
        windows, relayed>>
    BY <1>5 DEF Relaying!DrainTick
  <2> QED
    BY <2>1, <2>2
<1>6. CASE Relaying!Flush
  BY <1>6 DEF Relaying!Flush
<1>7. CASE Relaying!Close
  <2>1. chunk' \in 0..MaxChunk /\ paused' = FALSE /\ wired' = FALSE
    BY <1>0, <1>7 DEF Relaying!Close
  <2>2. UNCHANGED <<limit, keepsUp, used, over, armed, ripe, drains, buffered, windows,
        relayed>>
    BY <1>7 DEF Relaying!Close
  <2> QED
    BY <2>1, <2>2
<1>8. CASE UNCHANGED Relaying!vars
  BY <1>8 DEF Relaying!vars
<1> QED
  BY <1>1, <1>2, <1>3, <1>4, <1>5, <1>6, <1>7, <1>8 DEF Relaying!Next

LEMMA PausesInductive ==
  ASSUME Relaying!ConstantsOK, Relaying!RelayTypeOK, Relaying!RelayTypeOK',
         Relaying!PausesAreWatched, [Relaying!Next]_(Relaying!vars)
  PROVE  Relaying!PausesAreWatched'
<1>0. /\ armed \in Nat /\ ripe \in Nat /\ drains \in Nat
      /\ armed' \in Nat /\ ripe' \in Nat /\ drains' \in Nat
  BY DEF Relaying!RelayTypeOK
<1>1. ASSUME NEW piece \in 1..MaxFrame, Relaying!Deliver(piece), paused'
      PROVE  armed' > 0 \/ ripe' > 0 \/ drains' > 0
  <2>1. Relaying!Charge(piece) /\ Relaying!Buffer(piece)
    BY <1>1 DEF Relaying!Deliver
  <2>2. ripe' = ripe
    BY <1>1 DEF Relaying!Deliver
  <2>3. armed' >= armed /\ (Relaying!RateHit => armed' > 0)
    BY <1>0, <2>1 DEF Relaying!Charge, Relaying!RateHit
  <2>4. drains' >= drains /\ (buffered' > HighWater => drains' > 0)
    BY <1>0, <2>1 DEF Relaying!Buffer
  <2>5. paused' = (paused \/ Relaying!RateHit \/ buffered' > HighWater)
    BY <2>1 DEF Relaying!Buffer
  <2>6. paused \/ Relaying!RateHit \/ buffered' > HighWater
    BY <1>1, <2>5, Zenon
  <2>7. CASE paused
    <3>1. armed + ripe + drains > 0
      BY <2>7 DEF Relaying!PausesAreWatched
    <3>2. armed > 0 \/ ripe > 0 \/ drains > 0
      BY <1>0, <3>1, Sums
    <3> QED
      BY <1>0, <2>2, <2>3, <2>4, <3>2
  <2>8. CASE Relaying!RateHit
    BY <2>3, <2>8
  <2>9. CASE buffered' > HighWater
    BY <2>4, <2>9
  <2> QED
    BY <2>6, <2>7, <2>8, <2>9
<1>2. ASSUME NEW piece \in 1..MaxFrame, Relaying!Deliver(piece), paused'
      PROVE  armed' + ripe' + drains' > 0
  BY <1>0, <1>1, <1>2, Sums
<1>3. CASE Relaying!WindowEnds
  BY <1>3 DEF Relaying!WindowEnds, Relaying!PausesAreWatched, Relaying!RelayTypeOK
<1> QED
  BY <1>2, <1>3
     DEF Relaying!Next, Relaying!Read, Relaying!RateTimer, Relaying!DrainTick,
         Relaying!Flush, Relaying!Close, Relaying!vars, Relaying!PausesAreWatched

-----------------------------------------------------------------------------
(***************************************************************************)
(* Back-pressure.  Without a rate limit no rate timer exists, so nothing   *)
(* resumes a sender whose receiver is above the high-water mark.           *)
(***************************************************************************)

\* A frame that is queued brings the buffer no further than what was still
\* to come of its read.
LEMMA QueuedBounds ==
  ASSUME Relaying!ConstantsOK, Relaying!RelayTypeOK, NEW piece \in 1..MaxFrame
  PROVE  /\ piece \in Nat /\ piece > 0 /\ piece <= MaxFrame
         /\ Relaying!Queued(piece) \in Nat /\ Relaying!Queued(piece) <= buffered + piece
  BY DEF Relaying!ConstantsOK, Relaying!RelayTypeOK, Relaying!Queued

LEMMA DeliverTakesOne ==
  ASSUME Relaying!ConstantsOK, Relaying!RelayTypeOK, NEW piece \in 1..MaxFrame,
         Relaying!Deliver(piece)
  PROVE  /\ chunk > 0 /\ wired /\ wired' = wired
         /\ chunk' * MaxFrame \in Nat
         /\ piece + chunk' * MaxFrame <= chunk * MaxFrame
<1>1. chunk > 0 /\ chunk' = chunk - 1 /\ wired /\ wired' = wired
  BY DEF Relaying!Deliver
<1>2. chunk \in Nat /\ MaxFrame \in Nat /\ piece \in Nat /\ piece <= MaxFrame
  BY RelaySizes, QueuedBounds
<1>3. chunk' \in Nat
  BY <1>1, <1>2
<1>4. (chunk - 1) * MaxFrame = chunk * MaxFrame - MaxFrame
  BY <1>1, <1>2, Products
<1>5. chunk' * MaxFrame \in Nat /\ chunk * MaxFrame \in Nat
  BY <1>2, <1>3, Products
<1>6. chunk' * MaxFrame = chunk * MaxFrame - MaxFrame
  BY <1>1, <1>4
<1> HIDE <1>4
<1> QED
  BY <1>1, <1>2, <1>5, <1>6

LEMMA BackPressureInductive ==
  ASSUME Relaying!ConstantsOK, Relaying!RelayTypeOK, Relaying!RelayTypeOK',
         Relaying!BackPressureKept, [Relaying!Next]_(Relaying!vars)
  PROVE  Relaying!BackPressureKept'
<1>1. limit' = limit
  BY DEF Relaying!Next, Relaying!vars, Relaying!settings, Relaying!Read,
     Relaying!Deliver, Relaying!WindowEnds, Relaying!RateTimer, Relaying!DrainTick,
     Relaying!Flush, Relaying!Close
<1> SUFFICES ASSUME limit = 0
             PROVE  /\ armed' = 0 /\ ripe' = 0
                    /\ wired' /\ ~paused' => buffered' <= HighWater
                    /\ buffered' + chunk' * MaxFrame <= HighWater + Overshoot
  BY <1>1 DEF Relaying!BackPressureKept, Overshoot
<1>2. /\ armed = 0 /\ ripe = 0
      /\ wired /\ ~paused => buffered <= HighWater
      /\ buffered + chunk * MaxFrame <= HighWater + Overshoot
  BY DEF Relaying!BackPressureKept, Overshoot
<1>3. /\ HighWater \in Nat /\ LowWater \in Nat /\ LowWater < HighWater
      /\ MaxFrame \in Nat /\ Overshoot \in Nat
      /\ chunk \in Nat /\ chunk * MaxFrame \in Nat
      /\ buffered \in Nat /\ buffered' \in Nat
  BY RelaySizes DEF Relaying!RelayTypeOK
<1>4. ASSUME NEW piece \in 1..MaxFrame, Relaying!Deliver(piece)
      PROVE  /\ armed' = 0 /\ ripe' = 0
             /\ wired' /\ ~paused' => buffered' <= HighWater
             /\ buffered' + chunk' * MaxFrame <= HighWater + Overshoot
  <2>1. Relaying!Charge(piece) /\ Relaying!Buffer(piece) /\ UNCHANGED ripe
    BY <1>4 DEF Relaying!Deliver
  <2>2. armed' = armed
    BY <2>1 DEF Relaying!Charge
  <2>3. buffered' = Relaying!Queued(piece)
        /\ paused' = (paused \/ Relaying!RateHit \/ buffered' > HighWater)
    BY <2>1 DEF Relaying!Buffer
  <2>4. ~paused' => ~(buffered' > HighWater)
    BY <2>3, Zenon
  <2>5. piece \in Nat /\ buffered' <= buffered + piece
    BY <2>3, QueuedBounds
  <2>6. chunk' * MaxFrame \in Nat /\ piece + chunk' * MaxFrame <= chunk * MaxFrame
    BY <1>4, DeliverTakesOne
  <2>7. buffered' + chunk' * MaxFrame <= HighWater + Overshoot
    BY <1>2, <1>3, <2>5, <2>6
  <2>8. ~paused' => buffered' <= HighWater
    BY <1>3, <2>4
  <2>9. armed' = 0 /\ ripe' = 0
    BY <1>2, <2>1, <2>2
  <2> QED
    BY <2>7, <2>8, <2>9
<1>5. CASE Relaying!Read
  <2>1. /\ wired /\ ~paused
        /\ UNCHANGED <<armed, ripe, wired, paused, buffered>>
    BY <1>5 DEF Relaying!Read
  <2>2. chunk' \in Nat /\ chunk' <= MaxChunk /\ MaxChunk \in Nat
    BY <1>5, RelaySizes DEF Relaying!Read
  <2>3. chunk' * MaxFrame \in Nat /\ chunk' * MaxFrame <= Overshoot
    BY <1>3, <2>2, Products, ProductsOrdered DEF Overshoot
  <2> QED
    BY <1>2, <1>3, <2>1, <2>3
<1>6. CASE Relaying!DrainTick
  <2>1. UNCHANGED <<armed, ripe, wired, buffered, chunk>>
    BY <1>6 DEF Relaying!DrainTick
  <2>2. buffered <= LowWater \/ ~wired
    BY <1>6 DEF Relaying!DrainTick
  <2> QED
    BY <1>2, <1>3, <2>1, <2>2
<1>7. CASE Relaying!Flush
  <2>1. UNCHANGED <<armed, ripe, wired, paused, chunk>>
    BY <1>7 DEF Relaying!Flush
  <2>2. buffered' <= buffered
    BY <1>3, <1>7 DEF Relaying!Flush
  <2>3. chunk' * MaxFrame = chunk * MaxFrame
    BY <2>1
  <2>4. buffered' + chunk' * MaxFrame <= HighWater + Overshoot
    BY <1>2, <1>3, <2>2, <2>3
  <2>5. buffered <= HighWater => buffered' <= HighWater
    BY <1>3, <2>2
  <2> QED
    BY <1>2, <2>1, <2>4, <2>5
<1>8. CASE Relaying!Close
  <2>1. UNCHANGED <<armed, ripe, buffered>> /\ ~wired' /\ chunk' = 0
    BY <1>8 DEF Relaying!Close
  <2>2. chunk' * MaxFrame = 0
    BY <1>3, <2>1, Products
  <2> QED
    BY <1>2, <1>3, <2>1, <2>2
<1>9. CASE Relaying!WindowEnds
  <2>1. UNCHANGED <<wired, paused, buffered, chunk>> /\ armed' = 0 /\ ripe' = ripe + armed
    BY <1>9 DEF Relaying!WindowEnds
  <2> QED
    BY <1>2, <2>1
<1>10. CASE Relaying!RateTimer
  BY <1>2, <1>10 DEF Relaying!RateTimer
<1>11. CASE UNCHANGED Relaying!vars
  BY <1>2, <1>11 DEF Relaying!vars
<1> QED
  BY <1>4, <1>5, <1>6, <1>7, <1>8, <1>9, <1>10, <1>11 DEF Relaying!Next

\* The buffer is bounded because what it holds and what is left of a read are.
LEMMA BoundedByBackPressure ==
  ASSUME Relaying!ConstantsOK, Relaying!RelayTypeOK, Relaying!BackPressureKept
  PROVE  Relaying!BufferBounded
<1> SUFFICES ASSUME limit = 0 PROVE buffered <= HighWater + Overshoot
  BY DEF Relaying!BufferBounded, Overshoot
<1>1. buffered + chunk * MaxFrame <= HighWater + Overshoot
  BY DEF Relaying!BackPressureKept, Overshoot
<1>2. buffered \in Nat /\ chunk * MaxFrame \in Nat /\ HighWater \in Nat /\ Overshoot \in Nat
  BY RelaySizes DEF Relaying!RelayTypeOK
<1> QED
  BY <1>1, <1>2

-----------------------------------------------------------------------------
(***************************************************************************)
(* The bucket of a rate limit that no read exceeds, with a receiver that   *)
(* keeps up: BucketKept in two parts, with what is left of a read and what *)
(* the windows so far allow as numbers of their own.                       *)
(***************************************************************************)

Left == chunk * MaxFrame

Allowed == windows * limit

\* The most a bucket may hold
Ceiling == limit + Overshoot

Steady == keepsUp /\ Overshoot <= limit

\* Who is paused and what is charged, while the channel is wired
PausesCharged ==
    /\ armed > 0 => ~over /\ used > limit
    /\ armed + ripe > 0 => paused
    /\ ~over /\ ~paused => used <= limit
    /\ ~over \/ ripe > 0 => used + Left <= limit + Overshoot
    /\ ~over /\ ripe > 0 => used + Left <= Overshoot

\* What the windows so far relayed, and what the bucket holds of it
WindowsCharged ==
    /\ used <= limit + Overshoot
    /\ windows = 0 => relayed = 0 /\ used = 0 /\ over
    /\ windows > 0 => relayed + limit <= Allowed + used

LEMMA BucketParts ==
  Relaying!BucketKept <=> (Steady => /\ buffered = 0 /\ drains = 0
                                     /\ wired => PausesCharged
                                     /\ WindowsCharged)
BY DEF Relaying!BucketKept, Steady, PausesCharged, WindowsCharged, Left, Allowed, Overshoot

LEMMA RelayNumbers ==
  ASSUME Relaying!ConstantsOK, Relaying!RelayTypeOK
  PROVE  /\ limit \in Nat /\ MaxFrame \in Nat /\ Overshoot \in Nat /\ Overshoot > 0
         /\ Left \in Nat /\ Left <= Overshoot /\ Allowed \in Nat
         /\ used \in Nat /\ armed \in Nat /\ ripe \in Nat /\ windows \in Nat
         /\ relayed \in Nat /\ over \in BOOLEAN /\ paused \in BOOLEAN
<1>1. MaxChunk \in Nat /\ MaxChunk >= 1 /\ MaxFrame \in Nat /\ MaxFrame > 0
  BY DEF Relaying!ConstantsOK
<1>2. 1 * MaxFrame <= MaxChunk * MaxFrame /\ 1 * MaxFrame = MaxFrame
  BY <1>1, ProductsOrdered
<1>3. Overshoot \in Nat
  BY RelaySizes
<1>4. Overshoot > 0
  BY <1>1, <1>2, <1>3 DEF Overshoot
<1> QED
  BY <1>3, <1>4, RelaySizes DEF Relaying!RelayTypeOK, Left, Allowed

\* A new window inherits no more than what one read may exceed the last by,
\* and while a due timer is waited for, no more than leaves room for the rest
\* of the read.
LEMMA CarryBounds ==
  ASSUME Relaying!ConstantsOK, Relaying!RelayTypeOK, WindowsCharged
  PROVE  /\ Relaying!Carry \in Nat /\ Relaying!Carry <= Overshoot
         /\ used <= limit + Relaying!Carry
         /\ used + Left <= limit + Overshoot => Relaying!Carry + Left <= Overshoot
<1>1. used <= limit + Overshoot
  BY DEF WindowsCharged
<1>2. CASE used > limit
  <2>1. Relaying!Carry = used - limit
    BY <1>2 DEF Relaying!Carry
  <2> QED
    BY <1>1, <1>2, <2>1, RelayNumbers
<1>3. CASE ~(used > limit)
  <2>1. Relaying!Carry = 0
    BY <1>3 DEF Relaying!Carry
  <2> QED
    BY <1>1, <1>3, <2>1, RelayNumbers
<1> QED
  BY <1>2, <1>3

\* What a frame does to the bucket, in these numbers.
LEMMA DeliverCharges ==
  ASSUME Relaying!ConstantsOK, Relaying!RelayTypeOK, Relaying!RelayTypeOK', Steady,
         buffered = 0, drains = 0,
         NEW piece \in 1..MaxFrame, Relaying!Deliver(piece)
  PROVE  /\ piece \in Nat /\ Left' \in Nat /\ piece + Left' <= Left
         /\ wired /\ limit' = limit /\ ripe' = ripe /\ buffered' = 0 /\ drains' = 0
         /\ used' = Relaying!UsedAfter(piece) /\ ~over' /\ relayed' = relayed + piece
         /\ windows' = IF over THEN windows + 1 ELSE windows
         /\ armed' = IF used' > limit THEN armed + 1 ELSE armed
         /\ paused' <=> (paused \/ used' > limit)
         /\ Allowed' = IF over THEN Allowed + limit ELSE Allowed
<1>1. Relaying!Charge(piece) /\ Relaying!Buffer(piece)
  BY DEF Relaying!Deliver
<1>2. limit' = limit /\ ripe' = ripe
  BY DEF Relaying!Deliver, Relaying!settings
<1>3. piece \in Nat /\ Left' \in Nat /\ piece + Left' <= Left /\ wired
  BY QueuedBounds, DeliverTakesOne DEF Left
<1>4. limit # 0
  BY RelayNumbers DEF Steady
<1>5. /\ used' = Relaying!UsedAfter(piece) /\ over' = FALSE /\ relayed' = relayed + piece
  BY <1>1, <1>4 DEF Relaying!Charge
<1>6. windows' = IF over THEN windows + 1 ELSE windows
  BY <1>1, <1>4 DEF Relaying!Charge
<1>7. armed' = IF used' > limit THEN armed + 1 ELSE armed
  BY <1>1, <1>4 DEF Relaying!Charge
<1>8. buffered' = 0
  BY <1>1 DEF Relaying!Buffer, Relaying!Queued, Steady
<1>9. HighWater \in Nat /\ ~(buffered' > HighWater)
  BY <1>8, RelaySizes
<1>10. drains' = 0
  BY <1>1, <1>9 DEF Relaying!Buffer
<1>11. paused' = (paused \/ Relaying!RateHit \/ buffered' > HighWater)
  BY <1>1 DEF Relaying!Buffer
<1>12. Relaying!RateHit <=> used' > limit
  BY <1>4 DEF Relaying!RateHit
<1>13. paused' <=> (paused \/ used' > limit)
  BY <1>9, <1>11, <1>12, Zenon
<1>14. Allowed' = IF over THEN Allowed + limit ELSE Allowed
  <2>1. windows \in Nat /\ limit \in Nat
    BY RelayNumbers
  <2>2. (windows + 1) * limit = windows * limit + limit
    BY <2>1, Products
  <2>3. Allowed' = windows' * limit
    BY <1>2 DEF Allowed
  <2>4. CASE over
    BY <1>6, <2>2, <2>3, <2>4 DEF Allowed
  <2>5. CASE ~over
    BY <1>6, <2>3, <2>5 DEF Allowed
  <2> QED
    BY <2>4, <2>5
<1> QED
  BY <1>2, <1>3, <1>5, <1>6, <1>7, <1>8, <1>10, <1>13, <1>14

LEMMA DeliverKeepsWindows ==
  ASSUME Relaying!ConstantsOK, Relaying!RelayTypeOK, Relaying!RelayTypeOK', Steady,
         buffered = 0, drains = 0,
         PausesCharged, WindowsCharged, NEW piece \in 1..MaxFrame, Relaying!Deliver(piece)
  PROVE  WindowsCharged'
<1>1. /\ piece \in Nat /\ Left' \in Nat /\ piece + Left' <= Left /\ limit' = limit
      /\ used' = Relaying!UsedAfter(piece) /\ ~over' /\ relayed' = relayed + piece
      /\ windows' = IF over THEN windows + 1 ELSE windows
      /\ Allowed' = IF over THEN Allowed + limit ELSE Allowed
  BY DeliverCharges
<1>2. /\ limit \in Nat /\ Overshoot \in Nat /\ Left \in Nat /\ Left <= Overshoot
      /\ Allowed \in Nat /\ used \in Nat /\ windows \in Nat /\ relayed \in Nat
      /\ Overshoot <= limit
  BY RelayNumbers DEF Steady
<1>3. Overshoot' = Overshoot
  BY DEF Overshoot
<1>0. piece \in Nat /\ Left' \in Nat /\ piece + Left' <= Left
  BY <1>1
<1>4. /\ windows = 0 => relayed = 0 /\ used = 0 /\ over
      /\ windows > 0 => relayed + limit <= Allowed + used
  BY DEF WindowsCharged
<1>5. piece \in Nat
  BY <1>1
<1>6. CASE over
  <2>1. /\ used' = Relaying!Carry + piece /\ windows' = windows + 1
        /\ Allowed' = Allowed + limit
    BY <1>1, <1>6 DEF Relaying!UsedAfter
  <2>2. Relaying!Carry \in Nat /\ Relaying!Carry <= Overshoot
        /\ used <= limit + Relaying!Carry
    BY CarryBounds
  <2>3. used' <= limit + Overshoot
    <3>1. Relaying!Carry + Left <= Overshoot + limit
      BY <1>2, <2>2, SumsOrdered
    <3>2. Ceiling \in Nat /\ Relaying!Carry + Left <= Ceiling
      BY <1>2, <3>1 DEF Ceiling
    <3>3. Relaying!Carry + piece <= Ceiling
      BY <1>0, <1>2, <2>2, <3>2, FrameFits
    <3> QED
      BY <2>1, <3>3 DEF Ceiling
  <2>4. relayed <= Allowed + Relaying!Carry
    BY <1>2, <1>4, <2>2
  <2>5. relayed' + limit <= Allowed' + used'
    <3>1. Allowed' + used' = Allowed + limit + Relaying!Carry + piece
      BY <1>1, <1>2, <2>1, <2>2
    <3>2. relayed' = relayed + piece
      BY <1>1
    <3> QED
      BY <1>2, <1>5, <2>2, <2>4, <3>1, <3>2
  <2>6. windows' # 0
    BY <1>2, <2>1
  <2> QED
    BY <1>1, <1>3, <2>3, <2>5, <2>6 DEF WindowsCharged
<1>7. CASE ~over
  <2>1. used' = used + piece /\ windows' = windows /\ Allowed' = Allowed
    BY <1>1, <1>7 DEF Relaying!UsedAfter
  <2>2. used + Left <= limit + Overshoot
    BY <1>7 DEF PausesCharged
  <2>3. used' <= limit + Overshoot
    <3>1. Ceiling \in Nat /\ used + Left <= Ceiling
      BY <1>2, <2>2 DEF Ceiling
    <3>2. used + piece <= Ceiling
      BY <1>0, <1>2, <3>1, FrameFits
    <3> QED
      BY <2>1, <3>2 DEF Ceiling
  <2>4. windows > 0
    BY <1>2, <1>4, <1>7
  <2>5. relayed' + limit <= Allowed' + used'
    <3>1. Allowed' + used' = Allowed + used + piece
      BY <1>2, <1>5, <2>1
    <3>2. relayed' = relayed + piece
      BY <1>1
    <3>3. relayed + limit <= Allowed + used
      BY <1>4, <2>4
    <3> QED
      BY <1>2, <1>5, <3>1, <3>2, <3>3
  <2>6. windows' # 0
    BY <2>1, <2>4
  <2> QED
    BY <1>1, <1>3, <2>3, <2>5, <2>6 DEF WindowsCharged
<1> QED
  BY <1>6, <1>7

LEMMA DeliverKeepsPauses ==
  ASSUME Relaying!ConstantsOK, Relaying!RelayTypeOK, Relaying!RelayTypeOK', Steady,
         buffered = 0, drains = 0,
         PausesCharged, WindowsCharged, NEW piece \in 1..MaxFrame, Relaying!Deliver(piece)
  PROVE  PausesCharged'
<1>1. /\ piece \in Nat /\ Left' \in Nat /\ piece + Left' <= Left
      /\ limit' = limit /\ ripe' = ripe /\ used' = Relaying!UsedAfter(piece) /\ ~over'
      /\ armed' = IF used' > limit THEN armed + 1 ELSE armed
      /\ paused' <=> (paused \/ used' > limit)
  BY DeliverCharges
<1>2. /\ limit \in Nat /\ Overshoot \in Nat /\ Left \in Nat /\ Left <= Overshoot
      /\ used \in Nat /\ armed \in Nat /\ ripe \in Nat /\ Overshoot <= limit
  BY RelayNumbers DEF Steady
<1>3. Overshoot' = Overshoot
  BY DEF Overshoot
<1>0. piece \in Nat /\ Left' \in Nat /\ piece + Left' <= Left
  BY <1>1
<1>4. /\ armed > 0 => ~over /\ used > limit
      /\ armed + ripe > 0 => paused
  BY DEF PausesCharged
<1>5. /\ ~over => used + Left <= limit + Overshoot
      /\ ripe > 0 => used + Left <= limit + Overshoot
      /\ ~over /\ ripe > 0 => used + Left <= Overshoot
  BY DEF PausesCharged
<1>6. CASE over
  <2>1. used' = Relaying!Carry + piece
    BY <1>1, <1>6 DEF Relaying!UsedAfter
  <2>2. /\ Relaying!Carry \in Nat /\ Relaying!Carry <= Overshoot
        /\ used + Left <= limit + Overshoot => Relaying!Carry + Left <= Overshoot
    BY CarryBounds
  <2>3. armed = 0
    BY <1>2, <1>4, <1>6
  <2>4. used' + Left' <= limit + Overshoot
    <3>1. Relaying!Carry + Left <= Overshoot + limit
      BY <1>2, <2>2, SumsOrdered
    <3>2. Ceiling \in Nat /\ Relaying!Carry + Left <= Ceiling
      BY <1>2, <3>1 DEF Ceiling
    <3>3. (Relaying!Carry + piece) + Left' <= Ceiling
      BY <1>0, <1>2, <2>2, <3>2, FrameFits
    <3> QED
      BY <2>1, <3>3 DEF Ceiling
  <2>5. ASSUME ripe > 0 PROVE used' + Left' <= Overshoot
    <3>1. Relaying!Carry + Left <= Overshoot
      BY <1>5, <2>2, <2>5
    <3>2. (Relaying!Carry + piece) + Left' <= Overshoot
      BY <1>0, <1>2, <2>2, <3>1, FrameFits
    <3> QED
      BY <2>1, <3>2
  <2>6. armed' > 0 => used' > limit
    BY <1>1, <2>3
  <2>7. armed' + ripe' > 0 => paused'
    BY <1>1, <1>2, <1>4, <2>3
  <2>8. ~paused' => used' <= limit
    BY <1>1, <1>2, <2>1, <2>2
  <2> QED
    BY <1>1, <1>3, <2>4, <2>5, <2>6, <2>7, <2>8 DEF PausesCharged
<1>7. CASE ~over
  <2>1. used' = used + piece
    BY <1>1, <1>7 DEF Relaying!UsedAfter
  <2>2. used' + Left' <= limit + Overshoot
    <3>1. Ceiling \in Nat /\ used + Left <= Ceiling
      BY <1>2, <1>5, <1>7 DEF Ceiling
    <3>2. (used + piece) + Left' <= Ceiling
      BY <1>0, <1>2, <3>1, FrameFits
    <3> QED
      BY <2>1, <3>2 DEF Ceiling
  <2>3. ASSUME ripe > 0 PROVE used' + Left' <= Overshoot
    <3>1. used + Left <= Overshoot
      BY <1>5, <1>7, <2>3
    <3>2. (used + piece) + Left' <= Overshoot
      BY <1>0, <1>2, <3>1, FrameFits
    <3> QED
      BY <2>1, <3>2
  <2>4. armed' > 0 => used' > limit
    BY <1>1, <1>2, <1>4, <2>1
  <2>5. armed' + ripe' > 0 => paused'
    BY <1>1, <1>2, <1>4, <2>1
  <2>6. ~paused' => used' <= limit
    BY <1>1, <1>2, <2>1
  <2> QED
    BY <1>1, <1>3, <2>2, <2>3, <2>4, <2>5, <2>6 DEF PausesCharged
<1> QED
  BY <1>6, <1>7

LEMMA BucketInductive ==
  ASSUME Relaying!ConstantsOK, Relaying!RelayTypeOK, Relaying!RelayTypeOK',
         Relaying!BucketKept, [Relaying!Next]_(Relaying!vars)
  PROVE  Relaying!BucketKept'
<1>1. limit' = limit /\ keepsUp' = keepsUp
  BY DEF Relaying!Next, Relaying!vars, Relaying!settings, Relaying!Read,
     Relaying!Deliver, Relaying!WindowEnds, Relaying!RateTimer, Relaying!DrainTick,
     Relaying!Flush, Relaying!Close
<1>2. Steady' = Steady /\ Overshoot' = Overshoot
  BY <1>1 DEF Steady, Overshoot
<1>3. SUFFICES ASSUME Steady
               PROVE  /\ buffered' = 0 /\ drains' = 0
                      /\ wired' => PausesCharged'
                      /\ WindowsCharged'
  <2>1. Relaying!BucketKept' <=> (Steady' => /\ buffered' = 0 /\ drains' = 0
                                             /\ wired' => PausesCharged'
                                             /\ WindowsCharged')
    BY DEF Relaying!BucketKept, Steady, PausesCharged, WindowsCharged, Left,
       Allowed, Overshoot
  <2> QED
    BY <1>2, <1>3, <2>1
<1>4. buffered = 0 /\ drains = 0 /\ (wired => PausesCharged) /\ WindowsCharged
  BY <1>3, BucketParts
<1>5. /\ limit \in Nat /\ Overshoot \in Nat /\ Left \in Nat /\ Left <= Overshoot
      /\ used \in Nat /\ armed \in Nat /\ ripe \in Nat /\ Overshoot <= limit
  BY <1>3, RelayNumbers DEF Steady
<1>6. ASSUME NEW piece \in 1..MaxFrame, Relaying!Deliver(piece)
      PROVE  /\ buffered' = 0 /\ drains' = 0
             /\ PausesCharged' /\ WindowsCharged'
  BY <1>3, <1>4, <1>6, DeliverCharges, DeliverKeepsPauses, DeliverKeepsWindows
<1>7. CASE Relaying!Read
  <2>1. /\ wired /\ ~paused
        /\ UNCHANGED <<limit, paused, used, over, armed, ripe, drains, buffered, wired,
                       windows, relayed>>
    BY <1>1, <1>7 DEF Relaying!Read
  <2>2. chunk' \in Nat /\ chunk' <= MaxChunk /\ MaxChunk \in Nat /\ MaxFrame \in Nat
    BY <1>7, RelaySizes DEF Relaying!Read
  <2>3. Left' \in Nat /\ Left' <= Overshoot
    BY <2>2, Products, ProductsOrdered DEF Overshoot, Left
  <2>4. ~(armed + ripe > 0) /\ (~over => used <= limit)
    BY <1>4, <2>1 DEF PausesCharged
  <2>5. armed = 0 /\ ripe = 0
    BY <1>5, <2>4
  <2>6. ASSUME ~over' PROVE used' + Left' <= limit' + Overshoot'
    <3>1. used <= limit
      BY <2>1, <2>4, <2>6
    <3>2. used + Left' <= limit + Overshoot
      BY <1>5, <2>3, <3>1, SumsOrdered
    <3> QED
      BY <1>2, <2>1, <3>2
  <2>7. PausesCharged'
    BY <2>1, <2>4, <2>5, <2>6 DEF PausesCharged
  <2>8. WindowsCharged'
    BY <1>2, <1>4, <2>1 DEF WindowsCharged, Allowed
  <2> QED
    BY <1>4, <2>1, <2>7, <2>8
<1>8. CASE Relaying!WindowEnds
  <2>1. /\ ~over /\ over' /\ armed' = 0 /\ ripe' = ripe + armed
        /\ UNCHANGED <<limit, chunk, paused, used, drains, buffered, wired, windows,
             relayed>>
    BY <1>1, <1>8 DEF Relaying!WindowEnds
  <2>2. Left' = Left /\ Allowed' = Allowed
    BY <2>1 DEF Left, Allowed
  <2>3. ASSUME wired PROVE PausesCharged'
    <3>1. /\ armed + ripe > 0 => paused
          /\ used + Left <= limit + Overshoot
      BY <1>4, <2>1, <2>3 DEF PausesCharged
    <3>2. armed' + ripe' = armed + ripe
      BY <1>5, <2>1
    <3> QED
      BY <1>2, <2>1, <2>2, <3>1, <3>2 DEF PausesCharged
  <2>4. WindowsCharged'
    <3>1. windows # 0
      BY <1>4, <2>1 DEF WindowsCharged
    <3> QED
      BY <1>2, <1>4, <2>1, <2>2, <3>1 DEF WindowsCharged
  <2> QED
    BY <1>4, <2>1, <2>3, <2>4
<1>9. CASE Relaying!RateTimer
  <2>1. /\ ripe > 0 /\ ripe' = 0 /\ ~paused'
        /\ UNCHANGED <<limit, chunk, used, over, armed, drains, buffered, wired,
             windows, relayed>>
    BY <1>1, <1>9 DEF Relaying!RateTimer
  <2>2. Left' = Left /\ Allowed' = Allowed
    BY <2>1 DEF Left, Allowed
  <2>3. ASSUME wired PROVE PausesCharged'
    <3>1. /\ armed > 0 => ~over /\ used > limit
          /\ ~over => used + Left <= Overshoot
      BY <1>4, <2>1, <2>3 DEF PausesCharged
    <3>2. ~over => used <= limit /\ used + Left <= limit + Overshoot
      BY <1>5, <3>1
    <3>3. armed = 0
      BY <1>5, <3>1, <3>2
    <3> QED
      BY <1>2, <2>1, <2>2, <3>2, <3>3 DEF PausesCharged
  <2>4. WindowsCharged'
    BY <1>2, <1>4, <2>1, <2>2 DEF WindowsCharged
  <2> QED
    BY <1>4, <2>1, <2>3, <2>4
<1>10. CASE Relaying!DrainTick
  BY <1>4, <1>10 DEF Relaying!DrainTick
<1>11. CASE Relaying!Flush
  BY <1>4, <1>11 DEF Relaying!Flush
<1>12. CASE Relaying!Close
  <2>1. /\ ~wired'
        /\ UNCHANGED <<limit, used, over, drains, buffered, windows, relayed>>
    BY <1>1, <1>12 DEF Relaying!Close
  <2>2. WindowsCharged'
    BY <1>2, <1>4, <2>1 DEF WindowsCharged, Allowed
  <2> QED
    BY <1>4, <2>1, <2>2
<1>13. CASE UNCHANGED Relaying!vars
  <2>1. UNCHANGED <<limit, chunk, paused, used, over, armed, ripe, drains, buffered, wired,
                    windows, relayed>>
    BY <1>13 DEF Relaying!vars, Relaying!settings
  <2>2. WindowsCharged' /\ (wired' => PausesCharged')
    BY <1>2, <1>4, <2>1 DEF WindowsCharged, PausesCharged, Allowed, Left
  <2> QED
    BY <1>4, <2>1, <2>2
<1> QED
  BY <1>6, <1>7, <1>8, <1>9, <1>10, <1>11, <1>12, <1>13 DEF Relaying!Next

\* What holds between two callbacks of wireChannel is inductive.
LEMMA RelayInductive ==
  ASSUME Relaying!RelayInv, [Relaying!Next]_(Relaying!vars)
  PROVE  Relaying!RelayInv'
<1>0. Relaying!ConstantsOK
  BY TransferConstants
<1>1. /\ Relaying!RelayTypeOK /\ Relaying!PausesAreWatched
      /\ Relaying!BackPressureKept /\ Relaying!BucketKept
  BY DEF Relaying!RelayInv
<1>2. Relaying!RelayTypeOK'
  BY <1>0, <1>1, RelayTypeInductive
<1>3. Relaying!PausesAreWatched'
  BY <1>0, <1>1, <1>2, PausesInductive
<1>4. Relaying!BackPressureKept'
  BY <1>0, <1>1, <1>2, BackPressureInductive
<1>5. Relaying!BucketKept'
  BY <1>0, <1>1, <1>2, BucketInductive
<1>6. Relaying!BufferBounded'
  <2> SUFFICES ASSUME limit' = 0 PROVE buffered' <= HighWater + Overshoot
    BY DEF Relaying!BufferBounded, Overshoot
  <2>1. limit' = limit
    BY DEF Relaying!Next, Relaying!vars, Relaying!settings, Relaying!Read,
       Relaying!Deliver, Relaying!WindowEnds, Relaying!RateTimer, Relaying!DrainTick,
       Relaying!Flush, Relaying!Close
  <2>2. buffered' + chunk' * MaxFrame <= HighWater + Overshoot
    BY <1>4, <2>1 DEF Relaying!BackPressureKept, Overshoot
  <2>3. chunk' \in Nat /\ buffered' \in Nat /\ MaxFrame \in Nat /\ HighWater \in Nat
        /\ Overshoot \in Nat
    BY <1>0, <1>1, <1>2, RelaySizes DEF Relaying!RelayTypeOK
  <2>4. chunk' * MaxFrame \in Nat
    BY <2>3, Products
  <2>5. HighWater + Overshoot \in Nat
    BY <2>3
  <2> QED
    BY <2>2, <2>3, <2>4, <2>5, SumLeft
<1> QED
  BY <1>2, <1>3, <1>4, <1>5, <1>6 DEF Relaying!RelayInv

\* With a receiver that keeps up and a limit no read exceeds, what is charged
\* bounds what was relayed.
LEMMA ThroughputFollows ==
  ASSUME Relaying!RelayInv
  PROVE  Relaying!ThroughputBounded
<1> SUFFICES ASSUME Steady PROVE relayed <= Allowed + Overshoot
  BY DEF Relaying!ThroughputBounded, Steady, Allowed, Overshoot
<1>1. Relaying!ConstantsOK
  BY TransferConstants
<1>2. Relaying!RelayTypeOK /\ WindowsCharged
  BY BucketParts DEF Relaying!RelayInv
<1>3. /\ limit \in Nat /\ Overshoot \in Nat /\ Allowed \in Nat /\ used \in Nat
      /\ windows \in Nat /\ relayed \in Nat
  BY <1>1, <1>2, RelayNumbers
<1>4. CASE windows = 0
  BY <1>2, <1>3, <1>4 DEF WindowsCharged
<1>5. CASE windows > 0
  <2>1. relayed + limit <= Allowed + used /\ used <= limit + Overshoot
    BY <1>2, <1>5 DEF WindowsCharged
  <2> QED
    BY <1>3, <2>1
<1> QED
  BY <1>3, <1>4, <1>5

\* What holds between two callbacks of wireChannel: a paused sender always
\* has a rate timer or a drain interval that will resume it, without a rate
\* limit the receiver's buffer exceeds HIGH_WATER by one read at most, and
\* the bucket charges to each window what the one before it let through
\* beyond the limit, so that, as the comment on it claims, no more is relayed
\* than the limit for every window and the overshoot of one read; for all
\* sizes of frames, reads and buffers.
THEOREM RelayHolds == Spec => []RelayInv
<1>1. Init => Relaying!RelayInv
  BY RelayInitCorrect, TransferConstants DEF Init
<1>2. [Next]_everything => [Relaying!Next]_(Relaying!vars)
  BY DEF Next, everything, relayVars, Relaying!vars, Relaying!settings
<1>3. Relaying!RelayInv /\ [Next]_everything => Relaying!RelayInv'
  BY <1>2, RelayInductive
<1>4. Relaying!RelayInv => RelayInv
  BY ThroughputFollows DEF RelayInv
<1> QED
  BY <1>1, <1>3, <1>4, PTL DEF Spec, everything

-----------------------------------------------------------------------------
(***************************************************************************)
(* How many chunks wait in a queue of frames.                              *)
(***************************************************************************)

Places(f) == {i \in DOMAIN f : f[i] = "chunk"}

CountOf(f) == Cardinality(Places(f))

LEMMA CountNat ==
  ASSUME NEW S, NEW f \in Seq(S)
  PROVE  IsFiniteSet(Places(f)) /\ CountOf(f) \in Nat
<1>1. Places(f) \in SUBSET (1..Len(f)) /\ Len(f) \in Nat
  BY DEF Places
<1>2. IsFiniteSet(1..Len(f))
  BY <1>1, FS_Interval
<1>3. IsFiniteSet(Places(f))
  BY <1>1, <1>2, FS_Subset
<1> QED
  BY <1>3, FS_CardinalityType DEF CountOf

LEMMA CountZero ==
  ASSUME NEW S, NEW f \in Seq(S)
  PROVE  CountOf(f) = 0 <=> \A i \in DOMAIN f : f[i] # "chunk"
<1>1. CountOf(f) = 0 <=> Places(f) = {}
  BY CountNat, FS_EmptySet DEF CountOf
<1> QED
  BY <1>1 DEF Places

LEMMA CountEmpty == CountOf(<<>>) = 0
<1>1. Places(<<>>) = {}
  BY DEF Places
<1> QED
  BY <1>1, FS_EmptySet DEF CountOf

LEMMA CountAppend ==
  ASSUME NEW S, NEW f \in Seq(S), NEW e \in S
  PROVE  CountOf(Append(f, e)) = IF e = "chunk" THEN CountOf(f) + 1 ELSE CountOf(f)
<1>1. Len(f) \in Nat /\ DOMAIN f = 1..Len(f) /\ DOMAIN Append(f, e) = 1..(Len(f) + 1)
  OBVIOUS
<1>2. /\ \A i \in 1..Len(f) : Append(f, e)[i] = f[i]
      /\ Append(f, e)[Len(f) + 1] = e
  OBVIOUS
<1>3. Places(Append(f, e)) = IF e = "chunk" THEN Places(f) \cup {Len(f) + 1} ELSE Places(f)
  <2>1. ASSUME NEW i \in 1..(Len(f) + 1)
        PROVE  i \in Places(Append(f, e))
                 <=> (i \in Places(f) \/ (i = Len(f) + 1 /\ e = "chunk"))
    <3>1. CASE i \in 1..Len(f)
      BY <1>1, <1>2, <3>1 DEF Places
    <3>2. CASE i = Len(f) + 1
      BY <1>1, <1>2, <3>2 DEF Places
    <3> QED
      BY <1>1, <3>1, <3>2
  <2>2. Places(Append(f, e)) \subseteq 1..(Len(f) + 1) /\ Places(f) \subseteq 1..(Len(f) + 1)
    BY <1>1 DEF Places
  <2>3. Len(f) + 1 \in 1..(Len(f) + 1)
    BY <1>1
  <2> QED
    BY <2>1, <2>2, <2>3
<1>4. Len(f) + 1 \notin Places(f) /\ IsFiniteSet(Places(f))
  BY <1>1, CountNat DEF Places
<1> QED
  BY <1>3, <1>4, FS_AddElement DEF CountOf

\* The rest of a queue has no more of them.
LEMMA CountSuffix ==
  ASSUME NEW S, NEW f \in Seq(S), NEW n \in 0..Len(f)
  PROVE  /\ SubSeq(f, n + 1, Len(f)) \in Seq(S)
         /\ CountOf(SubSeq(f, n + 1, Len(f))) <= CountOf(f)
<1> DEFINE g == SubSeq(f, n + 1, Len(f))
           shift == [i \in Places(g) |-> i + n]
<1>1. Len(f) \in Nat /\ n \in Nat /\ n <= Len(f)
  OBVIOUS
<1>2. /\ g \in Seq(S) /\ DOMAIN g = 1..(Len(f) - n)
      /\ \A i \in 1..(Len(f) - n) : g[i] = f[i + n]
  BY <1>1
<1>3. shift \in Injection(Places(g), Places(f))
  <2>1. \A i \in Places(g) : i \in Nat /\ i + n \in Places(f)
    BY <1>1, <1>2 DEF Places
  <2>2. shift \in [Places(g) -> Places(f)]
    BY <2>1
  <2>3. \A i, j \in Places(g) : shift[i] = shift[j] => i = j
    BY <1>1, <2>1
  <2> QED
    BY <2>2, <2>3 DEF Injection, IsInjective
<1>4. IsFiniteSet(Places(f))
  BY CountNat
<1> QED
  BY <1>2, <1>3, <1>4, FS_Injection DEF CountOf

LEMMA CountTail ==
  ASSUME NEW S, NEW f \in Seq(S), f # <<>>
  PROVE  CountOf(Tail(f)) = IF Head(f) = "chunk" THEN CountOf(f) - 1 ELSE CountOf(f)
<1> DEFINE g == Tail(f)
           rest == Places(f) \ {1}
           shift == [i \in Places(g) |-> i + 1]
<1>1. Len(f) \in Nat /\ Len(f) > 0 /\ DOMAIN f = 1..Len(f) /\ Head(f) = f[1]
  OBVIOUS
<1>2. /\ g \in Seq(S) /\ DOMAIN g = 1..(Len(f) - 1)
      /\ \A i \in 1..(Len(f) - 1) : g[i] = f[i + 1]
  BY <1>1
<1>3. shift \in Bijection(Places(g), rest)
  <2>1. \A i \in Places(g) : i \in Nat /\ i + 1 \in rest
    BY <1>1, <1>2 DEF Places
  <2>2. shift \in [Places(g) -> rest]
    BY <2>1
  <2>3. \A i, j \in Places(g) : shift[i] = shift[j] => i = j
    BY <2>1
  <2>4. ASSUME NEW j \in rest PROVE \E i \in Places(g) : shift[i] = j
    <3>1. j \in 1..Len(f) /\ j # 1 /\ f[j] = "chunk"
      BY <1>1 DEF Places
    <3>2. j - 1 \in 1..(Len(f) - 1) /\ (j - 1) + 1 = j
      BY <1>1, <3>1
    <3>3. j - 1 \in Places(g)
      BY <1>2, <3>1, <3>2 DEF Places
    <3> QED
      BY <3>2, <3>3
  <2> QED
    BY <2>2, <2>3, <2>4 DEF Bijection, Injection, IsInjective, Surjection
<1>4. IsFiniteSet(Places(f)) /\ IsFiniteSet(Places(g))
  BY <1>2, CountNat
<1>5. Cardinality(rest) = CountOf(g)
  BY <1>3, <1>4, FS_Bijection DEF ExistsBijection, CountOf
<1>6. Cardinality(rest) = IF 1 \in Places(f) THEN CountOf(f) - 1 ELSE CountOf(f)
  BY <1>4, FS_RemoveElement DEF CountOf
<1>7. 1 \in Places(f) <=> Head(f) = "chunk"
  BY <1>1 DEF Places
<1> QED
  BY <1>5, <1>6, <1>7

-----------------------------------------------------------------------------
(***************************************************************************)
(* A request uploaded to the TypeScript SDK.  What is on the wire is the   *)
(* rest of one request, so what the handler is given is counted by what is *)
(* taken off it, and nothing is appended after its end.                    *)
(***************************************************************************)

RequestFrames == {"head", "chunk", "end"}

Waiting == CountOf(wire)

WireOrdered ==
    \A i \in DOMAIN wire :
       (wire[i] = "head" => i = 1) /\ (wire[i] = "end" => i = Len(wire))

LEMMA BufferedIsWaiting == Serve!Buffered = Waiting /\ Serve!Buffered' = Waiting'
<1>0. ASSUME NEW P PROVE Serve!Cardinality(P) = Cardinality(P)
  BY DEF Serve!Cardinality, Cardinality
<1>1. ASSUME NEW f PROVE Serve!ChunksOf(f) = CountOf(f)
  <2>1. Serve!ChunksOf(f) = Serve!Cardinality(Places(f))
    BY DEF Serve!ChunksOf, Places
  <2> QED
    BY <1>0, <2>1 DEF CountOf
<1>2. Serve!Buffered = Waiting
  BY <1>1 DEF Serve!Buffered, Waiting
<1>3. Serve!ChunksOf(wire') = CountOf(wire')
  BY <1>1
<1>4. Serve!Buffered' = Waiting'
  BY <1>3 DEF Serve!Buffered, Waiting
<1> QED
  BY <1>2, <1>4

LEMMA WireAppend ==
  ASSUME wire \in Seq(RequestFrames), WireOrdered, ~Serve!EndWaits,
         NEW e \in {"chunk", "end"}, wire' = Append(wire, e)
  PROVE  /\ wire' \in Seq(RequestFrames) /\ WireOrdered'
         /\ Serve!HeadWaits' <=> Serve!HeadWaits
         /\ Serve!EndWaits' <=> e = "end"
         /\ Waiting' = IF e = "chunk" THEN Waiting + 1 ELSE Waiting
<1>1. e \in RequestFrames
  BY DEF RequestFrames
<1>2. Waiting' = IF e = "chunk" THEN Waiting + 1 ELSE Waiting
  BY <1>1, CountAppend DEF Waiting
<1>3. /\ wire' \in Seq(RequestFrames) /\ Len(wire) \in Nat /\ Len(wire') = Len(wire) + 1
      /\ DOMAIN wire = 1..Len(wire) /\ DOMAIN wire' = 1..(Len(wire) + 1)
      /\ \A i \in 1..Len(wire) : wire'[i] = wire[i]
      /\ wire'[Len(wire) + 1] = e
  BY <1>1
<1>4. Serve!EndWaits' <=> e = "end"
  BY <1>3 DEF Serve!EndWaits
<1>5. Serve!HeadWaits' <=> Serve!HeadWaits
  <2>1. CASE wire = <<>>
    BY <1>3, <2>1 DEF Serve!HeadWaits
  <2>2. CASE wire # <<>>
    <3>1. 1 \in 1..Len(wire) /\ wire' # <<>>
      BY <1>3, <2>2
    <3> QED
      BY <1>3, <2>2, <3>1 DEF Serve!HeadWaits
  <2> QED
    BY <2>1, <2>2
<1>6. WireOrdered'
  <2> SUFFICES ASSUME NEW i \in 1..(Len(wire) + 1)
               PROVE  (wire'[i] = "head" => i = 1) /\ (wire'[i] = "end" => i = Len(wire'))
    BY <1>3 DEF WireOrdered
  <2>1. CASE i \in 1..Len(wire)
    <3>1. wire'[i] = wire[i] /\ i \in DOMAIN wire
      BY <1>3, <2>1
    <3>2. (wire[i] = "head" => i = 1) /\ (wire[i] = "end" => i = Len(wire))
      BY <3>1 DEF WireOrdered
    <3>3. wire # <<>>
      BY <3>1
    <3>4. wire[i] # "end"
      BY <3>2, <3>3 DEF Serve!EndWaits
    <3> QED
      BY <3>1, <3>2, <3>4
  <2>2. CASE i = Len(wire) + 1
    BY <1>3, <2>2
  <2> QED
    BY <1>3, <2>1, <2>2
<1> QED
  BY <1>2, <1>3, <1>4, <1>5, <1>6

LEMMA Shifted ==
  ASSUME NEW i \in Nat, NEW a \in Nat, NEW b, b = a - 1
  PROVE  i + 1 = a => i = b
  OBVIOUS

LEMMA WireTail ==
  ASSUME wire \in Seq(RequestFrames), WireOrdered, wire # <<>>, wire' = Tail(wire)
  PROVE  /\ wire' \in Seq(RequestFrames) /\ WireOrdered'
         /\ ~Serve!HeadWaits' /\ (Serve!HeadWaits <=> Head(wire) = "head")
         /\ Head(wire) = "end" => wire' = <<>> /\ Serve!EndWaits
         /\ Head(wire) # "end" => (Serve!EndWaits' <=> Serve!EndWaits)
         /\ Waiting' = IF Head(wire) = "chunk" THEN Waiting - 1 ELSE Waiting
<1>1. /\ wire' \in Seq(RequestFrames) /\ Len(wire) \in Nat /\ Len(wire) > 0
      /\ Len(wire') = Len(wire) - 1 /\ Head(wire) = wire[1]
      /\ DOMAIN wire = 1..Len(wire) /\ DOMAIN wire' = 1..(Len(wire) - 1)
      /\ \A i \in 1..(Len(wire) - 1) : wire'[i] = wire[i + 1]
  OBVIOUS
<1>0. /\ Len(wire) \in Nat /\ Len(wire') \in Nat
      /\ Len(wire') = Len(wire) - 1
  BY <1>1
<1>2. Waiting' = IF Head(wire) = "chunk" THEN Waiting - 1 ELSE Waiting
  BY CountTail DEF Waiting
<1>3. \A i \in 1..(Len(wire) - 1) : wire'[i] # "head" /\ (wire'[i] = "end" => i = Len(wire'))
  <2> SUFFICES ASSUME NEW i \in 1..(Len(wire) - 1)
               PROVE  wire'[i] # "head" /\ (wire'[i] = "end" => i = Len(wire'))
    OBVIOUS
  <2>1. i + 1 \in DOMAIN wire /\ wire'[i] = wire[i + 1] /\ i + 1 # 1
    BY <1>1
  <2>2. (wire[i + 1] = "head" => i + 1 = 1) /\ (wire[i + 1] = "end" => i + 1 = Len(wire))
    BY <2>1 DEF WireOrdered
  <2>3. i + 1 = Len(wire) => i = Len(wire')
    <3>1. i \in Nat /\ Len(wire) \in Nat /\ Len(wire') = Len(wire) - 1
      BY <1>0
    <3> QED
      BY <3>1, Shifted
  <2> QED
    BY <2>1, <2>2, <2>3
<1>4. WireOrdered'
  BY <1>1, <1>3 DEF WireOrdered
<1>5. ~Serve!HeadWaits'
  <2>1. wire' # <<>> => 1 \in 1..(Len(wire) - 1)
    <3> SUFFICES ASSUME wire' # <<>> PROVE Len(wire') >= 1
      BY <1>0
    <3>1. Len(wire') # 0
      <4>1. wire' \in Seq(RequestFrames)
        BY <1>1
      <4> QED
        BY <4>1
    <3> QED
      BY <1>0, <3>1
  <2>2. wire' # <<>> => wire'[1] # "head"
    BY <1>3, <2>1
  <2> QED
    BY <2>2 DEF Serve!HeadWaits
<1>6. Serve!HeadWaits <=> Head(wire) = "head"
  BY <1>1 DEF Serve!HeadWaits
<1>7. Head(wire) = "end" => wire' = <<>> /\ Serve!EndWaits
  <2> SUFFICES ASSUME Head(wire) = "end" PROVE wire' = <<>> /\ Serve!EndWaits
    OBVIOUS
  <2>1. 1 = Len(wire)
    BY <1>1 DEF WireOrdered
  <2> QED
    BY <1>1, <2>1 DEF Serve!EndWaits
<1>8. Head(wire) # "end" => (Serve!EndWaits' <=> Serve!EndWaits)
  <2>1. CASE Len(wire) = 1
    BY <1>1, <2>1 DEF Serve!EndWaits
  <2>2. CASE Len(wire) > 1
    <3>1. Len(wire') \in 1..(Len(wire) - 1) /\ Len(wire') + 1 = Len(wire) /\ wire' # <<>>
      BY <1>1, <2>2
    <3>2. wire'[Len(wire')] = wire[Len(wire)]
      BY <1>1, <3>1
    <3> QED
      BY <3>1, <3>2 DEF Serve!EndWaits
  <2> QED
    BY <1>1, <2>1, <2>2
<1> QED
  BY <1>1, <1>2, <1>4, <1>5, <1>6, <1>7, <1>8

LEMMA ShiftedIn ==
  ASSUME NEW k \in Nat, NEW n \in Nat, n > 0, n <= k, NEW i \in 1..(k - n)
  PROVE  i + n \in 1..k /\ i + n # 1
  OBVIOUS

LEMMA WireSuffix ==
  ASSUME wire \in Seq(RequestFrames), WireOrdered, NEW n \in 1..Len(wire),
         wire' = SubSeq(wire, n + 1, Len(wire))
  PROVE  /\ wire' \in Seq(RequestFrames) /\ WireOrdered' /\ ~Serve!HeadWaits'
         /\ Serve!EndWaits' => Serve!EndWaits
         /\ Waiting' <= Waiting
<1>1. /\ wire' \in Seq(RequestFrames) /\ Len(wire) \in Nat /\ n \in Nat /\ n > 0 /\ n <= Len(wire)
      /\ Len(wire') = Len(wire) - n
      /\ DOMAIN wire = 1..Len(wire) /\ DOMAIN wire' = 1..(Len(wire) - n)
      /\ \A i \in 1..(Len(wire) - n) : wire'[i] = wire[i + n]
  BY CountSuffix
<1>0. /\ Len(wire) \in Nat /\ Len(wire') \in Nat /\ n \in Nat /\ n > 0
      /\ Len(wire') = Len(wire) - n
  <2>1. wire' \in Seq(RequestFrames)
    BY <1>1
  <2>2. Len(wire') \in Nat
    BY <2>1
  <2> QED
    BY <1>1, <2>2
<1>2. Waiting' <= Waiting
  BY CountSuffix DEF Waiting
<1>3. \A i \in 1..(Len(wire) - n) : wire'[i] # "head" /\ (wire'[i] = "end" => i = Len(wire'))
  <2> SUFFICES ASSUME NEW i \in 1..(Len(wire) - n)
               PROVE  wire'[i] # "head" /\ (wire'[i] = "end" => i = Len(wire'))
    OBVIOUS
  <2>1. i + n \in DOMAIN wire /\ wire'[i] = wire[i + n] /\ i + n # 1
    <3>1. Len(wire) \in Nat /\ n \in Nat /\ n > 0 /\ n <= Len(wire) /\ DOMAIN wire = 1..Len(wire)
      BY <1>1
    <3>2. i + n \in 1..Len(wire) /\ i + n # 1
      BY <3>1, ShiftedIn
    <3>3. wire'[i] = wire[i + n]
      BY <1>1
    <3> QED
      BY <3>1, <3>2, <3>3
  <2>2. (wire[i + n] = "head" => i + n = 1) /\ (wire[i + n] = "end" => i + n = Len(wire))
    BY <2>1 DEF WireOrdered
  <2>3. i + n = Len(wire) => i = Len(wire')
    BY <1>0
  <2> QED
    BY <2>1, <2>2, <2>3
<1>4. WireOrdered'
  BY <1>1, <1>3 DEF WireOrdered
<1>5. ~Serve!HeadWaits'
  <2>1. wire' # <<>> => 1 \in 1..(Len(wire) - n)
    <3> SUFFICES ASSUME wire' # <<>> PROVE Len(wire') >= 1
      BY <1>0
    <3>1. Len(wire') # 0
      <4>1. wire' \in Seq(RequestFrames)
        BY <1>1
      <4> QED
        BY <4>1
    <3> QED
      BY <1>0, <3>1
  <2>2. wire' # <<>> => wire'[1] # "head"
    BY <1>3, <2>1
  <2> QED
    BY <2>2 DEF Serve!HeadWaits
<1>6. Serve!EndWaits' => Serve!EndWaits
  <2> SUFFICES ASSUME wire' # <<>> PROVE wire # <<>> /\ wire'[Len(wire')] = wire[Len(wire)]
    BY DEF Serve!EndWaits
  <2>1. Len(wire') # 0
    <3>1. wire' \in Seq(RequestFrames)
      BY <1>1
    <3> QED
      BY <3>1
  <2>2. Len(wire') \in 1..(Len(wire) - n) /\ Len(wire') + n = Len(wire) /\ Len(wire) # 0
    BY <1>0, <2>1
  <2>3. wire'[Len(wire')] = wire[Len(wire)]
    BY <1>1, <2>2
  <2>4. wire # <<>>
    BY <2>2
  <2> QED
    BY <2>3, <2>4
<1> QED
  BY <1>1, <1>2, <1>4, <1>5, <1>6

\* How far the caller is with its request, all in numbers.
Sum == chunks + Waiting + left

UploadSound ==
    /\ WireOrdered
    /\ offered = "offered" => wire = <<>> /\ flow = "idle" /\ left = size
    /\ offered = "offered" \/ offer \in {"sent", "dialling"} => dial = "none"
    /\ dial = "none" => ~head /\ served = "none"
    /\ dial = "none" \/ Serve!HeadWaits => ~head /\ chunks = 0
    /\ Serve!EndWaits => flow = "ended" /\ left = 0
    /\ Sum <= size
    /\ head \/ Serve!HeadWaits => (offered = "paired" \/ Serve!EndWaits => Sum = size)
    /\ served # "none" => wire = <<>> /\ flow = "ended" /\ chunks = size
    /\ Waiting <= UploadHighWater + 1
    /\ offered = "paired" /\ flow = "flowing" => Waiting <= UploadHighWater
    /\ offered = "paired" /\ ~SameTick =>
          /\ Serve!HeadWaits \/ head
          /\ flow = "ended" => Serve!EndWaits \/ served # "none"

LEMMA UploadSoundIs ==
  /\ UploadSound <=> /\ Serve!UploadAccounted /\ Serve!UploadWatched
                     /\ Serve!WholeRequest /\ Serve!UploadBounded
  /\ UploadSound' <=> /\ Serve!UploadAccounted' /\ Serve!UploadWatched'
                      /\ Serve!WholeRequest' /\ Serve!UploadBounded'
<1>1. Serve!Buffered = Waiting /\ Serve!Buffered' = Waiting'
  BY BufferedIsWaiting
<1>2. UploadSound <=> /\ Serve!UploadAccounted /\ Serve!UploadWatched
                      /\ Serve!WholeRequest /\ Serve!UploadBounded
  BY <1>1 DEF UploadSound, WireOrdered, Sum, Serve!UploadAccounted, Serve!UploadWatched,
     Serve!WholeRequest, Serve!UploadBounded
<1>3. UploadSound' <=> /\ Serve!UploadAccounted' /\ Serve!UploadWatched'
                       /\ Serve!WholeRequest' /\ Serve!UploadBounded'
  BY <1>1 DEF UploadSound, WireOrdered, Sum, Serve!UploadAccounted, Serve!UploadWatched,
     Serve!WholeRequest, Serve!UploadBounded
<1> QED
  BY <1>2, <1>3

LEMMA UploadNumbers ==
  ASSUME Serve!ServeTypeOK
  PROVE  /\ wire \in Seq(RequestFrames) /\ Waiting \in Nat /\ left \in Nat /\ size \in Nat
         /\ chunks \in Nat /\ UploadHighWater \in Nat /\ UploadHighWater > 0
         /\ MaxUpload \in Nat /\ size <= MaxUpload /\ left <= size /\ Sum \in Nat
         /\ head \in BOOLEAN
<1>1. wire \in Seq(RequestFrames)
  BY DEF Serve!ServeTypeOK, RequestFrames
<1>2. Waiting \in Nat
  BY <1>1, CountNat DEF Waiting
<1>3. MaxUpload \in Nat /\ UploadHighWater \in Nat \ {0}
  BY TransferConstants DEF Serve!ConstantsOK
<1>4. size \in Nat /\ size <= MaxUpload /\ chunks \in Nat
  BY <1>3 DEF Serve!ServeTypeOK
<1>5. left \in Nat /\ left <= size
  BY <1>4 DEF Serve!ServeTypeOK
<1>6. Sum \in Nat
  BY <1>2, <1>4, <1>5 DEF Sum
<1>7. head \in BOOLEAN
  BY DEF Serve!ServeTypeOK
<1> QED
  BY <1>1, <1>2, <1>3, <1>4, <1>5, <1>6, <1>7

LEMMA ServeInitCorrect == Serve!Init => Serve!ServeTypeOK /\ UploadSound
<1> SUFFICES ASSUME Serve!Init PROVE Serve!ServeTypeOK /\ UploadSound
  OBVIOUS
<1>1. MaxUpload \in Nat /\ UploadHighWater \in Nat \ {0}
  BY TransferConstants DEF Serve!ConstantsOK
<1>2. wire = <<>> /\ left = size /\ size \in 0..MaxUpload /\ chunks = 0 /\ reply = <<>>
  BY DEF Serve!Init
<1>3. left \in 0..size /\ chunks \in 0..MaxUpload
  BY <1>1, <1>2
<1>4. Serve!ServeTypeOK
  <2>1. wire \in Seq({"head", "chunk", "end"}) /\ reply \in Seq({"head", "500", "body"})
    BY <1>2
  <2>2. {registered, carrier, closed, head} \subseteq BOOLEAN
    BY DEF Serve!Init
  <2> QED
    BY <1>2, <1>3, <2>1, <2>2 DEF Serve!Init, Serve!ServeTypeOK
<1>5. Waiting = 0
  BY <1>2, CountEmpty DEF Waiting
<1>6. Sum = size
  BY <1>1, <1>2, <1>5 DEF Sum
<1>7. UploadSound
  BY <1>1, <1>2, <1>5, <1>6 DEF Serve!Init, UploadSound, WireOrdered, Serve!HeadWaits, Serve!EndWaits
<1> QED
  BY <1>4, <1>7

\* The numbers of the request are kept by what does not touch it.
LEMMA UploadUntouched ==
  ASSUME UNCHANGED <<wire, left, size, chunks>>
  PROVE  /\ Waiting' = Waiting /\ Sum' = Sum /\ (WireOrdered' <=> WireOrdered)
         /\ Serve!HeadWaits' <=> Serve!HeadWaits
         /\ Serve!EndWaits' <=> Serve!EndWaits
<1>1. Waiting' = Waiting
  BY DEF Waiting
<1> QED
  BY <1>1 DEF Sum, WireOrdered, Serve!HeadWaits, Serve!EndWaits

\* What leaves the request alone: it may end its channel, its dial or its
\* handler, and let a paused request go on that the buffer has room for.
LEMMA QuietSteps ==
  ASSUME Serve!ServeTypeOK, UploadSound,
         UNCHANGED <<wire, left, size, chunks, head>>,
         offered' = offered \/ offered' = "gone",
         offer' \in {"sent", "dialling"} => offer \in {"sent", "dialling"},
         dial' = dial \/ (dial # "none" /\ dial' = "closed"),
         served' = served \/ (served # "none" /\ served' # "none"),
         \/ flow' = flow
         \/ flow' = "gone" /\ flow # "ended" /\ offered' = "gone"
         \/ flow = "paused" /\ flow' = "flowing"
              /\ (Waiting <= UploadHighWater \/ offered # "paired")
  PROVE  UploadSound'
<1>1. /\ Waiting' = Waiting /\ Sum' = Sum /\ (WireOrdered' <=> WireOrdered)
      /\ Serve!HeadWaits' <=> Serve!HeadWaits
      /\ Serve!EndWaits' <=> Serve!EndWaits
  BY UploadUntouched
<1>2. WireOrdered' /\ Sum' <= size' /\ Waiting' <= UploadHighWater + 1
  BY <1>1 DEF UploadSound
<1>3. offered' = "offered" => offered = "offered"
  OBVIOUS
<1>4. offered' = "paired" => offered = "paired"
  OBVIOUS
<1>5. dial' = "none" <=> dial = "none"
  OBVIOUS
<1>6. served' = "none" <=> served = "none"
  OBVIOUS
<1>7. flow = "ended" => flow' = "ended"
  OBVIOUS
<1>8. offered' = "offered" => wire' = <<>> /\ flow' = "idle" /\ left' = size'
  BY <1>3 DEF UploadSound
<1>9. offered' = "offered" \/ offer' \in {"sent", "dialling"} => dial' = "none"
  BY <1>3, <1>5 DEF UploadSound
<1>10. dial' = "none" => ~head' /\ served' = "none"
  BY <1>5, <1>6 DEF UploadSound
<1>11. dial' = "none" \/ Serve!HeadWaits' => ~head' /\ chunks' = 0
  BY <1>1, <1>5 DEF UploadSound
<1>12. Serve!EndWaits' => flow' = "ended" /\ left' = 0
  BY <1>1, <1>7 DEF UploadSound
<1>13. head' \/ Serve!HeadWaits' => (offered' = "paired" \/ Serve!EndWaits' => Sum' = size')
  BY <1>1, <1>4 DEF UploadSound
<1>14. served' # "none" => wire' = <<>> /\ flow' = "ended" /\ chunks' = size'
  BY <1>6, <1>7 DEF UploadSound
<1>15. offered' = "paired" /\ flow' = "flowing" => Waiting' <= UploadHighWater
  BY <1>1, <1>4 DEF UploadSound
<1>16. offered' = "paired" /\ ~SameTick =>
          /\ Serve!HeadWaits' \/ head'
          /\ flow' = "ended" => Serve!EndWaits' \/ served' # "none"
  BY <1>1, <1>4, <1>6 DEF UploadSound
<1> QED
  BY <1>2, <1>8, <1>9, <1>10, <1>11, <1>12, <1>13, <1>14, <1>15, <1>16 DEF UploadSound

\* The gateway pairs the channel and sends the head.
LEMMA PairKeeps ==
  ASSUME Serve!ServeTypeOK, UploadSound, Serve!Pair
  PROVE  wire' \in Seq(RequestFrames) /\ UploadSound'
<1>1. /\ offered = "offered" /\ offer = "dialling" /\ offered' = "paired" /\ wire' = <<"head">>
      /\ flow' = "flowing"
      /\ UNCHANGED <<offer, size, left, dial, head, chunks, served>>
  BY DEF Serve!Pair, Serve!serveVars
<1>2. dial = "none" /\ ~head /\ chunks = 0 /\ left = size /\ served = "none"
  BY <1>1 DEF UploadSound
<1>3. wire' \in Seq(RequestFrames) /\ Len(wire') = 1 /\ wire'[1] = "head" /\ wire' # <<>>
  BY <1>1 DEF RequestFrames
<1>4. \A i \in DOMAIN wire' : i = 1 /\ wire'[i] = "head"
  BY <1>1
<1>5. CountOf(wire') = 0
  <2>1. Places(wire') = {}
    BY <1>4 DEF Places
  <2> QED
    BY <2>1, FS_EmptySet DEF CountOf
<1>6. Waiting' = 0
  BY <1>5 DEF Waiting
<1>7. Sum' = size'
  BY <1>1, <1>2, <1>6, UploadNumbers DEF Sum
<1>8. size' \in Nat /\ UploadHighWater \in Nat
  BY <1>1, UploadNumbers
<1>9. Serve!HeadWaits' /\ ~Serve!EndWaits'
  BY <1>3 DEF Serve!HeadWaits, Serve!EndWaits
<1>10. WireOrdered'
  BY <1>4 DEF WireOrdered
<1> QED
  BY <1>1, <1>2, <1>3, <1>6, <1>7, <1>8, <1>9, <1>10 DEF UploadSound

LEMMA Fewer ==
  ASSUME NEW a \in Nat, NEW b \in Nat, NEW c \in Nat, NEW d \in Nat, a <= b, b + c <= d
  PROVE  a + c <= d
  OBVIOUS

\* The dial opens; what came with the upgrade may have been emitted to nobody.
LEMMA DialOpensKeeps ==
  ASSUME Serve!ServeTypeOK, UploadSound, Serve!DialOpens
  PROVE  wire' \in Seq(RequestFrames) /\ UploadSound'
<1>1. /\ offer = "dialling" /\ wire # <<>> /\ offer' = "accepted" /\ dial' = "open"
      /\ UNCHANGED <<offered, flow, size, left, head, chunks, served>>
  BY DEF Serve!DialOpens, Serve!uploadVars, Serve!serveVars
<1>2. dial = "none" /\ ~head /\ chunks = 0 /\ served = "none" /\ offered # "offered"
  BY <1>1 DEF UploadSound
<1>3. wire \in Seq(RequestFrames) /\ WireOrdered
  BY UploadNumbers DEF UploadSound
<1>4. CASE UNCHANGED wire
  <2>1. /\ Waiting' = Waiting /\ Sum' = Sum /\ (WireOrdered' <=> WireOrdered)
        /\ Serve!HeadWaits' <=> Serve!HeadWaits
        /\ Serve!EndWaits' <=> Serve!EndWaits
    BY <1>1, <1>4, UploadUntouched
  <2> QED
    BY <1>1, <1>2, <1>3, <1>4, <2>1 DEF UploadSound
<1>5. ASSUME SameTick, NEW n \in 1..Len(wire), wire' = SubSeq(wire, n + 1, Len(wire))
      PROVE  wire' \in Seq(RequestFrames) /\ UploadSound'
  <2>1. /\ wire' \in Seq(RequestFrames) /\ WireOrdered' /\ ~Serve!HeadWaits'
        /\ Serve!EndWaits' => Serve!EndWaits
        /\ Waiting' <= Waiting
    BY <1>3, <1>5, WireSuffix
  <2>2. Waiting' \in Nat
    BY <2>1, CountNat DEF Waiting
  <2>3. Waiting \in Nat /\ left \in Nat /\ size \in Nat /\ UploadHighWater \in Nat
    BY UploadNumbers
  <2>4. chunks + Waiting + left <= size /\ Waiting <= UploadHighWater + 1
    BY DEF UploadSound, Sum
  <2>5. Sum' <= size'
    <3>1. Waiting + left <= size
      BY <1>2, <2>3, <2>4
    <3>2. Waiting' + left <= size
      BY <2>1, <2>2, <2>3, <3>1, Fewer
    <3>3. Sum' = Waiting' + left
      BY <1>1, <1>2, <2>2, <2>3 DEF Sum
    <3> QED
      BY <1>1, <3>2, <3>3
  <2>6. Waiting' <= UploadHighWater + 1
    BY <2>1, <2>2, <2>3, <2>4
  <2>7. offered' = "paired" /\ flow' = "flowing" => Waiting' <= UploadHighWater
    <3>1. offered = "paired" /\ flow = "flowing" => Waiting <= UploadHighWater
      BY DEF UploadSound
    <3> QED
      BY <1>1, <2>1, <2>2, <2>3, <3>1
  <2>8. Serve!EndWaits' => flow' = "ended" /\ left' = 0
    BY <1>1, <2>1 DEF UploadSound
  <2> QED
    BY <1>1, <1>2, <1>5, <2>1, <2>5, <2>6, <2>7, <2>8 DEF UploadSound
<1> QED
  BY <1>4, <1>5, <1>3 DEF Serve!DialOpens

\* The caller sends a chunk: to the wire, unless its channel is gone.
LEMMA UploadKeeps ==
  ASSUME Serve!ServeTypeOK, UploadSound, Serve!Upload
  PROVE  wire' \in Seq(RequestFrames) /\ left' \in 0..size /\ UploadSound'
<1>1. /\ flow = "flowing" /\ left > 0 /\ left' = left - 1
      /\ UNCHANGED <<offer, offered, size, dial, head, chunks, served>>
  BY DEF Serve!Upload, Serve!serveVars
<1>2. /\ wire \in Seq(RequestFrames) /\ Waiting \in Nat /\ left \in Nat /\ size \in Nat
      /\ chunks \in Nat /\ UploadHighWater \in Nat /\ left <= size
  BY UploadNumbers
<1>3. left' \in 0..size /\ left' \in Nat
  BY <1>1, <1>2
<1>4. offered # "offered" /\ ~Serve!EndWaits /\ served = "none"
  BY <1>1, <1>2 DEF UploadSound
<1>5. chunks + Waiting + left <= size /\ Waiting <= UploadHighWater + 1
  BY DEF UploadSound, Sum
<1>6. CASE offered = "paired"
  <2>1. /\ wire' = Append(wire, "chunk")
        /\ flow' = IF Serve!Buffered + 1 > UploadHighWater THEN "paused" ELSE flow
    BY <1>6 DEF Serve!Upload, Serve!SendChunk
  <2>2. /\ wire' \in Seq(RequestFrames) /\ WireOrdered'
        /\ Serve!HeadWaits' <=> Serve!HeadWaits
        /\ ~Serve!EndWaits' /\ Waiting' = Waiting + 1
    BY <1>2, <1>4, <2>1, WireAppend DEF UploadSound
  <2>3. Serve!Buffered = Waiting
    BY BufferedIsWaiting
  <2>4. Waiting <= UploadHighWater
    BY <1>1, <1>6 DEF UploadSound
  <2>5. Waiting' <= UploadHighWater + 1
    BY <1>2, <2>2, <2>4
  <2>6. flow' = "flowing" => Waiting' <= UploadHighWater
    BY <1>2, <2>1, <2>2, <2>3
  <2>7. Sum' = Sum
    BY <1>1, <1>2, <2>2 DEF Sum
  <2>8. flow' # "ended"
    BY <1>1, <2>1
  <2> QED
    BY <1>1, <1>3, <1>4, <1>6, <2>2, <2>5, <2>6, <2>7, <2>8 DEF UploadSound
<1>7. CASE offered # "paired"
  <2>1. UNCHANGED <<wire, flow>>
    BY <1>7 DEF Serve!Upload
  <2>2. /\ Waiting' = Waiting /\ (WireOrdered' <=> WireOrdered)
        /\ Serve!HeadWaits' <=> Serve!HeadWaits
        /\ Serve!EndWaits' <=> Serve!EndWaits
    BY <2>1 DEF Waiting, WireOrdered, Serve!HeadWaits, Serve!EndWaits
  <2>3. Sum' <= size
    BY <1>1, <1>2, <1>5, <2>2 DEF Sum
  <2> QED
    BY <1>1, <1>2, <1>3, <1>4, <1>7, <2>1, <2>2, <2>3 DEF UploadSound
<1> QED
  BY <1>6, <1>7

\* The request ends, and so does what is sent of it.
LEMMA UploadEndsKeeps ==
  ASSUME Serve!ServeTypeOK, UploadSound, Serve!UploadEnds
  PROVE  wire' \in Seq(RequestFrames) /\ UploadSound'
<1>1. /\ flow = "flowing" /\ left = 0 /\ flow' = "ended"
      /\ wire' = IF offered = "paired" THEN Append(wire, "end") ELSE wire
      /\ UNCHANGED <<offer, offered, size, left, dial, head, chunks, served>>
  BY DEF Serve!UploadEnds, Serve!serveVars
<1>2. wire \in Seq(RequestFrames)
  BY UploadNumbers
<1>3. offered # "offered" /\ ~Serve!EndWaits /\ served = "none"
  BY <1>1 DEF UploadSound
<1>4. CASE offered = "paired"
  <2>1. /\ wire' \in Seq(RequestFrames) /\ WireOrdered'
        /\ Serve!HeadWaits' <=> Serve!HeadWaits
        /\ Serve!EndWaits' /\ Waiting' = Waiting
    BY <1>1, <1>2, <1>3, <1>4, WireAppend DEF UploadSound
  <2>2. Sum' = Sum
    BY <1>1, <2>1 DEF Sum
  <2> QED
    BY <1>1, <1>3, <1>4, <2>1, <2>2 DEF UploadSound
<1>5. CASE offered # "paired"
  <2>1. /\ Waiting' = Waiting /\ Sum' = Sum /\ (WireOrdered' <=> WireOrdered)
        /\ Serve!HeadWaits' <=> Serve!HeadWaits
        /\ Serve!EndWaits' <=> Serve!EndWaits
    BY <1>1, <1>5, UploadUntouched
  <2> QED
    BY <1>1, <1>2, <1>3, <1>5, <2>1 DEF UploadSound
<1> QED
  BY <1>4, <1>5

\* A frame is taken off the wire.
LEMMA DeliverKeeps ==
  ASSUME Serve!ServeTypeOK, UploadSound, Serve!Deliver
  PROVE  wire' \in Seq(RequestFrames) /\ chunks' \in 0..MaxUpload /\ UploadSound'
<1>1. /\ wire \in Seq(RequestFrames) /\ Waiting \in Nat /\ left \in Nat /\ size \in Nat
      /\ chunks \in Nat /\ UploadHighWater \in Nat /\ MaxUpload \in Nat /\ size <= MaxUpload
      /\ WireOrdered
  BY UploadNumbers DEF UploadSound
<1>2. \E frame \in RequestFrames : Serve!Arrives(frame)
  BY DEF Serve!Deliver, Serve!TakeHead, Serve!TakeChunk, Serve!TakeEnd, RequestFrames
<1>3. /\ dial = "open" /\ wire # <<>> /\ wire' = Tail(wire)
      /\ UNCHANGED <<offer, offered, dial, flow, size, left>>
  BY <1>2 DEF Serve!Arrives, Serve!uploadVars
<1>4. /\ wire' \in Seq(RequestFrames) /\ WireOrdered'
      /\ ~Serve!HeadWaits' /\ (Serve!HeadWaits <=> Head(wire) = "head")
      /\ Head(wire) = "end" => wire' = <<>> /\ Serve!EndWaits
      /\ Head(wire) # "end" => (Serve!EndWaits' <=> Serve!EndWaits)
      /\ Waiting' = IF Head(wire) = "chunk" THEN Waiting - 1 ELSE Waiting
  BY <1>1, <1>3, WireTail
<1>5. Waiting' \in Nat
  BY <1>4, CountNat DEF Waiting
<1>6. served = "none" /\ offered # "offered"
  BY <1>3 DEF UploadSound
<1>7. Waiting <= UploadHighWater + 1 /\ Waiting' <= Waiting
  BY <1>1, <1>4 DEF UploadSound
<1>8. Waiting' <= UploadHighWater + 1
  BY <1>1, <1>5, <1>7
<1>9. offered' = "paired" /\ flow' = "flowing" => Waiting' <= UploadHighWater
  <2>1. offered = "paired" /\ flow = "flowing" => Waiting <= UploadHighWater
    BY DEF UploadSound
  <2> QED
    BY <1>1, <1>3, <1>5, <1>7, <2>1
<1>10. CASE Serve!TakeHead
  <2>1. Head(wire) = "head" /\ head' = TRUE /\ UNCHANGED <<chunks, served>>
    BY <1>10 DEF Serve!TakeHead, Serve!Arrives
  <2>2. Waiting' = Waiting /\ (Serve!EndWaits' <=> Serve!EndWaits) /\ Serve!HeadWaits
    BY <1>4, <2>1
  <2>3. Sum' = Sum
    BY <1>3, <2>1, <2>2 DEF Sum
  <2>4. chunks' \in 0..MaxUpload
    BY <2>1 DEF Serve!ServeTypeOK
  <2> QED
    BY <1>3, <1>4, <1>6, <1>8, <1>9, <2>1, <2>2, <2>3, <2>4 DEF UploadSound
<1>11. CASE Serve!TakeChunk
  <2>1. Head(wire) = "chunk" /\ chunks' = chunks + 1 /\ UNCHANGED <<head, served>>
    BY <1>11 DEF Serve!TakeChunk, Serve!Arrives
  <2>2. Waiting' = Waiting - 1 /\ (Serve!EndWaits' <=> Serve!EndWaits) /\ ~Serve!HeadWaits
    BY <1>4, <2>1
  <2>3. Sum' = Sum
    BY <1>1, <1>3, <2>1, <2>2 DEF Sum
  <2>4. Waiting >= 1
    BY <1>1, <1>5, <2>2
  <2>5. chunks + Waiting + left <= size
    BY DEF UploadSound, Sum
  <2>6. chunks + 1 <= MaxUpload
    BY <1>1, <2>4, <2>5
  <2>7. chunks' \in 0..MaxUpload
    BY <1>1, <2>1, <2>6
  <2> QED
    BY <1>3, <1>4, <1>6, <1>8, <1>9, <2>1, <2>2, <2>3, <2>7 DEF UploadSound
<1>12. CASE Serve!TakeEnd
  <2>1. /\ Head(wire) = "end" /\ UNCHANGED <<head, chunks>>
        /\ served' = IF head THEN "run" ELSE served
    BY <1>12 DEF Serve!TakeEnd, Serve!Arrives
  <2>2. wire' = <<>> /\ Serve!EndWaits /\ Waiting' = Waiting /\ ~Serve!HeadWaits
    BY <1>4, <2>1
  <2>3. ~Serve!EndWaits'
    BY <2>2 DEF Serve!EndWaits
  <2>4. Sum' = Sum
    BY <1>3, <2>1, <2>2 DEF Sum
  <2>5. flow = "ended" /\ left = 0
    BY <2>2 DEF UploadSound
  <2>6. Waiting' = 0
    BY <2>2, CountEmpty DEF Waiting
  <2>7. ASSUME head PROVE chunks = size
    <3>1. chunks + Waiting + left = size
      BY <2>2, <2>7 DEF UploadSound, Sum
    <3> QED
      BY <1>1, <2>2, <2>5, <2>6, <3>1
  <2>8. chunks' \in 0..MaxUpload
    BY <2>1 DEF Serve!ServeTypeOK
  <2> QED
    BY <1>3, <1>4, <1>6, <1>8, <1>9, <2>1, <2>2, <2>3, <2>4, <2>5, <2>7, <2>8 DEF UploadSound
<1> QED
  BY <1>10, <1>11, <1>12 DEF Serve!Deliver

LEMMA ServeInductive ==
  ASSUME Serve!ServeTypeOK, UploadSound, Serve!Next
  PROVE  Serve!ServeTypeOK' /\ UploadSound'
<1> DEFINE Ends == /\ {registered, carrier, closed, head}' \subseteq BOOLEAN
                   /\ control' \in {"open", "none", "connecting", "next"}
                   /\ offer' \in {"sent", "dialling", "accepted", "rejected", "dropped", "threw"}
                   /\ offered' \in {"offered", "paired", "gone"}
                   /\ flow' \in {"idle", "flowing", "paused", "ended", "gone"}
                   /\ dial' \in {"none", "open", "closed"} /\ served' \in {"none", "run", "over"}
                   /\ reply' \in Seq({"head", "500", "body"})
           Numbers == /\ size' \in 0..MaxUpload /\ left' \in 0..size'
                      /\ chunks' \in 0..MaxUpload /\ wire' \in Seq(RequestFrames)
<1>0. Ends /\ Numbers => Serve!ServeTypeOK'
  BY DEF Serve!ServeTypeOK, RequestFrames
<1>1. /\ registered \in BOOLEAN /\ carrier \in BOOLEAN /\ closed \in BOOLEAN /\ head \in BOOLEAN
      /\ control \in {"open", "none", "connecting", "next"}
      /\ offer \in {"sent", "dialling", "accepted", "rejected", "dropped", "threw"}
      /\ offered \in {"offered", "paired", "gone"}
      /\ flow \in {"idle", "flowing", "paused", "ended", "gone"}
      /\ dial \in {"none", "open", "closed"} /\ served \in {"none", "run", "over"}
      /\ reply \in Seq({"head", "500", "body"})
      /\ size \in 0..MaxUpload /\ left \in 0..size
      /\ chunks \in 0..MaxUpload /\ wire \in Seq(RequestFrames)
  BY DEF Serve!ServeTypeOK, RequestFrames
<1>2. UNCHANGED <<size, left, chunks, wire>> => Numbers
  BY <1>1
<1> USE DEF Serve!controlVars, Serve!uploadVars, Serve!serveVars
<1>3. CASE Serve!Drop \/ Serve!Redial \/ Serve!Reconnected \/ Serve!Close
  <2>1. /\ UNCHANGED <<registered, offer, offered, wire, dial, flow, size, left, head, chunks,
                       served, reply>>
        /\ control' \in {"none", "connecting", "next"}
        /\ carrier' \in BOOLEAN /\ closed' \in BOOLEAN
    BY <1>1, <1>3 DEF Serve!Drop, Serve!Redial, Serve!Reconnected, Serve!Close
  <2>2. UploadSound'
    BY <2>1, QuietSteps
  <2> QED
    BY <1>0, <1>1, <1>2, <2>1, <2>2
<1>4. CASE Serve!Teardown
  <2>1. /\ UNCHANGED <<registered, control, carrier, closed, offer, wire, dial, flow, size, left,
                       head, chunks, served, reply>>
        /\ offered' = "gone"
    BY <1>4 DEF Serve!Teardown
  <2>2. UploadSound'
    BY <2>1, QuietSteps
  <2> QED
    BY <1>0, <1>1, <1>2, <2>1, <2>2
<1>5. CASE Serve!CallerAborts
  <2>1. /\ UNCHANGED <<registered, control, carrier, closed, offer, wire, dial, size, left,
                       head, chunks, served, reply>>
        /\ offered' = "gone" /\ flow' = IF flow = "ended" THEN flow ELSE "gone"
    BY <1>5 DEF Serve!CallerAborts
  <2>2. flow' = flow \/ (flow' = "gone" /\ flow # "ended" /\ offered' = "gone")
    BY <2>1
  <2>3. UploadSound'
    BY <2>1, <2>2, QuietSteps
  <2> QED
    BY <1>0, <1>1, <1>2, <2>1, <2>3
<1>6. CASE Serve!TakeOffer \/ Serve!LoseOffer \/ Serve!DialFails
  <2>1. /\ UNCHANGED <<registered, control, carrier, closed, offered, wire, dial, flow, size,
                       left, head, chunks, served, reply>>
        /\ offer \in {"sent", "dialling"}
        /\ offer' \in {"dialling", "rejected", "dropped", "threw"}
    BY <1>6 DEF Serve!TakeOffer, Serve!LoseOffer, Serve!DialFails, Serve!Reject
  <2>2. UploadSound'
    BY <2>1, QuietSteps
  <2> QED
    BY <1>0, <1>1, <1>2, <2>1, <2>2
<1>7. CASE Serve!Pair
  <2>1. /\ UNCHANGED <<registered, control, carrier, closed, offer, dial, size, left, head,
                       chunks, served, reply>>
        /\ offered' = "paired" /\ flow' = "flowing"
    BY <1>7 DEF Serve!Pair
  <2> QED
    BY <1>0, <1>1, <1>7, <2>1, PairKeeps
<1>8. CASE Serve!DialOpens
  <2>1. /\ UNCHANGED <<registered, control, carrier, closed, offered, flow, size, left, head,
                       chunks, served, reply>>
        /\ offer' = "accepted" /\ dial' = "open"
    BY <1>8 DEF Serve!DialOpens
  <2> QED
    BY <1>0, <1>1, <1>8, <2>1, DialOpensKeeps
<1>9. CASE Serve!DialCloses
  <2>1. /\ UNCHANGED <<registered, control, carrier, closed, offer, offered, wire, flow, size,
                       left, head, chunks, served, reply>>
        /\ dial # "none" /\ dial' = "closed"
    BY <1>9 DEF Serve!DialCloses
  <2>2. UploadSound'
    BY <2>1, QuietSteps
  <2> QED
    BY <1>0, <1>1, <1>2, <2>1, <2>2
<1>10. CASE Serve!Upload
  <2>1. /\ UNCHANGED <<registered, control, carrier, closed, offer, offered, size, dial, head,
                       chunks, served, reply>>
    BY <1>10 DEF Serve!Upload
  <2>2. flow' \in {"paused", flow}
    BY <1>10 DEF Serve!Upload, Serve!SendChunk
  <2> QED
    BY <1>0, <1>1, <1>10, <2>1, <2>2, UploadKeeps
<1>11. CASE Serve!UploadEnds
  <2>1. /\ UNCHANGED <<registered, control, carrier, closed, offer, offered, size, left, dial,
                       head, chunks, served, reply>>
        /\ flow' = "ended"
    BY <1>11 DEF Serve!UploadEnds
  <2> QED
    BY <1>0, <1>1, <1>11, <2>1, UploadEndsKeeps
<1>12. CASE Serve!DrainTick
  <2>1. /\ UNCHANGED <<registered, control, carrier, closed, offer, offered, wire, size, left,
                       dial, head, chunks, served, reply>>
        /\ flow = "paused" /\ flow' = "flowing" /\ Serve!Drained
    BY <1>12 DEF Serve!DrainTick
  <2>2. Waiting <= UploadHighWater \/ offered # "paired"
    <3>1. UploadHighWater \in Nat /\ UploadHighWater \div 4 <= UploadHighWater
          /\ UploadHighWater \div 4 \in Nat /\ Waiting \in Nat
      BY UploadNumbers
    <3>2. Waiting <= UploadHighWater \div 4 \/ offered # "paired"
      BY <2>1, BufferedIsWaiting DEF Serve!Drained
    <3> QED
      BY <3>1, <3>2
  <2>3. UploadSound'
    BY <2>1, <2>2, QuietSteps
  <2> QED
    BY <1>0, <1>1, <1>2, <2>1, <2>3
<1>13. CASE Serve!Deliver
  <2>1. /\ UNCHANGED <<registered, control, carrier, closed, offer, offered, dial, flow, size,
                       left, reply>>
        /\ head' \in BOOLEAN /\ served' \in {"none", "run", "over"}
    BY <1>1, <1>13 DEF Serve!Deliver, Serve!TakeHead, Serve!TakeChunk, Serve!TakeEnd, Serve!Arrives
  <2> QED
    BY <1>0, <1>1, <1>13, <2>1, DeliverKeeps
<1>14. CASE Serve!HandlerReturns
  <2>1. /\ UNCHANGED <<registered, control, carrier, closed, offer, offered, wire, flow, size,
                       left, head, chunks>>
        /\ served = "run" /\ served' = "over" /\ dial' = "closed"
    BY <1>14 DEF Serve!HandlerReturns
  <2>2. PICK answer \in {<<"head">>, <<"head", "body">>, <<"500">>, <<"head", "500">>} :
             reply' = IF dial = "open" THEN answer ELSE <<>>
    BY <1>14 DEF Serve!HandlerReturns
  <2>3. reply' \in Seq({"head", "500", "body"})
    <3> DEFINE R == {"head", "500", "body"}
    <3>1. <<"head">> \in Seq(R) /\ <<"500">> \in Seq(R) /\ <<>> \in Seq(R)
      OBVIOUS
    <3>2. <<"head", "body">> \in Seq(R)
      OBVIOUS
    <3>3. <<"head", "500">> \in Seq(R)
      OBVIOUS
    <3> HIDE DEF R
    <3>4. answer \in Seq(R)
      BY <3>1, <3>2, <3>3
    <3>5. reply' \in Seq(R)
      BY <2>2, <3>1, <3>4
    <3> QED
      BY <3>5 DEF R
  <2>4. dial # "none"
    BY <2>1 DEF UploadSound
  <2>5. UploadSound'
    BY <2>1, <2>4, QuietSteps
  <2> QED
    BY <1>0, <1>1, <1>2, <2>1, <2>3, <2>5
<1> QED
  BY <1>3, <1>4, <1>5, <1>6, <1>7, <1>8, <1>9, <1>10, <1>11, <1>12, <1>13, <1>14 DEF Serve!Next

LEMMA ServeAlways == Spec => [](Serve!ServeTypeOK /\ UploadSound)
<1>1. Init => Serve!ServeTypeOK /\ UploadSound
  BY ServeInitCorrect DEF Init
<1>2. ASSUME Serve!ServeTypeOK, UploadSound, [Next]_everything
      PROVE  Serve!ServeTypeOK' /\ UploadSound'
  <2>1. CASE Serve!Next
    BY <1>2, <2>1, ServeInductive
  <2>2. CASE UNCHANGED serveVars
    <3>1. UploadSound'
      BY <1>2, <2>2, QuietSteps DEF serveVars
    <3> QED
      BY <1>2, <2>2, <3>1 DEF serveVars, Serve!ServeTypeOK
  <2> QED
    BY <1>2, <2>1, <2>2 DEF Next, everything
<1> QED
  BY <1>1, <1>2, PTL DEF Spec, everything

LEMMA UploadSoundServes ==
  ASSUME Serve!ServeTypeOK, UploadSound
  PROVE  Serve!ServeInv
<1>1. /\ Serve!UploadAccounted /\ Serve!UploadWatched
      /\ Serve!WholeRequest /\ Serve!UploadBounded
  BY UploadSoundIs
<1>2. ~SameTick => Serve!ArrivedIsServed
  BY DEF UploadSound, Serve!ArrivedIsServed, Serve!EndWaits
<1> QED
  BY <1>1, <1>2 DEF Serve!ServeInv

-----------------------------------------------------------------------------
(***************************************************************************)
(* A request read by the Python SDK passes through two queues: the inbox   *)
(* of its channel, in the order of the request, and the body of its        *)
(* exchange, chunks first.                                                 *)
(***************************************************************************)

InboxFrames == {"head", "chunk", "end", "stop"}
BodyFrames == {"chunk", "end"}

Has(f, e) == \E i \in DOMAIN f : f[i] = e

Ordered(f) ==
    \A i, j \in DOMAIN f : i < j =>
       f[j] # "head" /\ f[i] # "stop" /\ (f[i] = "end" => f[j] = "stop")

ChunksFirst(f) == \A i, j \in DOMAIN f : i < j /\ f[i] = "end" => f[j] = "end"

LEMMA HasAppend ==
  ASSUME NEW S, NEW f \in Seq(S), NEW e \in S
  PROVE  /\ Append(f, e) \in Seq(S) /\ Append(f, e) # <<>>
         /\ \A x : Has(Append(f, e), x) <=> (Has(f, x) \/ x = e)
<1>1. /\ Append(f, e) \in Seq(S) /\ Len(f) \in Nat /\ DOMAIN f = 1..Len(f)
      /\ DOMAIN Append(f, e) = 1..(Len(f) + 1)
      /\ \A i \in 1..Len(f) : Append(f, e)[i] = f[i]
      /\ Append(f, e)[Len(f) + 1] = e
  OBVIOUS
<1>2. /\ \A i \in 1..(Len(f) + 1) : i \in 1..Len(f) \/ i = Len(f) + 1
      /\ \A i \in 1..Len(f) : i \in 1..(Len(f) + 1)
      /\ Len(f) + 1 \in 1..(Len(f) + 1)
  BY <1>1
<1>3. Append(f, e) # <<>>
  BY <1>1, <1>2
<1>4. ASSUME NEW x PROVE Has(Append(f, e), x) <=> (Has(f, x) \/ x = e)
  BY <1>1, <1>2 DEF Has
<1> QED
  BY <1>1, <1>3, <1>4

LEMMA TailOf ==
  ASSUME NEW S, NEW f \in Seq(S), f # <<>>
  PROVE  /\ Len(f) \in Nat /\ Len(f) > 0 /\ DOMAIN f = 1..Len(f) /\ Head(f) = f[1]
         /\ Tail(f) \in Seq(S) /\ DOMAIN Tail(f) = 1..(Len(f) - 1) /\ Head(f) \in S
         /\ Len(Tail(f)) = Len(f) - 1
         /\ \A i \in 1..(Len(f) - 1) : Tail(f)[i] = f[i + 1]
         /\ \A i \in 1..(Len(f) - 1) : i \in Nat /\ i + 1 \in 1..Len(f) /\ 1 < i + 1
         /\ \A i \in 1..Len(f) : i = 1 \/ \E j \in 1..(Len(f) - 1) : i = j + 1
<1>1. /\ Len(f) \in Nat /\ Len(f) > 0 /\ DOMAIN f = 1..Len(f) /\ Head(f) = f[1]
      /\ Tail(f) \in Seq(S) /\ DOMAIN Tail(f) = 1..(Len(f) - 1) /\ Head(f) \in S
      /\ Len(Tail(f)) = Len(f) - 1
      /\ \A i \in 1..(Len(f) - 1) : Tail(f)[i] = f[i + 1]
  OBVIOUS
<1>2. \A i \in 1..(Len(f) - 1) : i \in Nat /\ i + 1 \in 1..Len(f) /\ 1 < i + 1
  BY <1>1
<1>3. ASSUME NEW i \in 1..Len(f), i # 1 PROVE \E j \in 1..(Len(f) - 1) : i = j + 1
  <2>1. i - 1 \in 1..(Len(f) - 1) /\ i = (i - 1) + 1
    BY <1>1, <1>3
  <2> QED
    BY <2>1
<1> QED
  BY <1>1, <1>2, <1>3

LEMMA HasTail ==
  ASSUME NEW S, NEW f \in Seq(S), f # <<>>
  PROVE  \A x : Has(f, x) <=> (x = Head(f) \/ Has(Tail(f), x))
<1>1. 1 \in 1..Len(f)
  BY TailOf
<1>2. ASSUME NEW x, Has(f, x) PROVE x = Head(f) \/ Has(Tail(f), x)
  <2>1. PICK i \in 1..Len(f) : f[i] = x
    BY <1>2, TailOf DEF Has
  <2>2. CASE \E j \in 1..(Len(f) - 1) : i = j + 1
    <3>1. PICK j \in 1..(Len(f) - 1) : i = j + 1
      BY <2>2
    <3>2. Tail(f)[j] = x /\ j \in DOMAIN Tail(f)
      BY <2>1, <3>1, TailOf
    <3> QED
      BY <3>2 DEF Has
  <2> QED
    BY <2>1, <2>2, TailOf
<1>3. ASSUME NEW x, Has(Tail(f), x) PROVE Has(f, x)
  BY <1>3, TailOf DEF Has
<1> QED
  BY <1>1, <1>2, <1>3, TailOf DEF Has

LEMMA OrderedAppend ==
  ASSUME NEW S, NEW f \in Seq(S), NEW e \in S, Ordered(f),
         f = <<>> \/ e # "head", ~Has(f, "stop"), Has(f, "end") => e = "stop"
  PROVE  Ordered(Append(f, e))
<1>1. /\ Len(f) \in Nat /\ DOMAIN f = 1..Len(f) /\ DOMAIN Append(f, e) = 1..(Len(f) + 1)
      /\ \A i \in 1..Len(f) : Append(f, e)[i] = f[i]
      /\ Append(f, e)[Len(f) + 1] = e
  OBVIOUS
<1> SUFFICES ASSUME NEW i \in 1..(Len(f) + 1), NEW j \in 1..(Len(f) + 1), i < j
             PROVE  LET g == Append(f, e)
                    IN  g[j] # "head" /\ g[i] # "stop" /\ (g[i] = "end" => g[j] = "stop")
  BY <1>1 DEF Ordered
<1>2. i \in 1..Len(f) /\ (j \in 1..Len(f) \/ j = Len(f) + 1)
  BY <1>1
<1>3. Append(f, e)[i] = f[i] /\ f[i] # "stop" /\ f # <<>>
  BY <1>1, <1>2 DEF Has
<1>4. CASE j \in 1..Len(f)
  BY <1>1, <1>2, <1>3, <1>4 DEF Ordered
<1>5. CASE j = Len(f) + 1
  <2>1. f[i] = "end" => e = "stop"
    BY <1>1, <1>2 DEF Has
  <2> QED
    BY <1>1, <1>3, <1>5, <2>1
<1> QED
  BY <1>2, <1>4, <1>5

LEMMA OrderedTail ==
  ASSUME NEW S, NEW f \in Seq(S), f # <<>>, Ordered(f)
  PROVE  /\ Ordered(Tail(f)) /\ ~Has(Tail(f), "head")
         /\ Head(f) = "stop" => \A x : ~Has(Tail(f), x)
         /\ Head(f) = "end" => \A x : Has(Tail(f), x) => x = "stop"
<1>0. 1 \in 1..Len(f)
  BY TailOf
<1>1. Ordered(Tail(f))
  <2> SUFFICES ASSUME NEW i \in 1..(Len(f) - 1), NEW j \in 1..(Len(f) - 1), i < j
               PROVE  LET g == Tail(f)
                      IN  g[j] # "head" /\ g[i] # "stop" /\ (g[i] = "end" => g[j] = "stop")
    BY TailOf DEF Ordered
  <2>1. /\ i + 1 \in DOMAIN f /\ j + 1 \in DOMAIN f
        /\ Tail(f)[i] = f[i + 1] /\ Tail(f)[j] = f[j + 1]
    BY TailOf
  <2>2. i + 1 < j + 1
    BY TailOf
  <2> QED
    BY <2>1, <2>2 DEF Ordered
<1>2. ASSUME NEW i \in 1..(Len(f) - 1)
      PROVE  /\ Tail(f)[i] # "head" /\ Head(f) # "stop"
             /\ Head(f) = "end" => Tail(f)[i] = "stop"
  <2>1. i + 1 \in DOMAIN f /\ 1 \in DOMAIN f /\ 1 < i + 1 /\ Tail(f)[i] = f[i + 1]
        /\ Head(f) = f[1]
    BY <1>0, TailOf
  <2> QED
    BY <2>1 DEF Ordered
<1> QED
  BY <1>1, <1>2, TailOf DEF Has

LEMMA ChunksFirstAppend ==
  ASSUME NEW S, NEW f \in Seq(S), NEW e \in S, ChunksFirst(f),
         e = "end" \/ ~Has(f, "end")
  PROVE  ChunksFirst(Append(f, e))
<1>1. /\ Len(f) \in Nat /\ DOMAIN f = 1..Len(f) /\ DOMAIN Append(f, e) = 1..(Len(f) + 1)
      /\ \A i \in 1..Len(f) : Append(f, e)[i] = f[i]
      /\ Append(f, e)[Len(f) + 1] = e
  OBVIOUS
<1> SUFFICES ASSUME NEW i \in 1..(Len(f) + 1), NEW j \in 1..(Len(f) + 1), i < j,
                    Append(f, e)[i] = "end"
             PROVE  Append(f, e)[j] = "end"
  BY <1>1 DEF ChunksFirst
<1>2. i \in 1..Len(f) /\ (j \in 1..Len(f) \/ j = Len(f) + 1)
  BY <1>1
<1>3. f[i] = "end" /\ Has(f, "end")
  BY <1>1, <1>2 DEF Has
<1> QED
  BY <1>1, <1>2, <1>3 DEF ChunksFirst

LEMMA ChunksFirstTail ==
  ASSUME NEW S, NEW f \in Seq(S), f # <<>>, ChunksFirst(f)
  PROVE  /\ ChunksFirst(Tail(f))
         /\ Head(f) = "end" => \A x : Has(Tail(f), x) => x = "end"
<1>0. 1 \in 1..Len(f)
  BY TailOf
<1>1. ChunksFirst(Tail(f))
  <2> SUFFICES ASSUME NEW i \in 1..(Len(f) - 1), NEW j \in 1..(Len(f) - 1), i < j,
                      Tail(f)[i] = "end"
               PROVE  Tail(f)[j] = "end"
    BY TailOf DEF ChunksFirst
  <2>1. /\ i + 1 \in DOMAIN f /\ j + 1 \in DOMAIN f
        /\ Tail(f)[i] = f[i + 1] /\ Tail(f)[j] = f[j + 1]
    BY TailOf
  <2>2. i + 1 < j + 1
    BY TailOf
  <2> QED
    BY <2>1, <2>2 DEF ChunksFirst
<1>2. ASSUME NEW i \in 1..(Len(f) - 1), Head(f) = "end" PROVE Tail(f)[i] = "end"
  <2>1. i + 1 \in DOMAIN f /\ 1 \in DOMAIN f /\ 1 < i + 1 /\ Tail(f)[i] = f[i + 1]
        /\ Head(f) = f[1]
    BY <1>0, TailOf
  <2> QED
    BY <1>2, <2>1 DEF ChunksFirst
<1> QED
  BY <1>1, <1>2, TailOf DEF Has

\* The end marker is put back; the chunks before it were read.
LEMMA EndPutBack ==
  ASSUME NEW f \in Seq(BodyFrames), f # <<>>, ChunksFirst(f), Head(f) = "end"
  PROVE  LET g == Append(Tail(f), "end")
         IN  /\ g \in Seq(BodyFrames) /\ ChunksFirst(g) /\ CountOf(g) = 0
             /\ CountOf(f) = 0 /\ Has(f, "end")
<1>1. "end" \in BodyFrames
  BY DEF BodyFrames
<1>2. Tail(f) \in Seq(BodyFrames)
  OBVIOUS
<1>3. ~Has(Tail(f), "chunk") /\ ChunksFirst(Tail(f))
  BY ChunksFirstTail
<1>4. CountOf(Tail(f)) = 0
  BY <1>2, <1>3, CountZero DEF Has
<1>5. CountOf(f) = 0
  BY <1>4, CountTail
<1>6. CountOf(Append(Tail(f), "end")) = 0
  BY <1>1, <1>2, <1>4, CountAppend
<1>7. Has(f, "end")
  BY HasTail
<1> QED
  BY <1>1, <1>2, <1>3, <1>5, <1>6, <1>7, ChunksFirstAppend, HasAppend

-----------------------------------------------------------------------------
(***************************************************************************)
(* What Python!BodyAccounted says, with the queues spoken of only by what  *)
(* they have and how many chunks that is.                                  *)
(***************************************************************************)

Pending == Has(inbox, "head") \/ Has(inbox, "chunk") \/ Has(inbox, "end")

Room == IF upload = "head" THEN 0 ELSE IF upload = "body" THEN uploaded + 1 ELSE uploaded + 2

BodySound ==
    /\ exchange <=> handler # "none"
    /\ Ordered(inbox)
    /\ ChunksFirst(body)
    /\ Has(inbox, "stop") => ~open /\ serve # "begin"
    /\ Pending => upload # "head" /\ serve \in {"begin", "reading"}
    /\ Has(inbox, "end") => upload = "none"
    /\ Has(inbox, "head") => ~exchange
    /\ upload = "head" => ~exchange
    /\ upload # "head" /\ ~exchange => inbox # <<>> /\ Head(inbox) = "head"
    /\ serve = "begin" => Len(inbox) <= Room
    /\ got + CountOf(body) + CountOf(inbox) = uploaded
    /\ ended => upload = "none" /\ ~Pending
    /\ Has(body, "end") => ended \/ (disconnected /\ serve \in {"grace", "done"})
    /\ handled => ended /\ CountOf(body) = 0

LEMMA PythonNumbers ==
  ASSUME Python!ServeTypeOK
  PROVE  /\ inbox \in Seq(InboxFrames) /\ body \in Seq(BodyFrames)
         /\ MaxBody \in Nat /\ EarlyLimit \in Nat /\ MaxOut \in Nat
         /\ uploaded \in Nat /\ uploaded <= MaxBody /\ got \in Nat
         /\ CountOf(inbox) \in Nat /\ CountOf(body) \in Nat
         /\ Len(inbox) \in Nat /\ Room \in Nat
<1>1. MaxBody \in Nat /\ EarlyLimit \in Nat /\ MaxOut \in Nat
  BY TransferConstants DEF Python!ConstantsOK
<1>2. inbox \in Seq(InboxFrames) /\ body \in Seq(BodyFrames)
  BY DEF Python!ServeTypeOK, InboxFrames, BodyFrames
<1>3. uploaded \in Nat /\ uploaded <= MaxBody /\ got \in Nat
  BY <1>1 DEF Python!ServeTypeOK
<1>4. CountOf(inbox) \in Nat /\ CountOf(body) \in Nat
  BY <1>2, CountNat
<1>5. Room \in Nat
  BY <1>3 DEF Room
<1>6. Len(inbox) \in Nat
  BY <1>2
<1> QED
  BY <1>1, <1>2, <1>3, <1>4, <1>5, <1>6

LEMMA ChunksIsCount == \A f : Python!Chunks(f) = CountOf(f)
<1>0. ASSUME NEW P PROVE Python!Cardinality(P) = Cardinality(P)
  BY DEF Python!Cardinality, Cardinality
<1>1. ASSUME NEW f PROVE Python!Chunks(f) = CountOf(f)
  <2>1. Python!Chunks(f) = Python!Cardinality(Places(f))
    BY DEF Python!Chunks, Places
  <2> QED
    BY <1>0, <2>1 DEF CountOf
<1> QED
  BY <1>1

LEMMA BodySoundIs ==
  ASSUME Python!ServeTypeOK, BodySound
  PROVE  Python!BodyAccounted
<1> DEFINE Placed ==
             \A i \in DOMAIN inbox :
                /\ inbox[i] = "stop" => ~open /\ serve # "begin"
                /\ inbox[i] # "stop" => upload # "head" /\ serve \in {"begin", "reading"}
                /\ inbox[i] = "end" => upload = "none"
                /\ inbox[i] = "head" => ~exchange
<1>1. inbox \in Seq(InboxFrames) /\ body \in Seq(BodyFrames)
  BY PythonNumbers
<1>2. ASSUME NEW i \in DOMAIN inbox
      PROVE  inbox[i] \in InboxFrames /\ Has(inbox, inbox[i])
  BY <1>1 DEF Has
<1>3. ASSUME NEW i \in DOMAIN inbox, inbox[i] # "stop" PROVE Pending
  BY <1>2, <1>3 DEF Pending, InboxFrames
<1>4. Placed
  BY <1>2, <1>3 DEF BodySound
<1>5. upload # "head" /\ ~exchange => inbox # <<>> /\ inbox[1] = "head"
  BY <1>1 DEF BodySound
<1>6. serve = "begin" =>
        Len(inbox) <= CASE upload = "head" -> 0 [] upload = "body" -> uploaded + 1
                        [] OTHER -> uploaded + 2
  BY DEF BodySound, Room
<1>7. ended => upload = "none" /\ \A i \in DOMAIN inbox : inbox[i] = "stop"
  BY <1>3 DEF BodySound
<1>8. \A i \in DOMAIN body :
         body[i] = "end" => ended \/ (disconnected /\ serve \in {"grace", "done"})
  BY DEF BodySound, Has
<1>9. got + Python!Chunks(body) + Python!Chunks(inbox) = uploaded
  BY ChunksIsCount DEF BodySound
<1>10. handled => ended /\ Python!Chunks(body) = 0
  BY ChunksIsCount DEF BodySound
<1>11. \A i, j \in DOMAIN inbox : i < j =>
          inbox[j] # "head" /\ inbox[i] # "stop" /\ (inbox[i] = "end" => inbox[j] = "stop")
  BY DEF BodySound, Ordered
<1>12. \A i, j \in DOMAIN body : i < j /\ body[i] = "end" => body[j] = "end"
  BY DEF BodySound, ChunksFirst
<1>13. (exchange <=> handler # "none") /\ (upload = "head" => ~exchange)
  BY DEF BodySound
<1> QED
  BY <1>4, <1>5, <1>6, <1>7, <1>8, <1>9, <1>10, <1>11, <1>12, <1>13 DEF Python!BodyAccounted

\* A body handed to the handler of a whole-body server is whole.
LEMMA BodySoundWhole ==
  ASSUME Python!ServeTypeOK, BodySound
  PROVE  Python!WholeBody
<1> SUFFICES ASSUME handled PROVE ended /\ got = uploaded /\ upload = "none"
  BY DEF Python!WholeBody
<1>1. ended /\ upload = "none" /\ CountOf(body) = 0 /\ ~Has(inbox, "chunk")
  BY DEF BodySound, Pending
<1>2. CountOf(inbox) = 0
  <2>1. inbox \in Seq(InboxFrames)
    BY PythonNumbers
  <2> QED
    BY <1>1, <2>1, CountZero DEF Has
<1>3. got + CountOf(body) + CountOf(inbox) = uploaded
  BY DEF BodySound
<1>4. got \in Nat
  BY PythonNumbers
<1> QED
  BY <1>1, <1>2, <1>3, <1>4

-----------------------------------------------------------------------------
(***************************************************************************)
(* The steps of a channel the Python SDK serves, as BodySound sees them.   *)
(***************************************************************************)

bodySoundVars == <<inbox, body, exchange, upload, uploaded, got, ended, handled>>

\* What touches neither queue: a task asks or is woken, the handler answers,
\* the grace period ends.
LEMMA QueuesUntouched ==
  ASSUME BodySound, UNCHANGED bodySoundVars,
         open' => open, handler' = "none" <=> handler = "none",
         disconnected => disconnected',
         serve' = serve \/ (serve = "grace" /\ serve' = "done")
  PROVE  BodySound'
BY DEF BodySound, bodySoundVars, Pending, Room

\* The marker of the end of the channel comes once, behind everything.
LEMMA StopComes ==
  ASSUME Python!ServeTypeOK, BodySound,
         UNCHANGED <<body, exchange, upload, uploaded, got, ended, handled, disconnected>>,
         inbox' = Append(inbox, "stop"), ~Has(inbox, "stop"), ~open',
         handler' = "none" <=> handler = "none",
         serve' # "begin", serve' = serve \/ (serve = "begin" /\ serve' = "reading")
  PROVE  inbox' \in Seq(InboxFrames) /\ BodySound'
<1>1. inbox \in Seq(InboxFrames) /\ "stop" \in InboxFrames
  BY PythonNumbers DEF InboxFrames
<1>2. /\ inbox' \in Seq(InboxFrames) /\ Ordered(inbox')
      /\ \A x : Has(inbox', x) <=> (Has(inbox, x) \/ x = "stop")
      /\ CountOf(inbox') = CountOf(inbox)
  BY <1>1, HasAppend, OrderedAppend, CountAppend DEF BodySound
<1>3. inbox # <<>> => inbox' # <<>> /\ Head(inbox') = Head(inbox)
  BY <1>1
<1>4. Pending' <=> Pending
  BY <1>2 DEF Pending
<1> QED
  BY <1>2, <1>3, <1>4 DEF BodySound

\* A frame of the request comes; the early buffer has room for it.
LEMMA FrameComes ==
  ASSUME MaxBody + 2 <= EarlyLimit, Python!ServeTypeOK, BodySound,
         serve \in {"grace", "done"} => ~open,
         Python!ReceiveHead \/ Python!ReceiveChunk \/ Python!ReceiveEnd
  PROVE  inbox' \in Seq(InboxFrames) /\ uploaded' \in 0..MaxBody /\ BodySound'
<1>1. PICK frame \in {"head", "chunk", "end"} :
        /\ Python!Receive(frame)
        /\ frame = "head" => upload = "head" /\ upload' = "body" /\ uploaded' = uploaded
        /\ frame = "chunk" => /\ upload = "body" /\ upload' = "body"
                              /\ uploaded < MaxBody /\ uploaded' = uploaded + 1
        /\ frame = "end" => upload = "body" /\ upload' = "none" /\ uploaded' = uploaded
  BY DEF Python!ReceiveHead, Python!ReceiveChunk, Python!ReceiveEnd
<1>2. /\ open /\ UNCHANGED <<body, exchange, got, ended, handled, disconnected, open, serve,
                              handler>>
  BY <1>1 DEF Python!Receive, Python!bodyVars
<1>3. /\ inbox \in Seq(InboxFrames) /\ MaxBody \in Nat /\ EarlyLimit \in Nat
      /\ uploaded \in Nat /\ uploaded <= MaxBody /\ Len(inbox) \in Nat
      /\ got \in Nat /\ CountOf(body) \in Nat /\ CountOf(inbox) \in Nat
  BY PythonNumbers
<1>4. serve = "begin" => Len(inbox) <= Room
  BY DEF BodySound
<1>5. serve = "begin" => Len(inbox) < EarlyLimit /\ Len(inbox) + 1 <= Room'
  BY <1>1, <1>3, <1>4 DEF Room
<1>6. inbox' = Append(inbox, frame)
  BY <1>1, <1>5 DEF Python!Receive
<1>7. frame \in InboxFrames
  BY DEF InboxFrames
<1>8. ~Has(inbox, "stop") /\ ~Has(inbox, "end") /\ ~ended
  BY <1>1, <1>2 DEF BodySound
<1>9. frame = "head" => inbox = <<>> /\ ~exchange
  <2> SUFFICES ASSUME frame = "head" PROVE inbox = <<>> /\ ~exchange
    OBVIOUS
  <2>1. ~Pending /\ ~exchange
    BY <1>1 DEF BodySound
  <2>2. \A i \in DOMAIN inbox : inbox[i] \in InboxFrames /\ Has(inbox, inbox[i])
    BY <1>3 DEF Has
  <2>3. \A i \in DOMAIN inbox : FALSE
    BY <1>8, <2>1, <2>2 DEF Pending, InboxFrames
  <2>4. Len(inbox) = 0
    <3>1. DOMAIN inbox = 1..Len(inbox)
      BY <1>3
    <3>2. Len(inbox) # 0 => 1 \in 1..Len(inbox)
      BY <1>3
    <3> QED
      BY <2>3, <3>1, <3>2
  <2> QED
    BY <1>3, <2>1, <2>4
<1>10. /\ inbox' \in Seq(InboxFrames) /\ inbox' # <<>>
       /\ \A x : Has(inbox', x) <=> (Has(inbox, x) \/ x = frame)
  BY <1>3, <1>6, <1>7, HasAppend
<1>11. Ordered(inbox')
  BY <1>3, <1>6, <1>7, <1>8, <1>9, OrderedAppend DEF BodySound
<1>12. CountOf(inbox') = IF frame = "chunk" THEN CountOf(inbox) + 1 ELSE CountOf(inbox)
  BY <1>3, <1>6, <1>7, CountAppend
<1>13. /\ Len(inbox') = Len(inbox) + 1
       /\ IF inbox = <<>> THEN Head(inbox') = frame ELSE Head(inbox') = Head(inbox)
  BY <1>3, <1>6
<1>14. uploaded' \in 0..MaxBody
  BY <1>1, <1>3
<1>15. got + CountOf(body) + CountOf(inbox) = uploaded
  BY DEF BodySound
<1>16. got' + CountOf(body') + CountOf(inbox') = uploaded'
  <2>1. got' = got /\ CountOf(body') = CountOf(body)
    BY <1>2
  <2>2. CASE frame = "chunk"
    BY <1>1, <1>3, <1>12, <1>15, <2>1, <2>2
  <2>3. CASE frame # "chunk"
    BY <1>1, <1>3, <1>12, <1>15, <2>1, <2>3
  <2> QED
    BY <2>2, <2>3
<1>17. serve' = "begin" => Len(inbox') <= Room'
  BY <1>2, <1>5, <1>13
<1>18. upload # "head" /\ ~exchange => inbox # <<>> /\ Head(inbox) = "head"
  BY DEF BodySound
<1>19. ~exchange => Head(inbox') = "head"
  BY <1>1, <1>9, <1>13, <1>18
<1>20. serve \in {"begin", "reading"}
  BY <1>2 DEF Python!ServeTypeOK
<1> QED
  BY <1>1, <1>2, <1>8, <1>9, <1>10, <1>11, <1>14, <1>16, <1>17, <1>19, <1>20
     DEF BodySound, Pending

\* serve_http_channel takes a frame out of the inbox.
LEMMA InboxTail ==
  ASSUME Python!ServeTypeOK, BodySound, serve = "reading",
         inbox # <<>>, inbox' = Tail(inbox)
  PROVE  /\ inbox' \in Seq(InboxFrames) /\ Ordered(inbox') /\ Head(inbox) \in InboxFrames
         /\ \A x : Has(inbox, x) <=> (x = Head(inbox) \/ Has(inbox', x))
         /\ ~Has(inbox', "head")
         /\ Head(inbox) \in {"end", "stop"} =>
               ~Has(inbox', "chunk") /\ ~Has(inbox', "end")
         /\ CountOf(inbox') = IF Head(inbox) = "chunk" THEN CountOf(inbox) - 1 ELSE CountOf(inbox)
<1>1. inbox \in Seq(InboxFrames)
  BY PythonNumbers
<1>2. inbox' \in Seq(InboxFrames) /\ Head(inbox) \in InboxFrames
  BY <1>1
<1>3. \A x : Has(inbox, x) <=> (x = Head(inbox) \/ Has(inbox', x))
  BY <1>1, HasTail
<1>4. /\ Ordered(inbox') /\ ~Has(inbox', "head")
      /\ Head(inbox) = "stop" => \A x : ~Has(inbox', x)
      /\ Head(inbox) = "end" => \A x : Has(inbox', x) => x = "stop"
  BY <1>1, OrderedTail DEF BodySound
<1>5. CountOf(inbox') = IF Head(inbox) = "chunk" THEN CountOf(inbox) - 1 ELSE CountOf(inbox)
  BY <1>1, CountTail
<1> QED
  BY <1>2, <1>3, <1>4, <1>5

LEMMA TakeHeadKeeps ==
  ASSUME Python!ServeTypeOK, BodySound, Python!TakeHead
  PROVE  inbox' \in Seq(InboxFrames) /\ BodySound'
<1>1. /\ serve = "reading" /\ inbox # <<>> /\ Head(inbox) = "head" /\ ~exchange
      /\ inbox' = Tail(inbox) /\ exchange' = TRUE /\ handler' = "run"
      /\ UNCHANGED <<upload, uploaded, open, serve, body, ended, disconnected, got, handled>>
  BY DEF Python!TakeHead, Python!Arrived
<1>2. /\ inbox' \in Seq(InboxFrames) /\ Ordered(inbox')
      /\ \A x : Has(inbox, x) <=> (x = "head" \/ Has(inbox', x))
      /\ ~Has(inbox', "head") /\ CountOf(inbox') = CountOf(inbox)
  BY <1>1, InboxTail
<1>3. Has(inbox, "head") /\ upload # "head"
  BY <1>1, <1>2 DEF BodySound, Pending
<1>4. Pending' => Pending
  BY <1>2 DEF Pending
<1> QED
  BY <1>1, <1>2, <1>3, <1>4 DEF BodySound

\* A chunk or the end goes from the inbox to the body.
LEMMA TakeBodyKeeps ==
  ASSUME Python!ServeTypeOK, BodySound, Python!TakeBody
  PROVE  inbox' \in Seq(InboxFrames) /\ body' \in Seq(BodyFrames) /\ BodySound'
<1>1. PICK frame \in {"chunk", "end"} :
        /\ serve = "reading" /\ inbox # <<>> /\ Head(inbox) = frame
        /\ inbox' = Tail(inbox)
        /\ body' = IF exchange THEN Append(body, frame) ELSE body
        /\ ended' = (ended \/ (exchange /\ frame = "end"))
        /\ UNCHANGED <<exchange, handler, upload, uploaded, open, serve, disconnected, got,
                       handled>>
  BY DEF Python!TakeBody, Python!Arrived
<1>2. /\ inbox' \in Seq(InboxFrames) /\ Ordered(inbox')
      /\ \A x : Has(inbox, x) <=> (x = frame \/ Has(inbox', x))
      /\ ~Has(inbox', "head")
      /\ frame = "end" => ~Has(inbox', "chunk") /\ ~Has(inbox', "end")
      /\ CountOf(inbox') = IF frame = "chunk" THEN CountOf(inbox) - 1 ELSE CountOf(inbox)
  BY <1>1, InboxTail
<1>3. Has(inbox, frame) /\ Pending
  BY <1>2 DEF Pending
<1>4. exchange /\ ~ended /\ ~handled /\ upload # "head" /\ (frame = "end" => upload = "none")
  BY <1>1, <1>3 DEF BodySound
<1>5. /\ body \in Seq(BodyFrames) /\ frame \in BodyFrames
      /\ got \in Nat /\ uploaded \in Nat /\ CountOf(body) \in Nat /\ CountOf(inbox) \in Nat
  BY PythonNumbers DEF BodyFrames
<1>6. ~Has(body, "end")
  BY <1>1, <1>4 DEF BodySound
<1>7. /\ body' \in Seq(BodyFrames) /\ ChunksFirst(body')
      /\ \A x : Has(body', x) <=> (Has(body, x) \/ x = frame)
      /\ CountOf(body') = IF frame = "chunk" THEN CountOf(body) + 1 ELSE CountOf(body)
  BY <1>1, <1>4, <1>5, <1>6, HasAppend, ChunksFirstAppend, CountAppend DEF BodySound
<1>8. got + CountOf(body) + CountOf(inbox) = uploaded
  BY DEF BodySound
<1>9. got + CountOf(body') + CountOf(inbox') = uploaded
  <2>1. CASE frame = "chunk"
    BY <1>2, <1>5, <1>7, <1>8, <2>1
  <2>2. CASE frame # "chunk"
    BY <1>2, <1>5, <1>7, <1>8, <2>2
  <2> QED
    BY <2>1, <2>2
<1>10. Pending' => Pending /\ frame = "chunk"
  BY <1>2, <1>3 DEF Pending
<1>11. Has(body', "end") => ended'
  BY <1>1, <1>4, <1>6, <1>7
<1>12. got' + CountOf(body') + CountOf(inbox') = uploaded'
  BY <1>1, <1>9
<1> QED
  BY <1>1, <1>2, <1>3, <1>4, <1>7, <1>10, <1>11, <1>12 DEF BodySound

\* The end of the channel aborts the exchange.
LEMMA TakeStopKeeps ==
  ASSUME Python!ServeTypeOK, BodySound, Python!TakeStop
  PROVE  inbox' \in Seq(InboxFrames) /\ body' \in Seq(BodyFrames) /\ BodySound'
<1>1. /\ serve = "reading" /\ inbox # <<>> /\ Head(inbox) = "stop" /\ inbox' = Tail(inbox)
      /\ IF exchange THEN disconnected' = TRUE /\ body' = Append(body, "end")
                     ELSE UNCHANGED <<disconnected, body>>
      /\ serve' \in {"done", "grace"}
      /\ UNCHANGED <<exchange, handler, upload, uploaded, open, ended, got, handled>>
  BY DEF Python!TakeStop, Python!Arrived, Python!Abort
<1>2. /\ inbox' \in Seq(InboxFrames) /\ Ordered(inbox')
      /\ \A x : Has(inbox, x) <=> (x = "stop" \/ Has(inbox', x))
      /\ ~Has(inbox', "head") /\ ~Has(inbox', "chunk") /\ ~Has(inbox', "end")
      /\ CountOf(inbox') = CountOf(inbox)
  BY <1>1, InboxTail
<1>3. ~Pending' /\ ~open
  BY <1>2 DEF Pending, BodySound
<1>4. ~exchange => upload = "head"
  BY <1>1 DEF BodySound
<1>5. body \in Seq(BodyFrames) /\ "end" \in BodyFrames
  BY PythonNumbers DEF BodyFrames
<1>6. CASE exchange
  <2>1. /\ body' \in Seq(BodyFrames) /\ ChunksFirst(body') /\ disconnected'
        /\ CountOf(body') = CountOf(body)
    <3>1. body' = Append(body, "end") /\ disconnected'
      BY <1>1, <1>6
    <3>2. body' \in Seq(BodyFrames) /\ CountOf(body') = CountOf(body)
      BY <1>5, <3>1, CountAppend
    <3>3. ChunksFirst(body')
      BY <1>5, <3>1, ChunksFirstAppend DEF BodySound
    <3> QED
      BY <3>1, <3>2, <3>3
  <2> QED
    BY <1>1, <1>2, <1>3, <1>6, <2>1 DEF BodySound
<1>7. CASE ~exchange
  <2>1. body' = body /\ disconnected' = disconnected /\ upload = "head"
    BY <1>1, <1>4, <1>7
  <2>2. Has(body, "end") => ended
    BY <1>1 DEF BodySound
  <2> QED
    BY <1>1, <1>2, <1>3, <1>5, <1>7, <2>1, <2>2 DEF BodySound
<1> QED
  BY <1>6, <1>7

LEMMA OneHandedOver ==
  ASSUME NEW g \in Nat, NEW b \in Nat, NEW c \in Nat, NEW i \in Nat, NEW u,
         c = b - 1, g + b + i = u
  PROVE  (g + 1) + c + i = u /\ b # 0
OBVIOUS

LEMMA ReadChunkKeeps ==
  ASSUME Python!ServeTypeOK, BodySound, NEW r \in Readers, Python!ReadChunk(r)
  PROVE  body' \in Seq(BodyFrames) /\ got' \in 0..MaxBody /\ BodySound'
<1>1. /\ body # <<>> /\ Head(body) = "chunk" /\ body' = Tail(body) /\ got' = got + 1
      /\ UNCHANGED <<inbox, exchange, handler, upload, uploaded, open, serve, ended,
                     disconnected, handled>>
  BY DEF Python!ReadChunk, Python!channelVars
<1>2. /\ body \in Seq(BodyFrames) /\ MaxBody \in Nat /\ uploaded <= MaxBody
      /\ got \in Nat /\ uploaded \in Nat /\ CountOf(body) \in Nat /\ CountOf(inbox) \in Nat
  BY PythonNumbers
<1>3. /\ body' \in Seq(BodyFrames) /\ ChunksFirst(body')
      /\ \A x : Has(body', x) => Has(body, x)
      /\ CountOf(body') = CountOf(body) - 1
  BY <1>1, <1>2, HasTail, ChunksFirstTail, CountTail DEF BodySound
<1>4. CountOf(body') \in Nat
  BY <1>3, CountNat
<1>5. got + CountOf(body) + CountOf(inbox) = uploaded
  BY DEF BodySound
<1>6. got' + CountOf(body') + CountOf(inbox) = uploaded /\ CountOf(body) # 0
  <2> DEFINE before == CountOf(body)
             after == CountOf(body')
             waiting == CountOf(inbox)
  <2>1. /\ before \in Nat /\ after \in Nat /\ waiting \in Nat
        /\ after = before - 1 /\ got + before + waiting = uploaded
    BY <1>2, <1>3, <1>4, <1>5
  <2> HIDE DEF before, after, waiting
  <2>2. (got + 1) + after + waiting = uploaded /\ before # 0
    BY <1>2, <2>1, OneHandedOver
  <2> QED
    BY <1>1, <2>2 DEF before, after, waiting
<1>7. got' \in 0..MaxBody
  BY <1>1, <1>2, <1>4, <1>6
<1>8. got' + CountOf(body') + CountOf(inbox') = uploaded'
  BY <1>1, <1>6
<1>9. (Pending' <=> Pending) /\ Room' = Room
  BY <1>1 DEF Pending, Room
<1> QED
  BY <1>1, <1>3, <1>6, <1>7, <1>8, <1>9 DEF BodySound

LEMMA ReadEndKeeps ==
  ASSUME Python!ServeTypeOK, BodySound, handler # "none",
         NEW r \in Readers, Python!ReadEnd(r)
  PROVE  body' \in Seq(BodyFrames) /\ BodySound'
<1>1. /\ body # <<>> /\ Head(body) = "end" /\ body' = Append(Tail(body), "end")
      /\ UNCHANGED <<inbox, exchange, upload, uploaded, open, serve, ended, disconnected, got>>
  BY DEF Python!ReadEnd, Python!channelVars, Python!StickyEnd
<1>2. /\ handler' \in {handler, "aborted"}
      /\ handled' = handled \/ (handled' = TRUE /\ ~disconnected)
  BY DEF Python!ReadEnd, Python!Collected
<1>3. body \in Seq(BodyFrames)
  BY PythonNumbers
<1>4. /\ body' \in Seq(BodyFrames) /\ ChunksFirst(body') /\ CountOf(body') = 0
      /\ CountOf(body) = 0 /\ Has(body, "end")
  BY <1>1, <1>3, EndPutBack DEF BodySound
<1>5. (Pending' <=> Pending) /\ Room' = Room
  BY <1>1 DEF Pending, Room
<1>6. got' + CountOf(body') + CountOf(inbox') = uploaded'
  BY <1>1, <1>4 DEF BodySound
<1>7. handled' => ended'
  BY <1>1, <1>2, <1>4 DEF BodySound
<1> QED
  BY <1>1, <1>2, <1>4, <1>5, <1>6, <1>7 DEF BodySound

-----------------------------------------------------------------------------
(***************************************************************************)
(* The response.                                                           *)
(***************************************************************************)

OutFrames == {"head", "500", "chunk"}

\* A frame is appended behind the head, or is it.
LEMMA HeadStaysFirst ==
  ASSUME Python!ServeTypeOK, Python!ReplyAccounted, Python!HeadFirst,
         UNCHANGED <<style, encodable>>,
         NEW frame \in OutFrames, out' = out \/ (open /\ out' = Append(out, frame)),
         frame = "chunk" => started,
         frame # "chunk" => ~started
  PROVE  out' \in Seq(OutFrames) /\ Python!HeadFirst'
<1>1. out \in Seq(OutFrames)
  BY DEF Python!ServeTypeOK, OutFrames
<1>2. CASE out' = out
  BY <1>1, <1>2 DEF Python!HeadFirst
<1>3. CASE open /\ out' = Append(out, frame)
  <2>1. /\ out' \in Seq(OutFrames) /\ Len(out) \in Nat /\ Len(out') = Len(out) + 1
        /\ \A i \in 1..Len(out) : out'[i] = out[i]
        /\ out'[Len(out) + 1] = frame
    BY <1>1, <1>3
  <2>2. ASSUME encodable, NEW i \in 1..(Len(out) + 1)
        PROVE  (out'[i] # "chunk") <=> (i = 1)
    <3>1. CASE i \in 1..Len(out)
      BY <2>1, <2>2, <3>1 DEF Python!HeadFirst
    <3>2. CASE i = Len(out) + 1 /\ frame = "chunk"
      <4>1. out # <<>>
        BY <1>3, <2>2, <3>2 DEF Python!ReplyAccounted
      <4>2. Len(out) # 0
        BY <1>1, <4>1
      <4> QED
        BY <2>1, <3>2, <4>2
    <3>3. CASE i = Len(out) + 1 /\ frame # "chunk"
      <4>1. out = <<>>
        BY <3>3 DEF Python!ReplyAccounted
      <4> QED
        BY <2>1, <3>3, <4>1
    <3> QED
      BY <2>1, <3>1, <3>2, <3>3
  <2>3. encodable' = encodable
    OBVIOUS
  <2> QED
    BY <2>1, <2>2, <2>3 DEF Python!HeadFirst
<1> QED
  BY <1>2, <1>3

LEMMA HeadFirstKeeps ==
  ASSUME Python!ServeTypeOK, Python!ReplyAccounted, Python!HeadFirst, Python!Next
  PROVE  out' \in Seq(OutFrames) /\ UNCHANGED <<style, encodable>> /\ Python!HeadFirst'
<1>1. ASSUME UNCHANGED <<style, encodable, out>>
      PROVE  out' \in Seq(OutFrames) /\ Python!HeadFirst'
  BY <1>1 DEF Python!ServeTypeOK, OutFrames, Python!HeadFirst
<1> USE DEF Python!channelVars, Python!bodyVars, Python!replyVars
<1>2. CASE Python!ReceiveHead \/ Python!ReceiveChunk \/ Python!ReceiveEnd \/ Python!Lose
             \/ Python!Listen
  BY <1>1, <1>2 DEF Python!ReceiveHead, Python!ReceiveChunk, Python!ReceiveEnd, Python!Receive,
     Python!Lose, Python!Listen
<1>3. CASE Python!Consume \/ Python!WoundDown \/ Python!Cancel
  BY <1>1, <1>3 DEF Python!Consume, Python!TakeHead, Python!TakeBody, Python!TakeStop,
     Python!WoundDown, Python!Cancel
<1>4. CASE \E r \in Readers : Python!Ask(r) \/ Python!ReadChunk(r) \/ Python!ReadEnd(r)
                                \/ Python!SeeDisconnect(r)
  BY <1>1, <1>4 DEF Python!Ask, Python!ReadChunk, Python!ReadEnd, Python!SeeDisconnect
<1>5. CASE Python!StartFails \/ Python!Finish
  BY <1>1, <1>5 DEF Python!StartFails, Python!Finish
<1>6. CASE Python!Start
  <2>1. /\ UNCHANGED <<style, encodable>> /\ ~started /\ "head" \in OutFrames
        /\ out' = out \/ (open /\ out' = Append(out, "head"))
    BY <1>6 DEF Python!Start, Python!Send, OutFrames
  <2> QED
    BY <2>1, HeadStaysFirst
<1>7. CASE Python!Write
  <2>1. /\ UNCHANGED <<style, encodable>> /\ started /\ "chunk" \in OutFrames
        /\ out' = out \/ (open /\ out' = Append(out, "chunk"))
    BY <1>7 DEF Python!Write, Python!Send, OutFrames
  <2> QED
    BY <2>1, HeadStaysFirst
<1>8. CASE Python!Leave /\ started
  BY <1>1, <1>8 DEF Python!Leave
<1>9. CASE Python!Leave /\ ~started
  <2>1. /\ UNCHANGED <<style, encodable>> /\ ~started /\ "500" \in OutFrames
        /\ out' = out \/ (open /\ out' = Append(out, "500"))
    BY <1>9 DEF Python!Leave, Python!Send, OutFrames
  <2> QED
    BY <2>1, HeadStaysFirst
<1> QED
  BY <1>2, <1>3, <1>4, <1>5, <1>6, <1>7, <1>8, <1>9 DEF Python!Next

\* A handler that goes on sees its channel closed; one that is over, or never
\* began, reads nothing.
LEMMA ReplyKeeps ==
  ASSUME Python!ServeTypeOK, BodySound, Python!ReplyAccounted, Python!Answered, Python!Next
  PROVE  Python!ReplyAccounted' /\ Python!Answered'
<1> USE DEF Python!channelVars, Python!bodyVars, Python!replyVars, Python!Answered,
        Python!ReplyAccounted
<1>0. /\ handler \in {"none", "run", "aborted", "closing", "over"}
      /\ serve \in {"begin", "reading", "grace", "done"}
      /\ exchange <=> handler # "none"
      /\ Has(inbox, "stop") => ~open
      /\ Has(body, "end") => ended \/ disconnected
      /\ reader \in [Readers -> {"idle", "queue", "watch"}]
      /\ open \in BOOLEAN /\ lost \in BOOLEAN /\ disconnected \in BOOLEAN
      /\ started \in BOOLEAN /\ out \in Seq(OutFrames) /\ ends \in Nat
      /\ bodyDone \in BOOLEAN
  BY DEF BodySound, Python!ServeTypeOK, OutFrames
<1>1. CASE Python!ReceiveHead \/ Python!ReceiveChunk \/ Python!ReceiveEnd
  BY <1>1 DEF Python!ReceiveHead, Python!ReceiveChunk, Python!ReceiveEnd, Python!Receive
<1>2. CASE Python!Lose
  BY <1>0, <1>2 DEF Python!Lose, Python!MarkClosed
<1>3. CASE Python!Listen \/ Python!WoundDown
  BY <1>0, <1>3 DEF Python!Listen, Python!WoundDown
<1>4. CASE Python!TakeHead
  BY <1>0, <1>4 DEF Python!TakeHead, Python!Arrived
<1>5. CASE Python!TakeBody
  <2>1. /\ UNCHANGED <<style, encodable, handler, open, lost, serve, disconnected, reader,
                       bodyDone, ends, started, out>>
        /\ ended => ended'
    BY <1>5 DEF Python!TakeBody
  <2> QED
    BY <2>1
<1>6. CASE Python!TakeStop
  <2>1. inbox # <<>> /\ Head(inbox) = "stop"
    BY <1>6 DEF Python!TakeStop, Python!Arrived
  <2>2. inbox \in Seq(InboxFrames)
    BY PythonNumbers
  <2>3. ~open
    BY <1>0, <2>1, <2>2, HasTail
  <2> QED
    BY <1>0, <1>6, <2>3 DEF Python!TakeStop, Python!Abort
<1>7. CASE Python!Cancel
  <2>1. lost /\ ~open
    BY <1>0, <1>7 DEF Python!Cancel
  <2> QED
    BY <1>0, <1>7, <2>1 DEF Python!Cancel
<1>8. ASSUME NEW r \in Readers, Python!Ask(r) \/ Python!ReadChunk(r) \/ Python!SeeDisconnect(r)
      PROVE  Python!ReplyAccounted' /\ Python!Answered'
  <2>1. /\ UNCHANGED <<style, encodable, handler, open, lost, serve, ended, disconnected, bodyDone,
                       ends, started, out>>
        /\ handler \notin {"none", "over"}
    BY <1>0, <1>8 DEF Python!Ask, Python!ReadChunk, Python!SeeDisconnect
  <2> QED
    BY <2>1
<1>9. ASSUME NEW r \in Readers, Python!ReadEnd(r)
      PROVE  Python!ReplyAccounted' /\ Python!Answered'
  <2>1. /\ UNCHANGED <<style, encodable, open, lost, serve, ended, disconnected, started, out>>
        /\ handler \notin {"none", "over"} /\ handler' \in {handler, "aborted"}
        /\ body # <<>> /\ Head(body) = "end"
        /\ bodyDone' = (bodyDone \/ style = "asgi")
        /\ ends' = IF bodyDone THEN ends ELSE IF style = "asgi" THEN ends + 1 ELSE 1
    BY <1>0, <1>9 DEF Python!ReadEnd, Python!TellEnd, Python!Collected
  <2>2. ended \/ disconnected
    <3>1. body \in Seq(BodyFrames)
      BY PythonNumbers
    <3> QED
      BY <1>0, <2>1, <3>1, HasTail
  <2>3. style = "asgi" => ends' = IF bodyDone' THEN 1 ELSE 0
    BY <1>0, <2>1
  <2> QED
    BY <1>0, <2>1, <2>2, <2>3
<1>10. ASSUME NEW frame \in OutFrames, Python!Send(frame)
       PROVE  /\ disconnected' = (disconnected \/ ~open)
              /\ open /\ ~disconnected => out' # <<>>
              /\ ~(open /\ ~disconnected) => out' = out
              /\ out # <<>> => out' # <<>>
  <2>1. Append(out, frame) # <<>>
    BY <1>0, HasAppend
  <2> QED
    BY <1>10, <2>1 DEF Python!Send
<1>11. CASE Python!Start
  <2>1. "head" \in OutFrames /\ Python!Send("head")
    BY <1>11 DEF Python!Start, OutFrames
  <2> QED
    BY <1>0, <1>10, <1>11, <2>1 DEF Python!Start, Python!Answers
<1>12. CASE Python!StartFails
  BY <1>0, <1>12 DEF Python!StartFails, Python!Answers
<1>13. CASE Python!Write
  <2>1. "chunk" \in OutFrames /\ Python!Send("chunk")
    BY <1>13 DEF Python!Write, OutFrames
  <2> QED
    BY <1>0, <1>10, <1>13, <2>1 DEF Python!Write, Python!Answers
<1>14. CASE Python!Leave
  <2>1. CASE started
    BY <1>0, <1>14, <2>1 DEF Python!Leave, Python!Answers
  <2>2. CASE ~started
    <3>1. "500" \in OutFrames /\ Python!Send("500")
      BY <1>14, <2>2 DEF Python!Leave, OutFrames
    <3> QED
      BY <1>0, <1>10, <1>14, <2>2, <3>1 DEF Python!Leave, Python!Answers
  <2> QED
    BY <1>0, <2>1, <2>2
<1>15. CASE Python!Finish
  BY <1>0, <1>15 DEF Python!Finish, Python!MarkClosed
<1> QED
  BY <1>1, <1>2, <1>3, <1>4, <1>5, <1>6, <1>7, <1>8, <1>9, <1>11, <1>12, <1>13, <1>14, <1>15
     DEF Python!Next, Python!Consume

LEMMA BodyKeeps ==
  ASSUME MaxBody + 2 <= EarlyLimit, Python!ServeTypeOK, BodySound, Python!ReplyAccounted,
         Python!Next
  PROVE  /\ inbox' \in Seq(InboxFrames) /\ body' \in Seq(BodyFrames)
         /\ uploaded' \in 0..MaxBody /\ got' \in 0..MaxBody /\ BodySound'
<1>0. /\ inbox \in Seq(InboxFrames) /\ body \in Seq(BodyFrames)
      /\ uploaded \in 0..MaxBody /\ got \in 0..MaxBody
      /\ open \in BOOLEAN /\ serve \in {"begin", "reading", "grace", "done"}
  BY PythonNumbers DEF Python!ServeTypeOK
<1>1. /\ serve \in {"grace", "done"} => ~open
      /\ serve = "grace" => handler # "none"
      /\ \A r \in Readers : reader[r] # "idle" => handler \notin {"none", "over"}
  BY DEF Python!ReplyAccounted
<1>2. Has(inbox, "stop") => ~open /\ serve # "begin"
  BY DEF BodySound
<1> USE DEF Python!channelVars, Python!bodyVars, Python!replyVars
<1>3. CASE Python!ReceiveHead \/ Python!ReceiveChunk \/ Python!ReceiveEnd
  <2>1. UNCHANGED <<body, got>>
    BY <1>3 DEF Python!ReceiveHead, Python!ReceiveChunk, Python!ReceiveEnd, Python!Receive
  <2> QED
    BY <1>0, <1>1, <1>3, <2>1, FrameComes
<1>4. ASSUME UNCHANGED <<body, exchange, upload, uploaded, got, ended, handled, disconnected>>,
             handler' = "none" <=> handler = "none",
             \/ inbox' = inbox /\ (open' => open)
                /\ (serve' = serve \/ (serve = "grace" /\ serve' = "done"))
             \/ inbox' = Append(inbox, "stop") /\ ~Has(inbox, "stop") /\ ~open'
                /\ serve' # "begin" /\ (serve' = serve \/ (serve = "begin" /\ serve' = "reading"))
      PROVE  /\ inbox' \in Seq(InboxFrames) /\ body' \in Seq(BodyFrames)
             /\ uploaded' \in 0..MaxBody /\ got' \in 0..MaxBody /\ BodySound'
  <2>1. CASE inbox' = inbox /\ (open' => open)
             /\ (serve' = serve \/ (serve = "grace" /\ serve' = "done"))
    BY <1>0, <1>4, <2>1, QueuesUntouched DEF bodySoundVars
  <2>2. CASE inbox' = Append(inbox, "stop") /\ ~Has(inbox, "stop") /\ ~open'
             /\ serve' # "begin" /\ (serve' = serve \/ (serve = "begin" /\ serve' = "reading"))
    BY <1>0, <1>4, <2>2, StopComes
  <2> QED
    BY <1>4, <2>1, <2>2
<1>5. CASE Python!Lose
  <2>1. /\ UNCHANGED <<body, exchange, upload, uploaded, got, ended, handled, disconnected, handler,
                       serve>>
        /\ open /\ ~open'
        /\ inbox' = IF serve # "begin" THEN Append(inbox, "stop") ELSE inbox
    BY <1>5 DEF Python!Lose, Python!MarkClosed
  <2> QED
    BY <1>2, <1>4, <2>1
<1>6. CASE Python!Listen
  <2>1. /\ UNCHANGED <<body, exchange, upload, uploaded, got, ended, handled, disconnected, handler,
                       open>>
        /\ serve = "begin" /\ serve' = "reading"
        /\ inbox' = IF open THEN inbox ELSE Append(inbox, "stop")
    BY <1>6 DEF Python!Listen
  <2>2. CASE ~open
    BY <1>2, <1>4, <2>1, <2>2
  <2>3. CASE open
    <3>1. /\ inbox' = inbox /\ Pending' = Pending
          /\ upload # "head" /\ ~exchange => inbox # <<>> /\ Head(inbox) = "head"
      BY <2>1, <2>3 DEF Pending, BodySound
    <3>2. BodySound'
      BY <1>2, <2>1, <2>3, <3>1 DEF BodySound
    <3> QED
      BY <1>0, <2>1, <3>1, <3>2
  <2> QED
    BY <2>2, <2>3
<1>7. CASE Python!TakeHead
  <2>1. UNCHANGED <<body, uploaded, got>>
    BY <1>7 DEF Python!TakeHead
  <2> QED
    BY <1>0, <1>7, <2>1, TakeHeadKeeps
<1>8. CASE Python!TakeBody
  <2>1. UNCHANGED <<uploaded, got>>
    BY <1>8 DEF Python!TakeBody
  <2> QED
    BY <1>0, <1>8, <2>1, TakeBodyKeeps
<1>9. CASE Python!TakeStop
  <2>1. UNCHANGED <<uploaded, got>>
    BY <1>9 DEF Python!TakeStop
  <2> QED
    BY <1>0, <1>9, <2>1, TakeStopKeeps
<1>10. CASE Python!WoundDown
  BY <1>4, <1>10 DEF Python!WoundDown
<1>11. CASE Python!Cancel
  <2>1. handler # "none"
    BY <1>1, <1>11 DEF Python!Cancel
  <2> QED
    BY <1>4, <1>11, <2>1 DEF Python!Cancel
<1>12. ASSUME NEW r \in Readers, Python!Ask(r) \/ Python!SeeDisconnect(r)
       PROVE  /\ inbox' \in Seq(InboxFrames) /\ body' \in Seq(BodyFrames)
              /\ uploaded' \in 0..MaxBody /\ got' \in 0..MaxBody /\ BodySound'
  BY <1>4, <1>12 DEF Python!Ask, Python!SeeDisconnect
<1>13. ASSUME NEW r \in Readers, Python!ReadChunk(r)
       PROVE  /\ inbox' \in Seq(InboxFrames) /\ body' \in Seq(BodyFrames)
              /\ uploaded' \in 0..MaxBody /\ got' \in 0..MaxBody /\ BodySound'
  <2>1. UNCHANGED <<inbox, uploaded>>
    BY <1>13 DEF Python!ReadChunk
  <2> QED
    BY <1>0, <1>13, <2>1, ReadChunkKeeps
<1>14. ASSUME NEW r \in Readers, Python!ReadEnd(r)
       PROVE  /\ inbox' \in Seq(InboxFrames) /\ body' \in Seq(BodyFrames)
              /\ uploaded' \in 0..MaxBody /\ got' \in 0..MaxBody /\ BodySound'
  <2>1. UNCHANGED <<inbox, uploaded, got>> /\ handler # "none"
    BY <1>1, <1>14 DEF Python!ReadEnd
  <2> QED
    BY <1>0, <1>14, <2>1, ReadEndKeeps
<1>15. CASE Python!Start \/ Python!StartFails \/ Python!Write \/ Python!Leave
  <2>1. /\ UNCHANGED <<bodySoundVars, open, serve>> /\ handler # "none" /\ handler' # "none"
        /\ disconnected => disconnected'
    BY <1>15 DEF Python!Start, Python!StartFails, Python!Write, Python!Leave, Python!Answers,
       Python!Send, bodySoundVars
  <2>2. BodySound'
    BY <2>1, QueuesUntouched
  <2> QED
    BY <1>0, <2>1, <2>2 DEF bodySoundVars
<1>16. CASE Python!Finish
  <2>1. /\ UNCHANGED <<body, exchange, upload, uploaded, got, ended, handled, disconnected, serve>>
        /\ handler # "none" /\ handler' # "none" /\ ~open'
        /\ inbox' = IF open /\ serve # "begin" THEN Append(inbox, "stop") ELSE inbox
    BY <1>16 DEF Python!Finish, Python!MarkClosed
  <2> QED
    BY <1>2, <1>4, <2>1
<1> QED
  BY <1>3, <1>5, <1>6, <1>7, <1>8, <1>9, <1>10, <1>11, <1>12, <1>13, <1>14, <1>15, <1>16
     DEF Python!Next, Python!Consume

\* The rest of the state of an exchange keeps its types.
LEMMA ExchangeTyped ==
  ASSUME Python!ServeTypeOK, Python!Next,
         inbox' \in Seq(InboxFrames), body' \in Seq(BodyFrames), out' \in Seq(OutFrames),
         uploaded' \in 0..MaxBody, got' \in 0..MaxBody, UNCHANGED <<style, encodable>>
  PROVE  Python!ServeTypeOK'
<1> DEFINE Flags == /\ upload' \in {"head", "body", "none"}
                    /\ serve' \in {"begin", "reading", "grace", "done"}
                    /\ handler' \in {"none", "run", "aborted", "closing", "over"}
                    /\ open' \in BOOLEAN /\ lost' \in BOOLEAN /\ exchange' \in BOOLEAN
                    /\ ended' \in BOOLEAN /\ disconnected' \in BOOLEAN /\ bodyDone' \in BOOLEAN
                    /\ handled' \in BOOLEAN /\ started' \in BOOLEAN
           Tasks == reader' \in [Readers -> {"idle", "queue", "watch"}] /\ ends' \in Nat
<1>0. Flags /\ Tasks => Python!ServeTypeOK'
  BY DEF Python!ServeTypeOK, InboxFrames, BodyFrames, OutFrames
<1>1. /\ upload \in {"head", "body", "none"}
      /\ serve \in {"begin", "reading", "grace", "done"}
      /\ handler \in {"none", "run", "aborted", "closing", "over"}
      /\ open \in BOOLEAN /\ lost \in BOOLEAN /\ exchange \in BOOLEAN
      /\ ended \in BOOLEAN /\ disconnected \in BOOLEAN /\ bodyDone \in BOOLEAN
      /\ handled \in BOOLEAN /\ started \in BOOLEAN
      /\ reader \in [Readers -> {"idle", "queue", "watch"}] /\ ends \in Nat
  BY DEF Python!ServeTypeOK
<1>2. UNCHANGED <<reader, ends>> => Tasks
  BY <1>1
<1> USE DEF Python!channelVars, Python!bodyVars, Python!replyVars
<1>3. CASE Python!ReceiveHead \/ Python!ReceiveChunk \/ Python!ReceiveEnd
  BY <1>0, <1>1, <1>2, <1>3 DEF Python!ReceiveHead, Python!ReceiveChunk,
     Python!ReceiveEnd, Python!Receive
<1>4. CASE Python!Lose
  BY <1>0, <1>1, <1>2, <1>4, ZenonT(40) DEF Python!Lose, Python!MarkClosed
<1>5. CASE Python!Listen \/ Python!WoundDown
  BY <1>0, <1>1, <1>2, <1>5 DEF Python!Listen, Python!WoundDown
<1>6. CASE Python!TakeHead
  <2>1. Tasks
    BY <1>1, <1>6 DEF Python!TakeHead
  <2>2. Flags
    BY <1>1, <1>6 DEF Python!TakeHead
  <2> QED
    BY <1>0, <2>1, <2>2
<1>7. CASE Python!TakeBody
  <2>1. PICK frame \in {"chunk", "end"} :
          /\ ended' = (ended \/ (exchange /\ frame = "end"))
          /\ UNCHANGED <<exchange, handler, upload, open, lost, serve, disconnected, reader, bodyDone,
                         ends, handled, started>>
    BY <1>7 DEF Python!TakeBody
  <2> QED
    BY <1>0, <1>1, <1>2, <2>1
<1>8. CASE Python!TakeStop
  <2>1. disconnected' \in BOOLEAN /\ serve' \in {"done", "grace"}
    BY <1>1, <1>8 DEF Python!TakeStop, Python!Abort
  <2>2. UNCHANGED <<exchange, handler, upload, open, lost, ended, reader, bodyDone, ends,
                    handled, started>>
    BY <1>8 DEF Python!TakeStop
  <2> QED
    BY <1>0, <1>1, <1>2, <2>1, <2>2
<1>9. CASE Python!Cancel
  BY <1>0, <1>1, <1>9 DEF Python!Cancel
<1>10. ASSUME NEW r \in Readers,
              Python!Ask(r) \/ Python!ReadChunk(r) \/ Python!SeeDisconnect(r)
       PROVE  Python!ServeTypeOK'
  <2>1. UNCHANGED <<exchange, handler, upload, open, lost, serve, ended, disconnected, bodyDone,
                    ends, handled, started>>
    BY <1>10 DEF Python!Ask, Python!ReadChunk, Python!SeeDisconnect
  <2>2. reader' \in [Readers -> {"idle", "queue", "watch"}]
    BY <1>1, <1>10 DEF Python!Ask, Python!ReadChunk, Python!SeeDisconnect
  <2> QED
    BY <1>0, <1>1, <2>1, <2>2
<1>11. ASSUME NEW r \in Readers, Python!ReadEnd(r) PROVE Python!ServeTypeOK'
  <2>1. UNCHANGED <<exchange, upload, open, lost, serve, ended, disconnected, started>>
    BY <1>11 DEF Python!ReadEnd
  <2>2. bodyDone' \in BOOLEAN /\ ends' \in Nat
        /\ reader' \in [Readers -> {"idle", "queue", "watch"}]
    BY <1>1, <1>11 DEF Python!ReadEnd, Python!TellEnd
  <2>3. handled' \in BOOLEAN /\ handler' \in {"none", "run", "aborted", "closing", "over"}
    BY <1>1, <1>11 DEF Python!ReadEnd, Python!Collected
  <2> QED
    BY <1>0, <1>1, <2>1, <2>2, <2>3
<1>12. CASE Python!Start \/ Python!Write
  <2>1. disconnected' \in BOOLEAN
    BY <1>1, <1>12 DEF Python!Start, Python!Write, Python!Send
  <2>2. /\ UNCHANGED <<exchange, handler, upload, open, lost, serve, ended, reader, bodyDone, ends,
                       handled>>
        /\ started' \in BOOLEAN
    BY <1>1, <1>12 DEF Python!Start, Python!Write
  <2> QED
    BY <1>0, <1>1, <1>2, <2>1, <2>2
<1>13. CASE Python!StartFails
  BY <1>0, <1>1, <1>2, <1>13 DEF Python!StartFails
<1>14. CASE Python!Leave
  <2>1. disconnected' \in BOOLEAN
    BY <1>1, <1>14 DEF Python!Leave, Python!Send
  <2> QED
    BY <1>0, <1>1, <1>2, <1>14, <2>1 DEF Python!Leave
<1>15. CASE Python!Finish
  BY <1>0, <1>1, <1>15 DEF Python!Finish, Python!MarkClosed
<1> QED
  BY <1>3, <1>4, <1>5, <1>6, <1>7, <1>8, <1>9, <1>10, <1>11, <1>12, <1>13, <1>14, <1>15
     DEF Python!Next, Python!Consume

ExchangeSound ==
    /\ Python!ServeTypeOK /\ BodySound /\ Python!ReplyAccounted
    /\ Python!HeadFirst /\ Python!Answered

LEMMA ExchangeInit == Python!Init => ExchangeSound
<1> SUFFICES ASSUME Python!Init PROVE ExchangeSound
  OBVIOUS
<1>1. MaxBody \in Nat /\ 0 \in 0..MaxBody
  BY TransferConstants DEF Python!ConstantsOK
<1>2. /\ inbox = <<>> /\ body = <<>> /\ out = <<>> /\ uploaded = 0 /\ got = 0 /\ ends = 0
      /\ reader = [r \in Readers |-> "idle"] /\ upload = "head" /\ serve = "begin"
      /\ style \in Styles /\ encodable \in BOOLEAN /\ handler = "none" /\ open /\ ~lost
      /\ ~exchange /\ ~ended /\ ~disconnected /\ ~bodyDone /\ ~handled /\ ~started
  BY DEF Python!Init
<1>3. Python!ServeTypeOK
  <2>1. inbox \in Seq(InboxFrames) /\ body \in Seq(BodyFrames) /\ out \in Seq(OutFrames)
    BY <1>2
  <2>2. reader \in [Readers -> {"idle", "queue", "watch"}]
    BY <1>2
  <2>3. {open, lost, exchange, ended, disconnected, bodyDone, handled, started} \subseteq BOOLEAN
    BY DEF Python!Init
  <2> QED
    BY <1>1, <1>2, <2>1, <2>2, <2>3 DEF Python!ServeTypeOK, InboxFrames, BodyFrames, OutFrames
<1>4. CountOf(inbox) = 0 /\ CountOf(body) = 0 /\ Len(inbox) = 0
      /\ \A x : ~Has(inbox, x) /\ ~Has(body, x)
  BY <1>2, CountEmpty DEF Has
<1>5. BodySound
  <2>1. Ordered(inbox) /\ ChunksFirst(body)
    BY <1>2 DEF Ordered, ChunksFirst
  <2>2. got + CountOf(body) + CountOf(inbox) = uploaded
    BY <1>2, <1>4
  <2> QED
    BY <1>2, <1>4, <2>1, <2>2 DEF BodySound, Pending, Room
<1>6. Python!ReplyAccounted /\ Python!HeadFirst /\ Python!Answered
  BY <1>2 DEF Python!ReplyAccounted, Python!HeadFirst, Python!Answered
<1> QED
  BY <1>3, <1>5, <1>6 DEF ExchangeSound

LEMMA ExchangeInductive ==
  ASSUME MaxBody + 2 <= EarlyLimit, ExchangeSound, Python!Next
  PROVE  ExchangeSound'
<1>1. /\ inbox' \in Seq(InboxFrames) /\ body' \in Seq(BodyFrames)
      /\ uploaded' \in 0..MaxBody /\ got' \in 0..MaxBody /\ BodySound'
  BY BodyKeeps DEF ExchangeSound
<1>2. out' \in Seq(OutFrames) /\ UNCHANGED <<style, encodable>> /\ Python!HeadFirst'
  BY HeadFirstKeeps DEF ExchangeSound
<1>3. Python!ReplyAccounted' /\ Python!Answered'
  BY ReplyKeeps DEF ExchangeSound
<1>4. Python!ServeTypeOK'
  BY <1>1, <1>2, ExchangeTyped DEF ExchangeSound
<1> QED
  BY <1>1, <1>2, <1>3, <1>4 DEF ExchangeSound

LEMMA ExchangeKept == ExchangeSound /\ UNCHANGED pythonVars => ExchangeSound'
BY DEF ExchangeSound, pythonVars, Python!ServeTypeOK, BodySound, Pending, Room,
   Python!ReplyAccounted, Python!HeadFirst, Python!Answered

LEMMA ExchangeAlways == ASSUME MaxBody + 2 <= EarlyLimit PROVE Spec => []ExchangeSound
<1>1. Init => ExchangeSound
  BY ExchangeInit DEF Init
<1>2. ExchangeSound /\ [Next]_everything => ExchangeSound'
  BY ExchangeInductive, ExchangeKept DEF Next, everything
<1> QED
  BY <1>1, <1>2, PTL DEF Spec, everything

LEMMA ExchangeSoundServes ==
  ASSUME ExchangeSound
  PROVE  Python!ServeInv
<1>1. Python!ServeTypeOK /\ BodySound /\ Python!ReplyAccounted /\ Python!HeadFirst /\ Python!Answered
  BY DEF ExchangeSound
<1>2. Python!BodyAccounted /\ Python!WholeBody
  BY <1>1, BodySoundIs, BodySoundWhole
<1>3. Python!TruncationShows
  BY <1>1 DEF Python!ReplyAccounted, Python!TruncationShows
<1>4. Python!OneEnd
  BY <1>1 DEF Python!ReplyAccounted, Python!OneEnd
<1> QED
  BY <1>1, <1>2, <1>3, <1>4 DEF Python!ServeInv

\* Between two events at a backend of either SDK, as long as the early buffer
\* of the Python SDK holds a request: the handler of a whole-body server is
\* given the whole request or is not called, an upload stays bounded, a
\* response has one head and it comes first, a caller who is still there is
\* answered, and a handler told of an end that was none can find that out.
THEOREM ServeCorrect == MaxBody + 2 <= EarlyLimit => (Spec => []ServeInv)
<1> SUFFICES ASSUME MaxBody + 2 <= EarlyLimit PROVE Spec => []ServeInv
  OBVIOUS
<1>1. Spec => []ExchangeSound
  BY ExchangeAlways
<1>2. Serve!ServeTypeOK /\ UploadSound /\ ExchangeSound => ServeInv
  BY UploadSoundServes, ExchangeSoundServes DEF ServeInv
<1> QED
  BY <1>1, <1>2, ServeAlways, PTL

=============================================================================
