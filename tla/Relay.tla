-------------------------------- MODULE Relay --------------------------------
(***************************************************************************)
(* One direction of a paired channel (wireChannel in src/server.ts): the   *)
(* relay of frames from one data socket to the other, the rate bucket, the *)
(* back-pressure on the receiver's buffer, and the timers that resume the  *)
(* sender.  Sizes are in abstract units.                                   *)
(*                                                                         *)
(* ws.pause() stops reading from the sender's connection; frames of a      *)
(* chunk that was already read are still delivered.                        *)
(***************************************************************************)
EXTENDS Integers

CONSTANTS
    Limits,     \* values of channelByteRateLimit, 0 for none
    HighWater,  \* HIGH_WATER
    LowWater,   \* HIGH_WATER / 4
    MaxFrame,   \* the largest frame
    MaxChunk,   \* the most frames one read delivers
    MaxBuffer,  \* bound: how much the receiver's buffer may hold
    MaxTimers,  \* bound: how many timers may be pending
    MaxWindows  \* bound: how many rate windows are followed

ConstantsOK ==
    /\ Limits \subseteq Nat /\ {HighWater, LowWater, MaxFrame, MaxChunk} \subseteq Nat
    /\ {MaxBuffer, MaxTimers, MaxWindows} \subseteq Nat
    /\ LowWater < HighWater /\ MaxFrame > 0 /\ MaxChunk > 0

VARIABLES
    limit,      \* channelByteRateLimit, set when the gateway starts
    keepsUp,    \* the receiver's connection takes every frame at once
    chunk,      \* frames read from the sender and not delivered yet
    paused,     \* the sender's socket is paused
    used,       \* bucket.used
    over,       \* now >= bucket.resetAt
    armed,      \* rate timers that wait for the end of this window
    ripe,       \* rate timers that are due
    drains,     \* drain intervals
    buffered,   \* to.bufferedAmount
    wired,      \* both sockets are open
    windows,    \* history: how many windows were opened
    relayed     \* history: how much was relayed in them

settings == <<limit, keepsUp>>

vars == <<settings, chunk, paused, used, over, armed, ripe, drains, buffered,
          wired, windows, relayed>>

RelayTypeOK ==
    /\ limit \in Limits /\ keepsUp \in BOOLEAN
    /\ chunk \in 0..MaxChunk /\ paused \in BOOLEAN /\ over \in BOOLEAN
    /\ used \in Nat /\ buffered \in Nat /\ windows \in Nat /\ relayed \in Nat
    /\ armed \in Nat /\ ripe \in Nat /\ drains \in Nat
    /\ wired \in BOOLEAN

Init ==
    /\ limit \in Limits /\ keepsUp \in BOOLEAN
    /\ chunk = 0 /\ paused = FALSE /\ used = 0 /\ over = TRUE
    /\ armed = 0 /\ ripe = 0 /\ drains = 0 /\ buffered = 0
    /\ wired = TRUE /\ windows = 0 /\ relayed = 0

-----------------------------------------------------------------------------

\* The sender's connection delivers some frames at once.
Read ==
    /\ wired /\ ~paused /\ chunk = 0
    /\ chunk' \in 1..MaxChunk
    /\ UNCHANGED <<settings, paused, used, over, armed, ripe, drains, buffered, wired,
                   windows, relayed>>

\* What a new window inherits of the old one's overshoot
Carry == IF used > limit THEN used - limit ELSE 0

\* bucket.used after a frame of that size
UsedAfter(size) == (IF over THEN Carry ELSE used) + size

\* The bucket after a frame: a window is opened when the last one is over,
\* and a rate timer is armed when the bucket is above the limit.
Charge(size) ==
    IF limit = 0 THEN UNCHANGED <<used, over, armed, windows, relayed>>
    ELSE /\ used' = UsedAfter(size)
         /\ over' = FALSE
         /\ windows' = IF over THEN windows + 1 ELSE windows
         /\ relayed' = relayed + size
         /\ armed' = IF used' > limit THEN armed + 1 ELSE armed

RateHit == limit # 0 /\ used' > limit

\* The receiver's buffer with a frame of that size
Queued(size) == IF keepsUp THEN buffered ELSE buffered + size

\* Mutant: the sender of a full buffer is paused, and nobody watches it.
BufferUnwatched(size) ==
    /\ buffered' = Queued(size)
    /\ drains' = drains
    /\ paused' = (paused \/ RateHit \/ buffered' > HighWater)

\* The receiver's buffer after a frame: above the high-water mark the sender
\* is paused and one more interval watches the buffer.
Buffer(size) ==
    /\ buffered' = Queued(size)
    /\ drains' = IF buffered' > HighWater THEN drains + 1 ELSE drains
    /\ paused' = (paused \/ RateHit \/ buffered' > HighWater)

\* from.on('message')
Deliver(size) ==
    /\ wired /\ chunk > 0
    /\ Queued(size) <= MaxBuffer /\ armed + ripe + drains < MaxTimers
    /\ over /\ limit # 0 => windows < MaxWindows
    /\ chunk' = chunk - 1
    /\ Charge(size)
    /\ Buffer(size)
    /\ UNCHANGED <<settings, ripe, wired>>

\* The second of the bucket passes: its rate timers are due.
WindowEnds ==
    /\ ~over
    /\ over' = TRUE
    /\ ripe' = ripe + armed /\ armed' = 0
    /\ UNCHANGED <<settings, chunk, paused, used, drains, buffered, wired, windows, relayed>>

\* The timers of rate pauses that are due run in one turn, and resume the
\* sender, whatever else holds it.
RateTimer ==
    /\ ripe > 0
    /\ ripe' = 0
    /\ paused' = FALSE
    /\ UNCHANGED <<settings, chunk, used, over, armed, drains, buffered, wired, windows, relayed>>

\* A drain interval that finds the buffer drained, or the receiver closed
DrainTick ==
    /\ drains > 0
    /\ buffered <= LowWater \/ ~wired
    /\ drains' = drains - 1
    /\ paused' = FALSE
    /\ UNCHANGED <<settings, chunk, used, over, armed, ripe, buffered, wired, windows, relayed>>

\* The receiver's connection takes some of its buffer.
Flush ==
    /\ buffered > 0
    /\ buffered' \in 0..(buffered - 1)
    /\ UNCHANGED <<settings, chunk, paused, used, over, armed, ripe, drains, wired, windows, relayed>>

\* teardownChannel: the sender is resumed and closed; later frames are dropped.
Close ==
    /\ wired
    /\ wired' = FALSE
    /\ paused' = FALSE
    /\ chunk' = 0
    /\ UNCHANGED <<settings, used, over, armed, ripe, drains, buffered, windows, relayed>>

Next ==
    \/ Read \/ (\E size \in 1..MaxFrame : Deliver(size))
    \/ WindowEnds \/ RateTimer \/ DrainTick \/ Flush \/ Close

Spec == Init /\ [][Next]_vars

\* Timers and intervals are served, and time passes.  Nothing obliges the
\* receiver to read; one that does is assumed where it is needed.
Fairness == WF_vars(WindowEnds) /\ WF_vars(RateTimer) /\ WF_vars(DrainTick)

FairSpec == Spec /\ Fairness /\ WF_vars(Flush)

-----------------------------------------------------------------------------

\* A paused sender is always waited for: by a rate timer, or by an interval
\* that watches the buffer.  No order of pauses and resumptions loses it.
PausesAreWatched == paused => armed + ripe + drains > 0

\* A paused sender is resumed, if the receiver reads.
PausesEnd == paused ~> ~paused

\* Memory stays bounded per channel: without a rate limit the buffer exceeds
\* the high-water mark by what one read had already delivered, and no more.
BufferBounded == limit = 0 => buffered <= HighWater + MaxChunk * MaxFrame

\* Why the buffer stays bounded: only the watch of the buffer pauses and
\* resumes the sender, so a read begins below the high-water mark, and what
\* it may still deliver fits.
BackPressureKept ==
    limit = 0 =>
        /\ armed = 0 /\ ripe = 0
        /\ wired /\ ~paused => buffered <= HighWater
        /\ buffered + chunk * MaxFrame <= HighWater + MaxChunk * MaxFrame

\* Why the throughput stays bounded, when the receiver keeps up and no read
\* is larger than the limit: the sender is paused while a rate timer is
\* pending, so what is left of a read fits in the window it is charged to,
\* and what a window relays beyond the limit is charged to the next one.
BucketKept ==
    keepsUp /\ MaxChunk * MaxFrame <= limit =>
        /\ buffered = 0 /\ drains = 0
        /\ wired =>
              /\ armed > 0 => ~over /\ used > limit
              /\ armed + ripe > 0 => paused
              /\ ~over /\ ~paused => used <= limit
              /\ ~over \/ ripe > 0 => used + chunk * MaxFrame <= limit + MaxChunk * MaxFrame
              /\ ~over /\ ripe > 0 => used + chunk * MaxFrame <= MaxChunk * MaxFrame
        /\ used <= limit + MaxChunk * MaxFrame
        /\ windows = 0 => relayed = 0 /\ used = 0 /\ over
        /\ windows > 0 => relayed + limit <= windows * limit + used

\* What holds of a sender between two callbacks.
RelayInv ==
    RelayTypeOK /\ PausesAreWatched /\ BufferBounded /\ BackPressureKept /\ BucketKept

\* Sustained throughput converges to the limit: over the windows so far no
\* more than the limit for each and one read's overshoot were relayed, when
\* the receiver keeps up and no read is larger than the limit.
ThroughputBounded ==
    keepsUp /\ MaxChunk * MaxFrame <= limit
        => relayed <= windows * limit + MaxChunk * MaxFrame

\* The same as the comments of the code promise them: whatever the limit, the
\* receiver and the size of a frame.  The code breaks both: the timer of a
\* rate pause resumes a sender that waits for a full buffer, and a sender
\* whose frames exceed the limit is let through once in every window.
MemoryPromised == buffered <= HighWater + MaxChunk * MaxFrame

ThroughputPromised == limit # 0 => relayed <= windows * limit + MaxChunk * MaxFrame

=============================================================================
