------------------------ MODULE ClientChannelsProofs ------------------------
(***************************************************************************)
(* What the client SDK keeps over its control connection, for any number   *)
(* of changes of the backend, of channels, faults and calls of connect().  *)
(*                                                                         *)
(* The registry of the client agrees with the gateway's once the frames    *)
(* under way are handled, because the last frame about the backend is      *)
(* always true: the gateway sends one at every change, to every session it *)
(* has, and a connection begins with one.  That rests on the handshake     *)
(* losing no frame: none arrives between peer_ready and the continuation   *)
(* of establish() that installs the listener (~SameTick).  The rest holds  *)
(* with and without.                                                       *)
(***************************************************************************)
EXTENDS ClientChannels, TLAPS

Frames == [type : {"ready", "snapshot"}, up : BOOLEAN]
            \cup [type : {"channel_ready", "error", "channel_closed"}, channel : Nat]

OfRegistry(frame) == frame.type \in {"ready", "snapshot"}

ClientTyped == ChannelsTypeOK /\ wire \in Seq(Frames) /\ opens \in Nat

\* There is a session and a socket at the gateway once the hello is answered,
\* and no frames without one.
Linked ==
    /\ phase = "none" => ~alive /\ ~member /\ wire = <<>>
    /\ phase = "hello" /\ alive => (member <=> wire # <<>>)
    /\ phase \in {"answered", "routed"} /\ alive => member

\* peer_ready comes first, and once.
ReadyFirst ==
    \A i \in DOMAIN wire : wire[i].type = "ready" <=> phase = "hello" /\ i = 1

\* The last frame about the backend says what is so; if none is under way, the
\* client has been told.
LastWord(w, up) ==
    \A i \in DOMAIN w :
        /\ OfRegistry(w[i])
        /\ \A j \in DOMAIN w : j > i => ~OfRegistry(w[j])
        => w[i].up = up

Silent(w) == \A i \in DOMAIN w : ~OfRegistry(w[i])

WordsTrue ==
    alive =>
        /\ LastWord(wire, online)
        /\ phase = "answered" /\ Silent(wire) => answer = online
        /\ phase = "routed" /\ Silent(wire) => view = online

\* The data socket is there while a channel is dialled or open.
DataFits ==
    /\ chan = "dialling" => data \in {"connecting", "open", "cut"}
    /\ chan = "open" => data \in {"open", "closing", "cut"}
    /\ chan \notin {"dialling", "open"} => data = "none"

ClientSound == ClientTyped /\ WaitersListen /\ ChannelsAccounted /\ DataFits

\* The same, part by part.
Flagged ==
    /\ online \in BOOLEAN /\ userClosed \in BOOLEAN /\ alive \in BOOLEAN
    /\ member \in BOOLEAN /\ lingering \in BOOLEAN /\ retry \in BOOLEAN
    /\ byTimer \in BOOLEAN /\ answer \in BOOLEAN /\ view \in BOOLEAN
    /\ subscribed \in BOOLEAN /\ known \in BOOLEAN /\ mine \in BOOLEAN

Ranged ==
    /\ state \in {"idle", "connecting", "connected", "closed"}
    /\ phase \in {"none", "hello", "answered", "routed"}
    /\ waiter \in {"none", "waiting", "found", "rejected"}
    /\ chan \in {"none", "asked", "dialling", "open", "failed", "closed"}
    /\ data \in {"none", "connecting", "open", "closing", "cut"}
    /\ remote \in {"none", "requested", "pending", "attached", "gone"}

Parts == Flagged /\ Ranged /\ WaitersListen /\ ChannelsAccounted /\ DataFits

-----------------------------------------------------------------------------
LEMMA Flags == ASSUME ClientTyped PROVE Flagged
  BY DEF ClientTyped, ChannelsTypeOK, Flagged

LEMMA SoundParts ==
  /\ ClientSound <=> Parts /\ wire \in Seq(Frames) /\ opens \in Nat
  /\ ClientSound' <=> Parts' /\ wire' \in Seq(Frames) /\ opens' \in Nat
<1>1. ChannelsTypeOK <=> Flagged /\ Ranged
  BY DEF ChannelsTypeOK, Flagged, Ranged
<1>2. ChannelsTypeOK' <=> Flagged' /\ Ranged'
  BY DEF ChannelsTypeOK, Flagged, Ranged
<1> QED
  BY <1>1, <1>2 DEF ClientSound, ClientTyped, Parts

LEMMA FramesAre ==
  /\ \A b \in BOOLEAN : [type |-> "ready", up |-> b] \in Frames
  /\ \A b \in BOOLEAN : [type |-> "snapshot", up |-> b] \in Frames
  /\ \A k \in Nat, t \in {"channel_ready", "error", "channel_closed"} :
        [type |-> t, channel |-> k] \in Frames
  BY DEF Frames

LEMMA FrameFields ==
  ASSUME NEW frame \in Frames
  PROVE  /\ frame.type \in {"ready", "snapshot", "channel_ready", "error", "channel_closed"}
         /\ OfRegistry(frame) => frame.up \in BOOLEAN
  BY DEF Frames, OfRegistry

LEMMA SentIs ==
  ASSUME ClientTyped, NEW frame \in Frames
  PROVE  /\ Sent(frame) \in Seq(Frames)
         /\ member /\ alive => Sent(frame) = Append(wire, frame)
         /\ ~(member /\ alive) => Sent(frame) = wire
  BY DEF ClientTyped, Sent

LEMMA TailIs ==
  ASSUME NEW S, NEW w \in Seq(S), w # <<>>
  PROVE  /\ Head(w) = w[1] /\ Head(w) \in S /\ 1 \in DOMAIN w
         /\ Tail(w) \in Seq(S) /\ DOMAIN Tail(w) = 1..(Len(w) - 1)
         /\ DOMAIN w = 1..Len(w) /\ Len(w) \in Nat /\ Len(w) > 0
         /\ \A i \in DOMAIN Tail(w) : i + 1 \in DOMAIN w /\ Tail(w)[i] = w[i + 1]
  OBVIOUS

LEMMA AppendIs ==
  ASSUME NEW S, NEW w \in Seq(S), NEW e \in S
  PROVE  /\ Append(w, e) \in Seq(S) /\ Len(w) \in Nat
         /\ DOMAIN w = 1..Len(w) /\ DOMAIN Append(w, e) = 1..(Len(w) + 1)
         /\ Append(w, e)[Len(w) + 1] = e
         /\ \A i \in DOMAIN w : Append(w, e)[i] = w[i]
  OBVIOUS

LEMMA PrefixIs ==
  ASSUME NEW S, NEW w \in Seq(S), NEW n \in 0..Len(w)
  PROVE  /\ SubSeq(w, 1, n) \in Seq(S) /\ DOMAIN SubSeq(w, 1, n) = 1..n
         /\ 1..n \subseteq DOMAIN w /\ Len(w) \in Nat
         /\ \A i \in 1..n : SubSeq(w, 1, n)[i] = w[i]
  OBVIOUS

LEMMA InitSound == Init => ClientSound
<1> SUFFICES ASSUME Init PROVE ClientSound
  OBVIOUS
<1>1. ChannelsTypeOK
  BY DEF Init, ChannelsTypeOK
<1>2. wire \in Seq(Frames) /\ opens \in Nat
  BY DEF Init
<1> QED
  BY <1>1, <1>2
     DEF Init, ClientSound, ClientTyped, WaitersListen, ChannelsAccounted, DataFits

-----------------------------------------------------------------------------
(***************************************************************************)
(* Types.                                                                  *)
(***************************************************************************)
\* The frames that are under way stay frames.
LEMMA WireTyped ==
  ASSUME ClientTyped, [Next]_vars
  PROVE  wire' \in Seq(Frames) /\ opens' \in Nat
<1>0. wire \in Seq(Frames) /\ opens \in Nat /\ online \in BOOLEAN /\ online' \in BOOLEAN
  <2>1. wire \in Seq(Frames) /\ opens \in Nat /\ online \in BOOLEAN
    BY Flags DEF ClientTyped, Flagged
  <2>2. online' = online \/ online' = ~online
    BY DEF Next, vars, bounds, linkVars, waitVars, chanVars, Connect, TimerFires, Welcome,
       BackendChanges, Lost, GatewayNotices, SessionGone, Resume, CloseEvent, Close, Wait,
       GiveUp, Open, GatewayOpens, Attach, GatewayEnds, DialOpens, DialFails,
       CloseChannel, DataClosed, Deliver
  <2> QED
    BY <2>1, <2>2
<1>1. CASE Welcome
  BY <1>0, <1>1, FramesAre DEF Welcome, bounds
<1>2. CASE BackendChanges
  BY <1>0, <1>2, FramesAre, SentIs DEF BackendChanges
<1>3. CASE Lost
  BY <1>0, <1>3, PrefixIs DEF Lost
<1>4. CASE GatewayOpens
  <2>1. [type |-> IF online THEN "channel_ready" ELSE "error", channel |-> opens] \in Frames
    BY <1>0, FramesAre
  <2> QED
    BY <1>0, <1>4, <2>1, SentIs DEF GatewayOpens, bounds
<1>5. CASE GatewayEnds
  <2>1. [type |-> "channel_closed", channel |-> opens] \in Frames
    BY <1>0, FramesAre
  <2> QED
    BY <1>0, <1>5, <2>1, SentIs DEF GatewayEnds, bounds
<1>6. CASE Deliver
  BY <1>0, <1>6, TailIs DEF Deliver, bounds
<1>7. CASE Open
  BY <1>0, <1>7 DEF Open, linkVars
<1>8. CASE Connect \/ TimerFires
  BY <1>0, <1>8 DEF Connect, TimerFires, Establish, bounds, linkVars
<1>9. CASE GatewayNotices
  BY <1>0, <1>9 DEF GatewayNotices, SessionGone, bounds
<1>10. CASE CloseEvent \/ Close \/ Resume \/ Wait \/ GiveUp
  BY <1>0, <1>10 DEF CloseEvent, Close, Resume, Wait, GiveUp, bounds, linkVars
<1>11. CASE Attach \/ DialOpens \/ DialFails \/ CloseChannel \/ DataClosed
  BY <1>0, <1>11 DEF Attach, DialOpens, DialFails, CloseChannel, DataClosed, bounds, linkVars
<1>12. CASE UNCHANGED vars
  BY <1>0, <1>12 DEF vars, bounds, linkVars
<1> QED
  BY <1>1, <1>2, <1>3, <1>4, <1>5, <1>6, <1>7, <1>8, <1>9, <1>10, <1>11, <1>12 DEF Next

\* A frame that arrives changes the registry, or the channel, as routeMessage()
\* says.
LEMMA RoutedKeeps ==
  ASSUME Parts, NEW frame \in Frames, Routed(frame),
         UNCHANGED <<online, userClosed, alive, member, lingering, retry, byTimer,
                     answer, state, phase>>
  PROVE  Parts'
<1> USE DEF Parts, Flagged, Ranged, WaitersListen, ChannelsAccounted, DataFits
<1>1. CASE frame.type = "snapshot" /\ Told(frame.up) /\ UNCHANGED chanVars
  <2>1. frame.up \in BOOLEAN
    BY <1>1, FrameFields DEF OfRegistry
  <2>2. Flagged'
    BY <1>1, <2>1 DEF Told, chanVars
  <2>3. Ranged'
    BY <1>1, <2>1 DEF Told, chanVars
  <2>4. WaitersListen'
    BY <1>1, <2>1 DEF Told, chanVars
  <2>5. ChannelsAccounted' /\ DataFits'
    BY <1>1, <2>1 DEF Told, chanVars
  <2> QED
    BY <2>2, <2>3, <2>4, <2>5
<1>2. CASE /\ frame.type = "channel_ready"
           /\ IF chan = "asked" /\ frame.channel = opens
              THEN chan' = "dialling" /\ data' = "connecting"
              ELSE UNCHANGED <<chan, data>>
           /\ UNCHANGED <<known, remote, mine, waitVars>>
  BY <1>2 DEF waitVars
<1>3. CASE /\ frame.type = "error"
           /\ chan' = (IF chan = "asked" THEN "failed" ELSE chan)
           /\ UNCHANGED <<known, data, remote, mine, waitVars>>
  BY <1>3 DEF waitVars
<1>4. CASE /\ frame.type = "channel_closed"
           /\ IF frame.channel = opens THEN DropChannels ELSE UNCHANGED <<known, data>>
           /\ UNCHANGED <<chan, remote, mine, waitVars>>
  <2>1. Flagged'
    BY <1>4, ZenonT(40) DEF DropChannels, waitVars
  <2>2. Ranged'
    BY <1>4 DEF DropChannels, waitVars
  <2>3. WaitersListen'
    BY <1>4 DEF DropChannels, waitVars
  <2>4. ChannelsAccounted' /\ DataFits'
    BY <1>4 DEF DropChannels, waitVars
  <2> QED
    BY <2>1, <2>2, <2>3, <2>4
<1> QED
  BY <1>1, <1>2, <1>3, <1>4 DEF Routed

LEMMA SoundInductive ==
  ASSUME ClientSound, [Next]_vars
  PROVE  ClientSound'
<1>0. Parts /\ wire \in Seq(Frames)
  BY SoundParts
<1>1. wire' \in Seq(Frames) /\ opens' \in Nat
  BY WireTyped DEF ClientSound
<1> SUFFICES Parts'
  BY <1>1, SoundParts
<1> USE DEF Parts, Flagged, Ranged, WaitersListen, ChannelsAccounted, DataFits
<1>2. CASE Connect
  <2>1. Flagged'
    BY <1>0, <1>2 DEF Connect, Establish, waitVars, chanVars
  <2>2. Ranged'
    BY <1>0, <1>2 DEF Connect, Establish, waitVars, chanVars
  <2>3. WaitersListen'
    BY <1>0, <1>2 DEF Connect, Establish, waitVars, chanVars
  <2>4. ChannelsAccounted' /\ DataFits'
    BY <1>0, <1>2 DEF Connect, Establish, waitVars, chanVars
  <2> QED
    BY <2>1, <2>2, <2>3, <2>4
<1>3. CASE TimerFires
  <2>1. Flagged'
    BY <1>0, <1>3 DEF TimerFires, Establish, waitVars, chanVars, bounds
  <2>2. Ranged'
    BY <1>0, <1>3 DEF TimerFires, Establish, waitVars, chanVars, bounds
  <2>3. WaitersListen'
    BY <1>0, <1>3 DEF TimerFires, Establish, waitVars, chanVars, bounds
  <2>4. ChannelsAccounted' /\ DataFits'
    BY <1>0, <1>3 DEF TimerFires, Establish, waitVars, chanVars, bounds
  <2> QED
    BY <2>1, <2>2, <2>3, <2>4
<1>4. CASE Welcome
  BY <1>0, <1>4 DEF Welcome, waitVars, chanVars, bounds
<1>5. CASE BackendChanges
  <2>1. Flagged'
    BY <1>0, <1>5 DEF BackendChanges, waitVars, chanVars
  <2>2. Ranged'
    BY <1>0, <1>5 DEF BackendChanges, waitVars, chanVars
  <2>3. WaitersListen'
    BY <1>0, <1>5 DEF BackendChanges, waitVars, chanVars
  <2>4. ChannelsAccounted' /\ DataFits'
    BY <1>0, <1>5 DEF BackendChanges, waitVars, chanVars
  <2> QED
    BY <2>1, <2>2, <2>3, <2>4
<1>6. CASE Lost
  <2>1. Flagged'
    BY <1>0, <1>6 DEF Lost, waitVars, chanVars
  <2>2. Ranged'
    BY <1>0, <1>6 DEF Lost, waitVars, chanVars
  <2>3. WaitersListen'
    BY <1>0, <1>6 DEF Lost, waitVars, chanVars
  <2>4. ChannelsAccounted' /\ DataFits'
    BY <1>0, <1>6 DEF Lost, waitVars, chanVars
  <2> QED
    BY <2>1, <2>2, <2>3, <2>4
<1>7. CASE GatewayNotices
  <2>1. Flagged'
    BY <1>0, <1>7 DEF GatewayNotices, SessionGone, Torn, waitVars, bounds
  <2>2. Ranged'
    BY <1>0, <1>7 DEF GatewayNotices, SessionGone, Torn, waitVars, bounds
  <2>3. WaitersListen'
    BY <1>0, <1>7 DEF GatewayNotices, SessionGone, Torn, waitVars, bounds
  <2>4. ChannelsAccounted' /\ DataFits'
    BY <1>0, <1>7 DEF GatewayNotices, SessionGone, Torn, waitVars, bounds
  <2> QED
    BY <2>1, <2>2, <2>3, <2>4
<1>8. CASE Resume
  <2>1. Flagged'
    BY <1>0, <1>8 DEF Resume, Told, chanVars, bounds
  <2>2. Ranged'
    BY <1>0, <1>8 DEF Resume, Told, chanVars, bounds
  <2>3. WaitersListen'
    BY <1>0, <1>8 DEF Resume, Told, chanVars, bounds
  <2>4. ChannelsAccounted' /\ DataFits'
    BY <1>0, <1>8 DEF Resume, Told, chanVars, bounds
  <2> QED
    BY <2>1, <2>2, <2>3, <2>4
<1>9. CASE CloseEvent
  <2>1. Flagged'
    BY <1>0, <1>9 DEF CloseEvent, DropChannels, waitVars, chanVars, bounds
  <2>2. Ranged'
    BY <1>0, <1>9 DEF CloseEvent, DropChannels, waitVars, chanVars, bounds
  <2>3. WaitersListen'
    BY <1>0, <1>9 DEF CloseEvent, DropChannels, waitVars, chanVars, bounds
  <2>4. ChannelsAccounted' /\ DataFits'
    BY <1>0, <1>9 DEF CloseEvent, DropChannels, waitVars, chanVars, bounds
  <2> QED
    BY <2>1, <2>2, <2>3, <2>4
<1>10. CASE Close
  <2>1. Flagged'
    BY <1>0, <1>10 DEF Close, DropChannels, waitVars, chanVars, bounds
  <2>2. Ranged'
    BY <1>0, <1>10 DEF Close, DropChannels, waitVars, chanVars, bounds
  <2>3. WaitersListen'
    BY <1>0, <1>10 DEF Close, DropChannels, waitVars, chanVars, bounds
  <2>4. ChannelsAccounted' /\ DataFits'
    BY <1>0, <1>10 DEF Close, DropChannels, waitVars, chanVars, bounds
  <2> QED
    BY <2>1, <2>2, <2>3, <2>4
<1>11. CASE Wait
  <2>1. Flagged'
    BY <1>0, <1>11 DEF Wait, chanVars, bounds, linkVars
  <2>2. Ranged'
    BY <1>0, <1>11 DEF Wait, chanVars, bounds, linkVars
  <2>3. WaitersListen'
    BY <1>0, <1>11 DEF Wait, chanVars, bounds, linkVars
  <2>4. ChannelsAccounted' /\ DataFits'
    BY <1>0, <1>11 DEF Wait, chanVars, bounds, linkVars
  <2> QED
    BY <2>1, <2>2, <2>3, <2>4
<1>12. CASE GiveUp
  <2>1. Flagged'
    BY <1>0, <1>12 DEF GiveUp, chanVars, bounds, linkVars
  <2>2. Ranged'
    BY <1>0, <1>12 DEF GiveUp, chanVars, bounds, linkVars
  <2>3. WaitersListen'
    BY <1>0, <1>12 DEF GiveUp, chanVars, bounds, linkVars
  <2>4. ChannelsAccounted' /\ DataFits'
    BY <1>0, <1>12 DEF GiveUp, chanVars, bounds, linkVars
  <2> QED
    BY <2>1, <2>2, <2>3, <2>4
<1>13. CASE Open
  BY <1>0, <1>13 DEF Open, waitVars, linkVars
<1>14. CASE GatewayOpens
  BY <1>0, <1>14 DEF GatewayOpens, waitVars, bounds
<1>15. CASE Attach
  BY <1>0, <1>15 DEF Attach, waitVars, linkVars, bounds
<1>16. CASE GatewayEnds
  BY <1>0, <1>16 DEF GatewayEnds, Torn, waitVars, bounds
<1>17. CASE DialOpens
  BY <1>0, <1>17 DEF DialOpens, waitVars, linkVars, bounds
<1>18. CASE DialFails
  BY <1>0, <1>18 DEF DialFails, waitVars, linkVars
<1>19. CASE CloseChannel
  <2>1. Flagged'
    BY <1>0, <1>19 DEF CloseChannel, waitVars, linkVars, bounds
  <2>2. Ranged'
    BY <1>0, <1>19 DEF CloseChannel, waitVars, linkVars, bounds
  <2>3. WaitersListen'
    BY <1>0, <1>19 DEF CloseChannel, waitVars, linkVars, bounds
  <2>4. ChannelsAccounted' /\ DataFits'
    BY <1>0, <1>19 DEF CloseChannel, waitVars, linkVars, bounds
  <2> QED
    BY <2>1, <2>2, <2>3, <2>4
<1>20. CASE DataClosed
  <2>1. Flagged'
    BY <1>0, <1>20 DEF DataClosed, waitVars, linkVars, bounds
  <2>2. Ranged'
    BY <1>0, <1>20 DEF DataClosed, waitVars, linkVars, bounds
  <2>3. WaitersListen'
    BY <1>0, <1>20 DEF DataClosed, waitVars, linkVars, bounds
  <2>4. ChannelsAccounted' /\ DataFits'
    BY <1>0, <1>20 DEF DataClosed, waitVars, linkVars, bounds
  <2> QED
    BY <2>1, <2>2, <2>3, <2>4
<1>21. CASE Deliver
  <2>1. Head(wire) \in Frames
    BY <1>0, <1>21, TailIs DEF Deliver
  <2>2. UNCHANGED <<bounds, state, userClosed, alive, member, lingering, retry, byTimer>>
    BY <1>21 DEF Deliver
  <2>3. CASE /\ phase = "hello" /\ Head(wire).type = "ready"
             /\ phase' = "answered" /\ answer' = Head(wire).up
             /\ UNCHANGED <<waitVars, chanVars>>
    <3>1. answer' \in BOOLEAN
      BY <2>1, <2>3, FrameFields DEF OfRegistry
    <3> QED
      BY <1>0, <2>2, <2>3, <3>1 DEF waitVars, chanVars, bounds
  <2>4. CASE UNCHANGED <<phase, answer, waitVars, chanVars>>
    BY <1>0, <2>2, <2>4 DEF waitVars, chanVars, bounds
  <2>5. CASE Routed(Head(wire)) /\ UNCHANGED <<phase, answer>>
    <3> HIDE DEF Parts
    <3> QED
      BY <1>0, <2>1, <2>2, <2>5, RoutedKeeps DEF bounds
  <2> QED
    BY <1>21, <2>3, <2>4, <2>5 DEF Deliver
<1>22. CASE UNCHANGED vars
  BY <1>0, <1>22 DEF vars, waitVars, chanVars, linkVars, bounds
<1> QED
  BY <1>2, <1>3, <1>4, <1>5, <1>6, <1>7, <1>8, <1>9, <1>10, <1>11, <1>12, <1>13, <1>14, <1>15, <1>16, <1>17, <1>18, <1>19, <1>20, <1>21, <1>22 DEF Next

-----------------------------------------------------------------------------
(***************************************************************************)
(* Words about the backend.                                                *)
(***************************************************************************)
\* A frame about something else changes nothing about the last word.
LEMMA AppendOther ==
  ASSUME NEW w \in Seq(Frames), NEW e \in Frames, ~OfRegistry(e), NEW up
  PROVE  /\ LastWord(w, up) => LastWord(Append(w, e), up)
         /\ Silent(Append(w, e)) <=> Silent(w)
<1> DEFINE v == Append(w, e)
<1>1. /\ Len(w) \in Nat /\ DOMAIN w = 1..Len(w) /\ DOMAIN v = 1..(Len(w) + 1)
      /\ v[Len(w) + 1] = e /\ \A i \in DOMAIN w : v[i] = w[i]
  BY AppendIs
<1> HIDE DEF v
<1>2. ASSUME LastWord(w, up) PROVE LastWord(v, up)
  <2> SUFFICES ASSUME NEW i \in DOMAIN v, OfRegistry(v[i]),
                      \A j \in DOMAIN v : j > i => ~OfRegistry(v[j])
               PROVE  v[i].up = up
    BY DEF LastWord
  <2>1. i \in DOMAIN w
    BY <1>1
  <2>2. \A j \in DOMAIN w : j > i => ~OfRegistry(w[j])
    <3> TAKE j \in DOMAIN w
    <3>1. j \in DOMAIN v
      BY <1>1
    <3> QED
      BY <1>1, <3>1
  <2> QED
    BY <1>1, <1>2, <2>1, <2>2 DEF LastWord
<1>3. Silent(v) <=> Silent(w)
  <2>1. ASSUME Silent(v), NEW i \in DOMAIN w PROVE ~OfRegistry(w[i])
    BY <1>1, <2>1 DEF Silent
  <2>2. ASSUME Silent(w), NEW i \in DOMAIN v PROVE ~OfRegistry(v[i])
    BY <1>1, <2>2 DEF Silent
  <2> QED
    BY <2>1, <2>2 DEF Silent
<1> QED
  BY <1>2, <1>3 DEF v

\* A frame about the backend is the last word.
LEMMA AppendWord ==
  ASSUME NEW w \in Seq(Frames), NEW e \in Frames, OfRegistry(e), NEW up, e.up = up
  PROVE  LastWord(Append(w, e), up) /\ ~Silent(Append(w, e))
<1> DEFINE v == Append(w, e)
<1>1. /\ Len(w) \in Nat /\ DOMAIN w = 1..Len(w) /\ DOMAIN v = 1..(Len(w) + 1)
      /\ v[Len(w) + 1] = e
  BY AppendIs
<1> HIDE DEF v
<1>2. Len(w) + 1 \in DOMAIN v
  BY <1>1
<1>3. LastWord(v, up)
  <2> SUFFICES ASSUME NEW i \in DOMAIN v, \A j \in DOMAIN v : j > i => ~OfRegistry(v[j])
               PROVE  v[i].up = up
    BY DEF LastWord
  <2>1. i = Len(w) + 1
    <3>1. ~(Len(w) + 1 > i)
      BY <1>1, <1>2
    <3> QED
      BY <1>1, <3>1
  <2> QED
    BY <1>1, <2>1
<1> QED
  BY <1>1, <1>2, <1>3 DEF v, Silent

\* Whoever reads the first frame still has the last word to come, or has it now.
LEMMA TailWord ==
  ASSUME NEW w \in Seq(Frames), w # <<>>, NEW up, LastWord(w, up)
  PROVE  /\ LastWord(Tail(w), up)
         /\ Silent(Tail(w)) /\ OfRegistry(Head(w)) => Head(w).up = up
         /\ Silent(Tail(w)) /\ ~OfRegistry(Head(w)) => Silent(w)
<1> DEFINE v == Tail(w)
<1>1. /\ Head(w) = w[1] /\ 1 \in DOMAIN w /\ DOMAIN v = 1..(Len(w) - 1)
      /\ DOMAIN w = 1..Len(w) /\ Len(w) \in Nat /\ Len(w) > 0
      /\ \A i \in DOMAIN v : i + 1 \in DOMAIN w /\ v[i] = w[i + 1]
  BY TailIs
<1> HIDE DEF v
<1>2. \A j \in DOMAIN w : j > 1 => j - 1 \in DOMAIN v /\ v[j - 1] = w[j]
  <2> SUFFICES ASSUME NEW j \in DOMAIN w, j > 1
               PROVE  j - 1 \in DOMAIN v /\ v[j - 1] = w[j]
    OBVIOUS
  <2>1. j - 1 \in DOMAIN v /\ (j - 1) + 1 = j
    BY <1>1
  <2> QED
    BY <1>1, <2>1
<1>3. LastWord(v, up)
  <2> SUFFICES ASSUME NEW i \in DOMAIN v, OfRegistry(v[i]),
                      \A j \in DOMAIN v : j > i => ~OfRegistry(v[j])
               PROVE  v[i].up = up
    BY DEF LastWord
  <2>1. \A j \in DOMAIN w : j > i + 1 => ~OfRegistry(w[j])
    <3> SUFFICES ASSUME NEW j \in DOMAIN w, j > i + 1 PROVE ~OfRegistry(w[j])
      OBVIOUS
    <3>1. j > 1 /\ j - 1 > i
      BY <1>1
    <3> QED
      BY <1>2, <3>1
  <2> QED
    BY <1>1, <2>1 DEF LastWord
<1>4. ASSUME Silent(v) PROVE \A j \in DOMAIN w : j > 1 => ~OfRegistry(w[j])
  BY <1>2, <1>4 DEF Silent
<1>5. ASSUME Silent(v), OfRegistry(w[1]) PROVE w[1].up = up
  BY <1>1, <1>4, <1>5 DEF LastWord
<1>6. ASSUME Silent(v), ~OfRegistry(w[1]) PROVE Silent(w)
  <2> SUFFICES ASSUME NEW j \in DOMAIN w PROVE ~OfRegistry(w[j])
    BY DEF Silent
  <2>1. j = 1 \/ j > 1
    BY <1>1
  <2> QED
    BY <1>4, <1>6, <2>1
<1> QED
  BY <1>1, <1>3, <1>5, <1>6 DEF v

-----------------------------------------------------------------------------

(***************************************************************************)
(* The connection.                                                         *)
(***************************************************************************)
wordVars == <<phase, alive, wire, member, online, answer, view>>

\* The steps that have nothing to do with the words about the backend.
LEMMA OtherSteps ==
  ASSUME \/ Wait \/ GiveUp \/ Open \/ Attach \/ DialOpens \/ DialFails \/ CloseChannel
         \/ DataClosed \/ UNCHANGED vars
  PROVE  UNCHANGED wordVars
  BY DEF Wait, GiveUp, Open, Attach, DialOpens, DialFails, CloseChannel, DataClosed, vars,
         bounds, linkVars, waitVars, wordVars

\* A frame that the gateway sends about a channel, if it can.
ChannelWord ==
    /\ UNCHANGED <<phase, alive, member, online, answer, view>>
    /\ \/ wire' = wire
       \/ \E frame \in Frames :
            /\ frame.type \in {"channel_ready", "error", "channel_closed"}
            /\ wire' = Sent(frame)

LEMMA ChannelSteps ==
  ASSUME opens \in Nat, GatewayOpens \/ GatewayEnds
  PROVE  ChannelWord
<1>1. CASE GatewayOpens
  <2> DEFINE frame == [type |-> IF online THEN "channel_ready" ELSE "error",
                       channel |-> opens]
  <2>1. frame \in Frames /\ frame.type \in {"channel_ready", "error", "channel_closed"}
    BY FramesAre
  <2>2. wire' = wire \/ wire' = Sent(frame)
    BY <1>1 DEF GatewayOpens
  <2>3. UNCHANGED <<phase, alive, member, online, answer, view>>
    BY <1>1 DEF GatewayOpens, bounds, waitVars
  <2> HIDE DEF frame
  <2> QED
    BY <2>1, <2>2, <2>3 DEF ChannelWord
<1>2. CASE GatewayEnds
  <2> DEFINE frame == [type |-> "channel_closed", channel |-> opens]
  <2>1. frame \in Frames /\ frame.type \in {"channel_ready", "error", "channel_closed"}
    BY FramesAre
  <2>2. wire' = wire \/ wire' = Sent(frame)
    BY <1>2 DEF GatewayEnds
  <2>3. UNCHANGED <<phase, alive, member, online, answer, view>>
    BY <1>2 DEF GatewayEnds, bounds, waitVars
  <2> HIDE DEF frame
  <2> QED
    BY <2>1, <2>2, <2>3 DEF ChannelWord
<1> QED
  BY <1>1, <1>2

\* What the frames of a connection begin with, for a phase and its frames.
Begins(w, p) == \A i \in DOMAIN w : w[i].type = "ready" <=> p = "hello" /\ i = 1

LEMMA ReadyFirstIs == (ReadyFirst <=> Begins(wire, phase)) /\ (ReadyFirst' <=> Begins(wire', phase'))
  BY DEF ReadyFirst, Begins

LEMMA BeginsKept ==
  ASSUME NEW w \in Seq(Frames), NEW p, Begins(w, p)
  PROVE  /\ \A n \in 0..Len(w) : Begins(SubSeq(w, 1, n), p)
         /\ \A e \in Frames : e.type # "ready" /\ (w # <<>> \/ p # "hello")
                => Begins(Append(w, e), p)
         /\ w # <<>> /\ p # "hello" => Begins(Tail(w), p) /\ Head(w).type # "ready"
         /\ w # <<>> /\ p = "hello" => Begins(Tail(w), "answered") /\ Head(w).type = "ready"
<1>1. \A n \in 0..Len(w) : Begins(SubSeq(w, 1, n), p)
  <2> TAKE n \in 0..Len(w)
  <2> DEFINE v == SubSeq(w, 1, n)
  <2>1. DOMAIN v = 1..n /\ 1..n \subseteq DOMAIN w /\ \A i \in 1..n : v[i] = w[i]
    BY PrefixIs
  <2> HIDE DEF v
  <2>2. Begins(v, p)
    BY <2>1 DEF Begins
  <2> QED
    BY <2>2 DEF v
<1>2. ASSUME NEW e \in Frames, e.type # "ready", w # <<>> \/ p # "hello"
      PROVE  Begins(Append(w, e), p)
  <2> DEFINE v == Append(w, e)
  <2>1. /\ Len(w) \in Nat /\ DOMAIN w = 1..Len(w) /\ DOMAIN v = 1..(Len(w) + 1)
        /\ v[Len(w) + 1] = e /\ \A i \in DOMAIN w : v[i] = w[i]
    BY AppendIs
  <2>2. w # <<>> => Len(w) > 0
    BY TailIs
  <2> HIDE DEF v
  <2>3. ASSUME NEW i \in DOMAIN v PROVE v[i].type = "ready" <=> p = "hello" /\ i = 1
    <3>1. CASE i \in DOMAIN w
      BY <2>1, <3>1 DEF Begins
    <3>2. CASE i \notin DOMAIN w
      <4>1. i = Len(w) + 1
        BY <2>1, <3>2
      <4>2. ~(p = "hello" /\ i = 1)
        BY <1>2, <2>1, <2>2, <4>1
      <4> QED
        BY <1>2, <2>1, <4>1, <4>2
    <3> QED
      BY <3>1, <3>2
  <2>4. Begins(v, p)
    BY <2>3 DEF Begins
  <2> QED
    BY <2>4 DEF v
<1>3. ASSUME w # <<>>
      PROVE  /\ p # "hello" => Begins(Tail(w), p) /\ Head(w).type # "ready"
             /\ p = "hello" => Begins(Tail(w), "answered") /\ Head(w).type = "ready"
  <2> DEFINE v == Tail(w)
  <2>1. /\ Head(w) = w[1] /\ 1 \in DOMAIN w /\ DOMAIN v = 1..(Len(w) - 1)
        /\ Len(w) \in Nat
        /\ \A i \in DOMAIN v : i + 1 \in DOMAIN w /\ v[i] = w[i + 1]
    BY <1>3, TailIs
  <2> HIDE DEF v
  <2>2. Head(w).type = "ready" <=> p = "hello"
    BY <2>1 DEF Begins
  <2>3. ASSUME NEW i \in DOMAIN v PROVE v[i].type # "ready"
    <3>1. i + 1 # 1
      BY <2>1
    <3> QED
      BY <2>1, <3>1 DEF Begins
  <2>4. p # "hello" => Begins(v, p)
    BY <2>3 DEF Begins
  <2>5. Begins(v, "answered")
    BY <2>3 DEF Begins
  <2> QED
    BY <2>2, <2>4, <2>5 DEF v
<1> QED
  BY <1>1, <1>2, <1>3

LEMMA EmptyIs == \A p, up : Begins(<<>>, p) /\ LastWord(<<>>, up)
  BY DEF Begins, LastWord

LEMMA LinkInductive ==
  ASSUME ClientSound, Linked, ReadyFirst, [Next]_vars
  PROVE  Linked' /\ ReadyFirst'
<1>0. /\ wire \in Seq(Frames) /\ opens \in Nat /\ ClientTyped
      /\ alive \in BOOLEAN /\ member \in BOOLEAN /\ Begins(wire, phase)
      /\ phase \in {"none", "hello", "answered", "routed"}
  BY Flags, ReadyFirstIs DEF ClientSound, ClientTyped, ChannelsTypeOK, Flagged
<1> SUFFICES Linked' /\ Begins(wire', phase')
  BY ReadyFirstIs
<1> USE DEF Linked
<1>1. CASE UNCHANGED wordVars
  BY <1>0, <1>1 DEF wordVars
<1>2. CASE Connect \/ TimerFires
  <2>1. CASE Establish(FALSE) \/ Establish(TRUE)
    <3>1. phase = "none" /\ wire = <<>> /\ ~member /\ wire' = wire /\ member' = member
          /\ phase' = "hello" /\ alive' = TRUE
      BY <2>1 DEF Establish
    <3>2. wire' = <<>>
      BY <3>1
    <3> QED
      BY <3>1, <3>2, EmptyIs
  <2>2. CASE UNCHANGED <<phase, alive, wire, member>>
    BY <1>0, <2>2
  <2> QED
    BY <1>2, <2>1, <2>2 DEF Connect, TimerFires
<1>3. CASE Welcome
  <2>1. /\ phase = "hello" /\ phase' = phase /\ member' /\ alive' = alive /\ alive
        /\ wire' = <<[type |-> "ready", up |-> online]>>
    BY <1>3 DEF Welcome
  <2>2. wire' # <<>> /\ DOMAIN wire' = {1} /\ wire'[1].type = "ready"
    BY <2>1
  <2>3. Begins(wire', phase')
    BY <2>1, <2>2 DEF Begins
  <2> QED
    BY <2>1, <2>2, <2>3
<1>4. CASE BackendChanges \/ ChannelWord
  <2>1. UNCHANGED <<phase, alive, member>>
    BY <1>4 DEF BackendChanges, ChannelWord
  <2>2. CASE wire' = wire
    BY <1>0, <2>1, <2>2
  <2>3. CASE \E frame \in Frames : frame.type # "ready" /\ wire' = Sent(frame)
    <3>1. PICK frame \in Frames : frame.type # "ready" /\ wire' = Sent(frame)
      BY <2>3
    <3>2. CASE member /\ alive
      <4>1. wire' = Append(wire, frame) /\ wire' # <<>>
        BY <1>0, <3>1, <3>2, SentIs, AppendIs
      <4>2. wire # <<>> \/ phase # "hello"
        BY <3>2
      <4>3. Begins(wire', phase)
        BY <1>0, <3>1, <4>1, <4>2, BeginsKept
      <4> QED
        BY <2>1, <3>2, <4>1, <4>3
    <3>3. CASE ~(member /\ alive)
      <4>1. wire' = wire
        BY <1>0, <3>1, <3>3, SentIs
      <4> QED
        BY <1>0, <2>1, <4>1
    <3> QED
      BY <3>2, <3>3
  <2>4. BackendChanges => \E frame \in Frames : frame.type # "ready" /\ wire' = Sent(frame)
    <3> SUFFICES ASSUME BackendChanges
                 PROVE  \E frame \in Frames : frame.type # "ready" /\ wire' = Sent(frame)
      OBVIOUS
    <3>1. online' \in BOOLEAN
      BY <1>0, Flags DEF BackendChanges, Flagged
    <3>2. [type |-> "snapshot", up |-> online'] \in Frames
      BY <3>1, FramesAre
    <3> QED
      BY <3>2 DEF BackendChanges
  <2>5. ChannelWord => wire' = wire
                       \/ \E frame \in Frames : frame.type # "ready" /\ wire' = Sent(frame)
    BY DEF ChannelWord
  <2> QED
    BY <1>4, <2>2, <2>3, <2>4, <2>5
<1>5. CASE Lost
  <2>1. alive' = FALSE /\ alive /\ phase' = phase /\ member' = member
    BY <1>5 DEF Lost
  <2>2. PICK n \in 0..Len(wire) : wire' = SubSeq(wire, 1, n)
    BY <1>5 DEF Lost
  <2>3. Begins(wire', phase')
    BY <1>0, <2>1, <2>2, BeginsKept
  <2> QED
    BY <2>1, <2>3
<1>6. CASE GatewayNotices
  <2>1. UNCHANGED <<phase, alive, wire>> /\ (member' = member \/ (~alive /\ member' = FALSE))
    BY <1>6 DEF GatewayNotices, SessionGone
  <2> QED
    BY <1>0, <2>1
<1>7. CASE Resume
  <2>1. UNCHANGED <<alive, wire, member>> /\ phase = "answered" /\ phase' = "routed"
    BY <1>7 DEF Resume
  <2>2. Begins(wire', phase')
    BY <1>0, <2>1 DEF Begins
  <2> QED
    BY <2>1, <2>2
<1>8. CASE CloseEvent
  <2>1. ~alive /\ alive' = alive /\ wire' = wire /\ wire = <<>> /\ member' = FALSE
        /\ phase' = "none"
    BY <1>8 DEF CloseEvent
  <2>2. wire' = <<>>
    BY <2>1
  <2> QED
    BY <2>1, <2>2, EmptyIs
<1>9. CASE Close
  <2>1. alive' = FALSE /\ UNCHANGED <<phase, wire, member>>
    BY <1>9 DEF Close
  <2>2. Begins(wire', phase')
    BY <1>0, <2>1
  <2> QED
    BY <2>1, <2>2
<1>10. CASE Deliver
  <2>1. wire # <<>> /\ wire' = Tail(wire) /\ alive' = alive /\ member' = member
    BY <1>10 DEF Deliver
  <2>2. (phase = "hello" /\ phase' = "answered") \/ (phase # "hello" /\ phase' = phase)
    BY <1>10 DEF Deliver
  <2>3. Begins(wire', phase')
    BY <1>0, <2>1, <2>2, BeginsKept
  <2>4. phase # "none"
    BY <2>1
  <2> QED
    BY <1>0, <2>1, <2>2, <2>3, <2>4
<1> QED
  BY <1>0, <1>1, <1>2, <1>3, <1>4, <1>5, <1>6, <1>7, <1>8, <1>9, <1>10, OtherSteps,
     ChannelSteps DEF Next

-----------------------------------------------------------------------------
(***************************************************************************)
(* The registry of the client.                                             *)
(***************************************************************************)
LEMMA WordsInductive ==
  ASSUME ~SameTick, ClientSound, Linked, ReadyFirst, WordsTrue, [Next]_vars
  PROVE  WordsTrue'
<1>0. /\ wire \in Seq(Frames) /\ opens \in Nat /\ ClientTyped
      /\ alive \in BOOLEAN /\ member \in BOOLEAN /\ online \in BOOLEAN
      /\ Begins(wire, phase) /\ phase \in {"none", "hello", "answered", "routed"}
  BY Flags, ReadyFirstIs DEF ClientSound, ClientTyped, ChannelsTypeOK, Flagged
<1> SUFFICES ASSUME alive'
             PROVE  /\ LastWord(wire', online')
                    /\ phase' = "answered" /\ Silent(wire') => answer' = online'
                    /\ phase' = "routed" /\ Silent(wire') => view' = online'
  BY DEF WordsTrue, LastWord
<1>a. alive => /\ LastWord(wire, online)
               /\ phase = "answered" /\ Silent(wire) => answer = online
               /\ phase = "routed" /\ Silent(wire) => view = online
  BY DEF WordsTrue
<1>1. CASE UNCHANGED wordVars
  BY <1>a, <1>1 DEF wordVars
<1>2. CASE Connect \/ TimerFires
  <2>1. CASE Establish(FALSE) \/ Establish(TRUE)
    <3>1. wire' = <<>> /\ phase' = "hello"
      BY <2>1 DEF Establish, Linked
    <3> QED
      BY <3>1, EmptyIs
  <2>2. CASE UNCHANGED <<phase, alive, wire, member, answer, waitVars, bounds>>
    BY <1>a, <2>2 DEF waitVars, bounds
  <2> QED
    BY <1>2, <2>1, <2>2 DEF Connect, TimerFires
<1>3. CASE Welcome
  <2> DEFINE frame == [type |-> "ready", up |-> online]
  <2>1. phase' = "hello" /\ wire' = <<frame>> /\ online' = online
    BY <1>3 DEF Welcome, bounds
  <2>2. wire' = Append(<<>>, frame) /\ <<>> \in Seq(Frames)
    BY <2>1
  <2>3. frame \in Frames /\ frame.up = online' /\ OfRegistry(frame)
    BY <1>0, <2>1, FramesAre DEF OfRegistry
  <2> HIDE DEF frame
  <2> QED
    BY <2>1, <2>2, <2>3, AppendWord
<1>4. CASE BackendChanges
  <2> DEFINE frame == [type |-> "snapshot", up |-> online']
  <2>1. wire' = Sent(frame) /\ online' \in BOOLEAN /\ UNCHANGED <<phase, alive, member>>
    BY <1>0, <1>4 DEF BackendChanges
  <2>2. frame \in Frames /\ frame.up = online' /\ OfRegistry(frame)
    BY <2>1, FramesAre DEF OfRegistry
  <2> HIDE DEF frame
  <2>3. CASE member
    <3>1. wire' = Append(wire, frame)
      BY <1>0, <2>1, <2>2, <2>3, SentIs
    <3> QED
      BY <1>0, <2>2, <3>1, AppendWord
  <2>4. CASE ~member
    <3>1. wire' = wire /\ wire = <<>> /\ phase' = "hello"
      BY <1>0, <2>1, <2>2, <2>4, SentIs DEF Linked
    <3>2. wire' = <<>>
      BY <3>1
    <3> QED
      BY <3>1, <3>2, EmptyIs
  <2> QED
    BY <2>3, <2>4
<1>5. CASE ChannelWord
  <2>1. UNCHANGED <<phase, alive, member, online, answer, view>>
    BY <1>5 DEF ChannelWord
  <2>2. CASE wire' = wire
    BY <1>a, <2>1, <2>2
  <2>3. CASE \E frame \in Frames :
                /\ frame.type \in {"channel_ready", "error", "channel_closed"}
                /\ wire' = Sent(frame)
    <3>1. PICK frame \in Frames :
                /\ frame.type \in {"channel_ready", "error", "channel_closed"}
                /\ wire' = Sent(frame)
      BY <2>3
    <3>2. ~OfRegistry(frame)
      BY <3>1 DEF OfRegistry
    <3>3. wire' = wire \/ wire' = Append(wire, frame)
      BY <3>1, SentIs, <1>0
    <3>4. LastWord(wire', online) /\ (Silent(wire') <=> Silent(wire))
      BY <1>0, <1>a, <2>1, <3>2, <3>3, AppendOther
    <3> QED
      BY <1>a, <2>1, <3>4
  <2> QED
    BY <1>5, <2>2, <2>3 DEF ChannelWord
<1>6. CASE Lost \/ Close
  BY <1>6 DEF Lost, Close
<1>7. CASE GatewayNotices
  <2>1. UNCHANGED <<phase, alive, wire, online, answer>>
    BY <1>7 DEF GatewayNotices, SessionGone, bounds
  <2>2. view' = view
    BY <1>7 DEF GatewayNotices, SessionGone, waitVars
  <2> QED
    BY <1>a, <2>1, <2>2
<1>8. CASE Resume
  <2>1. UNCHANGED <<alive, wire, online>> /\ phase = "answered" /\ phase' = "routed"
        /\ view' = answer
    BY <1>8 DEF Resume, Told, bounds
  <2> QED
    BY <1>a, <2>1
<1>9. CASE CloseEvent
  BY <1>9 DEF CloseEvent
<1>10. CASE Deliver
  <2>1. wire # <<>> /\ wire' = Tail(wire) /\ UNCHANGED <<alive, member, online>>
    BY <1>10 DEF Deliver, bounds
  <2>2. Head(wire) \in Frames
    BY <1>0, <2>1, TailIs
  <2>3. /\ LastWord(wire', online')
        /\ Silent(wire') /\ OfRegistry(Head(wire)) => Head(wire).up = online
        /\ Silent(wire') /\ ~OfRegistry(Head(wire)) => Silent(wire)
    BY <1>0, <1>a, <2>1, TailWord
  <2>4. CASE /\ phase = "hello" /\ Head(wire).type = "ready"
             /\ phase' = "answered" /\ answer' = Head(wire).up
    BY <2>1, <2>3, <2>4 DEF OfRegistry
  <2>5. CASE phase = "routed" /\ Routed(Head(wire)) /\ UNCHANGED <<phase, answer>>
    <3>1. CASE Head(wire).type = "snapshot" /\ Told(Head(wire).up)
      <4>1. view' = Head(wire).up /\ OfRegistry(Head(wire)) /\ phase' = "routed"
        BY <2>5, <3>1 DEF Told, OfRegistry
      <4> QED
        BY <2>1, <2>3, <4>1
    <3>2. CASE /\ Head(wire).type \in {"channel_ready", "error", "channel_closed"}
               /\ UNCHANGED waitVars
      <4>1. view' = view /\ ~OfRegistry(Head(wire)) /\ phase' = "routed"
        BY <2>5, <3>2 DEF OfRegistry, waitVars
      <4> QED
        BY <1>a, <2>1, <2>3, <2>5, <4>1
    <3> QED
      BY <2>5, <3>1, <3>2 DEF Routed
  <2> QED
    BY <1>10, <2>4, <2>5 DEF Deliver
<1> QED
  BY <1>0, <1>1, <1>2, <1>3, <1>4, <1>5, <1>6, <1>7, <1>8, <1>9, <1>10, OtherSteps,
     ChannelSteps DEF Next

-----------------------------------------------------------------------------
(***************************************************************************)
(* The theorems.                                                           *)
(***************************************************************************)
ClientIInv == ClientSound /\ Linked /\ ReadyFirst

LEMMA InitLinked == Init => Linked /\ ReadyFirst /\ WordsTrue
  BY DEF Init, Linked, ReadyFirst, WordsTrue

\* Whatever the network and the application do: a waiter listens exactly while
\* its promise is open, the map of the SDK lists open channels only, and every
\* open channel that it does not list has lost its data socket already.
THEOREM ChannelsSoundAlways == Spec => []ClientSound
<1>1. Init => ClientIInv
  BY InitSound, InitLinked DEF ClientIInv
<1>2. ClientIInv /\ [Next]_vars => ClientIInv'
  BY SoundInductive, LinkInductive DEF ClientIInv
<1>3. ClientIInv => ClientSound
  BY DEF ClientIInv
<1> QED
  BY <1>1, <1>2, <1>3, PTL DEF Spec

\* ... and, where no frame arrives before the listener of the connection is
\* installed, the registry of the client is the gateway's whenever nothing is
\* under way: registryItems, for any number of reconnects and changes.
THEOREM ClientChannelsCorrect == ~SameTick => (Spec => []ClientChannelsInv)
<1> SUFFICES ASSUME ~SameTick PROVE Spec => []ClientChannelsInv
  OBVIOUS
<1> DEFINE IInv == ClientIInv /\ WordsTrue
<1>1. Init => IInv
  BY InitSound, InitLinked DEF ClientIInv
<1>2. IInv /\ [Next]_vars => IInv'
  BY SoundInductive, LinkInductive, WordsInductive DEF ClientIInv
<1>3. IInv => ClientChannelsInv
  <2> SUFFICES ASSUME IInv PROVE ClientChannelsInv
    OBVIOUS
  <2>1. QuietViewIsTrue
    <3> SUFFICES ASSUME phase = "routed", alive, wire = <<>> PROVE view = online
      BY DEF QuietViewIsTrue
    <3>1. Silent(wire)
      BY DEF Silent
    <3> QED
      BY <3>1 DEF WordsTrue
  <2> QED
    BY <2>1 DEF ClientIInv, ClientSound, ClientTyped, ClientChannelsInv
<1> QED
  BY <1>1, <1>2, <1>3, PTL DEF Spec

=============================================================================
