------------------------------ MODULE Channels ------------------------------
(***************************************************************************)
(* Channels (src/server.ts, "v4 Channels"): records of negotiated          *)
(* channels, the one-time tickets that admit a data socket to one end of   *)
(* one channel, the two data sockets ("legs"), and the tear-down every     *)
(* ending goes through.  The bytes that flow through a paired channel are  *)
(* not in this module; neither is the HTTP response at the gateway end of  *)
(* an internal channel, beyond its closing.                                *)
(***************************************************************************)
EXTENDS GatewayState

CONSTANTS
    ChannelIds,         \* channelId values; each names at most one channel
    MaxChannelsPerPeer  \* maxChannelsPerPeer

ASSUME MaxChannelsAssumption == MaxChannelsPerPeer \in Nat

VARIABLES
    channels,        \* channels: the record of each id
    channelTickets,  \* channelTickets: the <<channelId, role>> still unused
    told             \* what each OPEN peer was last told of each channel

channelVars == <<channels, channelTickets, told>>

Roles == {"client", "backend"}

Reasons == {"timeout", "closed", "rejected", "epoch_changed", "backend_offline"}

(***************************************************************************)
(* due: channelTicketTtlMs have passed since the record was created, which *)
(* expires its tickets and arms the pairing timer.  A leg is a data socket *)
(* the gateway holds; "hungUp" once its remote end is gone and the gateway *)
(* has not yet processed its close.  The client of an internal HTTP        *)
(* channel is NoSession and its client leg stays "none".                   *)
(***************************************************************************)
ChannelRecords == [status : {"new", "open", "closed"},
                   backend : Backends \cup {NoBackend},
                   epoch : Epochs,
                   client : Sessions \cup {NoSession},
                   owner : Sessions \cup {NoSession},
                   legs : [Roles -> {"none", "up", "hungUp"}],
                   piped : BOOLEAN,
                   due : BOOLEAN]

NoLegs == [r \in Roles |-> "none"]

EmptyChannel(status) ==
    [status |-> status, backend |-> NoBackend, epoch |-> 0,
     client |-> NoSession, owner |-> NoSession, legs |-> NoLegs,
     piped |-> FALSE, due |-> FALSE]

WithLeg(record, role, leg, piped) ==
    [record EXCEPT !.legs = [record.legs EXCEPT ![role] = leg], !.piped = piped]

WithDue(record) == [record EXCEPT !.due = TRUE]

ChannelsTypeOK ==
    /\ channels \in [ChannelIds -> ChannelRecords]
    /\ channelTickets \subseteq ChannelIds \X Roles
    /\ told \in [Sessions -> [ChannelIds -> {"nothing", "open"} \cup Reasons]]

ToldNothing == [ch \in ChannelIds |-> "nothing"]

ChannelsInit ==
    /\ channels = [ch \in ChannelIds |-> EmptyChannel("new")]
    /\ channelTickets = {}
    /\ told = [s \in Sessions |-> ToldNothing]

-----------------------------------------------------------------------------

Open(ch) == channels[ch].status = "open"

Internal(ch) == channels[ch].client = NoSession

\* The control peers of a channel: those that get channel_closed.
Ends(ch) == {channels[ch].client, channels[ch].owner}

\* Mutant: channels that are not piped yet are missed.
PipedChannelsOfBackends(B) ==
    {ch \in ChannelIds : Open(ch) /\ channels[ch].piped /\ channels[ch].backend \in B}

\* The channels closeChannelsForBackend finds
ChannelsOfBackends(B) == {ch \in ChannelIds : Open(ch) /\ channels[ch].backend \in B}

\* The channels closeChannelsForPeer finds
ChannelsOfPeers(S) == {ch \in ChannelIds : Open(ch) /\ Ends(ch) \cap S # {}}

\* countChannelsForPeer(peerSessionId)
CountChannels(s) == Cardinality({ch \in ChannelIds : Open(ch) /\ s \in Ends(ch)})

\* The ends of channel ch that are still open learn v about it.
Tell(ends, ch, v) ==
    told' = [s \in Sessions |->
               IF peers'[s].ws # "open" THEN ToldNothing
               ELSE IF s \in ends THEN [told[s] EXCEPT ![ch] = v] ELSE told[s]]

TellNobody ==
    told' = [s \in Sessions |-> IF peers'[s].ws = "open" THEN told[s] ELSE ToldNothing]

\* Mutant: only the client end is sent channel_closed.
TeardownTellsClient(Doomed, why) ==
    /\ channels' = [ch \in ChannelIds |->
                      IF ch \in Doomed THEN EmptyChannel("closed") ELSE channels[ch]]
    /\ channelTickets' = {t \in channelTickets : t[1] \notin Doomed}
    /\ told' = [s \in Sessions |->
                  IF peers'[s].ws # "open" THEN ToldNothing
                  ELSE [ch \in ChannelIds |->
                          IF ch \in Doomed /\ s = channels[ch].client
                          THEN why[ch] ELSE told[s][ch]]]

\* teardownChannel(ch, why[ch]) for every channel of Doomed: the record and
\* its unused tickets go, both control ends are sent channel_closed.
Teardown(Doomed, why) ==
    /\ channels' = [ch \in ChannelIds |->
                      IF ch \in Doomed THEN EmptyChannel("closed") ELSE channels[ch]]
    /\ channelTickets' = {t \in channelTickets : t[1] \notin Doomed}
    /\ told' = [s \in Sessions |->
                  IF peers'[s].ws # "open" THEN ToldNothing
                  ELSE [ch \in ChannelIds |->
                          IF ch \in Doomed /\ s \in Ends(ch)
                          THEN why[ch] ELSE told[s][ch]]]

\* Mutant: every ending is reported as an ordinary close.
TeardownPlain(Doomed, reason) == Teardown(Doomed, [ch \in ChannelIds |-> "closed"])

\* Every channel of Doomed is torn down for the same reason.
TeardownAll(Doomed, reason) == Teardown(Doomed, [ch \in ChannelIds |-> reason])

\* A record for channel ch with its tickets, offered to the backend peer and
\* (unless the gateway itself is the client) announced to the client.
CreateChannel(ch, b, client, roles) ==
    LET owner == leases[b].session
        record == [status |-> "open", backend |-> b, epoch |-> leases[b].epoch,
                   client |-> client, owner |-> owner, legs |-> NoLegs,
                   piped |-> FALSE, due |-> FALSE]
    IN  /\ channels' = [channels EXCEPT ![ch] = record]
        /\ channelTickets' = channelTickets \cup ({ch} \X roles)
        /\ Tell({client, owner}, ch, "open")

-----------------------------------------------------------------------------
(* Handlers that touch channels only.                                      *)

\* channel_reject from the backend end
ChannelReject(s, ch) ==
    /\ Live(s) /\ Open(ch)
    /\ channels[ch].owner = s
    /\ UNCHANGED stateVars
    /\ TeardownAll({ch}, "rejected")

\* channel_close from either end
ChannelClose(s, ch) ==
    /\ Live(s) /\ Open(ch)
    /\ s \in Ends(ch)
    /\ UNCHANGED stateVars
    /\ TeardownAll({ch}, "closed")

\* A data socket presents the ticket of (ch, role) on the path of ch, in
\* time.  Its leg is up, frames and close events are held (ws.pause) until
\* the channel is piped: for an internal channel at once, else when both
\* legs have arrived.
Dial(ch, role) ==
    LET ready == Internal(ch) \/ \A r \in Roles \ {role} : channels[ch].legs[r] # "none"
    IN  /\ <<ch, role>> \in channelTickets
        /\ Open(ch) /\ ~channels[ch].due
        /\ channelTickets' = channelTickets \ {<<ch, role>>}
        /\ channels' = [channels EXCEPT ![ch] = WithLeg(@, role, "up", ready)]
        /\ UNCHANGED <<stateVars, told>>

\* A ticket presented late, or on the path of another channel, is consumed
\* before it is refused.
DialRefused(ch, role) ==
    /\ <<ch, role>> \in channelTickets
    /\ channelTickets' = channelTickets \ {<<ch, role>>}
    /\ UNCHANGED <<stateVars, channels, told>>

\* The remote end of a data socket goes away.
LegHangsUp(ch, role) ==
    /\ Open(ch) /\ channels[ch].legs[role] = "up"
    /\ channels' = [channels EXCEPT ![ch] = WithLeg(@, role, "hungUp", @.piped)]
    /\ UNCHANGED <<stateVars, channelTickets, told>>

\* 'close' or 'error' of a wired data socket; a paused one stays silent.
LegClosed(ch) ==
    /\ Open(ch) /\ channels[ch].piped
    /\ \E r \in Roles : channels[ch].legs[r] = "hungUp"
    /\ UNCHANGED stateVars
    /\ TeardownAll({ch}, "closed")

\* channelTicketTtlMs elapse for a channel that is not piped.
TicketTtlElapses(ch) ==
    /\ Open(ch) /\ ~channels[ch].piped /\ ~channels[ch].due
    /\ channels' = [channels EXCEPT ![ch] = WithDue(@)]
    /\ UNCHANGED <<stateVars, channelTickets, told>>

\* Mutant: the first leg to arrive already cancels the pairing timer.
PairingTimeoutUndialled(ch) ==
    /\ Open(ch) /\ channels[ch].legs = NoLegs /\ channels[ch].due
    /\ UNCHANGED stateVars
    /\ TeardownAll({ch}, "timeout")

\* The pairing timer, cleared when the channel is piped
PairingTimeout(ch) ==
    /\ Open(ch) /\ ~channels[ch].piped /\ channels[ch].due
    /\ UNCHANGED stateVars
    /\ TeardownAll({ch}, "timeout")

\* The five-minute sweep of expired tickets
SweepTickets ==
    /\ \E t \in channelTickets : channels[t[1]].due
    /\ channelTickets' = {t \in channelTickets : ~channels[t[1]].due}
    /\ UNCHANGED <<stateVars, channels, told>>

\* The HTTP end of an internal channel: its response closes, or its
\* response or idle timer fires.
HttpResponseCloses(ch) ==
    /\ Open(ch) /\ Internal(ch)
    /\ UNCHANGED stateVars
    /\ TeardownAll({ch}, "closed")

HttpTimerFires(ch) ==
    /\ Open(ch) /\ Internal(ch) /\ channels[ch].piped
    /\ UNCHANGED stateVars
    /\ TeardownAll({ch}, "timeout")

=============================================================================
