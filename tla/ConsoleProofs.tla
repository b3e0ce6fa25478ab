---------------------------- MODULE ConsoleProofs ----------------------------
(***************************************************************************)
(* The admin web page, for any number of credentials, of sessions and of   *)
(* requests in flight.                                                     *)
(*                                                                         *)
(* What the page may conclude from an answer rests on the order of the     *)
(* answers: those not yet handled are the latest ones, and once one says   *)
(* that the session is over, every later one does (Orderly).  On top of it *)
(* a page shows what the gateway has because any answer that could show    *)
(* something older is followed by one that does not (Freshening), and a    *)
(* token is shown because the dialog it was asked in is still there when   *)
(* it comes (OneChange, Held).  What is revoked was on screen because      *)
(* whatever the gateway has as active no later answer takes off a page     *)
(* that shows it (NeverBack).                                              *)
(***************************************************************************)
EXTENDS AdminConsole, SequenceTheorems, TLAPS

Changes == {"revoke", "purge", "issue"}
Kinds == {"check", "poll", "load", "login", "logout"} \cup Changes
Statuses == {"none", "active", "revoked"}

Requests ==
    [kind : Kinds, ids : SUBSET Creds, cookie : 0..MaxSessions, mounted : BOOLEAN,
     dialog : BOOLEAN, phase : {"sent", "ok", "401", "error"},
     list : [Creds -> Statuses] \cup {Nothing}]

Dialogs == [kind : {"none"} \cup Changes, ids : SUBSET Creds, busy : BOOLEAN]

\* Sessions are numbered up to the last one; what is sent carries one of them.
SessionsKnown ==
    /\ cookie \in 0..last /\ live \subseteq 1..last
    /\ \A i \in DOMAIN net : net[i].cookie \in 0..last

\* There is one login at a time, with room for the session it makes.
OneLogin ==
    /\ \A i, j \in DOMAIN net : net[i].kind = "login" /\ net[j].kind = "login" => i = j
    /\ \A i \in DOMAIN net :
          net[i].kind = "login" /\ net[i].phase = "sent" => last < MaxSessions

\* Checking means that the check is under way, and nothing else.
CheckAlone ==
    /\ \A i \in DOMAIN net : net[i].kind = "check" => auth = "checking"
    /\ auth = "checking" => Len(net) = 1 /\ net[1].kind = "check"

\* Outside of the app there is no page, and no request of one.
AppOnly ==
    auth # "ready" =>
        /\ token = None /\ dialog = NoDialog
        /\ \A i \in DOMAIN net : net[i].mounted => net[i].kind \in {"login", "check"}

\* A token belongs to a credential that was issued here.
TokensMinted ==
    /\ minted \subseteq Creds /\ (token # None => token \in minted)
    /\ \A i \in DOMAIN net : net[i].kind = "issue" /\ net[i].phase = "ok" =>
          \E c \in minted : net[i].ids = {c}

Typed ==
    /\ ConsoleTypeOK /\ net \in Seq(Requests) /\ dialog \in Dialogs
    /\ SessionsKnown /\ OneLogin /\ CheckAlone /\ AppOnly /\ TokensMinted

\* The answers come in order and the network holds.
Steady == ~overtaking /\ "network" \notin trouble

\* The answer that ends the session of the app when it arrives.
Over(r) ==
    \/ r.phase = "401" /\ r.kind # "login"
    \/ r.phase = "ok" /\ r.kind = "logout"

InOrder ==
    \A i, j \in DOMAIN net : j < i /\ net[j].phase = "sent" => net[i].phase = "sent"

LoginLast ==
    \A i \in DOMAIN net : net[i].kind = "login" => auth = "login" /\ i = Len(net)

PhasesTrue ==
    \A i \in DOMAIN net :
        /\ net[i].phase = "error" => net[i].kind = "issue"
        /\ net[i].phase = "401" => net[i].kind # "logout"

\* In the app, what is sent carries the cookie, and an answer that ends the
\* session is followed by nothing else.
AppTrue ==
    auth # "login" =>
        \A i \in DOMAIN net :
            /\ net[i].phase = "sent" => net[i].cookie = cookie
            /\ Over(net[i]) =>
                  /\ cookie \notin live
                  /\ \A j \in DOMAIN net : i < j => net[j].phase = "sent" \/ Over(net[j])

\* In the login view, the session is over and so is all that is under way.
LoginTrue ==
    auth = "login" =>
        /\ cookie \notin live
        /\ \A i \in DOMAIN net :
              \/ net[i].kind = "login" \/ Over(net[i])
              \/ net[i].phase = "sent" /\ net[i].cookie \notin live

Orderly == InOrder /\ LoginLast /\ PhasesTrue /\ AppTrue /\ LoginTrue

\* The one change under way is that of the open dialog.
OneChange ==
    \A i \in DOMAIN net : net[i].kind \in Changes /\ auth # "login" =>
        /\ auth = "ready" /\ net[i].mounted
        /\ dialog.kind = net[i].kind /\ dialog.busy
        /\ \A j \in DOMAIN net : net[j].kind \in Changes => i = j

\* A load of the page, sent or answered.
Loads(i, phase) ==
    net[i].kind = "load" /\ net[i].mounted /\ net[i].phase = phase

LoadDue == \E i \in DOMAIN net : Loads(i, "sent")

TrueFrom(i) ==
    /\ Loads(i, "ok") /\ net[i].list = server
    /\ \A j \in DOMAIN net : i < j /\ Loads(j, "ok") => net[j].list = server

ListTrue ==
    /\ list = server
    /\ \A j \in DOMAIN net : Loads(j, "ok") => net[j].list = server

ChangeDone == \E i \in DOMAIN net : net[i].kind \in Changes /\ net[i].phase = "ok"

EndDue ==
    \E i \in DOMAIN net : net[i].kind \in Changes \cup {"load"} /\ net[i].phase = "401"

\* The page shows what the gateway has, or it is about to, or it is about to go.
Freshening ==
    LoadDue \/ (\E i \in DOMAIN net : TrueFrom(i)) \/ ListTrue \/ ChangeDone \/ EndDue

NoLogout == ~InFlight({"logout"})

\* While no session runs out: a token on screen is the only modal and nobody
\* who waits for one has logged out, an issue is the dialog's, and the app has a
\* session unless it logs out.
TokenAlone ==
    /\ dialog.kind # "none" => token = None
    /\ dialog.kind = "issue" => dialog.ids = {}
    /\ ~NoLogout => dialog.kind = "none" /\ token = None

IssuesHere ==
    \A i \in DOMAIN net : net[i].kind = "issue" =>
        auth = "ready" /\ (net[i].phase # "ok" => net[i].ids = {})

AnswersLive ==
    \A i \in DOMAIN net : net[i].phase = "ok" =>
        /\ net[i].kind = "check" => cookie \in live
        /\ net[i].kind = "login" => net[i].cookie \in live

AppLive ==
    auth = "ready" /\ NoLogout =>
        cookie \in live /\ \A i \in DOMAIN net : net[i].phase # "401"

Held == TokenAlone /\ IssuesHere /\ AnswersLive /\ AppLive

AllAccounted ==
    \A c \in minted \ stored :
        c = token \/ \E i \in DOMAIN net : net[i].kind = "issue" /\ net[i].ids = {c}

ConsoleIInv ==
    /\ Typed
    /\ Steady => Orderly
    /\ Steady /\ ~impatient =>
          /\ OneChange
          /\ trouble \subseteq {"expired"} /\ OnPage => Freshening
          /\ trouble \subseteq {"elsewhere"} => Held /\ AllAccounted

-----------------------------------------------------------------------------
(***************************************************************************)
(* What a step does to the requests in flight: the one at i is taken out,  *)
(* unless i is past the end, n are left, and one may be added.             *)
(***************************************************************************)
From(i, k) == IF k < i THEN k ELSE k + 1

Like(q, r) == q.kind = r.kind /\ q.phase = r.phase /\ q.cookie = r.cookie /\ q.ids = r.ids

Shows(q, r) == q.mounted = r.mounted /\ q.list = r.list

Keeps(i, n) ==
    /\ net' \in Seq(Requests) /\ n \in Nat /\ i \in Nat \ {0} /\ i <= Len(net) + 1
    /\ n = (IF i <= Len(net) THEN Len(net) - 1 ELSE Len(net))
    /\ Len(net') \in {n, n + 1}
    /\ \A k \in 1..n : Like(net'[k], net[From(i, k)])

\* The page whose requests they are stays, or it goes.
Stays(i, n) == \A k \in 1..n : Shows(net'[k], net[From(i, k)])
Goes(n) == \A k \in 1..n : ~net'[k].mounted

Answers(i, phase) ==
    /\ net' \in Seq(Requests) /\ Len(net') = Len(net)
    /\ \A k \in 1..Len(net) : k # i => net'[k] = net[k]
    /\ net'[i].kind = net[i].kind /\ net'[i].mounted = net[i].mounted
    /\ net'[i].phase = phase

LEMMA RequestsAre ==
  ASSUME NEW r \in Requests
  PROVE  /\ r.kind \in Kinds /\ r.ids \subseteq Creds /\ r.cookie \in 0..MaxSessions
         /\ r.mounted \in BOOLEAN /\ r.dialog \in BOOLEAN
         /\ r.phase \in {"sent", "ok", "401", "error"}
         /\ r.list \in [Creds -> Statuses] \cup {Nothing}
  BY DEF Requests

LEMMA FlightIs ==
  ASSUME net \in Seq(Requests)
  PROVE  /\ Len(net) \in Nat /\ DOMAIN net = 1..Len(net)
         /\ \A k \in 1..Len(net) : net[k] \in Requests
  OBVIOUS

LEMMA RequestIs ==
  ASSUME NEW k \in Kinds, NEW ids \in SUBSET Creds, cookie \in 0..MaxSessions
  PROVE  LET r == Request(k, ids)
         IN  /\ r \in Requests /\ r.kind = k /\ r.phase = "sent" /\ r.cookie = cookie
             /\ r.mounted /\ r.ids = ids
<1> DEFINE r == Request(k, ids)
<1>1. r = [kind |-> k, ids |-> ids, cookie |-> cookie, mounted |-> TRUE,
           dialog |-> k = "issue", phase |-> "sent", list |-> Nothing]
  BY DEF Request
<1>2. (k = "issue") \in BOOLEAN
  OBVIOUS
<1>3. r \in Requests
  BY <1>1, <1>2 DEF Requests
<1> QED
  BY <1>1, <1>3

LEMMA FirstIs ==
  ASSUME NEW v, cookie \in 0..MaxSessions
  PROVE  LET r == FirstRequest(v)
         IN  /\ r \in Requests /\ r.kind = (IF v = "overview" THEN "poll" ELSE "load")
             /\ r.phase = "sent" /\ r.cookie = cookie /\ r.mounted
<1>1. CASE v = "overview"
  BY <1>1, RequestIs DEF FirstRequest, Kinds
<1>2. CASE v # "overview"
  BY <1>2, RequestIs DEF FirstRequest, Kinds
<1> QED
  BY <1>1, <1>2

LEMMA StayIs ==
  ASSUME net \in Seq(Requests), net' = net
  PROVE  Keeps(Len(net) + 1, Len(net)) /\ Stays(Len(net) + 1, Len(net))
<1>1. Len(net) \in Nat /\ \A k \in 1..Len(net) : From(Len(net) + 1, k) = k
  BY FlightIs DEF From
<1> QED
  BY <1>1 DEF Keeps, Stays, Like, Shows

LEMMA SendIs ==
  ASSUME net \in Seq(Requests), NEW r \in Requests, net' = Append(net, r)
  PROVE  /\ Keeps(Len(net) + 1, Len(net)) /\ Stays(Len(net) + 1, Len(net))
         /\ Len(net') = Len(net) + 1 /\ net'[Len(net) + 1] = r
<1>1. /\ net' \in Seq(Requests) /\ Len(net') = Len(net) + 1 /\ net'[Len(net) + 1] = r
      /\ \A k \in 1..Len(net) : net'[k] = net[k]
  BY FlightIs
<1>2. Len(net) \in Nat /\ \A k \in 1..Len(net) : From(Len(net) + 1, k) = k
  BY FlightIs DEF From
<1>3. Keeps(Len(net) + 1, Len(net))
  BY <1>1, <1>2 DEF Keeps, Like
<1> QED
  BY <1>1, <1>2, <1>3 DEF Stays, Shows

\* The requests of a page that goes.
Orphan(r) == [r EXCEPT !.mounted = FALSE, !.dialog = FALSE, !.list = Nothing]

LEMMA OrphansAre ==
  ASSUME NEW s \in Seq(Requests)
  PROVE  /\ Orphaned(s) \in Seq(Requests) /\ Len(Orphaned(s)) = Len(s)
         /\ \A k \in 1..Len(s) : Like(Orphaned(s)[k], s[k]) /\ ~Orphaned(s)[k].mounted
<1>1. /\ Len(s) \in Nat /\ DOMAIN s = 1..Len(s)
      /\ \A k \in 1..Len(s) : s[k] \in Requests
  OBVIOUS
<1>2. ASSUME NEW q \in Requests
      PROVE  Orphan(q) \in Requests /\ Like(Orphan(q), q) /\ ~Orphan(q).mounted
  BY DEF Requests, Like, Orphan
<1>3. Orphaned(s) = [k \in 1..Len(s) |-> Orphan(s[k])]
  BY <1>1 DEF Orphaned, Orphan
<1>4. \A k \in 1..Len(s) : Orphaned(s)[k] = Orphan(s[k])
  BY <1>3
<1>5. Orphaned(s) \in [1..Len(s) -> Requests]
  BY <1>1, <1>2, <1>3
<1>6. Orphaned(s) \in Seq(Requests) /\ Len(Orphaned(s)) = Len(s)
  BY <1>1, <1>5
<1> QED
  BY <1>1, <1>2, <1>4, <1>6

LEMMA RemovalIs ==
  ASSUME net \in Seq(Requests), NEW i \in 1..Len(net)
  PROVE  LET rest == RemoveAt(net, i)
         IN  /\ rest \in Seq(Requests) /\ Len(rest) = Len(net) - 1
             /\ \A k \in 1..(Len(net) - 1) : rest[k] = net[From(i, k)]
<1> DEFINE a == SubSeq(net, 1, i - 1)
           b == SubSeq(net, i + 1, Len(net))
<1>1. Len(net) \in Nat /\ i \in Nat /\ 1 <= i /\ i <= Len(net)
  BY FlightIs
<1>2. /\ a \in Seq(Requests) /\ Len(a) = i - 1
      /\ \A k \in 1..(i - 1) : a[k] = net[k]
  BY <1>1, FlightIs, SubSeqProperties
<1>3. /\ b \in Seq(Requests) /\ Len(b) = Len(net) - i
      /\ \A k \in 1..(Len(net) - i) : b[k] = net[i + k]
  <2>1. \A k \in (i + 1)..Len(net) : net[k] \in Requests
    BY <1>1, FlightIs
  <2>2. /\ b \in Seq(Requests) /\ Len(b) = (IF i + 1 <= Len(net) THEN Len(net) - (i + 1) + 1 ELSE 0)
        /\ \A k \in 1..(Len(net) - (i + 1) + 1) : b[k] = net[i + 1 + k - 1]
    BY <1>1, <2>1, SubSeqProperties
  <2> QED
    BY <1>1, <2>2
<1>4. RemoveAt(net, i) = a \o b
  BY DEF RemoveAt
<1> HIDE DEF a, b
<1>5. /\ a \o b \in Seq(Requests) /\ Len(a \o b) = (i - 1) + (Len(net) - i)
      /\ \A k \in 1..((i - 1) + (Len(net) - i)) :
            (a \o b)[k] = IF k <= i - 1 THEN a[k] ELSE b[k - (i - 1)]
  <2>1. /\ a \o b \in Seq(Requests) /\ Len(a \o b) = Len(a) + Len(b)
        /\ \A k \in 1..(Len(a) + Len(b)) :
              (a \o b)[k] = IF k <= Len(a) THEN a[k] ELSE b[k - Len(a)]
    BY <1>2, <1>3, ConcatProperties
  <2> QED
    BY <1>2, <1>3, <2>1
<1>6. \A k \in 1..(Len(net) - 1) : (a \o b)[k] = net[From(i, k)]
  <2> SUFFICES ASSUME NEW k \in 1..(Len(net) - 1) PROVE (a \o b)[k] = net[From(i, k)]
    OBVIOUS
  <2>1. CASE k < i
    BY <1>1, <1>2, <1>5, <2>1 DEF From
  <2>2. CASE ~(k < i)
    <3>1. (a \o b)[k] = b[k - (i - 1)]
      BY <1>1, <1>5, <2>2
    <3>2. k - (i - 1) \in 1..(Len(net) - i) /\ i + (k - (i - 1)) = k + 1
      BY <1>1, <2>2
    <3> QED
      BY <1>3, <2>2, <3>1, <3>2 DEF From
  <2> QED
    BY <2>1, <2>2
<1> QED
  BY <1>1, <1>4, <1>5, <1>6

-----------------------------------------------------------------------------
(***************************************************************************)
(* What the actions do to the requests and the sessions.                   *)
(***************************************************************************)
\* A step of the page, of the session's clock or of somebody else.
PageAction ==
    \/ Login \/ Logout \/ Navigate \/ Poll \/ Refresh \/ Filter \/ Toggle
    \/ OpenDialog \/ Confirm \/ Cancel \/ Dismiss \/ SessionEnds \/ Elsewhere
    \/ UNCHANGED vars

PageStep ==
    /\ Keeps(Len(net) + 1, Len(net)) /\ Len(net') <= MaxFlight
    /\ Stays(Len(net) + 1, Len(net)) \/ Goes(Len(net))
    /\ UNCHANGED <<auth, cookie, last, mode, minted>> /\ live' \in {live, {}}
    /\ Len(net') = Len(net) + 1 =>
          LET r == net'[Len(net) + 1]
          IN  /\ r.phase = "sent" /\ r.cookie = cookie /\ r.mounted /\ r.kind # "check"
              /\ r.kind = "login" =>
                    auth = "login" /\ last < MaxSessions /\ ~InFlight({"login"})
              /\ r.kind # "login" => auth = "ready"

LEMMA TypedIs ==
  ASSUME Typed
  PROVE  /\ net \in Seq(Requests) /\ cookie \in 0..MaxSessions /\ dialog \in Dialogs
         /\ dialog.kind \in {"none"} \cup Changes /\ dialog.ids \subseteq Creds
         /\ dialog.busy \in BOOLEAN
         /\ last \in 1..MaxSessions /\ MaxSessions \in Nat /\ MaxFlight \in Nat
         /\ Len(net) \in Nat /\ Len(net) <= MaxFlight /\ DOMAIN net = 1..Len(net)
         /\ live \subseteq 1..last /\ cookie \in 0..last
         /\ \A k \in 1..Len(net) : /\ net[k] \in Requests /\ net[k].cookie \in 0..last
                                   /\ net[k].phase \in {"sent", "ok", "401", "error"}
                                   /\ net[k].kind \in Kinds
<1>1. /\ net \in Seq(Requests) /\ cookie \in 0..MaxSessions /\ dialog \in Dialogs
      /\ last \in 1..MaxSessions /\ MaxSessions \in Nat /\ MaxFlight \in Nat
      /\ Len(net) <= MaxFlight
  BY ConsoleAssumption DEF Typed, ConsoleTypeOK
<1>2. /\ Len(net) \in Nat /\ DOMAIN net = 1..Len(net)
      /\ \A k \in 1..Len(net) : net[k] \in Requests
  BY <1>1, FlightIs
<1>3. /\ live \subseteq 1..last /\ cookie \in 0..last
      /\ \A k \in DOMAIN net : net[k].cookie \in 0..last
  BY DEF Typed, SessionsKnown
<1>4. /\ dialog.kind \in {"none"} \cup Changes /\ dialog.ids \subseteq Creds
      /\ dialog.busy \in BOOLEAN
  BY <1>1 DEF Dialogs
<1>5. \A k \in 1..Len(net) : net[k].phase \in {"sent", "ok", "401", "error"}
                             /\ net[k].kind \in Kinds
  BY <1>2, RequestsAre
<1> QED
  BY <1>1, <1>2, <1>3, <1>4, <1>5

LEMMA CancelIs ==
  ASSUME net \in Seq(Requests),
         net' = [i \in DOMAIN net |-> [net[i] EXCEPT !.dialog = FALSE]]
  PROVE  /\ Keeps(Len(net) + 1, Len(net)) /\ Stays(Len(net) + 1, Len(net))
         /\ Len(net') = Len(net)
<1>1. /\ Len(net) \in Nat /\ DOMAIN net = 1..Len(net)
      /\ \A k \in 1..Len(net) : net[k] \in Requests
  BY FlightIs
<1> DEFINE Alone(q) == [q EXCEPT !.dialog = FALSE]
<1>2. ASSUME NEW q \in Requests
      PROVE  Alone(q) \in Requests /\ Like(Alone(q), q) /\ Shows(Alone(q), q)
  BY DEF Requests, Like, Shows
<1>3. net' = [k \in 1..Len(net) |-> Alone(net[k])]
  BY <1>1
<1> HIDE DEF Alone
<1>4. /\ net' \in [1..Len(net) -> Requests]
      /\ \A k \in 1..Len(net) : net'[k] = Alone(net[k])
  BY <1>1, <1>2, <1>3
<1>5. net' \in Seq(Requests) /\ Len(net') = Len(net)
  BY <1>1, <1>4
<1>6. \A k \in 1..Len(net) : From(Len(net) + 1, k) = k
  BY <1>1 DEF From
<1>7. \A k \in 1..Len(net) : Like(net'[k], net[k]) /\ Shows(net'[k], net[k])
  BY <1>1, <1>2, <1>4
<1>8. \A k \in 1..Len(net) : /\ Like(net'[k], net[From(Len(net) + 1, k)])
                              /\ Shows(net'[k], net[From(Len(net) + 1, k)])
  BY <1>6, <1>7
<1>9. Len(net) \in Nat
  BY <1>1
<1>10. Len(net) + 1 \in Nat \ {0} /\ ~(Len(net) + 1 <= Len(net))
       /\ Len(net) + 1 <= Len(net) + 1
  BY <1>9
<1>11. Keeps(Len(net) + 1, Len(net))
  BY <1>5, <1>8, <1>9, <1>10 DEF Keeps
<1> QED
  BY <1>5, <1>8, <1>11 DEF Stays

LEMMA NavigateIs ==
  ASSUME net \in Seq(Requests), NEW r \in Requests, net' = Append(Orphaned(net), r)
  PROVE  /\ Keeps(Len(net) + 1, Len(net)) /\ Goes(Len(net))
         /\ Len(net') = Len(net) + 1 /\ net'[Len(net) + 1] = r
<1> PICK s : s = Orphaned(net)
  OBVIOUS
<1>1. Len(net) \in Nat /\ \A k \in 1..Len(net) : From(Len(net) + 1, k) = k
  BY FlightIs DEF From
<1>2. /\ s \in Seq(Requests) /\ Len(s) = Len(net)
      /\ \A k \in 1..Len(net) : Like(s[k], net[k]) /\ ~s[k].mounted
  BY OrphansAre
<1>3. /\ net' \in Seq(Requests) /\ Len(net') = Len(net) + 1 /\ net'[Len(net) + 1] = r
      /\ \A k \in 1..Len(net) : net'[k] = s[k]
  BY <1>1, <1>2
<1>4. Keeps(Len(net) + 1, Len(net))
  BY <1>1, <1>2, <1>3 DEF Keeps
<1> QED
  BY <1>1, <1>2, <1>3, <1>4 DEF Goes

LEMMA PageSteps == ASSUME Typed, PageAction PROVE PageStep
<1>0. /\ net \in Seq(Requests) /\ cookie \in 0..MaxSessions /\ Len(net) \in Nat
      /\ MaxFlight \in Nat /\ Len(net) <= MaxFlight
      /\ dialog.kind \in {"none"} \cup Changes /\ dialog.ids \subseteq Creds
  BY TypedIs
<1>1. ASSUME NEW k \in Kinds \ {"check"}, NEW ids \in SUBSET Creds, Room,
             net' = Append(net, Request(k, ids)),
             UNCHANGED <<auth, cookie, last, live, mode, minted>>,
             k = "login" => auth = "login" /\ last < MaxSessions /\ ~InFlight({"login"}),
             k # "login" => auth = "ready"
      PROVE  PageStep
  <2> PICK r \in Requests : /\ r = Request(k, ids)
                            /\ r.phase = "sent" /\ r.cookie = cookie /\ r.mounted /\ r.kind = k
    BY <1>0, RequestIs
  <2>1. /\ Keeps(Len(net) + 1, Len(net)) /\ Len(net') = Len(net) + 1
        /\ Stays(Len(net) + 1, Len(net)) /\ net'[Len(net) + 1] = r
    BY <1>0, <1>1, SendIs
  <2>2. Len(net') <= MaxFlight
    BY <1>0, <1>1, <2>1 DEF Room
  <2> QED
    BY <1>1, <2>1, <2>2 DEF PageStep
<1>2. CASE Login
  BY <1>1, <1>2 DEF Login, serverVars, Kinds
<1>3. CASE Logout \/ Poll \/ Refresh
  BY <1>1, <1>3 DEF Logout, Poll, Refresh, Free, OnPage, serverVars, Kinds
<1>4. CASE Confirm
  <2>1. dialog.kind \in Kinds \ {"check"} /\ dialog.kind # "login"
    BY <1>0, <1>4 DEF Confirm, Changes, Kinds
  <2> QED
    BY <1>0, <1>1, <1>4, <2>1 DEF Confirm, OnPage, serverVars
<1>5. CASE Navigate
  <2> PICK r \in Requests : /\ r = FirstRequest(view')
                            /\ r.phase = "sent" /\ r.cookie = cookie /\ r.mounted
                            /\ r.kind \in {"poll", "load"}
    BY <1>0, FirstIs
  <2>1. net' = Append(Orphaned(net), r) /\ Len(net) < MaxFlight /\ auth = "ready"
        /\ UNCHANGED <<auth, cookie, last, live, mode, minted>>
    BY <1>5 DEF Navigate, Room, serverVars
  <2>2. /\ Keeps(Len(net) + 1, Len(net)) /\ Len(net') = Len(net) + 1
        /\ Goes(Len(net)) /\ net'[Len(net) + 1] = r
    BY <1>0, <2>1, NavigateIs
  <2> QED
    BY <1>0, <2>1, <2>2 DEF PageStep
<1>6. CASE Cancel
  <2>1. net' = [i \in DOMAIN net |-> [net[i] EXCEPT !.dialog = FALSE]]
        /\ UNCHANGED <<auth, cookie, last, live, mode, minted>>
    BY <1>6 DEF Cancel, serverVars
  <2>2. /\ Keeps(Len(net) + 1, Len(net)) /\ Len(net') = Len(net)
        /\ Stays(Len(net) + 1, Len(net))
    BY <1>0, <2>1, CancelIs
  <2>3. Len(net') <= MaxFlight /\ Len(net') # Len(net) + 1
    BY <1>0, <2>2
  <2> QED
    BY <2>1, <2>2, <2>3 DEF PageStep
<1>7. CASE Filter \/ Toggle \/ OpenDialog \/ Dismiss \/ SessionEnds \/ Elsewhere
           \/ UNCHANGED vars
  <2>1. UNCHANGED <<net, auth, cookie, last, mode, minted>> /\ live' \in {live, {}}
    BY <1>7 DEF Filter, Toggle, OpenDialog, Dismiss, SessionEnds, Elsewhere, vars, serverVars
  <2>2. /\ Keeps(Len(net) + 1, Len(net)) /\ Len(net') = Len(net)
        /\ Stays(Len(net) + 1, Len(net))
    BY <1>0, <2>1, StayIs
  <2> QED
    BY <1>0, <2>1, <2>2 DEF PageStep
<1> QED
  BY <1>2, <1>3, <1>4, <1>5, <1>6, <1>7 DEF PageAction

-----------------------------------------------------------------------------
(***************************************************************************)
(* An answer arrives.                                                      *)
(***************************************************************************)
\* The app ends, begins, or goes on.
Ends(i) ==
    /\ ShowsLogin(net[i]) /\ auth' = "login" /\ Blank
    /\ Len(net') = Len(net) - 1 /\ Goes(Len(net) - 1)

Begins(i) ==
    /\ ShowsApp(net[i]) /\ auth' = "ready" /\ Blank
    /\ Len(net') = Len(net) /\ Stays(i, Len(net) - 1)
    /\ net'[Len(net)].kind = (IF view = "overview" THEN "poll" ELSE "load")

GoesOn(i) ==
    /\ ~ShowsLogin(net[i]) /\ ~ShowsApp(net[i]) /\ auth' = auth
    /\ Stays(i, Len(net) - 1)
    /\ IF net[i].mounted THEN PageGets(net[i]) ELSE UNCHANGED pageVars
    /\ Len(net') = (IF Reloads(net[i]) THEN Len(net) ELSE Len(net) - 1)
    /\ Reloads(net[i]) =>
          net'[Len(net)].kind = "load" /\ net'[Len(net)].mounted = net[i].mounted

Arrival(i) ==
    /\ i \in 1..Len(net) /\ net[i].phase # "sent" /\ (overtaking \/ i = 1)
    /\ Keeps(i, Len(net) - 1) /\ cookie' = CookieAfter(net[i])
    /\ UNCHANGED <<view, stored, trouble, live, last, server, minted, mode>>
    /\ Ends(i) \/ Begins(i) \/ GoesOn(i)
    /\ Len(net') = Len(net) =>
          /\ net'[Len(net)].phase = "sent" /\ net'[Len(net)].cookie = cookie'
          /\ ShowsApp(net[i]) => net'[Len(net)].mounted

LEMMA CookieAfterIs ==
  ASSUME Typed, NEW i \in 1..Len(net) PROVE CookieAfter(net[i]) \in 0..last
  BY TypedIs DEF CookieAfter

LEMMA LeftIs ==
  ASSUME net \in Seq(Requests), NEW i \in 1..Len(net), NEW rest \in Seq(Requests),
         rest = RemoveAt(net, i)
  PROVE  /\ net' = rest =>
               Keeps(i, Len(net) - 1) /\ Stays(i, Len(net) - 1) /\ Len(net') = Len(net) - 1
         /\ net' = Orphaned(rest) =>
               Keeps(i, Len(net) - 1) /\ Goes(Len(net) - 1) /\ Len(net') = Len(net) - 1
         /\ \A r \in Requests : net' = Append(rest, r) =>
               /\ Keeps(i, Len(net) - 1) /\ Stays(i, Len(net) - 1)
               /\ Len(net') = Len(net) /\ net'[Len(net)] = r
<1>0. Len(net) \in Nat /\ Len(net) > 0 /\ i \in Nat \ {0} /\ i <= Len(net)
  BY FlightIs
<1>1. /\ Len(rest) = Len(net) - 1
      /\ \A k \in 1..(Len(net) - 1) : rest[k] = net[From(i, k)]
  BY RemovalIs
<1>2. ASSUME net' = rest
      PROVE  Keeps(i, Len(net) - 1) /\ Stays(i, Len(net) - 1) /\ Len(net') = Len(net) - 1
  <2>1. Keeps(i, Len(net) - 1)
    BY <1>0, <1>1, <1>2 DEF Keeps, Like
  <2> QED
    BY <1>1, <1>2, <2>1 DEF Stays, Shows
<1>3. ASSUME net' = Orphaned(rest)
      PROVE  Keeps(i, Len(net) - 1) /\ Goes(Len(net) - 1) /\ Len(net') = Len(net) - 1
  <2>1. /\ net' \in Seq(Requests) /\ Len(net') = Len(net) - 1
        /\ \A k \in 1..(Len(net) - 1) : Like(net'[k], rest[k]) /\ ~net'[k].mounted
    BY <1>1, <1>3, OrphansAre
  <2>2. Keeps(i, Len(net) - 1)
    BY <1>0, <1>1, <2>1 DEF Keeps
  <2> QED
    BY <2>1, <2>2 DEF Goes
<1>4. ASSUME NEW r \in Requests, net' = Append(rest, r)
      PROVE  /\ Keeps(i, Len(net) - 1) /\ Stays(i, Len(net) - 1)
             /\ Len(net') = Len(net) /\ net'[Len(net)] = r
  <2>1. /\ net' \in Seq(Requests) /\ Len(net') = Len(net) /\ net'[Len(net)] = r
        /\ \A k \in 1..(Len(net) - 1) : net'[k] = rest[k]
    BY <1>0, <1>1, <1>4
  <2>2. Keeps(i, Len(net) - 1)
    BY <1>0, <1>1, <2>1 DEF Keeps, Like
  <2> QED
    BY <1>1, <2>1, <2>2 DEF Stays, Shows
<1> QED
  BY <1>2, <1>3, <1>4

LEMMA Arrivals == ASSUME Typed, NEW i, Receive(i) PROVE Arrival(i)
<1>0. /\ net \in Seq(Requests) /\ DOMAIN net = 1..Len(net) /\ last \in 1..MaxSessions
      /\ MaxSessions \in Nat /\ cookie \in 0..MaxSessions
      /\ Len(net) \in Nat
  BY TypedIs
<1>a. Len(net) \in Nat
  BY <1>0
<1>1. i \in 1..Len(net) /\ net[i].phase # "sent" /\ (overtaking \/ i = 1)
      /\ net[i] \in Requests /\ net[i].mounted \in BOOLEAN
  BY <1>0, FlightIs, RequestsAre DEF Receive
<1> PICK r, rest : r = net[i] /\ rest = RemoveAt(net, i)
  OBVIOUS
<1>2. rest \in Seq(Requests)
  BY <1>0, <1>1, RemovalIs
<1>3. cookie' \in 0..MaxSessions /\ cookie' = CookieAfter(r)
      /\ UNCHANGED <<view, stored, trouble, live, last, server, minted, mode>>
  BY <1>0, <1>1, CookieAfterIs DEF Receive, serverVars
<1>4. CASE ShowsLogin(r) /\ auth' = "login" /\ net' = Orphaned(rest) /\ Blank
  <2>1. Keeps(i, Len(net) - 1) /\ Goes(Len(net) - 1) /\ Len(net') = Len(net) - 1
    BY <1>0, <1>1, <1>2, <1>4, LeftIs
  <2>2. Len(net') # Len(net)
    BY <1>a, <2>1
  <2> QED
    BY <1>1, <1>3, <1>4, <2>1, <2>2 DEF Arrival, Ends
<1>5. CASE /\ ShowsApp(r) /\ auth' = "ready" /\ Blank
           /\ net' = Append(rest, [FirstRequest(view) EXCEPT !.cookie = cookie'])
  <2> PICK f : f = FirstRequest(view)
    OBVIOUS
  <2>1. f \in Requests /\ f.kind = (IF view = "overview" THEN "poll" ELSE "load")
        /\ f.phase = "sent" /\ f.mounted
    BY <1>0, FirstIs
  <2> PICK q : q = [f EXCEPT !.cookie = cookie']
    OBVIOUS
  <2>2. q \in Requests /\ q.kind = f.kind /\ q.phase = "sent" /\ q.mounted /\ q.cookie = cookie'
    BY <1>3, <2>1 DEF Requests
  <2>3. /\ Keeps(i, Len(net) - 1) /\ Stays(i, Len(net) - 1) /\ Len(net') = Len(net)
        /\ net'[Len(net)] = q
    <3>1. net' = Append(rest, q)
      BY <1>5
    <3>2. net \in Seq(Requests) /\ i \in 1..Len(net) /\ q \in Requests
      BY <1>0, <1>1, <2>2
    <3> QED
      BY <1>2, <3>1, <3>2, LeftIs
  <2> QED
    BY <1>1, <1>3, <1>5, <2>1, <2>2, <2>3 DEF Arrival, Begins
<1>6. CASE /\ ~ShowsLogin(r) /\ ~ShowsApp(r) /\ UNCHANGED auth
           /\ net' = (IF Reloads(r)
                      THEN Append(rest, [Request("load", {}) EXCEPT !.mounted = r.mounted])
                      ELSE rest)
           /\ IF r.mounted THEN PageGets(r) ELSE UNCHANGED pageVars
  <2>1. CASE ~Reloads(r)
    <3>1. Keeps(i, Len(net) - 1) /\ Stays(i, Len(net) - 1) /\ Len(net') = Len(net) - 1
      BY <1>0, <1>1, <1>2, <1>6, <2>1, LeftIs
    <3>2. Len(net') # Len(net)
      BY <1>a, <3>1
    <3> QED
      BY <1>1, <1>3, <1>6, <2>1, <3>1, <3>2 DEF Arrival, GoesOn
  <2>2. CASE Reloads(r)
    <3> PICK f : f = Request("load", {})
      OBVIOUS
    <3>1. f \in Requests /\ f.kind = "load" /\ f.phase = "sent" /\ f.cookie = cookie
      BY <1>0, RequestIs DEF Kinds
    <3> PICK q : q = [f EXCEPT !.mounted = r.mounted]
      OBVIOUS
    <3>2. q \in Requests /\ q.kind = "load" /\ q.phase = "sent" /\ q.cookie = cookie
          /\ q.mounted = r.mounted
      BY <1>1, <3>1 DEF Requests
    <3>3. cookie' = cookie
      BY <1>3, <2>2 DEF CookieAfter, Reloads
    <3>4. /\ Keeps(i, Len(net) - 1) /\ Stays(i, Len(net) - 1) /\ Len(net') = Len(net)
          /\ net'[Len(net)] = q
      BY <1>0, <1>1, <1>2, <1>6, <2>2, <3>2, LeftIs, ZenonT(40)
    <3> QED
      BY <1>1, <1>3, <1>6, <2>2, <3>2, <3>3, <3>4 DEF Arrival, GoesOn
  <2> QED
    BY <2>1, <2>2
<1> QED
  BY <1>4, <1>5, <1>6 DEF Receive

-----------------------------------------------------------------------------
(***************************************************************************)
(* A request is answered.                                                  *)
(***************************************************************************)
LEMMA UpdateIs ==
  ASSUME net \in Seq(Requests), NEW i \in 1..Len(net), NEW q \in Requests,
         q.kind = net[i].kind, q.mounted = net[i].mounted,
         net' = [net EXCEPT ![i] = q]
  PROVE  Answers(i, q.phase) /\ net'[i] = q
<1>1. /\ Len(net) \in Nat /\ DOMAIN net = 1..Len(net)
      /\ \A k \in 1..Len(net) : net[k] \in Requests
  BY FlightIs
<1>2. net' \in Seq(Requests) /\ Len(net') = Len(net)
  BY <1>1
<1>3. net'[i] = q /\ \A k \in 1..Len(net) : k # i => net'[k] = net[k]
  BY <1>1
<1> QED
  BY <1>2, <1>3 DEF Answers

LEMMA AnswerIs ==
  ASSUME net \in Seq(Requests), NEW i \in 1..Len(net),
         NEW phase \in {"sent", "ok", "401", "error"}, Answer(i, phase), MaxSessions \in Nat
  PROVE  Answers(i, phase) /\ net'[i].cookie = 0 /\ net'[i].ids = net[i].ids
<1> PICK r, q : r = net[i] /\ q = [r EXCEPT !.phase = phase, !.cookie = 0]
  OBVIOUS
<1>1. r \in Requests /\ 0 \in 0..MaxSessions
  BY FlightIs
<1>2. /\ q \in Requests /\ q.kind = r.kind /\ q.mounted = r.mounted
      /\ q.phase = phase /\ q.cookie = 0 /\ q.ids = r.ids
  BY <1>1 DEF Requests
<1>3. net' = [net EXCEPT ![i] = q]
  BY FlightIs DEF Answer
<1>4. q \in Requests /\ q.kind = net[i].kind /\ q.mounted = net[i].mounted
  BY <1>2
<1>5. Answers(i, q.phase) /\ net'[i] = q
  BY <1>3, <1>4, UpdateIs
<1> QED
  BY <1>2, <1>5

Service(i) ==
    /\ i \in 1..Len(net) /\ net[i].phase = "sent" /\ InTurn(i)
    /\ UNCHANGED <<auth, view, cookie, stored, trouble, mode>> /\ UNCHANGED pageVars
    /\ \/ /\ net[i].kind = "login" /\ Answers(i, "ok")
          /\ last' = last + 1 /\ live' = live \cup {last + 1}
          /\ net'[i].cookie = last + 1 /\ UNCHANGED <<server, minted>>
       \/ /\ net[i].kind = "logout" /\ Answers(i, "ok") /\ net'[i].cookie = 0
          /\ live' = live \ {net[i].cookie} /\ UNCHANGED <<last, server, minted>>
       \/ /\ net[i].kind = "login" /\ Answers(i, "401") /\ net'[i].cookie = 0
          /\ UNCHANGED <<live, last, server, minted>>
       \/ /\ net[i].kind \in {"check", "poll", "load"} /\ net[i].cookie \in live
          /\ Answers(i, "ok") /\ net'[i].cookie = 0
          /\ Loads(i, "ok")' => net'[i].list = server
          /\ UNCHANGED <<live, last, server, minted>>
       \/ /\ net[i].kind \in Changes /\ net[i].cookie \in live
          /\ Answers(i, "ok") /\ net'[i].cookie = 0 /\ UNCHANGED <<live, last>>
          /\ server' \in [Creds -> Statuses]
          /\ net[i].kind # "issue" => UNCHANGED minted
          /\ net[i].kind = "issue" =>
                \E c \in Creds \ minted : minted' = minted \cup {c} /\ net'[i].ids = {c}
       \/ /\ net[i].kind = "issue" /\ net[i].cookie \in live
          /\ Answers(i, "error") /\ net'[i].cookie = 0 /\ net'[i].ids = net[i].ids
          /\ UNCHANGED <<live, last, server, minted>>
       \/ /\ net[i].kind \notin {"login", "logout"} /\ net[i].cookie \notin live
          /\ Answers(i, "401") /\ net'[i].cookie = 0 /\ net'[i].ids = net[i].ids
          /\ UNCHANGED <<live, last, server, minted>>

LEMMA Services == ASSUME Typed, NEW i, Serve(i) PROVE Service(i)
<1>0. /\ net \in Seq(Requests) /\ DOMAIN net = 1..Len(net) /\ last \in 1..MaxSessions
      /\ MaxSessions \in Nat /\ \A k \in 1..Len(net) : net[k] \in Requests
      /\ server \in [Creds -> Statuses]
  BY TypedIs DEF Typed, ConsoleTypeOK, Statuses
<1>1. /\ i \in 1..Len(net) /\ net[i].phase = "sent" /\ InTurn(i) /\ net[i] \in Requests
      /\ UNCHANGED <<auth, view, cookie, stored, trouble, mode>> /\ UNCHANGED pageVars
      /\ net[i].kind \in Kinds
  BY <1>0, RequestsAre DEF Serve
<1>a. \A phase \in {"sent", "ok", "401", "error"} : Answer(i, phase) =>
         Answers(i, phase) /\ net'[i].cookie = 0 /\ net'[i].ids = net[i].ids
  BY <1>0, <1>1, AnswerIs
<1> PICK r : r = net[i]
  OBVIOUS
<1>2. CASE ServeSession(i) /\ UNCHANGED <<server, minted>>
  <2>1. CASE /\ r.kind = "login" /\ last' = last + 1 /\ live' = live \cup {last + 1}
             /\ net' = [net EXCEPT ![i].phase = "ok", ![i].cookie = last + 1]
    <3>1. last + 1 \in 0..MaxSessions
      <4>1. last < MaxSessions
        BY <1>0, <1>1, <2>1 DEF Typed, OneLogin
      <4> QED
        BY <1>0, <4>1
    <3> PICK n, q : n = last + 1 /\ q = [r EXCEPT !.phase = "ok", !.cookie = n]
      OBVIOUS
    <3>2. q \in Requests /\ q.phase = "ok" /\ q.cookie = n
          /\ q.kind = r.kind /\ q.mounted = r.mounted
      BY <1>1, <3>1 DEF Requests
    <3>3. net' = [net EXCEPT ![i] = q]
      BY <1>0, <1>1, <2>1
    <3>4. q.kind = net[i].kind /\ q.mounted = net[i].mounted
      BY <3>2
    <3>5. Answers(i, q.phase) /\ net'[i] = q
      BY <1>0, <1>1, <3>2, <3>3, <3>4, UpdateIs
    <3> QED
      BY <1>1, <1>2, <2>1, <3>2, <3>5 DEF Service
  <2>2. CASE r.kind = "login" /\ Answer(i, "401") /\ UNCHANGED <<last, live>>
    BY <1>1, <1>a, <1>2, <2>2 DEF Service
  <2>3. CASE r.kind = "logout" /\ live' = live \ {r.cookie} /\ Answer(i, "ok")
             /\ UNCHANGED last
    BY <1>1, <1>a, <1>2, <2>3 DEF Service
  <2> QED
    BY <1>2, <2>1, <2>2, <2>3 DEF ServeSession
<1>3. CASE ServeRead(i) /\ UNCHANGED serverVars
  <2> PICK l : l = (IF r.kind = "load" /\ r.mounted THEN server ELSE r.list)
    OBVIOUS
  <2>0. l \in [Creds -> Statuses] \cup {Nothing} /\ 0 \in 0..MaxSessions
    BY <1>0, <1>1, RequestsAre
  <2> PICK q : q = [r EXCEPT !.phase = "ok", !.cookie = 0, !.list = l]
    OBVIOUS
  <2>1. q \in Requests /\ q.phase = "ok" /\ q.cookie = 0 /\ q.list = l
        /\ q.kind = r.kind /\ q.mounted = r.mounted
    BY <1>1, <2>0 DEF Requests
  <2>2. net' = [net EXCEPT ![i] = q]
    BY <1>0, <1>1, <1>3 DEF ServeRead
  <2>3. q.kind = net[i].kind /\ q.mounted = net[i].mounted
    BY <2>1
  <2>4. Answers(i, q.phase) /\ net'[i] = q
    BY <1>0, <1>1, <2>1, <2>2, <2>3, UpdateIs
  <2>5. Loads(i, "ok")' => net'[i].list = server
    BY <2>1, <2>4 DEF Loads
  <2> QED
    BY <1>1, <1>3, <2>1, <2>4, <2>5 DEF Service, ServeRead, serverVars
<1>4. CASE ServeChange(i) /\ UNCHANGED <<live, last>>
  <2>1. CASE r.kind \in {"revoke", "purge"}
    <3>1. server' \in [Creds -> Statuses] /\ UNCHANGED minted /\ Answer(i, "ok")
          /\ r.cookie \in live
      BY <1>0, <1>4, <2>1 DEF ServeChange, Statuses
    <3> QED
      BY <1>1, <1>a, <1>4, <2>1, <3>1 DEF Service, Changes
  <2>2. ASSUME r.kind = "issue", NEW c \in Unissued,
               server' = [server EXCEPT ![c] = "active"], minted' = minted \cup {c},
               net' = [net EXCEPT ![i].phase = "ok", ![i].cookie = 0, ![i].ids = {c}]
        PROVE  Service(i)
    <3>0. {c} \in SUBSET Creds /\ c \in Creds \ minted /\ 0 \in 0..MaxSessions
      BY <1>0 DEF Unissued
    <3> PICK q : q = [r EXCEPT !.phase = "ok", !.cookie = 0, !.ids = {c}]
      OBVIOUS
    <3>1. q \in Requests /\ q.phase = "ok" /\ q.cookie = 0 /\ q.ids = {c}
          /\ q.kind = r.kind /\ q.mounted = r.mounted
      BY <1>1, <3>0 DEF Requests
    <3>2. net' = [net EXCEPT ![i] = q]
      BY <1>0, <1>1, <2>2
    <3>3. q.kind = net[i].kind /\ q.mounted = net[i].mounted
      BY <3>1
    <3>4. Answers(i, q.phase) /\ net'[i] = q
      BY <1>0, <1>1, <3>1, <3>2, <3>3, UpdateIs
    <3>5. server' \in [Creds -> Statuses] /\ r.cookie \in live
      BY <1>0, <1>4, <2>2 DEF Statuses, ServeChange
    <3>6. minted' = minted \cup {c} /\ net'[i].ids = {c}
      BY <2>2, <3>1, <3>4
    <3> QED
      BY <1>1, <1>4, <2>2, <3>0, <3>1, <3>4, <3>5, <3>6 DEF Service, Changes
  <2>3. CASE r.kind = "issue" /\ Answer(i, "error") /\ UNCHANGED <<server, minted>>
    <3>1. r.cookie \in live
      BY <1>4 DEF ServeChange
    <3> QED
      BY <1>1, <1>a, <1>4, <2>3, <3>1 DEF Service
  <2> QED
    BY <1>4, <2>1, <2>2, <2>3 DEF ServeChange
<1>5. CASE /\ r.kind \notin {"login", "logout"} /\ r.cookie \notin live
           /\ Answer(i, "401") /\ UNCHANGED serverVars
  BY <1>1, <1>a, <1>5 DEF Service, serverVars
<1> QED
  BY <1>2, <1>3, <1>4, <1>5 DEF Serve

-----------------------------------------------------------------------------
(***************************************************************************)
(* Types, sessions and tokens, however the network and the admin behave.   *)
(***************************************************************************)
\* The connection fails.
Fails(i) ==
    /\ i \in 1..Len(net) /\ Answers(i, "error") /\ net'[i].cookie = 0
    /\ UNCHANGED <<auth, view, cookie, stored, live, last, server, minted, mode>>
    /\ UNCHANGED pageVars /\ "network" \in trouble'

LEMMA NextIs ==
  ASSUME Typed, [Next]_vars
  PROVE  \/ PageAction
         \/ \E i : Service(i)
         \/ \E i : Arrival(i)
         \/ \E i : Fails(i)
<1>0. net \in Seq(Requests) /\ DOMAIN net = 1..Len(net) /\ MaxSessions \in Nat
  BY TypedIs
<1>1. CASE NetworkError
  <2> PICK i \in DOMAIN net : Answer(i, "error")
    BY <1>1 DEF NetworkError
  <2>1. Answers(i, "error") /\ net'[i].cookie = 0
    BY <1>0, AnswerIs
  <2>2. /\ UNCHANGED <<auth, view, cookie, stored, live, last, server, minted, mode>>
        /\ UNCHANGED pageVars /\ "network" \in trouble'
    BY <1>1 DEF NetworkError, serverVars
  <2> QED
    BY <1>0, <2>1, <2>2 DEF Fails
<1>2. CASE \E i \in 1..MaxFlight : Serve(i) \/ Receive(i)
  BY <1>2, Services, Arrivals
<1> QED
  BY <1>1, <1>2 DEF Next, PageAction

PageKept ==
    /\ view' \in {"overview", "credentials"} /\ server' \in [Creds -> Statuses]
    /\ list' \in [Creds -> Statuses] \cup {Nothing}
    /\ selected' \subseteq Creds /\ visible' \subseteq Creds
    /\ dialog' \in Dialogs /\ token' \in {token, None}
    /\ stored' \subseteq minted
    /\ auth # "ready" => token' = token /\ dialog' = dialog

LEMMA BlankIs ==
  ASSUME Blank
  PROVE  /\ list' \in [Creds -> Statuses] \cup {Nothing}
         /\ selected' \subseteq Creds /\ visible' \subseteq Creds
         /\ dialog' \in Dialogs /\ token' = None /\ dialog' = NoDialog
  BY DEF Blank, Dialogs, NoDialog

LEMMA AskedIs ==
  ASSUME NEW k \in Changes, NEW ids \in SUBSET Creds, Ask(k, ids)
  PROVE  dialog' \in Dialogs
  BY DEF Ask, Dialogs

LEMMA PageKeeps == ASSUME Typed, PageAction PROVE PageKept
<1>0. /\ view \in {"overview", "credentials"} /\ server \in [Creds -> Statuses]
      /\ list \in [Creds -> Statuses] \cup {Nothing}
      /\ selected \subseteq Creds /\ visible \subseteq Creds
      /\ dialog \in Dialogs /\ stored \subseteq minted
      /\ token # None => token \in minted
  BY DEF Typed, ConsoleTypeOK, Statuses, TokensMinted
<1>1. CASE Login \/ Logout \/ Poll \/ Refresh \/ SessionEnds \/ UNCHANGED vars
  <2>1. UNCHANGED <<view, server, list, selected, visible, dialog, token, stored>>
    BY <1>1 DEF Login, Logout, Poll, Refresh, Free, OnPage, SessionEnds, vars, pageVars,
                serverVars
  <2> QED
    BY <1>0, <2>1 DEF PageKept
<1>2. CASE Navigate
  <2>1. /\ auth = "ready" /\ Blank /\ view' \in {"overview", "credentials"}
        /\ UNCHANGED <<stored, server>>
    BY <1>2 DEF Navigate, serverVars
  <2> QED
    BY <1>0, <2>1, BlankIs DEF PageKept
<1>3. CASE Filter
  <2>1. visible' \subseteq Creds
        /\ UNCHANGED <<view, server, list, selected, dialog, token, stored>>
    BY <1>3, ConsoleAssumption DEF Filter, serverVars
  <2> QED
    BY <1>0, <2>1 DEF PageKept
<1>4. CASE Toggle
  <2>1. selected' \subseteq Creds
        /\ UNCHANGED <<view, server, list, visible, dialog, token, stored>>
    BY <1>0, <1>4 DEF Toggle, Selectable, serverVars
  <2> QED
    BY <1>0, <2>1 DEF PageKept
<1>5. CASE OpenDialog
  <2>1. auth = "ready"
        /\ UNCHANGED <<view, server, list, selected, visible, token, stored>>
    BY <1>5 DEF OpenDialog, Free, OnPage, serverVars
  <2>2. \E k \in Changes, ids \in SUBSET Creds : Ask(k, ids)
    <3>1. SelectedRows \subseteq Creds /\ Selectable \subseteq Creds
      BY <1>0 DEF SelectedRows, Selectable
    <3>2. CASE SelectedRows # {} /\ Ask("revoke", SelectedRows)
      BY <3>1, <3>2 DEF Changes
    <3>3. ASSUME NEW c \in Selectable, Ask("revoke", {c})
          PROVE  \E k \in Changes, ids \in SUBSET Creds : Ask(k, ids)
      BY <3>1, <3>3 DEF Changes
    <3>4. ASSUME NEW c \in visible, Ask("purge", {c})
          PROVE  \E k \in Changes, ids \in SUBSET Creds : Ask(k, ids)
      BY <1>0, <3>4 DEF Changes
    <3>5. CASE Ask("purge", {c \in Creds : list[c] = "revoked"})
      BY <3>5 DEF Changes
    <3>6. CASE Ask("issue", {})
      BY <3>6 DEF Changes
    <3> QED
      BY <1>5, <3>2, <3>3, <3>4, <3>5, <3>6 DEF OpenDialog
  <2> QED
    BY <1>0, <2>1, <2>2, AskedIs DEF PageKept
<1>6. CASE Confirm
  <2>1. auth = "ready" /\ dialog' = [dialog EXCEPT !.busy = TRUE]
        /\ UNCHANGED <<view, server, list, selected, visible, token, stored>>
    BY <1>6 DEF Confirm, OnPage, serverVars
  <2>2. dialog' \in Dialogs
    BY <1>0, <2>1 DEF Dialogs
  <2> QED
    BY <1>0, <2>1, <2>2 DEF PageKept
<1>7. CASE Cancel
  <2>1. auth = "ready" /\ dialog' = NoDialog
        /\ UNCHANGED <<view, server, list, selected, visible, token, stored>>
    BY <1>7 DEF Cancel, OnPage, serverVars
  <2>2. dialog' \in Dialogs
    BY <2>1 DEF Dialogs, NoDialog
  <2> QED
    BY <1>0, <2>1, <2>2 DEF PageKept
<1>8. CASE Dismiss
  <2>1. auth = "ready" /\ token # None /\ token' = None /\ stored' = stored \cup {token}
        /\ UNCHANGED <<view, server, list, selected, visible, dialog>>
    BY <1>8 DEF Dismiss, OnPage, serverVars
  <2> QED
    BY <1>0, <2>1 DEF PageKept
<1>9. CASE Elsewhere
  <2>1. /\ server' \in [Creds -> Statuses]
        /\ UNCHANGED <<view, list, selected, visible, dialog, token, stored>>
    BY <1>0, <1>9 DEF Elsewhere, Statuses, pageVars
  <2> QED
    BY <1>0, <2>1 DEF PageKept
<1> QED
  BY <1>1, <1>2, <1>3, <1>4, <1>5, <1>6, <1>7, <1>8, <1>9 DEF PageAction

\* The requests that stay keep their order.
LEMMA FromIs ==
  ASSUME net \in Seq(Requests), NEW i, NEW n, Keeps(i, n)
  PROVE  /\ n \in Nat /\ Len(net') \in {n, n + 1} /\ DOMAIN net' = 1..Len(net')
         /\ net' \in Seq(Requests)
         /\ \A k \in DOMAIN net' : k \in 1..n \/ (Len(net') = n + 1 /\ k = n + 1)
         /\ \A k \in 1..n : /\ From(i, k) \in 1..Len(net) /\ From(i, k) # i
                            /\ Like(net'[k], net[From(i, k)])
         /\ \A j, k \in 1..n : j < k <=> From(i, j) < From(i, k)
         /\ \A j, k \in 1..n : From(i, j) = From(i, k) => j = k
         /\ \A k \in 1..Len(net) : k # i => \E j \in 1..n : From(i, j) = k
<1>1. /\ n \in Nat /\ i \in Nat \ {0} /\ i <= Len(net) + 1
      /\ n = (IF i <= Len(net) THEN Len(net) - 1 ELSE Len(net))
      /\ Len(net') \in {n, n + 1} /\ net' \in Seq(Requests)
      /\ \A k \in 1..n : Like(net'[k], net[From(i, k)])
  BY DEF Keeps
<1>2. Len(net) \in Nat
  BY FlightIs
<1>3. \A k \in 1..n : From(i, k) \in 1..Len(net) /\ From(i, k) # i
  BY <1>1, <1>2 DEF From
<1>4. /\ \A j, k \in 1..n : j < k <=> From(i, j) < From(i, k)
      /\ \A j, k \in 1..n : From(i, j) = From(i, k) => j = k
  BY <1>1 DEF From
<1>5. ASSUME NEW k \in 1..Len(net), k # i PROVE \E j \in 1..n : From(i, j) = k
  <2>1. CASE k < i
    <3>1. k \in 1..n /\ From(i, k) = k
      BY <1>1, <1>2, <2>1 DEF From
    <3> QED
      BY <3>1
  <2>2. CASE ~(k < i)
    <3>1. k - 1 \in 1..n /\ From(i, k - 1) = k
      BY <1>1, <1>2, <1>5, <2>2 DEF From
    <3> QED
      BY <3>1
  <2> QED
    BY <2>1, <2>2
<1>6. \A m \in {n, n + 1} : \A k \in 1..m : k \in 1..n \/ (m = n + 1 /\ k = n + 1)
  <2>1. n \in Nat
    BY <1>1
  <2> QED
    BY <2>1
<1>7. DOMAIN net' = 1..Len(net')
  BY <1>1
<1>8. \A k \in DOMAIN net' : k \in 1..n \/ (Len(net') = n + 1 /\ k = n + 1)
  <2>1. Len(net') \in {n, n + 1}
    BY <1>1
  <2>2. \A k \in 1..Len(net') : k \in 1..n \/ (Len(net') = n + 1 /\ k = n + 1)
    BY <1>6, <2>1
  <2> QED
    BY <1>7, <2>2
<1> QED
  BY <1>1, <1>3, <1>4, <1>5, <1>7, <1>8

\* What is left of the requests: at k is the one that was at From(i, k).
LEMMA SameIs ==
  ASSUME Typed, NEW i, NEW n, Keeps(i, n)
  PROVE  /\ n \in Nat /\ DOMAIN net = 1..Len(net)
         /\ Len(net') = n \/ Len(net') = n + 1
         /\ \A k \in DOMAIN net' : k \in 1..n \/ (Len(net') = n + 1 /\ k = n + 1)
         /\ \A k \in 1..n :
               /\ From(i, k) \in DOMAIN net /\ From(i, k) # i
               /\ net'[k].kind = net[From(i, k)].kind
               /\ net'[k].phase = net[From(i, k)].phase
               /\ net'[k].cookie = net[From(i, k)].cookie
               /\ net'[k].ids = net[From(i, k)].ids
         /\ \A j, k \in 1..n : From(i, j) = From(i, k) => j = k
         /\ \A k \in DOMAIN net : k # i => \E j \in 1..n : From(i, j) = k
<1>1. net \in Seq(Requests) /\ DOMAIN net = 1..Len(net)
  BY TypedIs
<1> QED
  BY <1>1, FromIs DEF Like

LEMMA KeptSessions ==
  ASSUME Typed, NEW i, NEW n, Keeps(i, n), cookie' \in 0..last, live' \subseteq live,
         last' = last, Len(net') = n + 1 => net'[n + 1].cookie \in 0..last
  PROVE  SessionsKnown'
<1>1. live \subseteq 1..last /\ \A k \in DOMAIN net : net[k].cookie \in 0..last
  BY DEF Typed, SessionsKnown
<1>2. /\ \A k \in DOMAIN net' : k \in 1..n \/ (Len(net') = n + 1 /\ k = n + 1)
      /\ \A k \in 1..n : net'[k].cookie \in 0..last
  <2>1. \A k \in DOMAIN net' : k \in 1..n \/ (Len(net') = n + 1 /\ k = n + 1)
    BY SameIs
  <2>2. \A k \in 1..n : From(i, k) \in DOMAIN net /\ net'[k].cookie = net[From(i, k)].cookie
    BY SameIs
  <2> QED
    BY <1>1, <2>1, <2>2
<1>3. \A k \in DOMAIN net' : net'[k].cookie \in 0..last'
  BY <1>2
<1> QED
  BY <1>1, <1>3 DEF SessionsKnown

LEMMA KeptLogin ==
  ASSUME Typed, NEW i, NEW n, Keeps(i, n), last' = last,
         Len(net') = n + 1 =>
            \/ net'[n + 1].kind # "login"
            \/ last < MaxSessions /\ ~InFlight({"login"})
  PROVE  OneLogin'
<1>0. OneLogin
  BY DEF Typed
<1>1. /\ \A k \in 1..n : /\ From(i, k) \in DOMAIN net
                         /\ net'[k].kind = net[From(i, k)].kind
                         /\ net'[k].phase = net[From(i, k)].phase
      /\ \A j, k \in 1..n : From(i, j) = From(i, k) => j = k
      /\ \A k \in DOMAIN net' : k \in 1..n \/ (Len(net') = n + 1 /\ k = n + 1)
  BY SameIs
<1>2. ASSUME NEW j \in 1..n, NEW k \in 1..n, net'[j].kind = "login", net'[k].kind = "login"
      PROVE  j = k /\ (net'[j].phase = "sent" => last < MaxSessions)
  BY <1>0, <1>1, <1>2 DEF OneLogin
<1>3. ASSUME Len(net') = n + 1, net'[n + 1].kind = "login"
      PROVE  last < MaxSessions /\ \A k \in 1..n : net'[k].kind # "login"
  BY <1>0, <1>1, <1>3 DEF InFlight
<1>4. \A k \in DOMAIN net' : k \in 1..n \/ (Len(net') = n + 1 /\ k = n + 1)
  BY <1>1
<1> QED
  BY <1>2, <1>3, <1>4 DEF OneLogin

\* An answer changes the phase of one request.
LEMMA AnsweredIs ==
  ASSUME net \in Seq(Requests), NEW i \in 1..Len(net), NEW p, Answers(i, p)
  PROVE  /\ net' \in Seq(Requests) /\ Len(net') = Len(net) /\ DOMAIN net' = 1..Len(net)
         /\ \A k \in 1..Len(net) :
               /\ net'[k].kind = net[k].kind /\ net'[k].mounted = net[k].mounted
               /\ k # i => net'[k] = net[k]
         /\ net'[i].phase = p
  BY FlightIs DEF Answers

LEMMA KeptTokens ==
  ASSUME Typed, NEW i, NEW n, Keeps(i, n), minted' = minted, token' # None => token' \in minted,
         Len(net') = n + 1 => net'[n + 1].phase = "sent"
  PROVE  TokensMinted'
<1>0. TokensMinted
  BY DEF Typed
<1>1. /\ \A k \in 1..n : /\ From(i, k) \in DOMAIN net
                         /\ Like(net'[k], net[From(i, k)])
      /\ \A k \in DOMAIN net' : k \in 1..n \/ (Len(net') = n + 1 /\ k = n + 1)
  BY SameIs DEF Like
<1>2. ASSUME NEW k \in DOMAIN net', net'[k].kind = "issue", net'[k].phase = "ok"
      PROVE  \E c \in minted : net'[k].ids = {c}
  <2>1. k \in 1..n
    BY <1>1, <1>2
  <2> PICK j : j = From(i, k)
    OBVIOUS
  <2>2. j \in DOMAIN net /\ net[j].kind = "issue" /\ net[j].phase = "ok"
        /\ net'[k].ids = net[j].ids
    BY <1>0, <1>1, <1>2, <2>1 DEF Like
  <2> QED
    BY <1>0, <2>2 DEF TokensMinted
<1> QED
  BY <1>0, <1>2 DEF TokensMinted

LEMMA PageTyped == ASSUME Typed, PageAction PROVE Typed'
<1>0. /\ PageStep /\ PageKept
      /\ live \subseteq 1..last /\ cookie \in 0..last /\ Len(net) \in Nat
  BY PageSteps, PageKeeps, TypedIs
<1> PICK n : n = Len(net)
  OBVIOUS
<1>1. /\ Keeps(n + 1, n) /\ Len(net') <= MaxFlight
      /\ Stays(n + 1, n) \/ Goes(n)
      /\ UNCHANGED <<auth, cookie, last, mode, minted>> /\ live' \in {live, {}}
      /\ Len(net') = n + 1 =>
            LET r == net'[n + 1]
            IN  /\ r.phase = "sent" /\ r.cookie = cookie /\ r.mounted /\ r.kind # "check"
                /\ r.kind = "login" =>
                      auth = "login" /\ last < MaxSessions /\ ~InFlight({"login"})
                /\ r.kind # "login" => auth = "ready"
  BY <1>0 DEF PageStep
<1>2. /\ Len(net') = n \/ Len(net') = n + 1
      /\ \A k \in DOMAIN net' : k \in 1..n \/ (Len(net') = n + 1 /\ k = n + 1)
      /\ \A k \in 1..n : k \in DOMAIN net /\ From(n + 1, k) = k /\ Like(net'[k], net[k])
  <2>0. n \in Nat
    BY <1>0
  <2>1. /\ Len(net') = n \/ Len(net') = n + 1
        /\ \A k \in DOMAIN net' : k \in 1..n \/ (Len(net') = n + 1 /\ k = n + 1)
        /\ \A k \in 1..n : From(n + 1, k) \in DOMAIN net /\ Like(net'[k], net[From(n + 1, k)])
    BY <1>1, SameIs DEF Like
  <2>2. \A k \in 1..n : From(n + 1, k) = k
    BY <2>0 DEF From
  <2> QED
    BY <2>1, <2>2
<1>3. ConsoleTypeOK'
  <2>1. /\ auth \in {"checking", "login", "ready"} /\ cookie \in 0..MaxSessions
        /\ live \subseteq 1..MaxSessions /\ last \in 1..MaxSessions
        /\ token \in Creds \cup {None} /\ stored \subseteq minted
    BY DEF Typed, ConsoleTypeOK
  <2>2. /\ auth' \in {"checking", "login", "ready"} /\ cookie' \in 0..MaxSessions
        /\ live' \subseteq 1..MaxSessions /\ last' \in 1..MaxSessions
        /\ token' \in Creds \cup {None} /\ stored' \subseteq minted'
    BY <1>0, <1>1, <2>1 DEF PageKept
  <2> QED
    BY <1>0, <1>1, <2>2 DEF PageKept, ConsoleTypeOK, Statuses, Nothing
<1>4. net' \in Seq(Requests) /\ dialog' \in Dialogs
  BY <1>0, <1>1 DEF PageKept, Keeps
<1>5. SessionsKnown'
  <2>1. live' \subseteq live /\ cookie' \in 0..last
        /\ (Len(net') = n + 1 => net'[n + 1].cookie \in 0..last)
    BY <1>0, <1>1
  <2> QED
    BY <1>1, <2>1, KeptSessions
<1>6. OneLogin'
  BY <1>1, KeptLogin
<1>7. CheckAlone'
  <2>1. CheckAlone
    BY DEF Typed
  <2>2. \A k \in DOMAIN net' : net'[k].kind = "check" => auth' = "checking"
    <3> SUFFICES ASSUME NEW k \in DOMAIN net', net'[k].kind = "check" PROVE auth = "checking"
      BY <1>1
    <3>1. k \in 1..n
      BY <1>1, <1>2
    <3> QED
      BY <1>0, <1>2, <2>1, <3>1 DEF Like, CheckAlone
  <2>3. ASSUME auth' = "checking" PROVE Len(net') = 1 /\ net'[1].kind = "check"
    <3>1. n = 1 /\ net[1].kind = "check" /\ Len(net') # n + 1
      BY <1>1, <2>1, <2>3 DEF CheckAlone
    <3>2. Len(net') = 1
      BY <1>2, <3>1
    <3> QED
      BY <1>2, <3>1, <3>2 DEF Like
  <2> QED
    BY <2>2, <2>3 DEF CheckAlone
<1>8. AppOnly'
  <2> SUFFICES ASSUME auth # "ready"
               PROVE  /\ token' = None /\ dialog' = NoDialog
                      /\ \A k \in DOMAIN net' : net'[k].mounted =>
                            net'[k].kind \in {"login", "check"}
    BY <1>1 DEF AppOnly
  <2>1. AppOnly
    BY DEF Typed
  <2>2. token' = None /\ dialog' = NoDialog
    BY <1>0, <2>1 DEF AppOnly, PageKept
  <2>3. ASSUME NEW k \in DOMAIN net', net'[k].mounted PROVE net'[k].kind \in {"login", "check"}
    <3>1. CASE k \in 1..n
      <4>1. net[k].mounted /\ net'[k].kind = net[k].kind
        BY <1>1, <1>2, <2>3, <3>1 DEF Stays, Goes, Shows, Like
      <4> QED
        BY <1>0, <2>1, <3>1, <4>1 DEF AppOnly
    <3>2. CASE k \notin 1..n
      <4>1. Len(net') = n + 1 /\ k = n + 1
        BY <1>2, <3>2
      <4> QED
        BY <1>1, <4>1
    <3> QED
      BY <3>1, <3>2
  <2> QED
    BY <2>2, <2>3
<1>9. TokensMinted'
  <2>1. token # None => token \in minted
    BY DEF Typed, TokensMinted
  <2>2. token' # None => token' \in minted
    BY <1>0, <2>1 DEF PageKept
  <2> QED
    BY <1>1, <2>2, KeptTokens
<1> QED
  BY <1>3, <1>4, <1>5, <1>6, <1>7, <1>8, <1>9 DEF Typed

\* What an answer leaves alone, and that it keeps the types.
LEMMA AnsweredTyped ==
  ASSUME Typed, NEW i \in 1..Len(net), NEW p, Answers(i, p),
         UNCHANGED <<auth, view, cookie, stored, mode>>, UNCHANGED pageVars,
         last' \in last..MaxSessions, live' \subseteq live \cup {last'},
         server' \in [Creds -> Statuses],
         net'[i].cookie \in 0..last',
         net[i].kind = "login" => p # "sent",
         last' # last => net[i].kind = "login", minted \subseteq minted'
  PROVE  /\ ConsoleTypeOK' /\ net' \in Seq(Requests) /\ dialog' \in Dialogs
         /\ SessionsKnown' /\ OneLogin' /\ CheckAlone' /\ AppOnly'
<1>0. /\ net \in Seq(Requests) /\ dialog \in Dialogs /\ DOMAIN net = 1..Len(net)
      /\ last \in 1..MaxSessions /\ MaxSessions \in Nat /\ live \subseteq 1..last
      /\ cookie \in 0..last /\ \A k \in 1..Len(net) : net[k].cookie \in 0..last
      /\ Len(net) <= MaxFlight
  BY TypedIs
<1>1. /\ net' \in Seq(Requests) /\ Len(net') = Len(net) /\ DOMAIN net' = 1..Len(net)
      /\ \A k \in 1..Len(net) :
            /\ net'[k].kind = net[k].kind /\ net'[k].mounted = net[k].mounted
            /\ k # i => net'[k] = net[k]
      /\ net'[i].phase = p
  BY <1>0, AnsweredIs
<1>2. last' \in 1..MaxSessions /\ live' \subseteq 1..last' /\ cookie' \in 0..last'
      /\ \A x \in 0..last : x \in 0..last'
  BY <1>0
<1>3. ConsoleTypeOK'
  <2>1. /\ live' \subseteq 1..MaxSessions /\ cookie' \in 0..MaxSessions
    BY <1>0, <1>2
  <2> QED
    BY <1>0, <1>1, <1>2, <2>1 DEF Typed, ConsoleTypeOK, pageVars, Statuses, Nothing
<1>4. dialog' \in Dialogs
  BY <1>0 DEF pageVars
<1>5. SessionsKnown'
  <2>1. \A k \in 1..Len(net) : net'[k].cookie \in 0..last'
    BY <1>0, <1>1, <1>2
  <2> QED
    BY <1>1, <1>2, <2>1 DEF SessionsKnown
<1>6. OneLogin'
  <2>1. OneLogin
    BY DEF Typed
  <2>2. \A j, k \in DOMAIN net' : net'[j].kind = "login" /\ net'[k].kind = "login" => j = k
    BY <1>0, <1>1, <2>1 DEF OneLogin
  <2>3. ASSUME NEW k \in DOMAIN net', net'[k].kind = "login", net'[k].phase = "sent"
        PROVE  last' < MaxSessions
    <3>1. k # i
      BY <1>1, <2>3
    <3>2. net[k].kind = "login" /\ net[k].phase = "sent" /\ k \in DOMAIN net
      BY <1>0, <1>1, <2>3, <3>1
    <3>3. last' = last
      BY <1>0, <2>1, <3>1, <3>2 DEF OneLogin
    <3> QED
      BY <2>1, <3>2, <3>3 DEF OneLogin
  <2> QED
    BY <2>2, <2>3 DEF OneLogin
<1>7. CheckAlone'
  <2>1. CheckAlone
    BY DEF Typed
  <2>2. \A k \in DOMAIN net' : net'[k].kind = "check" => auth' = "checking"
    BY <1>0, <1>1, <2>1 DEF CheckAlone
  <2>3. auth' = "checking" => Len(net') = 1 /\ net'[1].kind = "check"
    <3> SUFFICES ASSUME auth = "checking" PROVE Len(net') = 1 /\ net'[1].kind = "check"
      BY <1>1
    <3>1. Len(net) = 1 /\ net[1].kind = "check"
      BY <2>1 DEF CheckAlone
    <3>2. 1 \in 1..Len(net)
      BY <3>1
    <3> QED
      BY <1>1, <3>1, <3>2
  <2> QED
    BY <2>2, <2>3 DEF CheckAlone
<1>8. AppOnly'
  BY <1>0, <1>1 DEF Typed, AppOnly, pageVars
<1> QED
  BY <1>1, <1>3, <1>4, <1>5, <1>6, <1>7, <1>8

LEMMA ServiceTyped == ASSUME Typed, NEW i, Service(i) PROVE Typed'
<1>0. /\ last \in 1..MaxSessions /\ MaxSessions \in Nat /\ live \subseteq 1..last
      /\ net \in Seq(Requests) /\ DOMAIN net = 1..Len(net)
      /\ server \in [Creds -> Statuses] /\ TokensMinted
  BY TypedIs DEF Typed, ConsoleTypeOK, Statuses
<1>1. /\ i \in 1..Len(net) /\ net[i].phase = "sent"
      /\ UNCHANGED <<auth, view, cookie, stored, mode>> /\ UNCHANGED pageVars
  BY DEF Service
<1>2. PICK p \in {"ok", "401", "error"} :
         /\ Answers(i, p)
         /\ last' \in last..MaxSessions /\ live' \subseteq live \cup {last'}
         /\ server' \in [Creds -> Statuses] /\ net'[i].cookie \in 0..last'
         /\ last' # last => net[i].kind = "login"
         /\ \/ minted' = minted /\ (net[i].kind = "issue" => p # "ok")
            \/ \E c \in Creds \ minted : /\ minted' = minted \cup {c} /\ net'[i].ids = {c}
  <2>1. ASSUME net[i].kind = "login", Answers(i, "ok"),
               last' = last + 1, live' = live \cup {last + 1},
               net'[i].cookie = last + 1, UNCHANGED <<server, minted>>
        PROVE  last' \in last..MaxSessions /\ net'[i].cookie \in 0..last'
    <3>1. last < MaxSessions
      BY <1>0, <1>1, <2>1 DEF Typed, OneLogin
    <3> QED
      BY <1>0, <2>1, <3>1
  <2>2. 0 \in 0..last /\ last \in last..MaxSessions
    BY <1>0
  <2> QED
    BY <1>0, <2>1, <2>2 DEF Service
<1>3. minted \subseteq minted'
  BY <1>2
<1>4. /\ ConsoleTypeOK' /\ net' \in Seq(Requests) /\ dialog' \in Dialogs
      /\ SessionsKnown' /\ OneLogin' /\ CheckAlone' /\ AppOnly'
  BY <1>1, <1>2, <1>3, AnsweredTyped
<1>5. TokensMinted'
  <2>1. /\ DOMAIN net' = 1..Len(net) /\ net'[i].phase = p
        /\ \A k \in 1..Len(net) : net'[k].kind = net[k].kind /\ (k # i => net'[k] = net[k])
    BY <1>0, <1>1, <1>2, AnsweredIs
  <2>2. minted' \subseteq Creds /\ (token' # None => token' \in minted')
    BY <1>0, <1>1, <1>2, <1>3 DEF TokensMinted, pageVars
  <2>3. ASSUME NEW k \in 1..Len(net), net'[k].kind = "issue", net'[k].phase = "ok"
        PROVE  \E c \in minted' : net'[k].ids = {c}
    <3>1. CASE k # i
      <4>1. net'[k] = net[k] /\ k \in DOMAIN net
        BY <1>0, <2>1, <3>1
      <4> QED
        BY <1>0, <1>3, <2>3, <4>1 DEF TokensMinted
    <3>2. CASE k = i
      BY <1>2, <2>1, <2>3, <3>2
    <3> QED
      BY <3>1, <3>2
  <2> QED
    BY <2>1, <2>2, <2>3 DEF TokensMinted
<1> QED
  BY <1>4, <1>5 DEF Typed

LEMMA FailsTyped == ASSUME Typed, NEW i, Fails(i) PROVE Typed'
<1>0. /\ last \in 1..MaxSessions /\ MaxSessions \in Nat /\ live \subseteq 1..last
      /\ net \in Seq(Requests) /\ DOMAIN net = 1..Len(net)
      /\ server \in [Creds -> Statuses] /\ TokensMinted
  BY TypedIs DEF Typed, ConsoleTypeOK, Statuses
<1>1. /\ i \in 1..Len(net) /\ Answers(i, "error") /\ net'[i].cookie = 0
      /\ UNCHANGED <<auth, view, cookie, stored, mode>> /\ UNCHANGED pageVars
      /\ UNCHANGED <<live, last, server, minted>>
  BY DEF Fails
<1>2. /\ last' \in last..MaxSessions /\ live' \subseteq live \cup {last'}
      /\ server' \in [Creds -> Statuses] /\ net'[i].cookie \in 0..last' /\ last' = last
      /\ minted \subseteq minted'
  BY <1>0, <1>1
<1>3. /\ ConsoleTypeOK' /\ net' \in Seq(Requests) /\ dialog' \in Dialogs
      /\ SessionsKnown' /\ OneLogin' /\ CheckAlone' /\ AppOnly'
  BY <1>1, <1>2, AnsweredTyped
<1>4. TokensMinted'
  <2>1. /\ DOMAIN net' = 1..Len(net) /\ net'[i].phase = "error"
        /\ \A k \in 1..Len(net) : net'[k].kind = net[k].kind /\ (k # i => net'[k] = net[k])
    BY <1>0, <1>1, AnsweredIs
  <2> QED
    BY <1>0, <1>1, <2>1 DEF TokensMinted, pageVars
<1> QED
  BY <1>3, <1>4 DEF Typed

LEMMA ArrivalTyped == ASSUME Typed, NEW i, Arrival(i) PROVE Typed'
<1>0. /\ last \in 1..MaxSessions /\ MaxSessions \in Nat /\ live \subseteq 1..last
      /\ Len(net) \in Nat /\ Len(net) <= MaxFlight /\ MaxFlight \in Nat
      /\ CheckAlone /\ AppOnly /\ TokensMinted /\ ConsoleTypeOK /\ dialog \in Dialogs
  BY TypedIs DEF Typed
<1>1. /\ i \in DOMAIN net /\ net[i].phase # "sent" /\ Keeps(i, Len(net) - 1)
      /\ cookie' = CookieAfter(net[i]) /\ cookie' \in 0..last
      /\ UNCHANGED <<view, stored, trouble, live, last, server, minted, mode>>
      /\ Ends(i) \/ Begins(i) \/ GoesOn(i)
      /\ net[i] \in Requests /\ net[i].mounted \in BOOLEAN /\ net[i].kind \in Kinds
      /\ net[i].phase \in {"sent", "ok", "401", "error"}
      /\ net[i].list \in [Creds -> Statuses] \cup {Nothing}
  <2>1. i \in 1..Len(net) /\ DOMAIN net = 1..Len(net) /\ net[i] \in Requests
    BY TypedIs DEF Arrival
  <2>2. /\ net[i].mounted \in BOOLEAN /\ net[i].kind \in Kinds
        /\ net[i].phase \in {"sent", "ok", "401", "error"}
        /\ net[i].list \in [Creds -> Statuses] \cup {Nothing}
    BY <2>1, RequestsAre
  <2>3. CookieAfter(net[i]) \in 0..last
    BY <2>1, CookieAfterIs
  <2> QED
    BY <2>1, <2>2, <2>3 DEF Arrival
<1> PICK n : n = Len(net) - 1
  OBVIOUS
<1>2. n \in Nat /\ Len(net) = n + 1 /\ Keeps(i, n)
  <2>1. Len(net) \in Nat /\ 1 <= Len(net)
    <3>1. Len(net) \in Nat /\ i \in 1..Len(net)
      BY <1>0 DEF Arrival
    <3> QED
      BY <3>1
  <2> QED
    BY <1>1, <2>1
<1>3. /\ Len(net') = n \/ Len(net') = n + 1
      /\ \A k \in DOMAIN net' : k \in 1..n \/ (Len(net') = n + 1 /\ k = n + 1)
      /\ \A k \in 1..n : /\ From(i, k) \in DOMAIN net /\ From(i, k) # i
                         /\ Like(net'[k], net[From(i, k)])
  BY <1>2, SameIs DEF Like
<1>4. /\ Len(net') = n + 1 =>
            /\ net'[n + 1].phase = "sent" /\ net'[n + 1].cookie = cookie'
            /\ net'[n + 1].kind \in {"poll", "load"} /\ auth' # "checking"
            /\ net'[n + 1].mounted => auth' = "ready" \/ net[i].mounted
      /\ Ends(i) => Goes(n) /\ Len(net') = n
      /\ Begins(i) => Stays(i, n)
      /\ GoesOn(i) => Stays(i, n)
  <2>1. CASE Ends(i)
    <3>1. Len(net') = n /\ n # n + 1
      BY <1>2, <2>1 DEF Ends
    <3> QED
      BY <1>2, <2>1, <3>1 DEF Ends, Begins, GoesOn, ShowsLogin, ShowsApp
  <2>2. CASE Begins(i)
    BY <1>2, <2>2 DEF Ends, Begins, GoesOn, Arrival
  <2>3. CASE GoesOn(i)
    <3>1. CASE ~Reloads(net[i])
      <4>1. Len(net') = n /\ n # n + 1
        BY <1>2, <2>3, <3>1 DEF GoesOn
      <4> QED
        BY <1>2, <2>3, <4>1 DEF Ends, Begins, GoesOn
    <3>2. CASE Reloads(net[i])
      <4>1. auth # "checking"
        BY <1>0, <1>1, <3>2 DEF CheckAlone, Reloads
      <4> QED
        BY <1>2, <2>3, <3>2, <4>1 DEF Ends, Begins, GoesOn, Arrival
    <3> QED
      BY <3>1, <3>2
  <2> QED
    BY <1>1, <2>1, <2>2, <2>3
<1>5. /\ list' \in [Creds -> Statuses] \cup {Nothing}
      /\ selected' \subseteq Creds /\ visible' \subseteq Creds
      /\ dialog' \in Dialogs /\ (token' # None => token' \in minted)
      /\ (auth' # "ready" => token' = None /\ dialog' = NoDialog)
  <2>0. /\ list \in [Creds -> Statuses] \cup {Nothing} /\ selected \subseteq Creds
        /\ visible \subseteq Creds /\ (token # None => token \in minted)
    BY <1>0 DEF ConsoleTypeOK, Statuses, TokensMinted
  <2>1. CASE Ends(i) \/ Begins(i)
    BY <2>1, BlankIs DEF Ends, Begins
  <2>2. CASE GoesOn(i) /\ ~net[i].mounted
    <3>1. auth' = auth /\ UNCHANGED pageVars
      BY <2>2 DEF GoesOn
    <3>2. UNCHANGED <<list, visible, selected, dialog, token>>
      BY <3>1 DEF pageVars
    <3>3. auth' # "ready" => token' = None /\ dialog' = NoDialog
      BY <1>0, <3>1, <3>2 DEF AppOnly
    <3> QED
      BY <1>0, <2>0, <3>2, <3>3
  <2>3. CASE GoesOn(i) /\ net[i].mounted
    <3>1. PageGets(net[i]) /\ auth' = auth
      BY <2>3 DEF GoesOn
    <3>2. /\ list' \in [Creds -> Statuses] \cup {Nothing}
          /\ selected' \subseteq Creds /\ visible' \subseteq Creds
      <4>1. list' \in {list, net[i].list} /\ selected' \in {selected, {}} /\ visible' = visible
        BY <3>1 DEF PageGets
      <4>2. net[i].list \in [Creds -> Statuses] \cup {Nothing}
        BY <1>1
      <4> QED
        BY <2>0, <4>1, <4>2
    <3>3. dialog' \in Dialogs
      BY <1>0, <3>1 DEF PageGets, Settled, Dialogs, NoDialog
    <3>4. token' # None => token' \in minted
      <4>1. CASE net[i].kind = "issue" /\ net[i].phase = "ok"
        <5> PICK c \in minted : net[i].ids = {c}
          BY <1>0, <1>1, <4>1 DEF TokensMinted
        <5>1. c \in Creds /\ \A d \in Creds : net[i].ids = {d} => d = c
          BY <1>0 DEF TokensMinted
        <5>2. (CHOOSE d \in Creds : net[i].ids = {d}) = c
          BY <5>1
        <5> QED
          BY <3>1, <4>1, <5>2 DEF PageGets
      <4>2. CASE ~(net[i].kind = "issue" /\ net[i].phase = "ok")
        <5>1. token' = token
          BY <3>1, <4>2 DEF PageGets
        <5> QED
          BY <2>0, <5>1
      <4> QED
        BY <4>1, <4>2
    <3>5. ASSUME auth # "ready" PROVE token' = None /\ dialog' = NoDialog
      <4>1. net[i].kind \in {"login", "check"} /\ token = None /\ dialog = NoDialog
        BY <1>0, <1>1, <2>3, <3>5 DEF AppOnly
      <4> QED
        BY <3>1, <4>1 DEF PageGets, Settled
    <3> QED
      BY <3>1, <3>2, <3>3, <3>4, <3>5
  <2> QED
    BY <1>1, <2>1, <2>2, <2>3
<1>6. ConsoleTypeOK'
  <2>1. auth' \in {"checking", "login", "ready"}
    <3>1. auth' \in {"login", "ready", auth}
      BY <1>1 DEF Ends, Begins, GoesOn
    <3> QED
      BY <1>0, <3>1 DEF ConsoleTypeOK
  <2>2. Len(net') <= MaxFlight /\ cookie' \in 0..MaxSessions
    <3>1. cookie' \in 0..last /\ last \in 1..MaxSessions /\ MaxSessions \in Nat
      BY <1>0, <1>1
    <3>2. /\ n \in Nat /\ n + 1 <= MaxFlight /\ Len(net') \in {n, n + 1}
          /\ MaxFlight \in Nat
      BY <1>0, <1>2, <1>3
    <3>3. cookie' \in 0..MaxSessions
      BY <3>1
    <3> QED
      BY <3>2, <3>3
  <2>3. token' \in Creds \cup {None} /\ minted \subseteq Creds
    BY <1>0, <1>5 DEF TokensMinted
  <2>4. /\ live' \subseteq 1..MaxSessions /\ last' \in 1..MaxSessions
        /\ view' \in {"overview", "credentials"} /\ stored' \subseteq minted'
        /\ server' \in [Creds -> Statuses]
    BY <1>0, <1>1 DEF ConsoleTypeOK, Statuses
  <2> QED
    BY <1>5, <2>1, <2>2, <2>3, <2>4 DEF ConsoleTypeOK, Statuses, Nothing
<1>7. SessionsKnown'
  <2>1. live' \subseteq live /\ last' = last
        /\ (Len(net') = n + 1 => net'[n + 1].cookie \in 0..last)
    BY <1>1, <1>4
  <2> QED
    BY <1>1, <1>2, <2>1, KeptSessions
<1>8. OneLogin'
  BY <1>1, <1>2, <1>4, KeptLogin
<1>9. CheckAlone'
  <2>1. ASSUME NEW k \in DOMAIN net', net'[k].kind = "check" PROVE FALSE
    <3>1. k \in 1..n
      BY <1>3, <1>4, <2>1
    <3> PICK j : j = From(i, k)
      OBVIOUS
    <3>2. j \in DOMAIN net /\ net[j].kind = "check" /\ j # i
      <4>1. j # i
        BY <1>3, <3>1
      <4> QED
        BY <1>3, <2>1, <3>1, <4>1 DEF Like
    <3>3. Len(net) = 1
      BY <1>0, <3>2 DEF CheckAlone
    <3>4. DOMAIN net = 1..1
      BY <3>3, TypedIs
    <3> QED
      BY <1>1, <3>2, <3>4
  <2>2. auth' # "checking"
    <3> SUFFICES ASSUME auth' = "checking" PROVE FALSE
      OBVIOUS
    <3>1. GoesOn(i) /\ auth = "checking"
      BY <1>1 DEF Ends, Begins, GoesOn
    <3>2. Len(net) = 1 /\ net[1].kind = "check"
      BY <1>0, <3>1 DEF CheckAlone
    <3>3. i = 1
      <4>1. DOMAIN net = 1..1
        BY <3>2, TypedIs
      <4> QED
        BY <1>1, <4>1
    <3> QED
      BY <3>1, <3>2, <3>3 DEF GoesOn, ShowsLogin, ShowsApp
  <2> QED
    BY <2>1, <2>2 DEF CheckAlone
<1>10. AppOnly'
  <2> SUFFICES ASSUME auth' # "ready", NEW k \in DOMAIN net', net'[k].mounted
               PROVE  net'[k].kind \in {"login", "check"}
    BY <1>5 DEF AppOnly
  <2>1. GoesOn(i) \/ (Ends(i) /\ Goes(n) /\ Len(net') = n)
    BY <1>1, <1>4 DEF Begins
  <2>2. CASE Ends(i) /\ Goes(n) /\ Len(net') = n
    <3>1. k \in 1..n
      BY <1>3, <2>2
    <3> QED
      BY <2>2, <3>1 DEF Goes
  <2>3. CASE GoesOn(i)
    <3>1. auth # "ready" /\ Stays(i, n)
      BY <1>4, <2>3 DEF GoesOn
    <3>2. CASE k \in 1..n
      <4> PICK j : j = From(i, k)
        OBVIOUS
      <4>1. j \in DOMAIN net /\ net[j].mounted /\ net'[k].kind = net[j].kind
        BY <1>3, <3>1, <3>2 DEF Stays, Shows, Like
      <4> QED
        BY <1>0, <3>1, <4>1 DEF AppOnly
    <3>3. CASE k \notin 1..n
      <4>1. Len(net') = n + 1 /\ k = n + 1
        BY <1>3, <3>3
      <4>2. net[i].mounted
        BY <1>4, <4>1
      <4>3. ~Reloads(net[i])
        BY <1>0, <1>1, <3>1, <4>2 DEF AppOnly, Reloads
      <4>4. Len(net') = n
        BY <2>3, <4>3 DEF GoesOn
      <4>5. n # n + 1
        BY <1>2
      <4> QED
        BY <4>1, <4>4, <4>5
    <3> QED
      BY <3>2, <3>3
  <2> QED
    BY <2>1, <2>2, <2>3
<1>11. TokensMinted'
  BY <1>1, <1>2, <1>4, <1>5, KeptTokens
<1> QED
  BY <1>2, <1>5, <1>6, <1>7, <1>8, <1>9, <1>10, <1>11 DEF Typed, Keeps

LEMMA TypedInductive == ASSUME Typed, [Next]_vars PROVE Typed'
  BY NextIs, PageTyped, ServiceTyped, ArrivalTyped, FailsTyped

LEMMA InitTyped == Init => Typed
<1> SUFFICES ASSUME Init PROVE Typed
  OBVIOUS
<1>0. MaxSessions \in Nat \ {0} /\ MaxFlight \in Nat \ {0} /\ None \notin Creds
  BY ConsoleAssumption
<1>1. cookie \in 0..MaxSessions /\ "check" \in Kinds
  BY <1>0 DEF Init, Kinds
<1> PICK r \in Requests : /\ r = Request("check", {})
                          /\ r.kind = "check" /\ r.phase = "sent" /\ r.cookie = cookie
  BY <1>1, RequestIs
<1>2. net = <<r>>
  BY DEF Init
<1>3. net \in Seq(Requests) /\ Len(net) = 1 /\ DOMAIN net = {1} /\ net[1] = r
  BY <1>2
<1>4. Len(net) <= MaxFlight /\ 1 \in 1..MaxSessions
  BY <1>0, <1>3
<1>5. ConsoleTypeOK
  <2>1. server \in [Creds -> {"none", "active", "revoked"}]
    BY DEF Init
  <2> QED
    BY <1>1, <1>4, <2>1 DEF Init, ConsoleTypeOK
<1>6. dialog \in Dialogs
  BY DEF Init, Dialogs, NoDialog
<1>7. SessionsKnown
  BY <1>3 DEF Init, SessionsKnown
<1>8. OneLogin /\ CheckAlone
  BY <1>3 DEF Init, OneLogin, CheckAlone
<1>9. AppOnly /\ TokensMinted
  BY <1>3 DEF Init, AppOnly, TokensMinted
<1> QED
  BY <1>3, <1>5, <1>6, <1>7, <1>8, <1>9 DEF Typed

-----------------------------------------------------------------------------
(***************************************************************************)
(* Answers in order: what is under way, and the login view.                *)
(***************************************************************************)
LEMMA TroublesStay ==
  ASSUME [Next]_vars PROVE trouble \subseteq trouble' /\ mode' = mode
<1>1. CASE Login \/ Logout \/ Navigate \/ Poll \/ Refresh \/ Filter \/ Toggle
           \/ OpenDialog \/ Confirm \/ Cancel \/ Dismiss \/ UNCHANGED vars
  BY <1>1 DEF Login, Logout, Navigate, Poll, Refresh, Filter, Toggle, OpenDialog, Confirm,
              Cancel, Dismiss, vars
<1>2. CASE NetworkError \/ SessionEnds \/ Elsewhere
  BY <1>2 DEF NetworkError, SessionEnds, Elsewhere
<1>3. ASSUME NEW i, Serve(i) \/ Receive(i) PROVE trouble' = trouble /\ mode' = mode
  BY <1>3 DEF Serve, Receive
<1> QED
  BY <1>1, <1>2, <1>3 DEF Next

LEMMA PageOrder ==
  ASSUME Typed, Orderly, PageAction PROVE Orderly'
<1>0. /\ PageStep /\ net \in Seq(Requests) /\ DOMAIN net = 1..Len(net) /\ Len(net) \in Nat
      /\ Orderly
  BY PageSteps, TypedIs
<1> PICK n : n = Len(net)
  OBVIOUS
<1>1. /\ Keeps(n + 1, n) /\ UNCHANGED <<auth, cookie>> /\ live' \in {live, {}}
      /\ Len(net') = n + 1 =>
            /\ net'[n + 1].phase = "sent" /\ net'[n + 1].cookie = cookie
            /\ net'[n + 1].kind = "login" => auth = "login" /\ ~InFlight({"login"})
            /\ net'[n + 1].kind # "login" => auth = "ready"
  BY <1>0 DEF PageStep
<1>a. n \in Nat
  BY <1>0
<1>2. /\ Len(net') \in {n, n + 1}
      /\ \A k \in DOMAIN net' : k \in 1..n \/ (Len(net') = n + 1 /\ k = n + 1)
      /\ \A k \in 1..n : k \in DOMAIN net /\ Like(net'[k], net[k])
  <2>1. \A k \in 1..n : From(n + 1, k) = k
    BY <1>a DEF From
  <2> QED
    BY <1>0, <1>1, <2>1, FromIs
<1>3. InOrder'
  <2> SUFFICES ASSUME NEW j \in DOMAIN net', NEW k \in DOMAIN net', j < k,
                      net'[j].phase = "sent"
               PROVE  net'[k].phase = "sent"
    BY DEF InOrder
  <2>1. CASE k \in 1..n
    <3>1. j \in 1..n
      BY <1>a, <1>2, <2>1
    <3> QED
      BY <1>0, <1>2, <2>1, <3>1 DEF Orderly, InOrder, Like
  <2> QED
    BY <1>1, <1>2, <2>1
<1>4. LoginLast'
  <2> SUFFICES ASSUME NEW k \in DOMAIN net', net'[k].kind = "login"
               PROVE  auth' = "login" /\ k = Len(net')
    BY DEF LoginLast
  <2>1. CASE k \in 1..n
    <3>1. net[k].kind = "login" /\ k \in DOMAIN net
      BY <1>2, <2>1 DEF Like
    <3>2. auth = "login" /\ k = n
      BY <1>0, <3>1 DEF Orderly, LoginLast
    <3>3. InFlight({"login"})
      BY <3>1 DEF InFlight
    <3>4. Len(net') # n + 1
      BY <1>1, <3>2, <3>3
    <3> QED
      BY <1>1, <1>2, <3>2, <3>4
  <2> QED
    BY <1>1, <1>2, <2>1
<1>5. PhasesTrue'
  <2> SUFFICES ASSUME NEW k \in DOMAIN net'
               PROVE  /\ net'[k].phase = "error" => net'[k].kind = "issue"
                      /\ net'[k].phase = "401" => net'[k].kind # "logout"
    BY DEF PhasesTrue
  <2> QED
    BY <1>0, <1>1, <1>2 DEF Orderly, PhasesTrue, Like
<1>6. AppTrue'
  <2> SUFFICES ASSUME auth # "login", NEW k \in DOMAIN net'
               PROVE  /\ net'[k].phase = "sent" => net'[k].cookie = cookie
                      /\ Over(net'[k]) =>
                            /\ cookie \notin live'
                            /\ \A j \in DOMAIN net' : k < j =>
                                  net'[j].phase = "sent" \/ Over(net'[j])
    BY <1>1 DEF AppTrue
  <2>1. CASE k \in 1..n
    <3>1. /\ net[k].phase = "sent" => net[k].cookie = cookie
          /\ Over(net[k]) => /\ cookie \notin live
                             /\ \A j \in 1..n : k < j => net[j].phase = "sent" \/ Over(net[j])
      BY <1>0, <1>2, <2>1 DEF Orderly, AppTrue
    <3>2. \A j \in 1..n : Over(net'[j]) <=> Over(net[j])
      BY <1>2 DEF Over, Like
    <3>3. net'[k].phase = "sent" => net'[k].cookie = cookie
      BY <1>2, <2>1, <3>1 DEF Like
    <3>4. ASSUME Over(net'[k]), NEW j \in DOMAIN net', k < j
          PROVE  net'[j].phase = "sent" \/ Over(net'[j])
      BY <1>1, <1>2, <2>1, <3>1, <3>2, <3>4 DEF Like
    <3>5. Over(net'[k]) => cookie \notin live'
      BY <1>1, <2>1, <3>1, <3>2
    <3> QED
      BY <3>3, <3>4, <3>5
  <2>2. CASE k \notin 1..n
    BY <1>1, <1>2, <2>2 DEF Over
  <2> QED
    BY <2>1, <2>2
<1>7. LoginTrue'
  <2> SUFFICES ASSUME auth = "login"
               PROVE  /\ cookie \notin live'
                      /\ \A k \in DOMAIN net' :
                            \/ net'[k].kind = "login" \/ Over(net'[k])
                            \/ net'[k].phase = "sent" /\ net'[k].cookie \notin live'
    BY <1>1 DEF LoginTrue
  <2>1. cookie \notin live'
    BY <1>0, <1>1 DEF Orderly, LoginTrue
  <2>2. ASSUME NEW k \in DOMAIN net'
        PROVE  \/ net'[k].kind = "login" \/ Over(net'[k])
               \/ net'[k].phase = "sent" /\ net'[k].cookie \notin live'
    <3>1. CASE k \in 1..n
      <4>1. \/ net[k].kind = "login" \/ Over(net[k])
            \/ net[k].phase = "sent" /\ net[k].cookie \notin live
        BY <1>0, <1>2, <3>1 DEF Orderly, LoginTrue
      <4> QED
        BY <1>1, <1>2, <3>1, <4>1 DEF Over, Like
    <3> QED
      BY <1>1, <1>2, <3>1
  <2> QED
    BY <2>1, <2>2
<1> QED
  BY <1>3, <1>4, <1>5, <1>6, <1>7 DEF Orderly

LEMMA ServiceOrder ==
  ASSUME Typed, Orderly, ~overtaking, NEW i, Service(i) PROVE Orderly'
<1>0. /\ net \in Seq(Requests) /\ DOMAIN net = 1..Len(net) /\ Len(net) \in Nat
      /\ live \subseteq 1..last /\ cookie \in 0..last /\ last \in Nat
      /\ \A k \in 1..Len(net) : net[k].cookie \in 0..last
      /\ InOrder /\ LoginLast /\ PhasesTrue /\ AppTrue /\ LoginTrue
  BY TypedIs DEF Orderly
<1>1. /\ i \in 1..Len(net) /\ net[i].phase = "sent"
      /\ \A j \in 1..(i - 1) : net[j].phase # "sent"
      /\ auth' = auth /\ cookie' = cookie
  BY DEF Service, InTurn
<1>2. PICK p \in {"ok", "401", "error"} :
         /\ Answers(i, p)
         /\ live' \subseteq live \cup {last + 1}
         /\ net[i].kind # "login" => live' \subseteq live
         /\ net[i].kind = "logout" => p = "ok" /\ net[i].cookie \notin live'
         /\ p = "error" => net[i].kind = "issue"
         /\ p = "401" /\ net[i].kind # "login" => net[i].cookie \notin live
         /\ p # "401" => net[i].kind \in {"login", "logout"} \/ net[i].cookie \in live
  BY <1>0 DEF Service, Changes
<1>3. /\ DOMAIN net' = 1..Len(net) /\ Len(net') = Len(net) /\ net'[i].phase = p
      /\ net'[i].kind = net[i].kind
      /\ \A k \in 1..Len(net) : net'[k].kind = net[k].kind /\ (k # i => net'[k] = net[k])
  BY <1>0, <1>1, <1>2, AnsweredIs
<1>4. \A k \in 1..Len(net) : i < k => net[k].phase = "sent"
  BY <1>0, <1>1 DEF InOrder
<1>5. \A k \in 1..Len(net) : net[k].phase = "sent" => i <= k
  BY <1>0, <1>1
<1>6. InOrder'
  <2> SUFFICES ASSUME NEW j \in 1..Len(net), NEW k \in 1..Len(net), j < k,
                      net'[j].phase = "sent"
               PROVE  net'[k].phase = "sent"
    BY <1>3 DEF InOrder
  <2>1. j # i
    BY <1>2, <1>3
  <2>2. i < j
    BY <1>1, <1>3, <1>5, <2>1
  <2>3. i < k /\ k # i
    BY <1>1, <2>2
  <2> QED
    BY <1>3, <1>4, <2>3
<1>7. LoginLast'
  BY <1>0, <1>1, <1>3 DEF LoginLast
<1>8. PhasesTrue'
  <2> SUFFICES ASSUME NEW k \in 1..Len(net)
               PROVE  /\ net'[k].phase = "error" => net'[k].kind = "issue"
                      /\ net'[k].phase = "401" => net'[k].kind # "logout"
    BY <1>3 DEF PhasesTrue
  <2> QED
    BY <1>0, <1>2, <1>3 DEF PhasesTrue
<1>9. AppTrue'
  <2> SUFFICES ASSUME auth # "login", NEW k \in 1..Len(net)
               PROVE  /\ net'[k].phase = "sent" => net'[k].cookie = cookie
                      /\ Over(net'[k]) =>
                            /\ cookie \notin live'
                            /\ \A j \in 1..Len(net) : k < j =>
                                  net'[j].phase = "sent" \/ Over(net'[j])
    BY <1>1, <1>3 DEF AppTrue
  <2>1. net[i].kind # "login" /\ net[i].cookie = cookie /\ live' \subseteq live
    BY <1>0, <1>1, <1>2 DEF LoginLast, AppTrue
  <2>2. CASE k # i
    <3>1. net'[k].phase = "sent" => net'[k].cookie = cookie
      BY <1>0, <1>3, <2>2 DEF AppTrue
    <3>2. ASSUME Over(net'[k])
          PROVE  /\ cookie \notin live'
                 /\ \A j \in 1..Len(net) : k < j => net'[j].phase = "sent" \/ Over(net'[j])
      <4>1. /\ cookie \notin live
            /\ \A j \in 1..Len(net) : k < j => net[j].phase = "sent" \/ Over(net[j])
        BY <1>0, <1>3, <2>2, <3>2 DEF AppTrue
      <4>2. Over(net'[i])
        BY <1>2, <1>3, <2>1, <4>1 DEF Over
      <4> QED
        BY <1>3, <2>1, <4>1, <4>2
    <3> QED
      BY <3>1, <3>2
  <2>3. CASE k = i
    <3>1. Over(net'[i]) => cookie \notin live'
      BY <1>2, <1>3, <2>1 DEF Over
    <3>2. \A j \in 1..Len(net) : i < j => net'[j].phase = "sent"
      BY <1>1, <1>3, <1>4
    <3> QED
      BY <1>2, <1>3, <2>3, <3>1, <3>2
  <2> QED
    BY <2>2, <2>3
<1>10. LoginTrue'
  <2> SUFFICES ASSUME auth = "login"
               PROVE  /\ cookie \notin live'
                      /\ \A k \in 1..Len(net) :
                            \/ net'[k].kind = "login" \/ Over(net'[k])
                            \/ net'[k].phase = "sent" /\ net'[k].cookie \notin live'
    BY <1>1, <1>3 DEF LoginTrue
  <2>1. ASSUME NEW x \in 0..last, x \notin live PROVE x \notin live'
    BY <1>0, <1>2, <2>1
  <2>2. cookie \notin live'
    BY <1>0, <2>1 DEF LoginTrue
  <2>3. ASSUME NEW k \in 1..Len(net)
        PROVE  \/ net'[k].kind = "login" \/ Over(net'[k])
               \/ net'[k].phase = "sent" /\ net'[k].cookie \notin live'
    <3>1. \/ net[k].kind = "login" \/ Over(net[k])
          \/ net[k].phase = "sent" /\ net[k].cookie \notin live
      BY <1>0 DEF LoginTrue
    <3>2. CASE k # i
      BY <1>0, <1>3, <2>1, <3>1, <3>2
    <3>3. CASE k = i
      <4>1. net[i].kind = "login" \/ net[i].cookie \notin live
        BY <1>1, <3>1, <3>3 DEF Over
      <4> QED
        BY <1>2, <1>3, <3>3, <4>1 DEF Over
    <3> QED
      BY <3>2, <3>3
  <2> QED
    BY <2>2, <2>3
<1> QED
  BY <1>6, <1>7, <1>8, <1>9, <1>10 DEF Orderly

LEMMA ArrivalOrder ==
  ASSUME Typed, Orderly, ~overtaking, NEW i, Arrival(i) PROVE Orderly'
<1>0. /\ live \subseteq 1..last /\ last \in Nat
      /\ \A k \in DOMAIN net : /\ net[k].phase \in {"sent", "ok", "401", "error"}
                              /\ net[k].kind \in Kinds
      /\ InOrder /\ LoginLast /\ PhasesTrue /\ AppTrue /\ LoginTrue /\ CheckAlone
  BY TypedIs DEF Orderly, Typed
<1>b. DOMAIN net = 1..Len(net)
  BY TypedIs
<1>1. /\ 1 \in DOMAIN net /\ net[1].phase # "sent" /\ Keeps(1, Len(net) - 1)
      /\ cookie' = CookieAfter(net[1]) /\ live' = live
      /\ Ends(1) \/ Begins(1) \/ GoesOn(1)
      /\ Len(net') = Len(net) =>
            /\ net'[Len(net)].phase = "sent" /\ net'[Len(net)].cookie = cookie'
  BY <1>b DEF Arrival
<1> PICK n : n = Len(net) - 1
  OBVIOUS
<1>2. n \in Nat /\ Len(net) = n + 1
  <2>1. Len(net) \in Nat
    BY TypedIs
  <2>2. 1 \in 1..Len(net)
    BY <1>b, <1>1
  <2> QED
    BY <2>1, <2>2
<1>3. /\ Len(net') = n \/ Len(net') = n + 1
      /\ \A k \in DOMAIN net' : k \in 1..n \/ (Len(net') = n + 1 /\ k = n + 1)
      /\ \A k \in 1..n : k + 1 \in DOMAIN net /\ Like(net'[k], net[k + 1])
  <2>1. \A k \in 1..n : From(1, k) = k + 1
    BY <1>2 DEF From
  <2>2. Keeps(1, n)
    BY <1>1
  <2>3. /\ Len(net') = n \/ Len(net') = n + 1
        /\ \A k \in DOMAIN net' : k \in 1..n \/ (Len(net') = n + 1 /\ k = n + 1)
        /\ \A k \in 1..n : From(1, k) \in DOMAIN net /\ Like(net'[k], net[From(1, k)])
    BY <2>2, SameIs DEF Like
  <2> QED
    BY <2>1, <2>3
<1>a. \A j, k \in DOMAIN net' : j < k /\ k \in 1..n => j \in 1..n /\ j + 1 < k + 1
  <2>1. n \in Nat
    BY <1>2
  <2>2. DOMAIN net' = 1..Len(net')
    BY ArrivalTyped, TypedIs
  <2>3. Len(net') \in {n, n + 1}
    BY <1>3
  <2>4. \A m \in {n, n + 1} : \A j \in 1..m : \A k \in 1..n :
           j < k => j \in 1..n /\ j + 1 < k + 1
    BY <2>1
  <2>5. \A j \in 1..Len(net') : \A k \in 1..n :
           j < k => j \in 1..n /\ j + 1 < k + 1
    BY <2>3, <2>4
  <2> QED
    BY <2>2, <2>5
<1>4. \A k \in 1..n : Over(net'[k]) <=> Over(net[k + 1])
  BY <1>3 DEF Over, Like
<1>5. InOrder'
  <2> SUFFICES ASSUME NEW j \in DOMAIN net', NEW k \in DOMAIN net', j < k,
                      net'[j].phase = "sent"
               PROVE  net'[k].phase = "sent"
    BY DEF InOrder
  <2>1. CASE k \in 1..n
    <3>1. j \in 1..n /\ j + 1 < k + 1
      BY <1>a, <2>1
    <3> QED
      BY <1>0, <1>3, <2>1, <3>1 DEF InOrder, Like
  <2> QED
    BY <1>1, <1>2, <1>3, <2>1
<1>6. CASE Ends(1)
  <2>1. /\ ShowsLogin(net[1]) /\ auth' = "login" /\ Len(net') = n
    BY <1>6 DEF Ends
  <2>2. Over(net[1]) /\ net[1].kind # "login"
    BY <1>0, <1>1, <2>1 DEF ShowsLogin, Over, PhasesTrue
  <2>a. Len(net') # n + 1
    <3>1. n # n + 1
      BY <1>2
    <3> QED
      BY <2>1, <3>1
  <2>3. \A k \in DOMAIN net' : k \in 1..n
    BY <1>3, <2>a
  <2>4. cookie' \in {cookie, 0} /\ 0 \notin live
    BY <1>0, <1>1, <2>2 DEF CookieAfter
  <2>5. /\ cookie \notin live
        /\ \A k \in 1..n : \/ net[k + 1].kind = "login" \/ Over(net[k + 1])
                           \/ net[k + 1].phase = "sent" /\ net[k + 1].cookie \notin live
    <3>1. CASE auth = "login"
      BY <1>0, <1>3, <3>1 DEF LoginTrue
    <3>2. CASE auth # "login"
      <4>1. /\ cookie \notin live
            /\ \A k \in DOMAIN net : 1 < k => net[k].phase = "sent" \/ Over(net[k])
            /\ \A k \in DOMAIN net : net[k].phase = "sent" => net[k].cookie = cookie
        BY <1>0, <1>1, <2>2, <3>2 DEF AppTrue
      <4>2. \A k \in 1..n : 1 < k + 1
        BY <1>2
      <4> QED
        BY <1>3, <4>1, <4>2
    <3> QED
      BY <3>1, <3>2
  <2>6. LoginTrue'
    BY <1>1, <1>3, <1>4, <2>1, <2>3, <2>4, <2>5 DEF LoginTrue, Like
  <2>7. AppTrue'
    BY <2>1 DEF AppTrue
  <2>8. LoginLast'
    <3> SUFFICES ASSUME NEW k \in 1..n, net'[k].kind = "login" PROVE k = n
      BY <2>1, <2>3 DEF LoginLast
    <3>1. k + 1 = Len(net)
      BY <1>0, <1>3 DEF LoginLast, Like
    <3> QED
      BY <1>2, <3>1
  <2>9. PhasesTrue'
    BY <1>0, <1>3, <2>3 DEF PhasesTrue, Like
  <2> QED
    BY <1>5, <2>6, <2>7, <2>8, <2>9 DEF Orderly
<1>7. CASE Begins(1)
  <2>1. Len(net) = 1
    <3>1. CASE net[1].kind = "check"
      BY <1>0, <1>1, <3>1 DEF CheckAlone
    <3>2. CASE net[1].kind = "login"
      BY <1>0, <1>1, <3>2 DEF LoginLast
    <3> QED
      BY <1>7, <3>1, <3>2 DEF Begins, ShowsApp
  <2>2. n = 0 /\ n + 1 = 1 /\ 1..n = {}
    <3>1. n \in Nat /\ n + 1 = 1
      BY <1>2, <2>1
    <3>0. \A m \in Nat : m + 1 = 1 => m = 0
      OBVIOUS
    <3>2. n = 0
      BY <3>0, <3>1
    <3>3. \A k : k \notin 1..0
      OBVIOUS
    <3> QED
      BY <3>1, <3>2, <3>3
  <2>3. /\ auth' = "ready" /\ \A k \in DOMAIN net' :
              net'[k].phase = "sent" /\ net'[k].cookie = cookie' /\ net'[k].kind # "login"
    BY <1>1, <1>3, <1>7, <2>1, <2>2 DEF Begins
  <2> QED
    BY <1>5, <2>3 DEF Orderly, LoginLast, PhasesTrue, AppTrue, LoginTrue, Over
<1>8. CASE GoesOn(1)
  <2>1. /\ ~ShowsLogin(net[1]) /\ ~ShowsApp(net[1]) /\ auth' = auth
        /\ Len(net') = (IF Reloads(net[1]) THEN Len(net) ELSE Len(net) - 1)
        /\ Reloads(net[1]) => net'[Len(net)].kind = "load"
    BY <1>8 DEF GoesOn
  <2>2. cookie' = cookie
    BY <1>1, <2>1 DEF CookieAfter, ShowsLogin, ShowsApp
  <2>3. Reloads(net[1]) => auth # "login"
    BY <1>0, <1>1 DEF Reloads, LoginTrue, Over
  <2>4. /\ Len(net') = n + 1 => Reloads(net[1])
        /\ ~Reloads(net[1]) => Len(net') = n
    BY <1>2, <2>1
  <2>5. AppTrue'
    <3> SUFFICES ASSUME auth # "login", NEW k \in DOMAIN net'
                 PROVE  /\ net'[k].phase = "sent" => net'[k].cookie = cookie
                        /\ Over(net'[k]) =>
                              /\ cookie \notin live
                              /\ \A j \in DOMAIN net' : k < j =>
                                    net'[j].phase = "sent" \/ Over(net'[j])
      BY <1>1, <2>1, <2>2 DEF AppTrue
    <3>1. CASE k \in 1..n
      <4>1. /\ net[k + 1].phase = "sent" => net[k + 1].cookie = cookie
            /\ Over(net[k + 1]) =>
                  /\ cookie \notin live
                  /\ \A j \in DOMAIN net : k + 1 < j => net[j].phase = "sent" \/ Over(net[j])
        BY <1>0, <1>3, <3>1 DEF AppTrue
      <4>2. net'[k].phase = "sent" => net'[k].cookie = cookie
        BY <1>3, <3>1, <4>1 DEF Like
      <4>3. ASSUME Over(net'[k]), NEW j \in DOMAIN net', k < j
            PROVE  net'[j].phase = "sent" \/ Over(net'[j])
        <5>1. CASE j \in 1..n
          <6>1. k + 1 < j + 1 /\ j + 1 \in DOMAIN net
            BY <1>3, <1>a, <4>3, <5>1
          <6>2. net[j + 1].phase = "sent" \/ Over(net[j + 1])
            BY <1>4, <3>1, <4>1, <4>3, <6>1
          <6> QED
            BY <1>3, <1>4, <5>1, <6>2 DEF Like
        <5> QED
          BY <1>1, <1>2, <1>3, <5>1
      <4> QED
        BY <1>4, <3>1, <4>1, <4>2, <4>3
    <3>2. CASE k \notin 1..n
      <4>1. k = Len(net) /\ Len(net') = Len(net)
        BY <1>2, <1>3, <3>2
      <4> QED
        BY <1>1, <2>2, <4>1 DEF Over
    <3> QED
      BY <3>1, <3>2
  <2>6. LoginTrue'
    <3> SUFFICES ASSUME auth = "login", NEW k \in DOMAIN net'
                 PROVE  \/ net'[k].kind = "login" \/ Over(net'[k])
                        \/ net'[k].phase = "sent" /\ net'[k].cookie \notin live
      BY <1>0, <1>1, <2>1, <2>2 DEF LoginTrue
    <3>1. k \in 1..n
      BY <1>3, <2>3, <2>4
    <3>2. \/ net[k + 1].kind = "login" \/ Over(net[k + 1])
          \/ net[k + 1].phase = "sent" /\ net[k + 1].cookie \notin live
      BY <1>0, <1>3, <3>1 DEF LoginTrue
    <3> QED
      BY <1>3, <1>4, <3>1, <3>2 DEF Like
  <2>7. LoginLast'
    <3> SUFFICES ASSUME NEW k \in DOMAIN net', net'[k].kind = "login"
                 PROVE  auth = "login" /\ k = Len(net')
      BY <2>1 DEF LoginLast
    <3>1. k \in 1..n
      <4> SUFFICES ASSUME Len(net') = n + 1, k = n + 1 PROVE FALSE
        BY <1>3
      <4> QED
        BY <1>2, <2>1, <2>4
    <3>2. auth = "login" /\ k + 1 = Len(net)
      BY <1>0, <1>3, <3>1 DEF LoginLast, Like
    <3>3. k = n /\ Len(net') = n
      BY <1>2, <2>3, <2>4, <3>2
    <3> QED
      BY <3>2, <3>3
  <2>8. PhasesTrue'
    <3> SUFFICES ASSUME NEW k \in DOMAIN net'
                 PROVE  /\ net'[k].phase = "error" => net'[k].kind = "issue"
                        /\ net'[k].phase = "401" => net'[k].kind # "logout"
      BY DEF PhasesTrue
    <3>1. CASE k \in 1..n
      BY <1>0, <1>3, <3>1 DEF PhasesTrue, Like
    <3>2. CASE k \notin 1..n
      <4>1. k = Len(net) /\ Len(net') = Len(net)
        BY <1>2, <1>3, <3>2
      <4> QED
        BY <1>1, <4>1
    <3> QED
      BY <3>1, <3>2
  <2> QED
    BY <1>5, <2>5, <2>6, <2>7, <2>8 DEF Orderly
<1> QED
  BY <1>1, <1>6, <1>7, <1>8

LEMMA OrderlyInductive ==
  ASSUME Typed, Steady => Orderly, [Next]_vars PROVE Steady' => (Steady /\ Orderly')
<1>1. trouble \subseteq trouble' /\ mode' = mode
  BY TroublesStay
<1>2. Steady' => Steady
  BY <1>1 DEF Steady, overtaking
<1> SUFFICES ASSUME Steady' PROVE Orderly'
  BY <1>2
<1>3. Orderly /\ ~overtaking /\ "network" \notin trouble'
  BY <1>2 DEF Steady
<1>4. ASSUME NEW i PROVE ~Fails(i)
  BY <1>3 DEF Fails
<1> QED
  BY <1>3, <1>4, NextIs, PageOrder, ServiceOrder, ArrivalOrder

LEMMA InitOrderly == Init => Orderly
<1> SUFFICES ASSUME Init PROVE Orderly
  OBVIOUS
<1>0. cookie \in 0..MaxSessions /\ "check" \in Kinds
  BY ConsoleAssumption DEF Init, Kinds
<1> PICK r \in Requests : /\ r = Request("check", {})
                          /\ r.kind = "check" /\ r.phase = "sent" /\ r.cookie = cookie
  BY <1>0, RequestIs
<1>1. net = <<r>>
  BY DEF Init
<1>2. DOMAIN net = {1} /\ net[1] = r
  BY <1>1
<1> QED
  BY <1>2 DEF Init, Orderly, InOrder, LoginLast, PhasesTrue, AppTrue, LoginTrue, Over

LEMMA LoginViewIs == Steady /\ Orderly => LoginViewTrue
  BY DEF Steady, Orderly, LoginTrue, LoginViewTrue

-----------------------------------------------------------------------------
(***************************************************************************)
(* A patient admin: no dialog goes while it waits, and no page with one.   *)
(***************************************************************************)
Added == net'[Len(net) + 1]

\* The dialog, the token and the page stay as they are.
Rests ==
    /\ Stays(Len(net) + 1, Len(net)) /\ UNCHANGED <<view, list, dialog, token, stored>>
    /\ Len(net') = Len(net) + 1 =>
          /\ Added.kind \in {"login", "logout", "poll", "load"}
          /\ Added.kind = "logout" => dialog.kind = "none" /\ token = None

Leaves ==
    /\ auth = "ready" /\ dialog.kind = "none" /\ token = None /\ Goes(Len(net))
    /\ dialog' = NoDialog /\ token' = None /\ UNCHANGED stored
    /\ Len(net') = Len(net) + 1
    /\ Added.kind = (IF view' = "overview" THEN "poll" ELSE "load")

Opens ==
    /\ auth = "ready" /\ dialog.kind = "none" /\ token = None /\ NoLogout
    /\ (dialog'.kind = "issue" => dialog'.ids = {})
    /\ UNCHANGED <<view, net, list, token, stored>>

Confirms ==
    /\ auth = "ready" /\ dialog.kind # "none" /\ ~dialog.busy
    /\ dialog'.kind = dialog.kind /\ dialog'.ids = dialog.ids /\ dialog'.busy
    /\ Stays(Len(net) + 1, Len(net)) /\ UNCHANGED <<view, list, token, stored>>
    /\ Len(net') = Len(net) + 1
    /\ Added.kind = dialog.kind /\ Added.ids = dialog.ids

Cancels ==
    /\ auth = "ready" /\ ~dialog.busy /\ dialog' = NoDialog /\ Len(net') = Len(net)
    /\ Stays(Len(net) + 1, Len(net)) /\ UNCHANGED <<view, list, token, stored>>

Dismisses ==
    /\ auth = "ready" /\ token # None /\ token' = None /\ stored' = stored \cup {token}
    /\ UNCHANGED <<view, net, list, dialog>>

PageTurn ==
    /\ Rests \/ Leaves \/ Opens \/ Confirms \/ Cancels \/ Dismisses
    /\ server' = server \/ "elsewhere" \in trouble'
    /\ live' = live \/ "expired" \in trouble'

LEMMA PageTurns ==
  ASSUME Typed, ~impatient, PageAction PROVE PageTurn
<1>0. /\ net \in Seq(Requests) /\ cookie \in 0..MaxSessions /\ Len(net) \in Nat
      /\ dialog \in Dialogs /\ dialog.kind \in {"none"} \cup Changes
      /\ dialog.ids \subseteq Creds
  BY TypedIs
<1>1. ASSUME NEW k \in Kinds, NEW ids \in SUBSET Creds, net' = Append(net, Request(k, ids))
      PROVE  /\ Stays(Len(net) + 1, Len(net)) /\ Len(net') = Len(net) + 1
             /\ Added.kind = k /\ Added.ids = ids
  <2> PICK r \in Requests : r = Request(k, ids) /\ r.kind = k /\ r.ids = ids
    BY <1>0, RequestIs
  <2> QED
    BY <1>0, <1>1, SendIs DEF Added
<1>2. CASE Login \/ Logout \/ Poll \/ Refresh
  <2>1. /\ UNCHANGED <<view, list, dialog, token, stored, server, live>>
        /\ \E k \in {"login", "logout", "poll", "load"} :
              /\ net' = Append(net, Request(k, {}))
              /\ k = "logout" => dialog.kind = "none" /\ token = None
    BY <1>2 DEF Login, Logout, Poll, Refresh, pageVars, serverVars
  <2> PICK k \in {"login", "logout", "poll", "load"} :
              /\ net' = Append(net, Request(k, {}))
              /\ k = "logout" => dialog.kind = "none" /\ token = None
    BY <2>1
  <2>2. /\ Stays(Len(net) + 1, Len(net)) /\ Added.kind = k
    BY <1>1 DEF Kinds
  <2> QED
    BY <2>1, <2>2 DEF PageTurn, Rests
<1>3. CASE Filter \/ Toggle \/ SessionEnds \/ Elsewhere \/ UNCHANGED vars
  <2>1. /\ UNCHANGED <<view, net, list, dialog, token, stored>>
        /\ server' = server \/ "elsewhere" \in trouble'
        /\ live' = live \/ "expired" \in trouble'
    BY <1>3 DEF Filter, Toggle, SessionEnds, Elsewhere, vars, pageVars, serverVars
  <2>2. Stays(Len(net) + 1, Len(net)) /\ Len(net') # Len(net) + 1
    BY <1>0, <2>1, StayIs
  <2> QED
    BY <2>1, <2>2 DEF PageTurn, Rests
<1>4. CASE Navigate
  <2> PICK r \in Requests : /\ r = FirstRequest(view')
                            /\ r.kind = (IF view' = "overview" THEN "poll" ELSE "load")
    BY <1>0, FirstIs
  <2>1. /\ net' = Append(Orphaned(net), r) /\ auth = "ready"
        /\ dialog.kind = "none" /\ token = None /\ Blank
        /\ UNCHANGED <<stored, server, live>>
    BY <1>4 DEF Navigate, serverVars
  <2>2. Goes(Len(net)) /\ Len(net') = Len(net) + 1 /\ Added = r
    BY <1>0, <2>1, NavigateIs DEF Added
  <2>3. dialog' = NoDialog /\ token' = None
    BY <2>1 DEF Blank
  <2> QED
    BY <2>1, <2>2, <2>3 DEF PageTurn, Leaves
<1>5. CASE OpenDialog
  <2>1. /\ auth = "ready" /\ dialog.kind = "none" /\ token = None /\ NoLogout
        /\ UNCHANGED <<view, net, list, token, stored, server, live>>
    BY <1>5 DEF OpenDialog, Free, OnPage, NoLogout, serverVars
  <2>2. \/ \E ids : Ask("revoke", ids) \/ Ask("purge", ids)
        \/ Ask("issue", {})
    BY <1>5 DEF OpenDialog
  <2>3. \A k, ids : Ask(k, ids) => dialog'.kind = k /\ dialog'.ids = ids
    BY DEF Ask
  <2>4. dialog'.kind = "issue" => dialog'.ids = {}
    BY <2>2, <2>3
  <2> QED
    BY <2>1, <2>4 DEF PageTurn, Opens
<1>6. CASE Confirm
  <2>1. /\ auth = "ready" /\ dialog.kind # "none" /\ ~dialog.busy
        /\ net' = Append(net, Request(dialog.kind, dialog.ids))
        /\ UNCHANGED <<view, list, token, stored, server, live>>
        /\ dialog' = [dialog EXCEPT !.busy = TRUE]
    BY <1>6 DEF Confirm, OnPage, serverVars
  <2>2. dialog.kind \in Kinds
    BY <1>0, <2>1 DEF Kinds
  <2>3. /\ Stays(Len(net) + 1, Len(net)) /\ Len(net') = Len(net) + 1
        /\ Added.kind = dialog.kind /\ Added.ids = dialog.ids
    BY <1>0, <1>1, <2>1, <2>2
  <2>4. dialog'.kind = dialog.kind /\ dialog'.ids = dialog.ids /\ dialog'.busy
    BY <1>0, <2>1 DEF Dialogs
  <2> QED
    BY <2>1, <2>3, <2>4 DEF PageTurn, Confirms
<1>7. CASE Cancel
  <2>1. /\ auth = "ready" /\ ~dialog.busy /\ dialog' = NoDialog
        /\ net' = [i \in DOMAIN net |-> [net[i] EXCEPT !.dialog = FALSE]]
        /\ UNCHANGED <<view, list, token, stored, server, live>>
    BY <1>7 DEF Cancel, OnPage, serverVars
  <2>2. Stays(Len(net) + 1, Len(net)) /\ Len(net') = Len(net)
    BY <1>0, <2>1, CancelIs
  <2> QED
    BY <2>1, <2>2 DEF PageTurn, Cancels
<1>8. CASE Dismiss
  BY <1>8 DEF Dismiss, OnPage, serverVars, PageTurn, Dismisses
<1> QED
  BY <1>2, <1>3, <1>4, <1>5, <1>6, <1>7, <1>8 DEF PageAction

LEMMA BeginsAlone ==
  ASSUME Typed, Orderly, ~overtaking, NEW i, Arrival(i), ShowsApp(net[i])
  PROVE  i = 1 /\ Len(net) = 1
<1>1. i = 1 /\ 1 \in DOMAIN net
  BY TypedIs DEF Arrival
<1>2. CASE net[1].kind = "check"
  BY <1>1, <1>2 DEF Typed, CheckAlone
<1>3. CASE net[1].kind = "login"
  BY <1>1, <1>3 DEF Orderly, LoginLast
<1> QED
  BY <1>1, <1>2, <1>3 DEF ShowsApp

LEMMA OneChangePage ==
  ASSUME Typed, OneChange, ~impatient, PageAction PROVE OneChange'
<1>0. /\ PageStep /\ PageTurn /\ dialog.kind \in {"none"} \cup Changes
  BY PageSteps, PageTurns, TypedIs
<1> PICK n : n = Len(net)
  OBVIOUS
<1>1. /\ Keeps(n + 1, n) /\ auth' = auth
      /\ Len(net') = n + 1 => Added.mounted
  BY <1>0 DEF PageStep, Added
<1>2. /\ Added = net'[n + 1]
      /\ Len(net') = n \/ Len(net') = n + 1
      /\ \A k \in DOMAIN net' : k \in 1..n \/ (Len(net') = n + 1 /\ k = n + 1)
      /\ \A k \in 1..n : /\ From(n + 1, k) \in DOMAIN net
                         /\ net'[k].kind = net[From(n + 1, k)].kind
      /\ \A j, k \in 1..n : From(n + 1, j) = From(n + 1, k) => j = k
  BY <1>1, SameIs DEF Added
<1> SUFFICES ASSUME auth # "login", NEW i \in DOMAIN net', net'[i].kind \in Changes
             PROVE  /\ auth = "ready" /\ net'[i].mounted
                    /\ dialog'.kind = net'[i].kind /\ dialog'.busy
                    /\ \A j \in DOMAIN net' : net'[j].kind \in Changes => i = j
  BY <1>1 DEF OneChange
<1>3. CASE Stays(n + 1, n) /\ dialog' = dialog
           /\ (Len(net') = n + 1 => Added.kind \notin Changes)
  <2>1. \A k \in DOMAIN net' : net'[k].kind \in Changes => k \in 1..n
    BY <1>2, <1>3
  <2>2. /\ auth = "ready" /\ net[From(n + 1, i)].mounted
        /\ dialog.kind = net[From(n + 1, i)].kind /\ dialog.busy
        /\ \A j \in DOMAIN net : net[j].kind \in Changes => From(n + 1, i) = j
    BY <1>2, <2>1 DEF OneChange
  <2>3. net'[i].mounted
    BY <1>3, <2>1, <2>2 DEF Stays, Shows
  <2> QED
    BY <1>2, <1>3, <2>1, <2>2, <2>3
<1>4. ASSUME dialog.kind = "none" \/ ~dialog.busy, NEW k \in 1..n
      PROVE  net'[k].kind \notin Changes
  BY <1>2, <1>4 DEF OneChange, Changes
<1>5. CASE Confirms
  <2>1. \A k \in DOMAIN net' : net'[k].kind \in Changes => k = n + 1
    BY <1>2, <1>4, <1>5 DEF Confirms
  <2>2. i = n + 1 /\ Len(net') = n + 1
    BY <1>2, <1>4, <1>5, <2>1 DEF Confirms
  <2> QED
    BY <1>1, <1>2, <1>5, <2>1, <2>2 DEF Confirms
<1>6. CASE Rests
  BY <1>3, <1>6 DEF Rests, Changes
<1>7. CASE Leaves \/ Opens \/ Cancels
  <2>1. dialog.kind = "none" \/ ~dialog.busy
    BY <1>7 DEF Leaves, Opens, Cancels
  <2>2. i = n + 1 /\ Len(net') = n + 1
    BY <1>2, <1>4, <2>1
  <2>3. Len(net') = n + 1 => Added.kind \notin Changes
    <3>1. n \in Nat /\ (Opens => Len(net') = n)
      BY TypedIs DEF Opens
    <3>2. n + 1 # n
      BY <3>1
    <3> QED
      BY <1>7, <3>1, <3>2 DEF Leaves, Opens, Cancels, Changes
  <2> QED
    BY <1>2, <2>2, <2>3
<1>8. CASE Dismisses
  <2>1. Len(net) \in Nat
    BY TypedIs
  <2>2. net' = net => Keeps(n + 1, n) /\ Stays(n + 1, n) /\ Len(net') # n + 1
    BY <2>1, TypedIs, StayIs
  <2> QED
    BY <1>3, <1>8, <2>2 DEF Dismisses
<1> QED
  BY <1>0, <1>5, <1>6, <1>7, <1>8 DEF PageTurn

LEMMA OneChangeService ==
  ASSUME Typed, OneChange, NEW i, Service(i) PROVE OneChange'
<1>1. net \in Seq(Requests) /\ DOMAIN net = 1..Len(net)
  BY TypedIs
<1>2. i \in 1..Len(net) /\ auth' = auth /\ dialog' = dialog /\ \E p : Answers(i, p)
  BY DEF Service, pageVars
<1>3. /\ DOMAIN net' = 1..Len(net)
      /\ \A k \in 1..Len(net) : net'[k].kind = net[k].kind /\ net'[k].mounted = net[k].mounted
  BY <1>1, <1>2, AnsweredIs
<1> QED
  BY <1>1, <1>2, <1>3 DEF OneChange

\* An answer that is not to the change leaves the dialog to it.
LEMMA SettledIs ==
  ASSUME Typed, OneChange, NEW i \in DOMAIN net, auth # "login", GoesOn(i)
  PROVE  /\ net[i].kind \notin Changes => token' = token /\
               ((\E k \in DOMAIN net : net[k].kind \in Changes) => dialog' = dialog)
         /\ dialog'.kind \in {dialog.kind, "none"}
         /\ dialog'.kind # "none" => dialog'.ids = dialog.ids
<1>0. dialog \in Dialogs /\ dialog.kind \in {"none"} \cup Changes
  BY TypedIs
<1>1. \/ net[i].mounted /\ PageGets(net[i])
      \/ dialog' = dialog /\ token' = token
  BY DEF GoesOn, pageVars
<1> PICK d : d = [dialog EXCEPT !.busy = FALSE]
  OBVIOUS
<1>2. dialog' = dialog \/ dialog' = NoDialog \/ dialog' = d
  BY <1>1 DEF PageGets, Settled
<1>3. d.kind = dialog.kind /\ d.ids = dialog.ids /\ NoDialog.kind = "none"
  BY <1>0 DEF Dialogs, NoDialog
<1>4. ASSUME net[i].kind \notin Changes PROVE token' = token
  BY <1>1, <1>4 DEF PageGets, Changes
<1>5. ASSUME net[i].kind \notin Changes, NEW k \in DOMAIN net, net[k].kind \in Changes
      PROVE  dialog' = dialog
  <2>1. dialog.kind \in Changes
    BY <1>5 DEF OneChange
  <2> QED
    BY <1>1, <1>5, <2>1 DEF PageGets, Settled, Changes
<1>6. /\ dialog'.kind \in {dialog.kind, "none"}
      /\ dialog'.kind # "none" => dialog'.ids = dialog.ids
  BY <1>2, <1>3
<1> QED
  BY <1>4, <1>5, <1>6

LEMMA OneChangeArrival ==
  ASSUME Typed, Orderly, ~overtaking, OneChange, NEW i, Arrival(i) PROVE OneChange'
<1>0. i \in DOMAIN net /\ Keeps(i, Len(net) - 1)
  BY TypedIs DEF Arrival
<1> PICK n : n = Len(net) - 1
  OBVIOUS
<1>a. Len(net) \in Nat /\ Len(net) = n + 1
  BY TypedIs
<1>b. Keeps(i, n)
  BY <1>0
<1>1. /\ n \in Nat
      /\ Len(net') = n \/ Len(net') = n + 1
      /\ \A k \in DOMAIN net' : k \in 1..n \/ (Len(net') = n + 1 /\ k = n + 1)
      /\ \A k \in 1..n : /\ From(i, k) \in DOMAIN net /\ From(i, k) # i
                         /\ net'[k].kind = net[From(i, k)].kind
      /\ \A j, k \in 1..n : From(i, j) = From(i, k) => j = k
  <2>1. \A m : Keeps(i, m) =>
           /\ m \in Nat
           /\ Len(net') = m \/ Len(net') = m + 1
           /\ \A k \in DOMAIN net' : k \in 1..m \/ (Len(net') = m + 1 /\ k = m + 1)
           /\ \A k \in 1..m : /\ From(i, k) \in DOMAIN net /\ From(i, k) # i
                              /\ net'[k].kind = net[From(i, k)].kind
           /\ \A j, k \in 1..m : From(i, j) = From(i, k) => j = k
    BY SameIs
  <2> QED
    BY <1>b, <2>1
<1>2. CASE Ends(i)
  BY <1>2 DEF Ends, OneChange
<1>3. CASE Begins(i)
  <2>1. Len(net) = 1
    BY <1>3, BeginsAlone DEF Begins
  <2>2. \A m \in Nat : m + 1 = 1 => m = 0 /\ \A k : k \notin 1..m
    OBVIOUS
  <2>3. \A k \in DOMAIN net' : k = n + 1
    BY <1>1, <1>a, <2>1, <2>2
  <2>4. net'[n + 1].kind \notin Changes
    BY <1>3, <1>a DEF Begins, Changes
  <2> QED
    BY <2>3, <2>4 DEF OneChange
<1>4. CASE GoesOn(i)
  <2> SUFFICES ASSUME auth # "login", NEW k \in DOMAIN net', net'[k].kind \in Changes
               PROVE  /\ auth = "ready" /\ net'[k].mounted
                      /\ dialog'.kind = net'[k].kind /\ dialog'.busy
                      /\ \A j \in DOMAIN net' : net'[j].kind \in Changes => k = j
    BY <1>4 DEF OneChange, GoesOn
  <2>1. \A j \in DOMAIN net' : net'[j].kind \in Changes => j \in 1..n
    <3>1. Len(net') = n + 1 => Reloads(net[i])
      <4>1. n + 1 # n
        BY <1>1
      <4>2. Len(net') = (IF Reloads(net[i]) THEN n + 1 ELSE n)
        BY <1>4, <1>a DEF GoesOn
      <4> QED
        BY <4>1, <4>2
    <3>2. Len(net') = n + 1 => net'[n + 1].kind = "load"
      BY <1>4, <1>a, <3>1 DEF GoesOn
    <3> QED
      BY <1>1, <3>2 DEF Changes
  <2>2. /\ auth = "ready" /\ net[From(i, k)].mounted
        /\ dialog.kind = net[From(i, k)].kind /\ dialog.busy
        /\ \A j \in DOMAIN net : net[j].kind \in Changes => From(i, k) = j
    BY <1>1, <2>1 DEF OneChange
  <2>3. net[i].kind \notin Changes
    BY <1>0, <1>1, <2>1, <2>2
  <2>4. dialog' = dialog
    BY <1>0, <1>1, <1>4, <2>1, <2>3, SettledIs
  <2>5. net'[k].mounted
    BY <1>4, <2>1, <2>2 DEF GoesOn, Stays, Shows
  <2> QED
    BY <1>1, <2>1, <2>2, <2>4, <2>5
<1> QED
  BY <1>2, <1>3, <1>4 DEF Arrival

-----------------------------------------------------------------------------
(***************************************************************************)
(* A page shows what the gateway has, or is about to.                      *)
(***************************************************************************)
ChangeOk(i) == net[i].kind \in Changes /\ net[i].phase = "ok"
Ending(i) == net[i].kind \in Changes \cup {"load"} /\ net[i].phase = "401"

\* What comes of the requests that stay.
LEMMA FreshPasses ==
  ASSUME Typed, NEW i, NEW n, Keeps(i, n), Stays(i, n), server' = server,
         Len(net') = n + 1 => net'[n + 1].phase = "sent"
  PROVE  /\ \A k \in DOMAIN net : k # i =>
               /\ Loads(k, "sent") => LoadDue'
               /\ TrueFrom(k) => (\E j \in DOMAIN net : TrueFrom(j))'
               /\ ChangeOk(k) => ChangeDone'
               /\ Ending(k) => EndDue'
         /\ (/\ list' = server
             /\ \A j \in DOMAIN net : j # i /\ Loads(j, "ok") => net[j].list = server)
               => ListTrue'
<1>1. /\ n \in Nat /\ DOMAIN net = 1..Len(net)
      /\ Len(net') = n \/ Len(net') = n + 1
      /\ \A k \in DOMAIN net' : k \in 1..n \/ (Len(net') = n + 1 /\ k = n + 1)
      /\ \A k \in 1..n :
            /\ From(i, k) \in DOMAIN net /\ From(i, k) # i
            /\ net'[k].kind = net[From(i, k)].kind
            /\ net'[k].phase = net[From(i, k)].phase
            /\ net'[k].mounted = net[From(i, k)].mounted
            /\ net'[k].list = net[From(i, k)].list
      /\ \A k \in DOMAIN net : k # i => \E j \in 1..n : From(i, j) = k
  BY SameIs DEF Stays, Shows
<1>2. /\ \A j, k \in 1..n : j < k => From(i, j) < From(i, k)
      /\ 1..n \subseteq DOMAIN net'
  <2>1. net \in Seq(Requests)
    BY TypedIs
  <2>2. /\ DOMAIN net' = 1..Len(net') /\ Len(net') \in {n, n + 1}
        /\ \A j, k \in 1..n : j < k <=> From(i, j) < From(i, k)
    BY <2>1, FromIs
  <2>3. n \in Nat
    BY <1>1
  <2>4. \A m \in {n, n + 1} : 1..n \subseteq 1..m
    BY <2>3
  <2>6. 1..n \subseteq DOMAIN net'
    BY <2>2, <2>4
  <2> QED
    BY <2>2, <2>6
<1>3. \A j \in DOMAIN net' : Loads(j, "ok")' => j \in 1..n /\ Loads(From(i, j), "ok")
  BY <1>1 DEF Loads
<1>4. ASSUME NEW k \in DOMAIN net, k # i
      PROVE  /\ Loads(k, "sent") => LoadDue'
             /\ TrueFrom(k) => (\E j \in DOMAIN net : TrueFrom(j))'
             /\ ChangeOk(k) => ChangeDone'
             /\ Ending(k) => EndDue'
  <2> PICK j \in 1..n : From(i, j) = k
    BY <1>1, <1>4
  <2>1. j \in DOMAIN net'
    BY <1>2
  <2>2. Loads(k, "sent") => LoadDue'
    BY <1>1, <2>1 DEF Loads, LoadDue
  <2>3. ASSUME TrueFrom(k) PROVE TrueFrom(j)'
    <3>1. Loads(j, "ok")' /\ net'[j].list = server
      BY <1>1, <2>3 DEF TrueFrom, Loads
    <3>2. ASSUME NEW m \in DOMAIN net', j < m, Loads(m, "ok")'
          PROVE  net'[m].list = server
      <4>1. m \in 1..n /\ Loads(From(i, m), "ok")
        BY <1>3, <3>2
      <4>2. k < From(i, m) /\ From(i, m) \in DOMAIN net
        BY <1>1, <1>2, <3>2, <4>1
      <4> QED
        BY <1>1, <2>3, <4>1, <4>2 DEF TrueFrom
    <3> QED
      BY <3>1, <3>2 DEF TrueFrom
  <2>4. ChangeOk(k) => ChangeDone'
    BY <1>1, <2>1 DEF ChangeOk, ChangeDone
  <2>5. Ending(k) => EndDue'
    BY <1>1, <2>1 DEF Ending, EndDue
  <2> QED
    BY <2>1, <2>2, <2>3, <2>4, <2>5
<1>5. ASSUME list' = server,
             \A j \in DOMAIN net : j # i /\ Loads(j, "ok") => net[j].list = server
      PROVE  ListTrue'
  BY <1>1, <1>3, <1>5 DEF ListTrue
<1> QED
  BY <1>4, <1>5

LEMMA FreshIs ==
  ASSUME Freshening
  PROVE  \/ ListTrue
         \/ \E k \in DOMAIN net :
               Loads(k, "sent") \/ TrueFrom(k) \/ ChangeOk(k) \/ Ending(k)
  BY DEF Freshening, LoadDue, ChangeDone, EndDue, ChangeOk, Ending

LEMMA FreshPage ==
  ASSUME Typed, ~impatient, "elsewhere" \notin trouble', OnPage => Freshening, PageAction
  PROVE  OnPage' => Freshening'
<1>0. /\ PageStep /\ PageTurn /\ Len(net) \in Nat /\ DOMAIN net = 1..Len(net)
  BY PageSteps, PageTurns, TypedIs
<1> PICK n : n = Len(net)
  OBVIOUS
<1>1. Keeps(n + 1, n) /\ server' = server /\ auth' = auth
  BY <1>0 DEF PageStep, PageTurn
<1>a. /\ Len(net') = n + 1 => net'[n + 1].phase = "sent"
      /\ Len(net') = n + 1 => net'[n + 1].mounted
  BY <1>0 DEF PageStep
<1>b. DOMAIN net' = 1..Len(net') /\ Added = net'[n + 1] /\ n \in Nat
  BY <1>0, <1>1, FromIs, TypedIs DEF Added
<1> SUFFICES ASSUME OnPage' PROVE Freshening'
  OBVIOUS
<1>2. CASE Leaves
  <2>1. Len(net') = n + 1 /\ Added.kind = "load"
    BY <1>2 DEF Leaves, OnPage
  <2>2. n + 1 \in DOMAIN net'
    BY <1>b, <2>1
  <2>3. LoadDue'
    BY <1>a, <1>b, <2>1, <2>2 DEF LoadDue, Loads
  <2> QED
    BY <2>3 DEF Freshening
<1>3. CASE Rests \/ Opens \/ Confirms \/ Cancels \/ Dismisses
  <2>1. list' = list /\ view' = view /\ Stays(n + 1, n)
    <3>1. net' = net => Stays(n + 1, n)
      BY TypedIs, StayIs
    <3> QED
      BY <1>3, <3>1 DEF Rests, Opens, Confirms, Cancels, Dismisses
  <2>2. auth' = auth /\ server' = server
    BY <1>1
  <2>3. OnPage
    BY <2>1, <2>2 DEF OnPage
  <2>4. \A k \in DOMAIN net : k # n + 1
    BY <1>0
  <2>5. /\ \A k \in DOMAIN net : k # n + 1 =>
               /\ Loads(k, "sent") => LoadDue'
               /\ TrueFrom(k) => (\E j \in DOMAIN net : TrueFrom(j))'
               /\ ChangeOk(k) => ChangeDone'
               /\ Ending(k) => EndDue'
        /\ (/\ list' = server
            /\ \A j \in DOMAIN net :
                  j # n + 1 /\ Loads(j, "ok") => net[j].list = server)
               => ListTrue'
    BY <1>1, <1>a, <2>1, FreshPasses
  <2>7. CASE ListTrue
    <3>1. ListTrue'
      BY <2>1, <2>5, <2>7 DEF ListTrue
    <3> QED
      BY <3>1 DEF Freshening
  <2>8. CASE \E k \in DOMAIN net :
                Loads(k, "sent") \/ TrueFrom(k) \/ ChangeOk(k) \/ Ending(k)
    BY <2>4, <2>5, <2>8 DEF Freshening
  <2> QED
    BY <2>3, <2>7, <2>8, FreshIs
<1> QED
  BY <1>0, <1>2, <1>3 DEF PageTurn

LEMMA FreshService ==
  ASSUME Typed, Orderly, ~overtaking, OnPage => Freshening, NEW i, Service(i)
  PROVE  OnPage' => Freshening'
<1>0. net \in Seq(Requests) /\ DOMAIN net = 1..Len(net) /\ InOrder
  BY TypedIs DEF Orderly
<1>1. /\ i \in DOMAIN net /\ net[i].phase = "sent"
      /\ UNCHANGED <<auth, view>> /\ list' = list
      /\ \A k \in DOMAIN net : i < k => net[k].phase = "sent"
  BY <1>0 DEF Service, pageVars, InOrder
<1> SUFFICES ASSUME OnPage' PROVE Freshening'
  OBVIOUS
<1>2. Freshening
  BY <1>1 DEF OnPage
<1>3. ASSUME NEW p, Answers(i, p)
      PROVE  /\ DOMAIN net' = DOMAIN net /\ net'[i].phase = p
             /\ \A k \in DOMAIN net :
                   /\ net'[k].kind = net[k].kind /\ net'[k].mounted = net[k].mounted
                   /\ k # i => net'[k] = net[k]
  BY <1>0, <1>1, <1>3, AnsweredIs
<1>4. ASSUME NEW p \in {"ok", "401", "error"}, Answers(i, p), server' = server,
             ~(net[i].kind = "load" /\ net[i].mounted)
      PROVE  Freshening'
  <2>a. /\ DOMAIN net' = DOMAIN net
        /\ net'[i].kind = net[i].kind /\ net'[i].mounted = net[i].mounted
        /\ \A k \in DOMAIN net : k # i => net'[k] = net[k]
    BY <1>1, <1>3, <1>4
  <2>1. /\ DOMAIN net' = DOMAIN net /\ ~Loads(i, "sent") /\ ~Loads(i, "ok")'
        /\ \A k \in DOMAIN net : k # i => net'[k] = net[k]
    BY <1>4, <2>a DEF Loads
  <2>2. \A j \in DOMAIN net' : Loads(j, "ok")' => Loads(j, "ok") /\ net'[j].list = net[j].list
    BY <2>1 DEF Loads
  <2>3. CASE ListTrue
    BY <1>1, <1>4, <2>1, <2>2, <2>3 DEF ListTrue, Freshening
  <2>4. ASSUME NEW k \in DOMAIN net,
               Loads(k, "sent") \/ TrueFrom(k) \/ ChangeOk(k) \/ Ending(k)
        PROVE  Freshening'
    <3>1. k # i /\ net'[k] = net[k] /\ k \in DOMAIN net'
      BY <1>1, <2>1, <2>4 DEF TrueFrom, ChangeOk, Ending, Loads
    <3>2. Loads(k, "sent") => LoadDue'
      BY <3>1 DEF Loads, LoadDue
    <3>3. TrueFrom(k) => TrueFrom(k)'
      BY <1>4, <2>1, <2>2, <3>1 DEF TrueFrom, Loads
    <3>4. ChangeOk(k) => ChangeDone'
      BY <3>1 DEF ChangeOk, ChangeDone
    <3>5. Ending(k) => EndDue'
      BY <3>1 DEF Ending, EndDue
    <3> QED
      BY <2>4, <3>1, <3>2, <3>3, <3>4, <3>5 DEF Freshening
  <2> QED
    BY <1>2, <2>3, <2>4, FreshIs
<1>5. CASE net[i].kind \in Changes /\ Answers(i, "ok")
  <2>1. ChangeDone'
    BY <1>1, <1>3, <1>5 DEF ChangeDone
  <2> QED
    BY <2>1 DEF Freshening
<1>6. CASE net[i].kind \in Changes \cup {"load"} /\ Answers(i, "401")
  <2>1. EndDue'
    BY <1>1, <1>3, <1>6 DEF EndDue
  <2> QED
    BY <2>1 DEF Freshening
<1>7. CASE /\ net[i].kind = "load" /\ net[i].mounted /\ Answers(i, "ok")
           /\ (Loads(i, "ok")' => net'[i].list = server) /\ server' = server
  <2>1. /\ DOMAIN net' = DOMAIN net /\ Loads(i, "ok")' /\ net'[i].list = server
        /\ \A k \in DOMAIN net : k # i => net'[k] = net[k]
    BY <1>1, <1>3, <1>7 DEF Loads
  <2>2. ASSUME NEW j \in DOMAIN net', i < j PROVE ~Loads(j, "ok")'
    <3>1. j # i
      BY <1>0, <1>1, <2>1, <2>2
    <3> QED
      BY <1>1, <2>1, <2>2, <3>1 DEF Loads
  <2>3. TrueFrom(i)'
    BY <1>7, <2>1, <2>2 DEF TrueFrom
  <2> QED
    BY <1>1, <2>1, <2>3 DEF Freshening
<1>8. \/ net[i].kind \in Changes /\ Answers(i, "ok")
      \/ net[i].kind \in Changes \cup {"load"} /\ Answers(i, "401")
      \/ /\ net[i].kind = "load" /\ net[i].mounted /\ Answers(i, "ok")
         /\ (Loads(i, "ok")' => net'[i].list = server) /\ server' = server
      \/ /\ \E p \in {"ok", "401", "error"} : Answers(i, p)
         /\ server' = server /\ ~(net[i].kind = "load" /\ net[i].mounted)
  BY DEF Service, Changes
<1> QED
  BY <1>4, <1>5, <1>6, <1>7, <1>8

LEMMA FreshArrival ==
  ASSUME Typed, Orderly, OneChange, ~overtaking, OnPage => Freshening, NEW i, Arrival(i)
  PROVE  OnPage' => Freshening'
<1>0. /\ net \in Seq(Requests) /\ DOMAIN net = 1..Len(net) /\ Len(net) \in Nat
      /\ DOMAIN net' = 1..Len(net')
  BY TypedIs, ArrivalTyped
<1>1. /\ i \in DOMAIN net /\ i = 1 /\ net[i].phase # "sent" /\ Keeps(i, Len(net) - 1)
      /\ view' = view /\ server' = server
      /\ Len(net') = Len(net) => net'[Len(net)].phase = "sent"
      /\ Len(net') = Len(net) /\ ShowsApp(net[i]) => net'[Len(net)].mounted
  <2>1. i \in 1..Len(net) /\ (overtaking \/ i = 1)
    BY DEF Arrival
  <2>2. i \in DOMAIN net /\ i = 1
    BY <1>0, <2>1
  <2> QED
    BY <2>2 DEF Arrival
<1> PICK n : n = Len(net) - 1
  OBVIOUS
<1>a. Len(net) = n + 1 /\ Len(net) \in DOMAIN net /\ Keeps(i, n)
  <2>0. Len(net) \in Nat
    BY <1>0
  <2>1. Len(net) = n + 1
    BY <2>0
  <2>a. DOMAIN net = 1..Len(net)
    BY <1>0
  <2>b. i \in DOMAIN net /\ i = 1
    BY <1>1
  <2>2. DOMAIN net = 1..Len(net) /\ 1 \in DOMAIN net
    BY <2>a, <2>b
  <2>3. Len(net) \in DOMAIN net
    BY <2>0, <2>2
  <2>4. Keeps(i, n)
    BY <1>1
  <2> QED
    BY <2>1, <2>3, <2>4
<1> SUFFICES ASSUME OnPage' PROVE Freshening'
  OBVIOUS
<1>b. ASSUME Len(net') = Len(net), net'[Len(net)].kind = "load", net'[Len(net)].mounted
      PROVE  Freshening'
  <2>1. LoadDue'
    BY <1>0, <1>1, <1>a, <1>b DEF LoadDue, Loads
  <2> QED
    BY <2>1 DEF Freshening
<1>2. CASE Ends(i)
  BY <1>2 DEF Ends, OnPage
<1>3. CASE Begins(i)
  BY <1>1, <1>3, <1>b DEF Begins, OnPage
<1>4. CASE GoesOn(i) /\ Reloads(net[i])
  <2>1. auth = "ready" /\ net[i].kind \in Changes
    BY <1>4 DEF GoesOn, Reloads, Changes, OnPage
  <2>2. net[i].mounted
    BY <1>1, <2>1 DEF OneChange
  <2>3. /\ Len(net') = Len(net) /\ net'[Len(net)].kind = "load"
        /\ net'[Len(net)].mounted
    BY <1>4, <2>2 DEF GoesOn
  <2> QED
    BY <1>b, <2>3
<1>5. CASE GoesOn(i) /\ ~Reloads(net[i])
  <2>1. OnPage /\ Freshening
    BY <1>1, <1>5 DEF OnPage, GoesOn
  <2>2. Stays(i, n) /\ Len(net') = n
    BY <1>5 DEF GoesOn
  <2>3. ~Loads(i, "sent") /\ ~ChangeOk(i) /\ ~Ending(i)
    BY <1>1, <1>5 DEF Loads, ChangeOk, Ending, Reloads, GoesOn, ShowsLogin, Changes
  <2>4. list' = (IF Loads(i, "ok") THEN net[i].list ELSE list)
    <3>1. CASE net[i].mounted
      BY <1>5, <3>1 DEF GoesOn, PageGets, Loads
    <3>2. CASE ~net[i].mounted
      BY <1>5, <3>2 DEF GoesOn, pageVars, Loads
    <3> QED
      BY <3>1, <3>2
  <2>5. n \in Nat
    BY <1>a DEF Keeps
  <2>6. Len(net') # n + 1
    BY <2>2, <2>5
  <2>7. /\ \A k \in DOMAIN net : k # i =>
               /\ Loads(k, "sent") => LoadDue'
               /\ TrueFrom(k) => (\E j \in DOMAIN net : TrueFrom(j))'
               /\ ChangeOk(k) => ChangeDone'
               /\ Ending(k) => EndDue'
        /\ (/\ list' = server
            /\ \A j \in DOMAIN net : j # i /\ Loads(j, "ok") => net[j].list = server)
               => ListTrue'
    BY <1>1, <1>a, <2>2, <2>6, FreshPasses
  <2>8. CASE ListTrue
    BY <1>1, <2>4, <2>7, <2>8 DEF ListTrue, Freshening
  <2>9. ASSUME NEW k \in DOMAIN net, k # i,
               Loads(k, "sent") \/ TrueFrom(k) \/ ChangeOk(k) \/ Ending(k)
        PROVE  Freshening'
    BY <2>7, <2>9 DEF Freshening
  <2>10. CASE TrueFrom(i)
    <3>1. list' = server
      BY <2>4, <2>10 DEF TrueFrom
    <3>2. \A j \in DOMAIN net : j # 1 => 1 < j
      BY <1>0
    <3>3. \A j \in DOMAIN net : j # i /\ Loads(j, "ok") => net[j].list = server
      BY <1>1, <2>10, <3>2 DEF TrueFrom
    <3> QED
      BY <2>7, <3>1, <3>3 DEF Freshening
  <2> QED
    BY <2>1, <2>3, <2>8, <2>9, <2>10, FreshIs
<1> QED
  BY <1>2, <1>3, <1>4, <1>5 DEF Arrival

-----------------------------------------------------------------------------
(***************************************************************************)
(* A token that was issued reaches the admin.                              *)
(***************************************************************************)
Issued(i, c) == net[i].kind = "issue" /\ net[i].ids = {c}

LEMMA HeldPasses ==
  ASSUME Typed, NEW i, NEW n, Keeps(i, n),
         Len(net') = n + 1 => net'[n + 1].phase = "sent"
  PROVE  /\ \A c : \A k \in DOMAIN net : k # i /\ Issued(k, c) =>
               (\E j \in DOMAIN net : Issued(j, c))'
         /\ NoLogout' /\ (i \in DOMAIN net => net[i].kind # "logout") => NoLogout
         /\ (Len(net') = n + 1 => net'[n + 1].kind # "logout") /\ NoLogout => NoLogout'
         /\ /\ IssuesHere /\ auth' = auth
            /\ Len(net') = n + 1 /\ net'[n + 1].kind = "issue" =>
                  auth = "ready" /\ net'[n + 1].ids = {}
            => IssuesHere'
         /\ AnswersLive /\ cookie' = cookie /\ live' = live => AnswersLive'
         /\ (\A k \in DOMAIN net : net[k].phase # "401") =>
               (\A k \in DOMAIN net' : net'[k].phase # "401")
<1>1. /\ n \in Nat /\ DOMAIN net = 1..Len(net)
      /\ \A k \in DOMAIN net' : k \in 1..n \/ (Len(net') = n + 1 /\ k = n + 1)
      /\ \A k \in 1..n :
            /\ From(i, k) \in DOMAIN net /\ From(i, k) # i
            /\ net'[k].kind = net[From(i, k)].kind
            /\ net'[k].phase = net[From(i, k)].phase
            /\ net'[k].cookie = net[From(i, k)].cookie
            /\ net'[k].ids = net[From(i, k)].ids
      /\ \A k \in DOMAIN net : k # i => \E j \in 1..n : From(i, j) = k
  BY SameIs
<1>2. 1..n \subseteq DOMAIN net'
  <2>1. net \in Seq(Requests)
    BY TypedIs
  <2>2. DOMAIN net' = 1..Len(net') /\ Len(net') \in {n, n + 1}
    BY <2>1, FromIs
  <2>3. n \in Nat
    BY <1>1
  <2>4. \A m \in {n, n + 1} : 1..n \subseteq 1..m
    BY <2>3
  <2> QED
    BY <2>2, <2>4
<1>3. \A k \in DOMAIN net : k # i => \E j \in DOMAIN net' : j \in 1..n /\ From(i, j) = k
  BY <1>1, <1>2
<1>4. ASSUME NEW c, NEW k \in DOMAIN net, k # i, Issued(k, c)
      PROVE  (\E j \in DOMAIN net : Issued(j, c))'
  BY <1>1, <1>3, <1>4 DEF Issued
<1>5. ASSUME NoLogout', i \in DOMAIN net => net[i].kind # "logout" PROVE NoLogout
  BY <1>1, <1>3, <1>5 DEF NoLogout, InFlight
<1>6. ASSUME Len(net') = n + 1 => net'[n + 1].kind # "logout", NoLogout PROVE NoLogout'
  BY <1>1, <1>6 DEF NoLogout, InFlight
<1>7. ASSUME IssuesHere, auth' = auth,
             Len(net') = n + 1 /\ net'[n + 1].kind = "issue" =>
                auth = "ready" /\ net'[n + 1].ids = {}
      PROVE  IssuesHere'
  BY <1>1, <1>7 DEF IssuesHere
<1>8. ASSUME AnswersLive, cookie' = cookie, live' = live PROVE AnswersLive'
  BY <1>1, <1>8 DEF AnswersLive
<1>9. ASSUME \A k \in DOMAIN net : net[k].phase # "401", NEW k \in DOMAIN net'
      PROVE  net'[k].phase # "401"
  BY <1>1, <1>9
<1> QED
  BY <1>4, <1>5, <1>6, <1>7, <1>8, <1>9

LEMMA HeldPage ==
  ASSUME Typed, ~impatient, "expired" \notin trouble', Held, AllAccounted, PageAction
  PROVE  Held' /\ AllAccounted'
<1>0. /\ PageStep /\ PageTurn
      /\ TokenAlone /\ IssuesHere /\ AnswersLive /\ AppLive
      /\ dialog.kind \in {"none"} \cup Changes
  BY PageSteps, PageTurns, TypedIs DEF Held
<1> PICK n : n = Len(net)
  OBVIOUS
<1>1. /\ Keeps(n + 1, n) /\ UNCHANGED <<auth, cookie, live, minted>>
      /\ Len(net') = n + 1 => net'[n + 1].phase = "sent"
  BY <1>0 DEF PageStep, PageTurn
<1>2. n \in Nat /\ n + 1 \notin DOMAIN net /\ Added = net'[n + 1]
  <2>1. n \in Nat /\ DOMAIN net = 1..n
    BY TypedIs
  <2> QED
    BY <2>1 DEF Added
<1>3. /\ \A c : \A k \in DOMAIN net : Issued(k, c) => (\E j \in DOMAIN net : Issued(j, c))'
      /\ NoLogout' => NoLogout
      /\ (Len(net') = n + 1 => net'[n + 1].kind # "logout") /\ NoLogout => NoLogout'
      /\ AnswersLive'
      /\ (\A k \in DOMAIN net : net[k].phase # "401") =>
               (\A k \in DOMAIN net' : net'[k].phase # "401")
      /\ (Len(net') = n + 1 /\ net'[n + 1].kind = "issue" =>
             auth = "ready" /\ net'[n + 1].ids = {}) => IssuesHere'
  BY <1>0, <1>1, <1>2, HeldPasses
<1>4. AppLive'
  BY <1>0, <1>1, <1>3 DEF AppLive
<1>5. IssuesHere'
  <2>1. Len(net') = n + 1 /\ net'[n + 1].kind = "issue" => Confirms
    BY <1>0, <1>2, TypedIs DEF PageTurn, Rests, Leaves, Opens, Cancels, Dismisses
  <2>2. Confirms /\ net'[n + 1].kind = "issue" => auth = "ready" /\ net'[n + 1].ids = {}
    BY <1>0, <1>2 DEF Confirms, TokenAlone
  <2> QED
    BY <1>3, <2>1, <2>2
<1>6. TokenAlone'
  <2>1. CASE Rests
    <3>1. CASE Len(net') = n + 1 => net'[n + 1].kind # "logout"
      BY <1>0, <1>3, <2>1, <3>1 DEF Rests, TokenAlone
    <3>2. CASE Len(net') = n + 1 /\ net'[n + 1].kind = "logout"
      BY <1>0, <1>2, <2>1, <3>2 DEF Rests, TokenAlone
    <3> QED
      BY <3>1, <3>2
  <2>2. CASE Leaves
    BY <2>2 DEF Leaves, NoDialog, TokenAlone
  <2>3. CASE Opens
    <3>1. NoLogout'
      BY <2>3 DEF Opens, NoLogout, InFlight
    <3> QED
      BY <2>3, <3>1 DEF Opens, TokenAlone
  <2>4. CASE Confirms
    <3>1. NoLogout'
      BY <1>0, <1>2, <1>3, <2>4 DEF Confirms, TokenAlone, Changes
    <3> QED
      BY <1>0, <2>4, <3>1 DEF Confirms, TokenAlone
  <2>5. CASE Cancels
    <3>1. Len(net') # n + 1
      <4>1. Len(net') = n /\ n # n + 1
        BY <1>2, <2>5 DEF Cancels
      <4> QED
        BY <4>1
    <3> QED
      BY <1>0, <1>3, <2>5, <3>1 DEF Cancels, NoDialog, TokenAlone
  <2>6. CASE Dismisses
    <3>1. ~NoLogout' => ~NoLogout
      BY <2>6 DEF Dismisses, NoLogout, InFlight
    <3> QED
      BY <1>0, <2>6, <3>1 DEF Dismisses, TokenAlone
  <2> QED
    BY <1>0, <2>1, <2>2, <2>3, <2>4, <2>5, <2>6 DEF PageTurn
<1>7. AllAccounted'
  <2> SUFFICES ASSUME NEW c \in minted \ stored'
               PROVE  c = token' \/ (\E j \in DOMAIN net : Issued(j, c))'
    BY <1>1 DEF AllAccounted, Issued
  <2>1. stored \subseteq stored'
    BY <1>0 DEF PageTurn, Rests, Leaves, Opens, Confirms, Cancels, Dismisses
  <2>2. c \in Creds /\ c # None
    BY ConsoleAssumption DEF Typed, TokensMinted
  <2>3. c = token \/ \E k \in DOMAIN net : Issued(k, c)
    BY <2>1 DEF AllAccounted, Issued
  <2>4. c = token => c = token'
    BY <1>0, <2>2 DEF PageTurn, Rests, Leaves, Opens, Confirms, Cancels, Dismisses
  <2> QED
    BY <1>3, <2>3, <2>4
<1> QED
  BY <1>3, <1>4, <1>5, <1>6, <1>7 DEF Held

LEMMA HeldService ==
  ASSUME Typed, Orderly, ~overtaking, Held, AllAccounted, NEW i, Service(i)
  PROVE  Held' /\ AllAccounted'
<1>0. /\ net \in Seq(Requests) /\ DOMAIN net = 1..Len(net)
      /\ TokenAlone /\ IssuesHere /\ AnswersLive /\ AppLive
      /\ InOrder /\ LoginLast /\ AppTrue /\ CheckAlone
  BY TypedIs DEF Held, Orderly, Typed
<1>1. /\ i \in DOMAIN net /\ net[i].phase = "sent"
      /\ UNCHANGED <<auth, cookie, stored, dialog, token>>
      /\ \A k \in DOMAIN net : i < k => net[k].phase = "sent"
  BY <1>0 DEF Service, pageVars, InOrder
<1>2. ASSUME NEW p, Answers(i, p)
      PROVE  /\ DOMAIN net' = DOMAIN net /\ net'[i].phase = p
             /\ \A k \in DOMAIN net : net'[k].kind = net[k].kind /\ (k # i => net'[k] = net[k])
  BY <1>0, <1>1, <1>2, AnsweredIs
<1>3. PICK p \in {"ok", "401", "error"} : Answers(i, p)
  BY DEF Service
<1>4. /\ DOMAIN net' = DOMAIN net /\ net'[i].phase = p
      /\ \A k \in DOMAIN net : net'[k].kind = net[k].kind /\ (k # i => net'[k] = net[k])
  BY <1>2, <1>3
<1>5. NoLogout' <=> NoLogout
  BY <1>4 DEF NoLogout, InFlight
<1>6. TokenAlone'
  BY <1>0, <1>1, <1>5 DEF TokenAlone
<1>7. /\ net[i].kind = "issue" /\ p # "ok" => net'[i].ids = net[i].ids
      /\ net[i].kind = "login" /\ p = "ok" => net'[i].cookie \in live'
      /\ net[i].kind \notin {"login", "logout"} /\ p # "401" => net[i].cookie \in live
      /\ net[i].kind \notin {"login", "logout"} /\ p = "401" => net[i].cookie \notin live
      /\ net[i].kind # "logout" => live \subseteq live'
      /\ net[i].kind = "logout" => p = "ok"
      /\ p = "ok" /\ net[i].kind = "issue" =>
            \E c \in Creds : minted' = minted \cup {c} /\ net'[i].ids = {c}
      /\ ~(p = "ok" /\ net[i].kind = "issue") => minted' = minted
  <2>1. ASSUME NEW q \in {"ok", "401", "error"}, Answers(i, q) PROVE p = q
    BY <1>1, <1>2, <1>4, <2>1
  <2> QED
    BY <1>3, <2>1 DEF Service, Changes
<1>8. IssuesHere'
  BY <1>0, <1>1, <1>4, <1>7 DEF IssuesHere
<1>9. AppLive'
  <2> SUFFICES ASSUME auth = "ready", NoLogout
               PROVE  cookie \in live' /\ \A k \in DOMAIN net : net'[k].phase # "401"
    BY <1>1, <1>4, <1>5 DEF AppLive
  <2>1. /\ cookie \in live /\ \A k \in DOMAIN net : net[k].phase # "401"
        /\ net[i].kind # "logout" /\ net[i].kind # "login" /\ net[i].cookie = cookie
    BY <1>0, <1>1 DEF AppLive, NoLogout, InFlight, LoginLast, AppTrue
  <2> QED
    BY <1>4, <1>7, <2>1
<1>10. AnswersLive'
  <2> SUFFICES ASSUME NEW k \in DOMAIN net, net'[k].phase = "ok"
               PROVE  /\ net[k].kind = "check" => cookie \in live'
                      /\ net[k].kind = "login" => net'[k].cookie \in live'
    BY <1>1, <1>4 DEF AnswersLive
  <2>1. CASE k = i
    <3>1. ASSUME net[i].kind = "check" PROVE cookie \in live'
      <4>1. auth = "checking"
        BY <1>0, <1>1, <3>1 DEF CheckAlone
      <4>2. net[i].cookie = cookie
        BY <1>0, <1>1, <4>1 DEF AppTrue
      <4> QED
        BY <1>4, <1>7, <2>1, <3>1, <4>2
    <3> QED
      BY <1>4, <1>7, <2>1, <3>1
  <2>2. CASE k # i
    <3>1. /\ net'[k] = net[k] /\ net[k].phase = "ok"
          /\ net[k].kind = "check" => cookie \in live
          /\ net[k].kind = "login" => net[k].cookie \in live
      BY <1>0, <1>4, <2>2 DEF AnswersLive
    <3>2. net[k].kind # "login"
      <4>1. ASSUME net[k].kind = "login" PROVE i < k
        <5>1. k = Len(net) /\ k \in 1..Len(net) /\ i \in 1..Len(net)
          BY <1>0, <1>1, <4>1 DEF LoginLast
        <5>2. \A l \in Nat : \A m \in 1..l : m # l => m < l
          OBVIOUS
        <5>3. Len(net) \in Nat
          BY TypedIs
        <5> QED
          BY <2>2, <5>1, <5>2, <5>3
      <4> QED
        BY <1>1, <3>1, <4>1
    <3>3. net[k].kind = "check" => net[i].kind # "logout"
      <4>1. ASSUME net[k].kind = "check" PROVE FALSE
        <5>1. Len(net) = 1
          BY <1>0, <4>1 DEF CheckAlone
        <5>2. \A m \in 1..1 : m = 1
          OBVIOUS
        <5> QED
          BY <1>0, <1>1, <2>2, <5>1, <5>2
      <4> QED
        BY <4>1
    <3> QED
      BY <1>7, <3>1, <3>2, <3>3
  <2> QED
    BY <2>1, <2>2
<1>11. AllAccounted'
  <2> SUFFICES ASSUME NEW c \in minted' \ stored
               PROVE  c = token \/ \E j \in DOMAIN net : net'[j].kind = "issue" /\ net'[j].ids = {c}
    BY <1>1, <1>4 DEF AllAccounted
  <2>1. CASE c \in minted
    <3>1. CASE \E k \in DOMAIN net : net[k].kind = "issue" /\ net[k].ids = {c}
      <4> PICK k \in DOMAIN net : net[k].kind = "issue" /\ net[k].ids = {c}
        BY <3>1
      <4>1. k # i
        BY <1>0, <1>1 DEF IssuesHere
      <4> QED
        BY <1>4, <4>1
    <3> QED
      BY <2>1, <3>1 DEF AllAccounted
  <2>2. CASE c \notin minted
    <3>1. net[i].kind = "issue" /\ net'[i].ids = {c}
      BY <1>7, <2>2
    <3> QED
      BY <1>1, <1>4, <3>1
  <2> QED
    BY <2>1, <2>2
<1> QED
  BY <1>6, <1>8, <1>9, <1>10, <1>11 DEF Held

LEMMA HeldArrival ==
  ASSUME Typed, Orderly, ~overtaking, OneChange, Held, AllAccounted, NEW i, Arrival(i)
  PROVE  Held' /\ AllAccounted'
<1>0. /\ DOMAIN net = 1..Len(net) /\ Len(net) \in Nat
      /\ TokenAlone /\ IssuesHere /\ AnswersLive /\ AppLive
      /\ PhasesTrue /\ LoginLast /\ CheckAlone /\ AppOnly
      /\ dialog.kind \in {"none"} \cup Changes
      /\ \A k \in DOMAIN net : net[k].phase \in {"sent", "ok", "401", "error"}
  BY TypedIs DEF Held, Orderly, Typed
<1>1. /\ i \in DOMAIN net /\ net[i].phase # "sent" /\ cookie' = CookieAfter(net[i])
      /\ UNCHANGED <<stored, live, minted>>
      /\ Ends(i) \/ Begins(i) \/ GoesOn(i)
  BY <1>0 DEF Arrival
<1> PICK n : n = Len(net) - 1
  OBVIOUS
<1>2. Len(net) = n + 1 /\ n \in Nat
  <2>1. Len(net) \in Nat /\ 1 \in 1..Len(net)
    BY <1>0, <1>1 DEF Arrival
  <2> QED
    BY <2>1
<1>3. /\ Keeps(i, n)
      /\ Len(net') = n + 1 => /\ net'[n + 1].phase = "sent"
                              /\ net'[n + 1].kind \in {"load", "poll"}
      /\ CheckAlone'
  <2>1. Keeps(i, n) /\ (Len(net') = Len(net) => net'[Len(net)].phase = "sent")
    BY DEF Arrival
  <2>2. Len(net') = Len(net) => net'[Len(net)].kind \in {"load", "poll"}
    <3>1. Len(net) # Len(net) - 1
      BY <1>0
    <3>2. CASE Ends(i)
      BY <3>1, <3>2 DEF Ends
    <3>3. CASE Begins(i)
      BY <3>3 DEF Begins
    <3>4. CASE GoesOn(i)
      BY <3>1, <3>4 DEF GoesOn
    <3> QED
      BY <1>1, <3>2, <3>3, <3>4
  <2> QED
    BY <1>2, <2>1, <2>2, ArrivalTyped DEF Typed
<1>4. /\ \A c : \A k \in DOMAIN net : k # i /\ Issued(k, c) =>
               (\E j \in DOMAIN net : Issued(j, c))'
      /\ NoLogout' /\ net[i].kind # "logout" => NoLogout
      /\ NoLogout => NoLogout'
      /\ IssuesHere /\ auth' = auth => IssuesHere'
      /\ cookie' = cookie => AnswersLive'
      /\ (\A k \in DOMAIN net : net[k].phase # "401") =>
               (\A k \in DOMAIN net' : net'[k].phase # "401")
  BY <1>0, <1>1, <1>3, HeldPasses
<1>5. /\ \A k \in DOMAIN net' : net'[k].phase = "401" \/ net'[k].phase = "ok" => k \in 1..n
      /\ \A k \in DOMAIN net' : net'[k].kind = "issue" => k \in 1..n
      /\ \A k \in 1..n : /\ From(i, k) \in DOMAIN net
                         /\ net'[k].kind = net[From(i, k)].kind
                         /\ net'[k].phase = net[From(i, k)].phase
                         /\ net'[k].cookie = net[From(i, k)].cookie
  BY <1>3, SameIs
<1>6. \A c \in minted : c # None
  BY ConsoleAssumption DEF Typed, TokensMinted
<1>7. auth # "ready" => token = None
  BY <1>0 DEF AppOnly
<1>8. CASE Ends(i)
  <2>1. \/ net[i].kind = "logout"
        \/ net[i].phase = "401" /\ net[i].kind # "login"
    BY <1>0, <1>1, <1>8 DEF Ends, ShowsLogin, PhasesTrue
  <2>2. auth = "ready" => dialog.kind = "none" /\ token = None
    <3> SUFFICES ASSUME auth = "ready" PROVE ~NoLogout
      BY <1>0 DEF TokenAlone
    <3> QED
      BY <1>0, <1>1, <2>1 DEF AppLive, NoLogout, InFlight
  <2>3. token = None /\ \A k \in DOMAIN net : net[k].kind # "issue"
    BY <1>0, <1>7, <2>2 DEF IssuesHere, OneChange, Changes
  <2>4. /\ auth' = "login" /\ dialog' = NoDialog /\ token' = None
    BY <1>8 DEF Ends, Blank
  <2>5. TokenAlone' /\ AppLive'
    BY <2>4 DEF TokenAlone, NoDialog, AppLive
  <2>6. IssuesHere'
    BY <1>5, <2>3 DEF IssuesHere
  <2>7. AnswersLive'
    <3> SUFFICES ASSUME NEW k \in DOMAIN net', net'[k].phase = "ok"
                 PROVE  /\ net'[k].kind # "check"
                        /\ net'[k].kind = "login" => net'[k].cookie \in live
      BY <1>1 DEF AnswersLive
    <3>1. net'[k].kind # "check"
      BY <1>3, <2>4 DEF CheckAlone
    <3>2. net'[k].kind = "login" => net'[k].cookie \in live
      BY <1>0, <1>5 DEF AnswersLive
    <3> QED
      BY <3>1, <3>2
  <2>8. AllAccounted'
    BY <1>1, <1>6, <2>3 DEF AllAccounted
  <2> QED
    BY <2>5, <2>6, <2>7, <2>8 DEF Held
<1>9. CASE Begins(i)
  <2>1. i = 1 /\ Len(net) = 1
    BY <1>9, BeginsAlone DEF Begins
  <2>2. \A k \in DOMAIN net : k = i
    <3>1. \A k \in 1..1 : k = 1
      OBVIOUS
    <3> QED
      BY <1>0, <2>1, <3>1
  <2>3. 1..n = {}
    <3>1. \A m \in Nat : m + 1 = 1 => \A k : k \notin 1..m
      OBVIOUS
    <3>2. n \in Nat /\ n + 1 = 1
      BY <1>2, <2>1
    <3>3. \A k : k \notin 1..n
      BY <3>1, <3>2
    <3> QED
      BY <3>3
  <2>4. /\ net[i].kind \in {"check", "login"} /\ net[i].phase = "ok" /\ auth # "ready"
        /\ auth' = "ready" /\ dialog' = NoDialog /\ token' = None
    BY <1>0, <1>1, <1>9 DEF Begins, Blank, ShowsApp, CheckAlone, LoginLast
  <2>5. cookie' \in live
    BY <1>0, <1>1, <2>4 DEF CookieAfter, AnswersLive
  <2>6. NoLogout /\ NoLogout'
    BY <1>4, <2>2, <2>4 DEF NoLogout, InFlight
  <2>7. TokenAlone' /\ IssuesHere' /\ AnswersLive'
    BY <1>5, <2>3, <2>4, <2>6 DEF TokenAlone, NoDialog, IssuesHere, AnswersLive
  <2>8. AppLive'
    BY <1>1, <1>5, <2>3, <2>5 DEF AppLive
  <2>9. AllAccounted'
    BY <1>1, <1>6, <1>7, <2>2, <2>4 DEF AllAccounted
  <2> QED
    BY <2>7, <2>8, <2>9 DEF Held
<1>10. CASE GoesOn(i)
  <2>1. /\ ~ShowsLogin(net[i]) /\ ~ShowsApp(net[i]) /\ auth' = auth
        /\ IF net[i].mounted THEN PageGets(net[i]) ELSE UNCHANGED pageVars
    BY <1>10 DEF GoesOn
  <2>2. net[i].kind # "logout" /\ cookie' = cookie
    BY <1>1, <2>1 DEF ShowsLogin, ShowsApp, CookieAfter
  <2>3. IssuesHere' /\ AnswersLive'
    BY <1>0, <1>4, <2>1, <2>2
  <2>4. AppLive'
    BY <1>0, <1>1, <1>4, <2>1, <2>2 DEF AppLive
  <2>5. CASE net[i].kind = "issue" /\ net[i].phase = "ok"
    <3>1. /\ auth = "ready" /\ net[i].mounted /\ dialog.kind = "issue"
      BY <1>0, <1>1, <2>5 DEF OneChange, IssuesHere, Changes
    <3>2. token = None /\ NoLogout
      BY <1>0, <3>1 DEF TokenAlone
    <3>3. dialog' = NoDialog /\ token' = CHOOSE c \in Creds : net[i].ids = {c}
      BY <2>1, <2>5, <3>1 DEF PageGets, Settled
    <3>4. TokenAlone'
      BY <1>4, <3>2, <3>3 DEF TokenAlone, NoDialog
    <3>5. ASSUME NEW c \in minted, net[i].ids = {c} PROVE token' = c
      <4>1. c \in Creds
        BY DEF Typed, TokensMinted
      <4> PICK t : t = CHOOSE d \in Creds : net[i].ids = {d}
        OBVIOUS
      <4>2. t \in Creds /\ net[i].ids = {t}
        BY <3>5, <4>1
      <4> QED
        BY <3>3, <3>5, <4>2
    <3>6. AllAccounted'
      <4> SUFFICES ASSUME NEW c \in minted \ stored
                   PROVE  c = token' \/ (\E j \in DOMAIN net : Issued(j, c))'
        BY <1>1 DEF AllAccounted, Issued
      <4>1. \E k \in DOMAIN net : Issued(k, c)
        BY <1>6, <3>2 DEF AllAccounted, Issued
      <4>2. Issued(i, c) => c = token'
        BY <3>5 DEF Issued
      <4> QED
        BY <1>4, <4>1, <4>2
    <3> QED
      BY <2>3, <2>4, <3>4, <3>6 DEF Held
  <2>6. CASE ~(net[i].kind = "issue" /\ net[i].phase = "ok")
    <3>1. token' = token
      BY <2>1, <2>6 DEF PageGets, pageVars
    <3>2. /\ dialog'.kind \in {dialog.kind, "none"}
          /\ dialog'.kind # "none" => dialog'.ids = dialog.ids
      <4>1. CASE auth # "login"
        BY <1>1, <1>10, <4>1, SettledIs
      <4>2. CASE auth = "login"
        <5>1. dialog = NoDialog
          BY <1>0, <4>2 DEF AppOnly
        <5>2. dialog' = dialog \/ dialog' = NoDialog
              \/ dialog' = [dialog EXCEPT !.busy = FALSE]
          BY <2>1 DEF PageGets, pageVars, Settled
        <5> QED
          BY <5>1, <5>2 DEF NoDialog
      <4> QED
        BY <4>1, <4>2
    <3>3. TokenAlone'
      BY <1>0, <1>4, <3>1, <3>2 DEF TokenAlone
    <3>4. AllAccounted'
      <4> SUFFICES ASSUME NEW c \in minted \ stored
                   PROVE  c = token \/ (\E j \in DOMAIN net : Issued(j, c))'
        BY <1>1, <3>1 DEF AllAccounted, Issued
      <4>1. c = token \/ \E k \in DOMAIN net : Issued(k, c)
        BY DEF AllAccounted, Issued
      <4>2. ~Issued(i, c)
        BY <1>0, <1>1, <2>6 DEF IssuesHere, Issued
      <4> QED
        BY <1>4, <4>1, <4>2
    <3> QED
      BY <2>3, <2>4, <3>3, <3>4 DEF Held
  <2> QED
    BY <2>5, <2>6
<1> QED
  BY <1>1, <1>8, <1>9, <1>10

-----------------------------------------------------------------------------
(***************************************************************************)
(* Together.                                                               *)
(***************************************************************************)
LEMMA ConsoleInductive == ConsoleIInv /\ [Next]_vars => ConsoleIInv'
<1> SUFFICES ASSUME ConsoleIInv, [Next]_vars PROVE ConsoleIInv'
  OBVIOUS
<1>1. Typed /\ Typed' /\ (Steady => Orderly)
  BY TypedInductive DEF ConsoleIInv
<1>2. Steady' => Steady /\ Orderly'
  BY <1>1, OrderlyInductive
<1>3. trouble \subseteq trouble' /\ mode' = mode
  BY TroublesStay
<1>4. ASSUME Steady', ~impatient'
      PROVE  /\ OneChange'
             /\ trouble' \subseteq {"expired"} => (OnPage' => Freshening')
             /\ trouble' \subseteq {"elsewhere"} => Held' /\ AllAccounted'
  <2>1. /\ Steady /\ Orderly /\ ~overtaking /\ ~impatient /\ OneChange
        /\ "network" \notin trouble'
    BY <1>1, <1>2, <1>3, <1>4 DEF ConsoleIInv, Steady, overtaking, impatient
  <2>2. ASSUME NEW i PROVE ~Fails(i)
    BY <2>1 DEF Fails
  <2>3. OneChange'
    BY <1>1, <2>1, <2>2, NextIs, OneChangePage, OneChangeService, OneChangeArrival
  <2>4. ASSUME trouble' \subseteq {"expired"} PROVE OnPage' => Freshening'
    <3>1. /\ OnPage => Freshening
          /\ "elsewhere" \notin trouble'
      BY <1>3, <2>1, <2>4 DEF ConsoleIInv
    <3> QED
      BY <1>1, <2>1, <2>2, <3>1, NextIs, FreshPage, FreshService, FreshArrival
  <2>5. ASSUME trouble' \subseteq {"elsewhere"} PROVE Held' /\ AllAccounted'
    <3>1. Held /\ AllAccounted /\ "expired" \notin trouble'
      BY <1>3, <2>1, <2>5 DEF ConsoleIInv
    <3> QED
      BY <1>1, <2>1, <2>2, <3>1, NextIs, HeldPage, HeldService, HeldArrival
  <2> QED
    BY <2>3, <2>4, <2>5
<1> QED
  BY <1>1, <1>2, <1>4 DEF ConsoleIInv

LEMMA InitConsole == Init => ConsoleIInv
<1> SUFFICES ASSUME Init PROVE ConsoleIInv
  OBVIOUS
<1>0. cookie \in 0..MaxSessions /\ "check" \in Kinds
  BY ConsoleAssumption DEF Init, Kinds
<1> PICK r \in Requests : /\ r = Request("check", {})
                          /\ r.kind = "check" /\ r.phase = "sent" /\ r.cookie = cookie
  BY <1>0, RequestIs
<1>1. net = <<r>>
  BY DEF Init
<1>2. DOMAIN net = {1} /\ net[1] = r
  BY <1>1
<1>3. NoLogout /\ OneChange /\ ~OnPage
  BY <1>2 DEF Init, NoLogout, InFlight, OneChange, Changes, OnPage
<1>4. Held /\ AllAccounted
  BY <1>2, <1>3 DEF Init, Held, TokenAlone, NoDialog, IssuesHere, AnswersLive, AppLive,
                    AllAccounted
<1> QED
  BY <1>3, <1>4, InitTyped, InitOrderly DEF ConsoleIInv

LEMMA ConsoleImplied == ConsoleIInv => ConsoleInv
<1> SUFFICES ASSUME ConsoleIInv PROVE ConsoleInv
  OBVIOUS
<1>1. ConsoleTypeOK
  BY DEF ConsoleIInv, Typed
<1>2. LoginViewTrue
  BY LoginViewIs DEF ConsoleIInv, LoginViewTrue, Steady
<1>3. QuietIsFresh
  <2> SUFFICES ASSUME OnPage, net = <<>>, ~overtaking, ~impatient,
                      trouble \subseteq {"expired"}
               PROVE  list = server
    BY DEF QuietIsFresh
  <2>1. Freshening
    BY DEF ConsoleIInv, Steady
  <2>2. DOMAIN net = {}
    OBVIOUS
  <2> QED
    BY <2>1, <2>2 DEF Freshening, LoadDue, ListTrue, ChangeDone, EndDue
<1>4. TokensReachTheAdmin
  <2> SUFFICES ASSUME ~impatient, ~overtaking, trouble \subseteq {"elsewhere"}
               PROVE  AllAccounted
    BY DEF TokensReachTheAdmin, AllAccounted
  <2> QED
    BY DEF ConsoleIInv, Steady
<1> QED
  BY <1>1, <1>2, <1>3, <1>4 DEF ConsoleInv

\* ConsoleInv: while the answers come in order, the login view means that the
\* session is over, a quiet page shows what the gateway has, and each token that
\* was issued is on its way, on screen or acknowledged.
THEOREM ConsoleCorrect == Spec => []ConsoleInv
  BY InitConsole, ConsoleInductive, ConsoleImplied, PTL DEF Spec

-----------------------------------------------------------------------------
(***************************************************************************)
(* What a dialog was opened for, while reloads and others change the rows. *)
(***************************************************************************)
\* The identifiers given out so far.
Drawn == minted \cup Existing

Tells(i, c) == Loads(i, "ok") /\ net[i].list[c] = "active"
Omits(i, c) == Loads(i, "ok") /\ net[i].list[c] # "active"

AnsweredInOrder ==
    \A i, j \in DOMAIN net : j < i /\ net[j].phase = "sent" => net[i].phase # "ok"

\* What the gateway has as active, no answer takes off a page that shows it.
NeverBack ==
    \A c \in Creds : server[c] = "active" =>
        \A i \in DOMAIN net : Omits(i, c) =>
            list[c] # "active" /\ \A j \in DOMAIN net : j < i => ~Tells(j, c)

Unheard ==
    \A c \in Creds \ Drawn :
        server[c] = "none" /\ list[c] # "active" /\ \A i \in DOMAIN net : ~Tells(i, c)

TargetsShown ==
    dialog.kind = "revoke" => \A c \in dialog.ids :
        c \in Drawn /\ c \in visible /\ (server[c] = "active" => list[c] = "active")

Shown == AnsweredInOrder /\ NeverBack /\ Unheard /\ TargetsShown

\* A credential becomes active once, when it is issued.
ServerMoves ==
    /\ minted \subseteq minted'
    /\ \A c \in Creds : /\ server'[c] = "active" => server[c] = "active" \/ c \in Drawn' \ Drawn
                        /\ c \notin Drawn' /\ server[c] = "none" => server'[c] = "none"

LEMMA ServerIs == ASSUME Typed, [Next]_vars PROVE ServerMoves
<1>0. server \in [Creds -> Statuses]
  BY DEF Typed, ConsoleTypeOK, Statuses
<1>1. CASE UNCHANGED <<server, minted>>
  BY <1>1 DEF ServerMoves, Drawn
<1>2. CASE Elsewhere
  <2>1. UNCHANGED minted /\ \E c \in Creds : server' = [server EXCEPT ![c] = "revoked"]
    BY <1>2 DEF Elsewhere
  <2>2. \A c \in Creds : server'[c] = server[c] \/ (server[c] = "active" /\ server'[c] = "revoked")
    BY <1>0, <1>2 DEF Elsewhere
  <2> QED
    BY <2>1, <2>2 DEF ServerMoves, Drawn
<1>3. ASSUME NEW i, ServeChange(i) PROVE ServerMoves
  <2>1. CASE /\ UNCHANGED minted
             /\ \/ server' = [c \in Creds |-> IF c \in net[i].ids /\ server[c] = "active"
                                              THEN "revoked" ELSE server[c]]
                \/ server' = [c \in Creds |-> IF c \in net[i].ids /\ server[c] = "revoked"
                                              THEN "none" ELSE server[c]]
    <3>1. \A c \in Creds : /\ server'[c] = "active" => server[c] = "active"
                           /\ server[c] = "none" => server'[c] = "none"
      BY <2>1
    <3> QED
      BY <2>1, <3>1 DEF ServerMoves, Drawn
  <2>2. ASSUME NEW d \in Unissued, server' = [server EXCEPT ![d] = "active"],
               minted' = minted \cup {d}
        PROVE  ServerMoves
    <3>1. d \in Creds /\ d \notin Drawn /\ d \in Drawn'
      BY <2>2 DEF Unissued, Drawn
    <3>2. \A c \in Creds : c = d \/ server'[c] = server[c]
      BY <1>0, <2>2
    <3> QED
      BY <2>2, <3>1, <3>2 DEF ServerMoves
  <2>3. CASE UNCHANGED <<server, minted>>
    BY <1>1, <2>3
  <2> QED
    BY <1>3, <2>1, <2>2, <2>3 DEF ServeChange
<1>4. ASSUME NEW i, Serve(i) PROVE ServerMoves
  <2>1. UNCHANGED <<server, minted>> \/ ServeChange(i)
    BY <1>4 DEF Serve, serverVars
  <2> QED
    BY <1>1, <1>3, <2>1
<1>5. ASSUME NEW i, Receive(i) PROVE UNCHANGED <<server, minted>>
  BY <1>5 DEF Receive, serverVars
<1>6. CASE Login \/ Logout \/ Navigate \/ Poll \/ Refresh \/ Filter \/ Toggle \/ OpenDialog
           \/ Confirm \/ Cancel \/ Dismiss \/ NetworkError \/ SessionEnds \/ UNCHANGED vars
  <2>1. UNCHANGED <<server, minted>>
    BY <1>6 DEF Login, Logout, Navigate, Poll, Refresh, Filter, Toggle, OpenDialog, Confirm,
                Cancel, Dismiss, NetworkError, SessionEnds, vars, serverVars
  <2> QED
    BY <1>1, <2>1
<1> QED
  BY <1>1, <1>2, <1>4, <1>5, <1>6 DEF Next

\* The requests that stay tell what they told.
LEMMA TellsPass ==
  ASSUME Typed, NEW i, NEW n, Keeps(i, n), Stays(i, n) \/ Goes(n),
         Len(net') = n + 1 => net'[n + 1].phase = "sent"
  PROVE  \A k \in DOMAIN net' :
            /\ net'[k].phase = "ok" => k \in 1..n
            /\ Loads(k, "ok")' => /\ k \in 1..n /\ From(i, k) \in DOMAIN net /\ From(i, k) # i
                                  /\ Loads(From(i, k), "ok")
                                  /\ net'[k].list = net[From(i, k)].list
<1>1. /\ n \in Nat
      /\ \A k \in DOMAIN net' : k \in 1..n \/ (Len(net') = n + 1 /\ k = n + 1)
      /\ \A k \in 1..n : /\ From(i, k) \in DOMAIN net /\ From(i, k) # i
                         /\ net'[k].kind = net[From(i, k)].kind
                         /\ net'[k].phase = net[From(i, k)].phase
  BY SameIs
<1> SUFFICES ASSUME NEW k \in DOMAIN net', net'[k].phase = "ok"
             PROVE  /\ k \in 1..n
                    /\ Loads(k, "ok")' =>
                          /\ From(i, k) \in DOMAIN net /\ From(i, k) # i
                          /\ Loads(From(i, k), "ok")
                          /\ net'[k].list = net[From(i, k)].list
  BY DEF Loads
<1>2. k \in 1..n
  BY <1>1
<1>3. CASE Stays(i, n)
  BY <1>1, <1>2, <1>3 DEF Stays, Shows, Loads
<1>4. CASE Goes(n)
  BY <1>2, <1>4 DEF Goes, Loads
<1> QED
  BY <1>2, <1>3, <1>4

\* So do they when nothing new is answered, and the page shows what it showed
\* or what the first of them told.
LEMMA ShownPasses ==
  ASSUME Typed, AnsweredInOrder, NeverBack, Unheard, ServerMoves,
         NEW i, NEW n, Keeps(i, n), Stays(i, n) \/ Goes(n),
         Len(net') = n + 1 => net'[n + 1].phase = "sent",
         \A c \in Creds : list'[c] = "active" => list[c] = "active" \/ (i = 1 /\ Tells(1, c)
                                                                       /\ 1 \in DOMAIN net)
  PROVE  AnsweredInOrder' /\ NeverBack' /\ Unheard'
<1>1. /\ \A k \in DOMAIN net' :
            /\ net'[k].phase = "ok" => k \in 1..n
            /\ Loads(k, "ok")' => /\ k \in 1..n /\ From(i, k) \in DOMAIN net /\ From(i, k) # i
                                  /\ Loads(From(i, k), "ok")
                                  /\ net'[k].list = net[From(i, k)].list
  BY TellsPass
<1>2. /\ n \in Nat /\ DOMAIN net' = 1..Len(net') /\ Len(net') \in {n, n + 1}
      /\ \A j, k \in 1..n : j < k => From(i, j) < From(i, k)
      /\ DOMAIN net = 1..Len(net) /\ Len(net) \in Nat
  BY TypedIs, FromIs
<1>a. \A k \in DOMAIN net : k \in Nat /\ (k # 1 => 1 < k)
  <2>1. DOMAIN net = 1..Len(net) /\ Len(net) \in Nat
    BY <1>2
  <2>2. \A m \in Nat : \A k \in 1..m : k \in Nat /\ (k # 1 => 1 < k)
    OBVIOUS
  <2> QED
    BY <2>1, <2>2
<1>3. \A k \in 1..n : From(i, k) \in DOMAIN net /\ net'[k].phase = net[From(i, k)].phase
  BY SameIs
<1>4. \A k \in DOMAIN net', c \in Creds :
         /\ Tells(k, c)' => k \in 1..n /\ From(i, k) # i /\ Tells(From(i, k), c)
         /\ Omits(k, c)' => k \in 1..n /\ From(i, k) # i /\ Omits(From(i, k), c)
  BY <1>1 DEF Tells, Omits
<1>5. AnsweredInOrder'
  <2> SUFFICES ASSUME NEW k \in DOMAIN net', NEW j \in DOMAIN net', j < k,
                      net'[j].phase = "sent", net'[k].phase = "ok"
               PROVE  FALSE
    BY DEF AnsweredInOrder
  <2>1. k \in 1..n
    BY <1>1
  <2>2. j \in 1..n
    BY <1>2, <2>1
  <2> QED
    BY <1>2, <1>3, <2>1, <2>2 DEF AnsweredInOrder
<1>6. Unheard'
  <2> SUFFICES ASSUME NEW c \in Creds \ Drawn'
               PROVE  /\ server'[c] = "none" /\ list'[c] # "active"
                      /\ \A k \in DOMAIN net' : ~Tells(k, c)'
    BY DEF Unheard
  <2>1. c \in Creds \ Drawn
    BY DEF ServerMoves, Drawn
  <2>2. server[c] = "none" /\ list[c] # "active" /\ \A k \in DOMAIN net : ~Tells(k, c)
    BY <2>1 DEF Unheard
  <2>3. server'[c] = "none"
    BY <2>2 DEF ServerMoves
  <2>4. list'[c] # "active"
    BY <2>2
  <2> QED
    BY <1>1, <1>4, <2>2, <2>3, <2>4 DEF Tells
<1>7. NeverBack'
  <2> SUFFICES ASSUME NEW c \in Creds, server'[c] = "active", NEW k \in DOMAIN net',
                      Omits(k, c)'
               PROVE  list'[c] # "active" /\ \A j \in DOMAIN net' : j < k => ~Tells(j, c)'
    BY DEF NeverBack
  <2> PICK q : q = From(i, k)
    OBVIOUS
  <2>1. k \in 1..n /\ q \in DOMAIN net /\ q # i /\ Omits(q, c)
    BY <1>3, <1>4
  <2>2. CASE server[c] = "active"
    <3>1. list[c] # "active" /\ \A j \in DOMAIN net : j < q => ~Tells(j, c)
      BY <2>1, <2>2 DEF NeverBack
    <3>2. list'[c] # "active"
      <4>1. i = 1 => 1 < q
        BY <1>a, <2>1
      <4> QED
        BY <3>1, <4>1
    <3>3. ASSUME NEW j \in DOMAIN net', j < k, Tells(j, c)' PROVE FALSE
      BY <1>2, <1>3, <1>4, <2>1, <3>1, <3>3
    <3> QED
      BY <3>2, <3>3
  <2>3. CASE c \notin Drawn
    <3>1. list[c] # "active" /\ \A j \in DOMAIN net : ~Tells(j, c)
      BY <2>3 DEF Unheard
    <3>2. \A j \in DOMAIN net' : ~Tells(j, c)'
      BY <1>3, <1>4, <3>1
    <3> QED
      BY <3>1, <3>2
  <2> QED
    BY <2>2, <2>3 DEF ServerMoves
<1> QED
  BY <1>5, <1>6, <1>7

\* A dialog that stays keeps its targets, and their rows.
LEMMA TargetsStay ==
  ASSUME Typed, Shown, ServerMoves, visible' = visible,
         dialog'.kind = dialog.kind /\ dialog'.ids = dialog.ids,
         \A c \in Creds : server[c] = "active" /\ list[c] = "active" => list'[c] = "active"
  PROVE  TargetsShown'
<1> SUFFICES ASSUME dialog.kind = "revoke", NEW c \in dialog.ids
             PROVE  c \in Drawn' /\ c \in visible /\ (server'[c] = "active" => list'[c] = "active")
  BY DEF TargetsShown
<1>1. c \in Drawn /\ c \in visible /\ (server[c] = "active" => list[c] = "active")
  BY DEF Shown, TargetsShown
<1>2. c \in Creds
  BY TypedIs
<1>3. c \in Drawn' /\ (server'[c] = "active" => server[c] = "active")
  BY <1>1, <1>2 DEF ServerMoves, Drawn
<1> QED
  BY <1>1, <1>2, <1>3

LEMMA TargetsGone == ASSUME dialog'.kind # "revoke" PROVE TargetsShown'
  BY DEF TargetsShown

LEMMA NothingShown ==
  ASSUME Blank PROVE dialog'.kind # "revoke" /\ \A c \in Creds : list'[c] # "active"
  BY DEF Blank, NoDialog, Nothing

LEMMA ShownPage ==
  ASSUME Typed, Shown, ServerMoves, PageAction PROVE Shown'
<1>0. /\ PageStep /\ Len(net) \in Nat /\ dialog \in Dialogs
      /\ AnsweredInOrder /\ NeverBack /\ Unheard
  BY PageSteps, TypedIs DEF Shown
<1>1. ASSUME \A c \in Creds : list'[c] = "active" => list[c] = "active"
      PROVE  AnsweredInOrder' /\ NeverBack' /\ Unheard'
  <2> PICK n, m : n = Len(net) /\ m = n + 1
    OBVIOUS
  <2>1. /\ Keeps(m, n) /\ (Stays(m, n) \/ Goes(n))
        /\ Len(net') = n + 1 => net'[n + 1].phase = "sent"
    BY <1>0 DEF PageStep
  <2> QED
    BY <1>0, <1>1, <2>1, ShownPasses
<1>2. CASE Login \/ Logout \/ Poll \/ Refresh \/ Toggle \/ Dismiss \/ SessionEnds \/ Elsewhere
           \/ Confirm \/ UNCHANGED vars
  <2>1. /\ UNCHANGED <<list, visible>>
        /\ dialog' = dialog \/ dialog' = [dialog EXCEPT !.busy = TRUE]
    BY <1>2 DEF Login, Logout, Poll, Refresh, Toggle, Dismiss, SessionEnds, Elsewhere, Confirm,
                vars, pageVars
  <2>2. dialog'.kind = dialog.kind /\ dialog'.ids = dialog.ids
    BY <1>0, <2>1 DEF Dialogs
  <2> QED
    BY <1>1, <2>1, <2>2, TargetsStay DEF Shown
<1>3. CASE Navigate
  <2>1. Blank
    BY <1>3 DEF Navigate
  <2> QED
    BY <1>1, <2>1, NothingShown, TargetsGone DEF Shown
<1>4. CASE Filter \/ Cancel
  <2>1. list' = list /\ dialog'.kind # "revoke"
    BY <1>4 DEF Filter, Free, Cancel, NoDialog
  <2> QED
    BY <1>1, <2>1, TargetsGone DEF Shown
<1>5. CASE OpenDialog
  <2>1. UNCHANGED <<list, visible, server, minted>>
    BY <1>5 DEF OpenDialog, serverVars
  <2>2. \/ \E ids : /\ Ask("revoke", ids)
                    /\ ids = SelectedRows \/ \E c \in Selectable : ids = {c}
        \/ \E ids : Ask("purge", ids) \/ Ask("issue", ids)
    BY <1>5 DEF OpenDialog
  <2>3. \A k, ids : Ask(k, ids) => dialog'.kind = k /\ dialog'.ids = ids
    BY DEF Ask
  <2>4. dialog'.kind = "revoke" => dialog'.ids \subseteq Selectable
    BY <2>2, <2>3 DEF SelectedRows
  <2>5. Selectable \subseteq {c \in Drawn \cap visible : list[c] = "active"}
    <3>1. visible \subseteq Creds
      BY DEF Typed, ConsoleTypeOK
    <3> QED
      BY <1>0, <3>1 DEF Selectable, Unheard
  <2>6. TargetsShown'
    BY <2>1, <2>4, <2>5 DEF TargetsShown, Drawn
  <2> QED
    BY <1>1, <2>1, <2>6 DEF Shown
<1> QED
  BY <1>2, <1>3, <1>4, <1>5 DEF PageAction

\* The gateway handles a request, or the connection fails.
LEMMA ShownAnswer ==
  ASSUME Typed, Shown, ServerMoves, NEW i \in 1..Len(net), NEW p, Answers(i, p),
         p = "ok" => net[i].phase = "sent" /\ \A j \in 1..(i - 1) : net[j].phase # "sent",
         Loads(i, "ok")' => net'[i].list = server /\ server' = server,
         p # "sent", UNCHANGED pageVars
  PROVE  Shown'
<1>0. /\ net \in Seq(Requests) /\ DOMAIN net = 1..Len(net) /\ Len(net) \in Nat
      /\ AnsweredInOrder /\ NeverBack /\ Unheard /\ UNCHANGED <<list, visible, dialog>>
  BY TypedIs DEF Shown, pageVars
<1>1. /\ DOMAIN net' = DOMAIN net /\ net'[i].phase = p
      /\ \A k \in DOMAIN net : k # i => net'[k] = net[k]
  BY <1>0, AnsweredIs
<1>2. AnsweredInOrder'
  <2> SUFFICES ASSUME NEW k \in DOMAIN net, NEW j \in DOMAIN net, j < k,
                      net'[j].phase = "sent", net'[k].phase = "ok"
               PROVE  FALSE
    BY <1>1 DEF AnsweredInOrder
  <2>1. j # i /\ net[j].phase = "sent"
    BY <1>1
  <2>2. CASE k = i
    BY <1>0, <1>1, <2>1, <2>2
  <2>3. CASE k # i
    BY <1>0, <1>1, <2>1, <2>3 DEF AnsweredInOrder
  <2> QED
    BY <2>2, <2>3
<1>3. \A k \in DOMAIN net, c \in Creds : k # i =>
         (Tells(k, c)' <=> Tells(k, c)) /\ (Omits(k, c)' <=> Omits(k, c))
  BY <1>1 DEF Tells, Omits, Loads
<1>4. \A c \in Creds : /\ Tells(i, c)' => server[c] = "active"
                       /\ Omits(i, c)' => server[c] # "active" /\ server' = server
  BY DEF Tells, Omits
<1>5. Loads(i, "ok")' => \A k \in DOMAIN net : i < k => net[k].phase # "ok"
  <2>1. Loads(i, "ok")' => p = "ok"
    BY <1>1 DEF Loads
  <2> QED
    BY <1>0, <2>1 DEF AnsweredInOrder
<1>6. Unheard'
  <2> SUFFICES ASSUME NEW c \in Creds \ Drawn'
               PROVE  /\ server'[c] = "none" /\ list[c] # "active"
                      /\ \A k \in DOMAIN net : ~Tells(k, c)'
    BY <1>0, <1>1 DEF Unheard
  <2>1. c \in Creds \ Drawn
    BY DEF ServerMoves, Drawn
  <2>2. server[c] = "none" /\ list[c] # "active" /\ \A k \in DOMAIN net : ~Tells(k, c)
    BY <1>0, <2>1 DEF Unheard
  <2>3. server'[c] = "none"
    BY <2>2 DEF ServerMoves
  <2> QED
    BY <1>3, <1>4, <2>2, <2>3
<1>7. NeverBack'
  <2> SUFFICES ASSUME NEW c \in Creds, server'[c] = "active", NEW k \in DOMAIN net,
                      Omits(k, c)'
               PROVE  list[c] # "active" /\ \A j \in DOMAIN net : j < k => ~Tells(j, c)'
    BY <1>0, <1>1 DEF NeverBack
  <2>1. k # i /\ Omits(k, c)
    BY <1>3, <1>4
  <2>2. CASE server[c] = "active"
    <3>1. list[c] # "active" /\ \A j \in DOMAIN net : j < k => ~Tells(j, c)
      BY <1>0, <2>1, <2>2 DEF NeverBack
    <3>2. net[k].phase = "ok"
      BY <2>1 DEF Omits, Loads
    <3>3. ASSUME i < k PROVE ~Tells(i, c)'
      BY <1>5, <3>2, <3>3 DEF Tells
    <3> QED
      BY <1>3, <3>1, <3>3
  <2>3. CASE c \notin Drawn
    <3>1. list[c] # "active" /\ server[c] = "none" /\ \A j \in DOMAIN net : ~Tells(j, c)
      BY <1>0, <2>3 DEF Unheard
    <3> QED
      BY <1>3, <1>4, <3>1
  <2> QED
    BY <2>2, <2>3 DEF ServerMoves
<1>8. TargetsShown'
  BY <1>0, TargetsStay
<1> QED
  BY <1>2, <1>6, <1>7, <1>8 DEF Shown

LEMMA ShownService ==
  ASSUME Typed, Shown, ServerMoves, ~overtaking, NEW i, Service(i) PROVE Shown'
<1>1. /\ i \in 1..Len(net) /\ net[i].phase = "sent" /\ UNCHANGED pageVars
      /\ \A j \in 1..(i - 1) : net[j].phase # "sent"
  BY DEF Service, InTurn
<1>2. \E p \in {"ok", "401", "error"} :
         /\ Answers(i, p)
         /\ p # "ok" \/ net[i].kind # "load"
            \/ ((Loads(i, "ok")' => net'[i].list = server) /\ server' = server)
  BY DEF Service, Changes
<1> PICK p \in {"ok", "401", "error"} :
         /\ Answers(i, p)
         /\ p # "ok" \/ net[i].kind # "load"
            \/ ((Loads(i, "ok")' => net'[i].list = server) /\ server' = server)
  BY <1>2
<1>3. net'[i].kind = net[i].kind /\ net'[i].phase = p
  BY DEF Answers
<1>4. Loads(i, "ok")' => net'[i].list = server /\ server' = server
  BY <1>3 DEF Loads
<1> QED
  BY <1>1, <1>4, ShownAnswer

LEMMA ShownFails == ASSUME Typed, Shown, ServerMoves, NEW i, Fails(i) PROVE Shown'
<1>1. i \in 1..Len(net) /\ Answers(i, "error") /\ UNCHANGED pageVars
  BY DEF Fails
<1>2. ~Loads(i, "ok")'
  BY <1>1 DEF Answers, Loads
<1> QED
  BY <1>1, <1>2, ShownAnswer

LEMMA ShownArrival ==
  ASSUME Typed, Shown, ServerMoves, ~overtaking, NEW i, Arrival(i) PROVE Shown'
<1>0. /\ Len(net) \in Nat /\ DOMAIN net = 1..Len(net) /\ dialog \in Dialogs
      /\ AnsweredInOrder /\ NeverBack /\ Unheard
  BY TypedIs DEF Shown
<1>1. /\ i \in DOMAIN net /\ i = 1 /\ Keeps(i, Len(net) - 1)
      /\ Len(net') = Len(net) => net'[Len(net)].phase = "sent"
      /\ Ends(i) \/ Begins(i) \/ GoesOn(i)
  BY <1>0 DEF Arrival
<1>2. ASSUME \A c \in Creds : list'[c] = "active" => list[c] = "active" \/ Tells(1, c)
      PROVE  AnsweredInOrder' /\ NeverBack' /\ Unheard'
  <2> PICK n : n = Len(net) - 1
    OBVIOUS
  <2>1. Len(net) = n + 1
    BY <1>0
  <2>2. Keeps(i, n) /\ (Stays(i, n) \/ Goes(n))
    BY <1>1 DEF Ends, Begins, GoesOn
  <2>3. Len(net') = n + 1 => net'[n + 1].phase = "sent"
    BY <1>1, <2>1
  <2> QED
    BY <1>0, <1>1, <1>2, <2>2, <2>3, ShownPasses
<1>3. CASE Ends(i) \/ Begins(i)
  <2>1. Blank
    BY <1>3 DEF Ends, Begins
  <2> QED
    BY <1>2, <2>1, NothingShown, TargetsGone DEF Shown
<1>4. CASE GoesOn(i)
  <2>1. /\ visible' = visible
        /\ dialog' = dialog \/ dialog' = Settled(net[i])
        /\ list' = list \/ (Loads(i, "ok") /\ list' = net[i].list)
    BY <1>4 DEF GoesOn, PageGets, pageVars, Loads
  <2>2. \A c \in Creds : list'[c] = "active" => list[c] = "active" \/ Tells(1, c)
    BY <1>1, <2>1 DEF Tells
  <2>3. \A c \in Creds : server[c] = "active" /\ list[c] = "active" => list'[c] = "active"
    BY <1>0, <1>1, <2>1 DEF NeverBack, Omits
  <2>4. \/ dialog'.kind # "revoke"
        \/ dialog'.kind = dialog.kind /\ dialog'.ids = dialog.ids
    BY <1>0, <2>1 DEF Settled, NoDialog, Dialogs
  <2>5. TargetsShown'
    <3>1. CASE dialog'.kind # "revoke"
      BY <3>1, TargetsGone
    <3>2. CASE dialog'.kind = dialog.kind /\ dialog'.ids = dialog.ids
      BY <2>1, <2>3, <3>2, TargetsStay
    <3> QED
      BY <2>4, <3>1, <3>2
  <2> QED
    BY <1>2, <2>2, <2>5 DEF Shown
<1> QED
  BY <1>1, <1>3, <1>4

ShownIInv == Typed /\ (~overtaking => Shown)

LEMMA ShownInductive == ShownIInv /\ [Next]_vars => ShownIInv'
<1> SUFFICES ASSUME ShownIInv, [Next]_vars PROVE ShownIInv'
  OBVIOUS
<1>1. Typed /\ Typed' /\ ServerMoves /\ mode' = mode
  BY TypedInductive, ServerIs, TroublesStay DEF ShownIInv
<1>2. ASSUME ~overtaking' PROVE Shown'
  <2>1. ~overtaking /\ Shown
    BY <1>1, <1>2 DEF ShownIInv, overtaking
  <2> QED
    BY <1>1, <2>1, NextIs, ShownPage, ShownService, ShownFails, ShownArrival
<1> QED
  BY <1>1, <1>2 DEF ShownIInv

LEMMA InitShown == Init => ShownIInv
<1> SUFFICES ASSUME Init PROVE ShownIInv
  OBVIOUS
<1>1. Typed
  BY InitTyped
<1>2. net = <<Request("check", {})>> /\ net[1].kind = "check" /\ DOMAIN net = {1}
  BY DEF Init, Request
<1>3. AnsweredInOrder
  BY <1>2 DEF AnsweredInOrder
<1>4. \A i \in DOMAIN net : ~Loads(i, "ok")
  BY <1>2 DEF Loads
<1>5. NeverBack
  BY <1>4 DEF NeverBack, Omits
<1>6. Unheard
  BY <1>4 DEF Init, Unheard, Tells, Drawn, Nothing
<1>7. TargetsShown
  BY DEF Init, TargetsShown, NoDialog
<1> QED
  BY <1>1, <1>3, <1>5, <1>6, <1>7 DEF ShownIInv, Shown

\* The request that a step of the page sends, when it is to revoke.
LEMMA RevokeSent ==
  ASSUME Typed, PageAction, Len(net') > Len(net), Last(net').kind = "revoke"
  PROVE  dialog.kind = "revoke" /\ Last(net').ids = dialog.ids
<1>0. /\ net \in Seq(Requests) /\ Len(net) \in Nat /\ cookie \in 0..MaxSessions
      /\ dialog.kind \in {"none"} \cup Changes /\ dialog.ids \subseteq Creds
  BY TypedIs
<1>1. ASSUME NEW r \in Requests, net' = Append(net, r) PROVE Last(net') = r
  BY <1>0, <1>1, SendIs DEF Last
<1>2. CASE Login \/ Logout \/ Poll \/ Refresh
  <2> PICK k \in {"login", "logout", "poll", "load"} : net' = Append(net, Request(k, {}))
    BY <1>2 DEF Login, Logout, Poll, Refresh
  <2> PICK r \in Requests : r = Request(k, {}) /\ r.kind = k
    BY <1>0, RequestIs DEF Kinds
  <2> QED
    BY <1>1
<1>3. CASE Navigate
  <2> PICK r \in Requests : r = FirstRequest(view') /\ r.kind \in {"poll", "load"}
    BY <1>0, FirstIs
  <2>1. net' = Append(Orphaned(net), r)
    BY <1>3 DEF Navigate
  <2>2. Last(net') = r
    BY <1>0, <2>1, NavigateIs DEF Last
  <2> QED
    BY <2>2
<1>4. CASE Confirm
  <2>1. net' = Append(net, Request(dialog.kind, dialog.ids)) /\ dialog.kind # "none"
    BY <1>4 DEF Confirm
  <2>2. dialog.kind \in Kinds
    BY <1>0, <2>1 DEF Kinds
  <2> PICK r \in Requests : /\ r = Request(dialog.kind, dialog.ids)
                            /\ r.kind = dialog.kind /\ r.ids = dialog.ids
    BY <1>0, <2>2, RequestIs
  <2> QED
    BY <1>1, <2>1
<1>5. CASE Cancel
  <2>1. Len(net') = Len(net)
    BY <1>0, <1>5, CancelIs DEF Cancel
  <2> QED
    BY <1>0, <2>1
<1>6. CASE Filter \/ Toggle \/ OpenDialog \/ Dismiss \/ SessionEnds \/ Elsewhere
           \/ UNCHANGED vars
  <2>1. net' = net
    BY <1>6 DEF Filter, Toggle, OpenDialog, Dismiss, SessionEnds, Elsewhere, vars
  <2> QED
    BY <1>0, <2>1
<1> QED
  BY <1>2, <1>3, <1>4, <1>5, <1>6 DEF PageAction

\* RevokesWhatIsShown: while answers come in order, whatever reloads and others
\* do under an open dialog, a credential that the confirmed revocation would
\* still end is on screen, as one to revoke, when the request is sent.
THEOREM RevocationOnScreen == Spec => RevokesWhatIsShown
<1>1. ShownIInv /\ [Next]_vars => SendsWhatIsShown
  <2> SUFFICES ASSUME ShownIInv, [Next]_vars, NEW c \in Creds, ~overtaking,
                      server[c] = "active", Len(net') > Len(net),
                      Last(net').kind = "revoke", c \in Last(net').ids
               PROVE  c \in visible /\ list[c] = "active"
    BY DEF SendsWhatIsShown
  <2>0. Typed /\ Shown /\ net \in Seq(Requests) /\ Len(net) \in Nat
    BY TypedIs DEF ShownIInv
  <2>1. ASSUME NEW i, Service(i) \/ Fails(i) PROVE FALSE
    <3>1. Len(net') = Len(net)
      BY <2>1 DEF Service, Fails, Answers
    <3> QED
      BY <2>0, <3>1
  <2>2. ASSUME NEW i, Arrival(i) PROVE FALSE
    <3>1. Len(net') = Len(net) - 1 \/ Len(net') = Len(net)
      BY <2>2 DEF Arrival, Ends, Begins, GoesOn
    <3> QED
      BY <2>0, <3>1
  <2>3. dialog.kind = "revoke" /\ c \in dialog.ids
    BY <2>0, <2>1, <2>2, NextIs, RevokeSent
  <2> QED
    BY <2>0, <2>3 DEF Shown, TargetsShown
<1>2. ShownIInv /\ [Next]_vars => [SendsWhatIsShown]_vars
  BY <1>1
<1> QED
  BY <1>2, InitShown, ShownInductive, PTL DEF Spec, RevokesWhatIsShown

=============================================================================
