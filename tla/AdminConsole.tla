---------------------------- MODULE AdminConsole ----------------------------
(***************************************************************************)
(* The admin web page (packages/admin-ui): the login view, the overview    *)
(* that polls, the page of the credentials with its list, its bulk         *)
(* selection and its dialogs, and the requests it has in flight.  A        *)
(* request outlives the page that sent it: only the poll of the overview   *)
(* looks whether its page is still there; the answers to all others still  *)
(* end the session of the app and still reload.                            *)
(*                                                                         *)
(* The gateway is what the page sees of it: sessions and credentials.  A   *)
(* load asks for two lists at once and shows both or neither; it is one    *)
(* request here.  The dialogs that change a scope or bind a credential     *)
(* behave as the one that issues, and show no token.  No credential here   *)
(* is a child of another, so that a revocation cascades to nothing.        *)
(***************************************************************************)
EXTENDS Naturals, Sequences, SequencesExt

CONSTANTS
    Creds,        \* credentials
    Existing,     \* those there at the start
    None,         \* no credential
    FilterSets,   \* what the filters considered let through
    Troubles,     \* what may go wrong: "network", "expired", "elsewhere"
    Modes,        \* how the network and the admin may behave, see mode
    MaxSessions,  \* bound: logins
    MaxFlight     \* bound: requests in flight

ASSUME ConsoleAssumption ==
    /\ None \notin Creds /\ Existing \subseteq Creds
    /\ FilterSets \subseteq SUBSET Creds
    /\ MaxSessions \in Nat \ {0} /\ MaxFlight \in Nat \ {0}

VARIABLES
    auth, view,     \* "checking", "login", "ready"; "overview", "credentials"
    cookie,         \* the session the browser presents, 0 when none
    live, last,     \* the gateway's sessions, and the latest it made
    server,         \* the gateway's credentials: "none", "active", "revoked"
    net,            \* requests in flight, oldest first
    list,           \* the credentials the page shows
    visible,        \* those the filters let through
    selected,       \* the ticked rows, kept when filters or the list change
    dialog,         \* the open dialog: its kind, its targets, whether it is busy
    token,          \* the credential whose token is on screen
    minted, stored, \* history: issued here; token acknowledged
    trouble,        \* history: "network", "expired", "elsewhere"
    mode            \* "calm"; "overtaking": requests are handled, and answers
                    \* arrive, in any order; "impatient": the admin cancels or
                    \* leaves while a dialog waits, or acts after logging out

pageVars == <<list, visible, selected, dialog, token>>
serverVars == <<live, last, server, minted>>
vars == <<auth, view, cookie, net, stored, trouble, pageVars, serverVars, mode>>

Nothing == [c \in Creds |-> "unknown"]    \* the page has not loaded yet

overtaking == mode = "overtaking"
impatient == mode = "impatient"

Request(k, ids) ==
    [kind |-> k, ids |-> ids, cookie |-> cookie, mounted |-> TRUE,
     dialog |-> k = "issue", phase |-> "sent", list |-> Nothing]

NoDialog == [kind |-> "none", ids |-> {}, busy |-> FALSE]

\* What a page starts with, and what is left of the requests of one that goes.
Blank ==
    /\ list' = Nothing /\ visible' = Creds /\ selected' = {}
    /\ dialog' = NoDialog /\ token' = None

Orphaned(requests) ==
    [i \in DOMAIN requests |->
        [requests[i] EXCEPT !.mounted = FALSE, !.dialog = FALSE, !.list = Nothing]]

FirstRequest(v) == Request(IF v = "overview" THEN "poll" ELSE "load", {})

Init ==
    /\ auth = "checking" /\ view \in {"overview", "credentials"}
    /\ cookie \in {0, 1} /\ live \in {{}, {1}} /\ last = 1
    /\ server = [c \in Creds |-> IF c \in Existing THEN "active" ELSE "none"]
    /\ net = <<Request("check", {})>>
    /\ list = Nothing /\ visible = Creds /\ selected = {}
    /\ dialog = NoDialog /\ token = None
    /\ minted = {} /\ stored = {} /\ trouble = {}
    /\ mode \in Modes

(***************************************************************************)
(* What the admin does                                                     *)
(***************************************************************************)
Room == Len(net) < MaxFlight
OnPage == auth = "ready" /\ view = "credentials"
\* The page is drawn once its list is there; no modal is in front of it.
Free == OnPage /\ list # Nothing /\ dialog.kind = "none" /\ token = None

InFlight(kinds) == \E i \in DOMAIN net : net[i].kind \in kinds

Login ==
    /\ auth = "login" /\ Room /\ last < MaxSessions /\ ~InFlight({"login"})
    /\ net' = Append(net, Request("login", {}))
    /\ UNCHANGED <<auth, view, cookie, stored, trouble, pageVars, serverVars, mode>>

Logout ==
    /\ auth = "ready" /\ Room /\ dialog.kind = "none" /\ token = None
    /\ net' = Append(net, Request("logout", {}))
    /\ UNCHANGED <<auth, view, cookie, stored, trouble, pageVars, serverVars, mode>>

\* A click in the bar, or the browser's Back button, which no modal stops.
Navigate ==
    /\ auth = "ready" /\ Room
    /\ impatient \/ (dialog.kind = "none" /\ token = None)
    /\ view' = (IF view = "overview" THEN "credentials" ELSE "overview")
    /\ net' = Append(Orphaned(net), FirstRequest(view'))
    /\ Blank
    /\ UNCHANGED <<auth, cookie, stored, trouble, serverVars, mode>>

Poll ==
    /\ auth = "ready" /\ view = "overview" /\ Room
    /\ net' = Append(net, Request("poll", {}))
    /\ UNCHANGED <<auth, view, cookie, stored, trouble, pageVars, serverVars, mode>>

Refresh ==
    /\ Free /\ Room
    /\ net' = Append(net, Request("load", {}))
    /\ UNCHANGED <<auth, view, cookie, stored, trouble, pageVars, serverVars, mode>>

\* Mutant: the filters can be changed behind an open dialog.
FilterAnytime ==
    /\ OnPage /\ list # Nothing /\ \E v \in FilterSets : v # visible /\ visible' = v
    /\ UNCHANGED <<auth, view, cookie, net, list, selected, dialog, token, stored,
                   trouble, serverVars, mode>>

Filter ==
    /\ Free /\ \E v \in FilterSets : v # visible /\ visible' = v
    /\ UNCHANGED <<auth, view, cookie, net, list, selected, dialog, token, stored,
                   trouble, serverVars, mode>>

Selectable == {c \in visible : list[c] = "active"}
SelectedRows == Selectable \cap selected

Toggle ==
    /\ Free
    /\ \/ \E c \in Selectable :
            selected' = (IF c \in selected THEN selected \ {c} ELSE selected \cup {c})
       \/ selected' = (IF SelectedRows = Selectable THEN {} ELSE Selectable)
    /\ UNCHANGED <<auth, view, cookie, net, list, visible, dialog, token, stored,
                   trouble, serverVars, mode>>

\* A dialog for the selection, for one row, for all revoked ones, or a new one.
Ask(k, ids) == dialog' = [kind |-> k, ids |-> ids, busy |-> FALSE]

OpenDialog ==
    /\ Free /\ (impatient \/ ~InFlight({"logout"}))
    /\ \/ SelectedRows # {} /\ Ask("revoke", SelectedRows)
       \/ \E c \in Selectable : Ask("revoke", {c})
       \/ \E c \in visible : list[c] = "revoked" /\ Ask("purge", {c})
       \/ LET all == {c \in Creds : list[c] = "revoked"}
          IN all # {} /\ Ask("purge", all)
       \/ Ask("issue", {})
    /\ UNCHANGED <<auth, view, cookie, net, list, visible, selected, token, stored,
                   trouble, serverVars, mode>>

Confirm ==
    /\ OnPage /\ dialog.kind # "none" /\ ~dialog.busy /\ Room
    /\ net' = Append(net, Request(dialog.kind, dialog.ids))
    /\ dialog' = [dialog EXCEPT !.busy = TRUE]
    /\ UNCHANGED <<auth, view, cookie, list, visible, selected, token, stored,
                   trouble, serverVars, mode>>

\* Cancel takes the dialog away; its request goes on.
Cancel ==
    /\ OnPage /\ dialog.kind # "none" /\ (dialog.busy => impatient)
    /\ dialog' = NoDialog
    /\ net' = [i \in DOMAIN net |-> [net[i] EXCEPT !.dialog = FALSE]]
    /\ UNCHANGED <<auth, view, cookie, list, visible, selected, token, stored,
                   trouble, serverVars, mode>>

Dismiss ==
    /\ OnPage /\ token # None
    /\ stored' = stored \cup {token} /\ token' = None
    /\ UNCHANGED <<auth, view, cookie, net, list, visible, selected, dialog,
                   trouble, serverVars, mode>>

(***************************************************************************)
(* The gateway and the network                                             *)
(***************************************************************************)
InTurn(i) == overtaking \/ \A j \in 1..(i - 1) : net[j].phase # "sent"
\* (the session a request was sent in matters no longer once it is answered)
Answer(i, phase) == net' = [net EXCEPT ![i].phase = phase, ![i].cookie = 0]

ServeSession(i) ==
    \/ /\ net[i].kind = "login"
       /\ \/ /\ last' = last + 1 /\ live' = live \cup {last + 1}
             /\ net' = [net EXCEPT ![i].phase = "ok", ![i].cookie = last + 1]
          \/ Answer(i, "401") /\ UNCHANGED <<last, live>>
    \/ /\ net[i].kind = "logout"
       /\ live' = live \ {net[i].cookie} /\ Answer(i, "ok") /\ UNCHANGED last

ServeRead(i) ==
    /\ net[i].kind \in {"check", "poll", "load"} /\ net[i].cookie \in live
    /\ net' = [net EXCEPT ![i].phase = "ok", ![i].cookie = 0,
                ![i].list = IF net[i].kind = "load" /\ net[i].mounted THEN server ELSE @]

\* An identifier is drawn once: what was purged does not come back.
Unissued == {c \in Creds : server[c] = "none"} \ (minted \cup Existing)

ServeChange(i) ==
    LET r == net[i] IN
    /\ r.cookie \in live
    /\ \/ /\ r.kind = "revoke" /\ Answer(i, "ok") /\ UNCHANGED minted
          /\ server' = [c \in Creds |-> IF c \in r.ids /\ server[c] = "active"
                                        THEN "revoked" ELSE server[c]]
       \/ /\ r.kind = "purge" /\ Answer(i, "ok") /\ UNCHANGED minted
          /\ server' = [c \in Creds |-> IF c \in r.ids /\ server[c] = "revoked"
                                        THEN "none" ELSE server[c]]
       \/ /\ r.kind = "issue"
          /\ \/ \E c \in Unissued :
                  /\ server' = [server EXCEPT ![c] = "active"]
                  /\ minted' = minted \cup {c}
                  /\ net' = [net EXCEPT ![i].phase = "ok", ![i].cookie = 0,
                                              ![i].ids = {c}]
             \/ Unissued = {} /\ Answer(i, "error") /\ UNCHANGED <<server, minted>>

Serve(i) ==
    /\ i \in DOMAIN net /\ net[i].phase = "sent" /\ InTurn(i)
    /\ \/ ServeSession(i) /\ UNCHANGED <<server, minted>>
       \/ ServeRead(i) /\ UNCHANGED serverVars
       \/ ServeChange(i) /\ UNCHANGED <<live, last>>
       \/ /\ net[i].kind \notin {"login", "logout"} /\ net[i].cookie \notin live
          /\ Answer(i, "401") /\ UNCHANGED serverVars
    /\ UNCHANGED <<auth, view, cookie, stored, trouble, pageVars, mode>>

\* The connection fails before the request is handled, or after.
NetworkError ==
    /\ "network" \in Troubles \ trouble /\ trouble' = trouble \cup {"network"}
    /\ \E i \in DOMAIN net : net[i].phase # "error" /\ Answer(i, "error")
    /\ UNCHANGED <<auth, view, cookie, stored, pageVars, serverVars, mode>>

\* The session runs out, or the gateway restarts.
SessionEnds ==
    /\ "expired" \in Troubles /\ live # {} /\ live' = {}
    /\ trouble' = trouble \cup {"expired"}
    /\ UNCHANGED <<auth, view, cookie, net, stored, last, server, minted,
                   pageVars, mode>>

Elsewhere ==
    /\ "elsewhere" \in Troubles \ trouble /\ trouble' = trouble \cup {"elsewhere"}
    /\ \E c \in Creds : server[c] = "active"
                        /\ server' = [server EXCEPT ![c] = "revoked"]
    /\ UNCHANGED <<auth, view, cookie, net, stored, live, last, minted,
                   pageVars, mode>>

(***************************************************************************)
(* An answer arrives                                                       *)
(***************************************************************************)
\* Mutants: any error counts as a lost session; a poll has no say.
ShowsLoginOnError(r) == r.kind # "login" /\ (r.kind = "logout" \/ r.phase # "ok")
ShowsLoginUnlessPoll(r) == r.kind \in {"check", "logout", "load"} /\ r.phase # "ok"
\* handleSessionLost, and the two places that set the view themselves.
ShowsLogin(r) ==
    CASE r.kind = "check" -> r.phase # "ok"
      [] r.kind = "logout" -> TRUE
      [] r.kind = "login" -> FALSE
      [] r.kind = "poll" -> r.mounted /\ r.phase = "401"
      [] OTHER -> r.phase = "401"

ShowsApp(r) == r.kind \in {"check", "login"} /\ r.phase = "ok"

Reloads(r) == r.kind \in {"revoke", "purge", "issue"} /\ r.phase = "ok"

\* What the answer to a request of the mounted page does to the page.
Settled(r) ==
    IF r.kind = "issue" /\ r.phase # "ok"
    THEN IF r.dialog THEN [dialog EXCEPT !.busy = FALSE] ELSE dialog
    ELSE IF r.kind = dialog.kind THEN NoDialog ELSE dialog
PageGets(r) ==
    /\ list' = (IF r.kind = "load" /\ r.phase = "ok" THEN r.list ELSE list)
    /\ dialog' = Settled(r)
    /\ selected' = (IF r.kind = "revoke" /\ r.phase = "ok" THEN {} ELSE selected)
    /\ token' = (IF r.kind = "issue" /\ r.phase = "ok"
                 THEN CHOOSE c \in Creds : r.ids = {c} ELSE token)
    /\ UNCHANGED visible

CookieAfter(r) ==
    IF r.kind = "login" /\ r.phase = "ok" THEN r.cookie
    ELSE IF r.kind = "logout" /\ r.phase = "ok" THEN 0 ELSE cookie

Receive(i) ==
    /\ i \in DOMAIN net /\ net[i].phase # "sent" /\ (overtaking \/ i = 1)
    /\ LET r == net[i]
           rest == RemoveAt(net, i)
           load == [Request("load", {}) EXCEPT !.mounted = r.mounted]
       IN  /\ cookie' = CookieAfter(r)
           /\ \/ /\ ShowsLogin(r) /\ auth' = "login"
                 /\ net' = Orphaned(rest) /\ Blank
              \/ /\ ShowsApp(r) /\ auth' = "ready"
                 /\ net' = Append(rest, [FirstRequest(view) EXCEPT !.cookie = cookie'])
                 /\ Blank
              \/ /\ ~ShowsLogin(r) /\ ~ShowsApp(r)
                 /\ net' = (IF Reloads(r) THEN Append(rest, load) ELSE rest)
                 /\ IF r.mounted THEN PageGets(r) ELSE UNCHANGED pageVars
                 /\ UNCHANGED auth
    /\ UNCHANGED <<view, stored, trouble, serverVars, mode>>

Next ==
    \/ Login \/ Logout \/ Navigate \/ Poll \/ Refresh \/ Filter \/ Toggle
    \/ OpenDialog \/ Confirm \/ Cancel \/ Dismiss
    \/ NetworkError \/ SessionEnds \/ Elsewhere
    \/ \E i \in 1..MaxFlight : Serve(i) \/ Receive(i)

\* Every request is answered or fails; setInterval fires.
Fairness == WF_vars(Serve(1)) /\ WF_vars(Receive(1)) /\ WF_vars(Poll)

Spec == Init /\ [][Next]_vars /\ Fairness

(***************************************************************************)
(* Properties                                                              *)
(***************************************************************************)
ConsoleTypeOK ==
    /\ auth \in {"checking", "login", "ready"} /\ view \in {"overview", "credentials"}
    /\ cookie \in 0..MaxSessions /\ live \subseteq 1..MaxSessions
    /\ last \in 1..MaxSessions /\ Len(net) <= MaxFlight
    /\ server \in [Creds -> {"none", "active", "revoked"}]
    /\ list \in [Creds -> {"none", "active", "revoked"}] \cup {Nothing}
    /\ selected \subseteq Creds /\ visible \subseteq Creds
    /\ token \in Creds \cup {None} /\ stored \subseteq minted

\* When the answers come in order, the page is not left and no one else
\* changes anything, a page with nothing in flight shows what the gateway has.
QuietIsFresh ==
    (/\ OnPage /\ net = <<>>
     /\ ~overtaking /\ ~impatient /\ trouble \subseteq {"expired"})
        => list = server

\* The login view is shown for a reason: while the answers come in order and
\* the network holds, the session of the browser is over.
LoginViewTrue ==
    (auth = "login" /\ ~InFlight({"login"}) /\ ~overtaking /\ "network" \notin trouble)
        => cookie \notin live

\* The token of a credential is shown once: unless the admin is impatient, the
\* network fails or reorders, or the session ends, each one issued is on its way,
\* on screen or acknowledged.
TokensReachTheAdmin ==
    (~impatient /\ ~overtaking /\ trouble \subseteq {"elsewhere"}) =>
        \A c \in minted \ stored :
            c = token \/ \E i \in DOMAIN net : net[i].kind = "issue" /\ net[i].ids = {c}

ConsoleInv == ConsoleTypeOK /\ QuietIsFresh /\ LoginViewTrue /\ TokensReachTheAdmin

\* "Bulk selection acts only on rows that are visible and still revocable, so a
\* filter change or a reload never revokes something off-screen": a dialog keeps
\* the rows it was opened for (RevokeDialog's targets) while reloads replace the
\* list under it and others change what the gateway has.  While answers come in
\* order, a credential that a confirmed revocation would still end is at that
\* moment on screen, as one to revoke.
SendsWhatIsShown ==
    \A c \in Creds :
       (/\ ~overtaking /\ server[c] = "active"
        /\ Len(net') > Len(net) /\ Last(net').kind = "revoke" /\ c \in Last(net').ids)
          => c \in visible /\ list[c] = "active"

RevokesWhatIsShown == [][SendsWhatIsShown]_vars

\* The app finds out: about its session at the start and, on the overview, when
\* it is lost; and a dialog does not stay busy.
ConsoleSettles ==
    /\ auth = "checking" ~> auth # "checking"
    /\ (auth = "ready" /\ view = "overview" /\ cookie \notin live)
           ~> (auth # "ready" \/ view # "overview" \/ cookie \in live)
    /\ dialog.busy ~> ~dialog.busy
=============================================================================
