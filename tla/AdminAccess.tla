----------------------------- MODULE AdminAccess -----------------------------
(***************************************************************************)
(* Who is let in over HTTP, and how often: the fixed-window rate limits of *)
(* src/server.ts (authFailures per IP, proxyRequests per credential,       *)
(* proxyIpRequests per IP) and the sessions of the admin web UI            *)
(* (AdminSessionStore in src/admin-session.ts).                            *)
(***************************************************************************)
EXTENDS Naturals, FiniteSets

CONSTANTS
    Ips, Tenants, SessionIds,
    Window,         \* AUTH_FAIL_WINDOW = PROXY_RATE_WINDOW, in ticks
    Ttl,            \* ttlMs of a session, in ticks
    AuthFailLimit, ProxyLimit,
    IpLimit,        \* PROXY_IP_RATE_LIMIT, 0: off
    Probing,        \* whether GET /api/admin/session is asked without a session
    None,           \* no bucket, no session
    MaxNow          \* bound: the last tick of the clock

ASSUME AccessAssumption ==
    /\ Window \in Nat /\ Ttl \in Nat /\ MaxNow \in Nat /\ IpLimit \in Nat
    /\ AuthFailLimit \in Nat \ {0} /\ ProxyLimit \in Nat \ {0}
    /\ Probing \in BOOLEAN
    /\ None \notin Nat \cup [expiresAt : Nat] \cup [count : Nat, resetAt : Nat]
    /\ None \notin Tenants \cup SessionIds /\ Tenants \cap SessionIds = {}

VARIABLES
    now,                                          \* Date.now()
    authFailures, proxyRequests, proxyIpRequests, \* the buckets
    sessions,                                     \* sessions of AdminSessionStore
    created,                                      \* history: logins, logouts erase them
    rejected,      \* history: how many 401s went to an IP at a tick
    admitted,      \* history: how many proxy requests of a tenant got in at a tick
    admittedFrom,  \* history: how many from an IP
    askedFrom,     \* history: how many came from an IP, counted up to IpLimit
    answer         \* history: the last answer, what it was to and from whom

limits == <<authFailures, proxyRequests, proxyIpRequests>>
counts == <<rejected, admitted, admittedFrom, askedFrom>>
vars == <<now, limits, sessions, created, counts, answer>>

Time == 0..MaxNow
Bucket(limit) == [count : 1..(limit + 1), resetAt : Nat] \cup {None}

AccessTypeOK ==
    /\ now \in Time
    /\ authFailures \in [Ips -> Bucket(AuthFailLimit)]
    /\ proxyRequests \in [Tenants -> Bucket(ProxyLimit)]
    /\ proxyIpRequests \in [Ips -> Bucket(IpLimit)]
    /\ sessions \in [SessionIds -> [expiresAt : Nat] \cup {None}]
    /\ created \in [SessionIds -> Time \cup {None}]
    /\ rejected \in [Ips -> [Time -> Nat]]
    /\ admitted \in [Tenants -> [Time -> Nat]]
    /\ admittedFrom \in [Ips -> [Time -> Nat]]
    /\ askedFrom \in [Ips -> [Time -> 0..IpLimit]]
    /\ answer.code \in {0, 200, 401, 403, 429}

NoAnswer == [code |-> 0, from |-> None, who |-> None]

\* Everything of this module is in memory: so it begins, at any time.
Fresh ==
    /\ authFailures' = [i \in Ips |-> None]
    /\ proxyRequests' = [t \in Tenants |-> None]
    /\ proxyIpRequests' = [i \in Ips |-> None]
    /\ sessions' = [s \in SessionIds |-> None]
    /\ created' = [s \in SessionIds |-> None]
    /\ rejected' = [i \in Ips |-> [x \in Time |-> 0]]
    /\ admitted' = [t \in Tenants |-> [x \in Time |-> 0]]
    /\ admittedFrom' = [i \in Ips |-> [x \in Time |-> 0]]
    /\ askedFrom' = [i \in Ips |-> [x \in Time |-> 0]]
    /\ answer' = NoAnswer

Init ==
    /\ now = 0
    /\ authFailures = [i \in Ips |-> None]
    /\ proxyRequests = [t \in Tenants |-> None]
    /\ proxyIpRequests = [i \in Ips |-> None]
    /\ sessions = [s \in SessionIds |-> None]
    /\ created = [s \in SessionIds |-> None]
    /\ rejected = [i \in Ips |-> [x \in Time |-> 0]]
    /\ admitted = [t \in Tenants |-> [x \in Time |-> 0]]
    /\ admittedFrom = [i \in Ips |-> [x \in Time |-> 0]]
    /\ askedFrom = [i \in Ips |-> [x \in Time |-> 0]]
    /\ answer = NoAnswer

-----------------------------------------------------------------------------
(* checkLimit.                                                             *)

Over(map, key) == map[key] = None \/ now > map[key].resetAt

\* Whether the request is let through.
Allowed(map, key, limit) == Over(map, key) \/ map[key].count < limit

\* The bucket after the request.  A count beyond limit + 1 says no more.
Charged(map, key, limit) ==
    [map EXCEPT ![key] =
        IF Over(map, key) THEN [count |-> 1, resetAt |-> now + Window]
        ELSE [map[key] EXCEPT !.count = IF @ > limit THEN limit + 1 ELSE @ + 1]]

Answer(code, from, who) == answer' = [code |-> code, from |-> from, who |-> who]

\* denyUnauthorized, and the refused peer_hello: 401 while the quota lasts.
DenyUnauthorized(ip) ==
    /\ authFailures' = Charged(authFailures, ip, AuthFailLimit)
    /\ IF Allowed(authFailures, ip, AuthFailLimit)
       THEN /\ Answer(401, ip, None)
            /\ rejected' = [rejected EXCEPT ![ip][now] = @ + 1]
       ELSE Answer(429, ip, None) /\ UNCHANGED rejected

-----------------------------------------------------------------------------
(* Requests.                                                               *)

\* A wrong or missing credential, admin token or recovery token, on any route
\* but the session probe.
Reject(ip) ==
    /\ DenyUnauthorized(ip)
    /\ UNCHANGED <<now, proxyRequests, proxyIpRequests, sessions, created,
                   admitted, admittedFrom, askedFrom>>

\* Mutant: a request the IP ceiling refuses is charged to the tenant.
CeilingFirstSpendsTenant(t, ip) ==
    proxyRequests' = Charged(proxyRequests, t, ProxyLimit)

\* The tenant is charged unless the ceiling of the IP refused the request.
TenantCharge(t, ip) ==
    proxyRequests' =
        IF IpLimit > 0 /\ ~Allowed(proxyIpRequests, ip, IpLimit)
        THEN proxyRequests ELSE Charged(proxyRequests, t, ProxyLimit)

\* /api/proxy with a valid credential (refuseProxyRequest).
Proxy(t, ip) ==
    /\ proxyIpRequests' = IF IpLimit > 0
                          THEN Charged(proxyIpRequests, ip, IpLimit)
                          ELSE proxyIpRequests
    /\ TenantCharge(t, ip)
    /\ askedFrom' = [askedFrom EXCEPT ![ip][now] =
                        IF @ < IpLimit THEN @ + 1 ELSE @]
    /\ IF /\ IpLimit > 0 => Allowed(proxyIpRequests, ip, IpLimit)
          /\ Allowed(proxyRequests, t, ProxyLimit)
       THEN /\ Answer(200, ip, t)
            /\ admitted' = [admitted EXCEPT ![t][now] = @ + 1]
            /\ admittedFrom' = [admittedFrom EXCEPT ![ip][now] = @ + 1]
       ELSE Answer(429, ip, t) /\ UNCHANGED <<admitted, admittedFrom>>
    /\ UNCHANGED <<now, authFailures, sessions, created, rejected>>

\* POST /api/admin/session with the admin token.
Login(ip, s) ==
    /\ created[s] = None /\ sessions[s] = None
    /\ sessions' = [sessions EXCEPT ![s] = [expiresAt |-> now + Ttl]]
    /\ created' = [created EXCEPT ![s] = now]
    /\ Answer(200, ip, None)
    /\ UNCHANGED <<now, limits, counts>>

\* validate() is TRUE.
Valid(s) == sessions[s] # None /\ ~(now > sessions[s].expiresAt)

\* validate() forgets a session it finds expired.
Validate(s) == sessions' = [sessions EXCEPT ![s] = IF Valid(s) THEN @ ELSE None]

\* requireAdmin with the cookie of a session: a change must come from a trusted
\* origin, an unknown session is an authentication failure.
ByCookie(ip, s, mutating, trusted) ==
    /\ Validate(s)
    /\ IF ~Valid(s) THEN DenyUnauthorized(ip)
       ELSE /\ Answer(IF mutating /\ ~trusted THEN 403 ELSE 200, ip, s)
            /\ UNCHANGED <<authFailures, rejected>>
    /\ UNCHANGED <<now, proxyRequests, proxyIpRequests, created, admitted,
                   admittedFrom, askedFrom>>

\* GET /api/admin/session.
ProbeSession(ip, s) ==
    /\ Valid(s) \/ Probing
    /\ Validate(s)
    /\ IF Valid(s) THEN Answer(200, ip, s) /\ UNCHANGED rejected
       ELSE /\ Answer(401, ip, None)
            /\ rejected' = [rejected EXCEPT ![ip][now] = @ + 1]
    /\ UNCHANGED <<now, limits, created, admitted, admittedFrom, askedFrom>>

\* DELETE /api/admin/session.
Logout(ip, s) ==
    /\ sessions' = [sessions EXCEPT ![s] = None]
    /\ created' = [created EXCEPT ![s] = None]
    /\ Answer(200, ip, None)
    /\ UNCHANGED <<now, limits, counts>>

-----------------------------------------------------------------------------
(* The clock, the intervals and the process.                               *)

Tick ==
    /\ now < MaxNow /\ now' = now + 1
    /\ answer' = NoAnswer
    /\ UNCHANGED <<limits, sessions, created, counts>>

\* Mutant: the clean-up drops every bucket.
SweptAll(map) == [k \in DOMAIN map |-> None]

Swept(map) == [k \in DOMAIN map |-> IF Over(map, k) THEN None ELSE map[k]]

\* rateLimitCleanup.
CleanUp ==
    /\ authFailures' = Swept(authFailures)
    /\ proxyRequests' = Swept(proxyRequests)
    /\ proxyIpRequests' = Swept(proxyIpRequests)
    /\ answer' = NoAnswer
    /\ UNCHANGED <<now, sessions, created, counts>>

\* sweep() of the session store.
Sweep ==
    /\ sessions' = [s \in SessionIds |-> IF Valid(s) THEN sessions[s] ELSE None]
    /\ answer' = NoAnswer
    /\ UNCHANGED <<now, limits, created, counts>>

\* The gateway restarts.
Restart == Fresh /\ UNCHANGED now

Next ==
    \/ \E ip \in Ips : Reject(ip)
    \/ \E t \in Tenants, ip \in Ips : Proxy(t, ip)
    \/ \E ip \in Ips, s \in SessionIds :
          \/ Login(ip, s) \/ ProbeSession(ip, s) \/ Logout(ip, s)
          \/ \E mutating, trusted \in BOOLEAN : ByCookie(ip, s, mutating, trusted)
    \/ Tick \/ CleanUp \/ Sweep \/ Restart

Spec == Init /\ [][Next]_vars

-----------------------------------------------------------------------------
(* Properties.                                                             *)

Ticks(a, b) == {x \in Time : a <= x /\ x <= b}

\* The requests a history counts at some ticks: which tick, which of that tick.
Requests(history, ticks) == UNION {{x} \X (1..history[x]) : x \in ticks}

\* How many from tick a to tick b.
Counted(history, a, b) == Cardinality(Requests(history, Ticks(a, b)))

\* Two windows can touch an interval as long as one (ADR-0012: the boundary of
\* a fixed window allows a burst of twice the limit), never three.
BurstBounded ==
    /\ \A t \in Tenants, a \in Time :
          Counted(admitted[t], a, a + Window) <= 2 * ProxyLimit
    /\ IpLimit > 0 =>
          \A i \in Ips, a \in Time :
             Counted(admittedFrom[i], a, a + Window) <= 2 * IpLimit

\* The same for failed attempts: every 401, whichever route gives it, spends
\* the one quota of its IP (README.md:67).
EveryRejectionCounts ==
    \A i \in Ips, a \in Time :
        Counted(rejected[i], a, a + Window) <= 2 * AuthFailLimit

\* A tenant is refused only if ProxyLimit requests of its own were let in within
\* the last window, or its IP asked IpLimit times; what a ceiling refused to it
\* elsewhere, or to others, is not taken from its budget.
RefusalsEarned ==
    answer.code = 429 /\ answer.who \in Tenants =>
        LET since == IF now < Window THEN 0 ELSE now - Window
        IN \/ Counted(admitted[answer.who], since, now) >= ProxyLimit
           \/ /\ IpLimit > 0
              /\ Counted(askedFrom[answer.from], since, now) >= IpLimit

\* A session lets in for Ttl after its login and not after its logout or a
\* restart, however it is used in between (no sliding renewal).
SessionsFixed ==
    answer.code \in {200, 403} /\ answer.who \in SessionIds =>
        created[answer.who] # None /\ now <= created[answer.who] + Ttl

\* Why a burst is bounded: a bucket says when its window began, the window
\* counts what its quota admits, and only one earlier window is in reach of it.
WindowFits(history, bucket, limit) ==
    /\ \A x \in Time : x > now => history[x] = 0
    /\ bucket = None =>
          /\ history[now] = 0
          /\ \A a \in Time : a + Window >= now => Counted(history, a, now) <= limit
    /\ bucket # None =>
          /\ \A x \in Time : x > bucket.resetAt => history[x] = 0
          /\ \E w \in Time :
                /\ w <= now /\ bucket.resetAt = w + Window
                /\ Counted(history, w, now) <= bucket.count
                /\ Counted(history, w, now) <= limit
                /\ \A a \in Time : a + Window >= w =>
                      Cardinality(Requests(history, Ticks(a, w) \ {w})) <= limit

\* Why a refusal is earned: what a bucket counts was asked, or admitted.
WindowEarned(history, bucket, limit) ==
    bucket # None =>
        \A w \in Time : bucket.resetAt = w + Window =>
            Counted(history, w, now) >= IF bucket.count < limit THEN bucket.count ELSE limit

WindowsAccounted ==
    /\ \A t \in Tenants :
          /\ WindowFits(admitted[t], proxyRequests[t], ProxyLimit)
          /\ WindowEarned(admitted[t], proxyRequests[t], ProxyLimit)
    /\ \A i \in Ips :
          /\ WindowFits(rejected[i], authFailures[i], AuthFailLimit)
          /\ IpLimit > 0 =>
                /\ WindowFits(admittedFrom[i], proxyIpRequests[i], IpLimit)
                /\ WindowEarned(askedFrom[i], proxyIpRequests[i], IpLimit)

\* A session lasts from its login for Ttl.
SessionsAccounted ==
    \A s \in SessionIds : sessions[s] # None =>
        created[s] # None /\ sessions[s].expiresAt = created[s] + Ttl

\* What holds between two requests, for the quotas and the sessions.
AccessInv ==
    /\ AccessTypeOK /\ BurstBounded /\ EveryRejectionCounts /\ SessionsFixed
    /\ WindowsAccounted /\ SessionsAccounted

=============================================================================
