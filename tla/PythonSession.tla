--------------------------- MODULE PythonSession ---------------------------
(***************************************************************************)
(* The control connection of the Python backend SDK                        *)
(* (packages/python/src/zclaudia_gateway/backend.py).  connect() runs the  *)
(* first attempt in the caller, start() in a task that retries it; either  *)
(* then hands the connection to a supervisor task, which waits for the     *)
(* reader task to end and reconnects.  close() cancels the tasks it knows  *)
(* of and awaits, so it has a beginning and an end.                        *)
(*                                                                         *)
(* A run is one call of connect() or start() and the tasks that follow     *)
(* from it; it has one socket at a time.  Obtaining a credential and       *)
(* opening the socket are one step, "dial", as self._ws is set after both. *)
(***************************************************************************)
EXTENDS Naturals, FiniteSets

CONSTANTS
    MaxRuns,     \* calls of connect() and start()
    Impatient,   \* calls need not wait for a connect() or close() before them
    MaxFaults    \* failures, refusals, drops and takeovers

ConstantsOK == MaxRuns \in Nat /\ MaxFaults \in Nat

VARIABLES
    closed,      \* self._closed
    event,       \* self._closed_event is set
    closing,     \* close() is between its first await and its end
    state,       \* self._state
    failure,     \* self._last_error: none, of an attempt, or REPLACED
    ws,          \* self._ws: the run whose socket it is, or 0
    reader,      \* self._reader_task: the run whose socket it reads, or 0
    supervisor,  \* self._supervisor_task: a run, or 0
    starter,     \* self._start_task: a run, or 0
    used,        \* self._used_connect or self._used_start
    runs,
    faults

vars == <<closed, event, closing, state, failure, ws, reader, supervisor,
          starter, used, runs, faults>>

Runs == 1..MaxRuns

Run == [task : {"none", "connect", "start", "supervise", "over"},
        step : {"dial", "hello", "sleep", "begin", "watch"},
        watching : 0..MaxRuns, retried : BOOLEAN,
        link : {"none", "open", "up", "lost", "replaced"}]

Unused == [task |-> "none", step |-> "dial", watching |-> 0,
           retried |-> FALSE, link |-> "none"]

(* Every variable has its type; a task that waits for a reader or sleeps   *)
(* has no attempt under way.                                               *)
PythonTypeOK ==
    /\ closed \in BOOLEAN /\ event \in BOOLEAN /\ closing \in BOOLEAN
    /\ state \in {"idle", "connecting", "connected", "closed"}
    /\ failure \in {"none", "attempt", "replaced"}
    /\ {ws, reader, supervisor, starter} \subseteq 0..MaxRuns
    /\ used \in {"none", "connect", "start"}
    /\ runs \in [Runs -> Run]
    /\ \A i \in Runs : runs[i].step = "sleep" => runs[i].link = "none"
    /\ faults \in 0..MaxFaults

Init ==
    /\ closed = FALSE /\ event = FALSE /\ closing = FALSE
    /\ state = "idle"
    /\ failure = "none"
    /\ ws = 0 /\ reader = 0 /\ supervisor = 0 /\ starter = 0
    /\ used = "none"
    /\ runs = [i \in Runs |-> Unused]
    /\ faults = 0

-----------------------------------------------------------------------------
(* Helpers. *)

Alive(i) == runs[i].task \in {"connect", "start", "supervise"}
Supervised == supervisor # 0 /\ Alive(supervisor)
Starting == starter # 0 /\ Alive(starter)

Fault == faults < MaxFaults /\ faults' = faults + 1

NextRun(i) == runs[i].task = "none" /\ \A j \in 1..i - 1 : runs[j].task # "none"

(* What connect() and start() reset. *)
Begin(i, task) ==
    /\ NextRun(i)
    /\ closed' = FALSE
    /\ event' = FALSE
    /\ failure' = "none"
    /\ state' = "connecting"
    /\ runs' = [runs EXCEPT ![i].task = task]

(* A task ends, its socket with it. *)
Over(i) == [runs[i] EXCEPT !.task = "over", !.link = "none"]

-----------------------------------------------------------------------------
(* The application. *)

(* A connect() is awaited. *)
Awaited == \E i \in Runs : runs[i].task = "connect"

(* The application awaits one call of its own before it makes the next. *)
MayCall == ~Awaited /\ (Impatient \/ ~closing)

(* Mutant: connect() does not look for a run under way. *)
ConnectUnguarded(i) ==
    /\ used # "start" /\ MayCall
    /\ Begin(i, "connect")
    /\ UNCHANGED <<closing, ws, reader, supervisor, starter, used, faults>>

(* connect() *)
Connect(i) ==
    /\ used # "start" /\ MayCall
    /\ ws = 0 /\ ~Supervised
    /\ Begin(i, "connect")
    /\ UNCHANGED <<closing, ws, reader, supervisor, starter, used, faults>>

(* start() *)
Start(i) ==
    /\ used # "connect" /\ MayCall
    /\ ws = 0 /\ ~Supervised /\ ~Starting
    /\ Begin(i, "start")
    /\ used' = "start"
    /\ starter' = i
    /\ UNCHANGED <<closing, ws, reader, supervisor, faults>>

(* close() has something to await. *)
Awaits == ws # 0 \/ Supervised \/ Starting

(* close() up to its first await: the supervisor and the starter are       *)
(* cancelled, which closes the socket of an attempt of theirs, and the     *)
(* current socket is closed.                                               *)
CloseBegins ==
    /\ ~closed /\ ~closing
    /\ state # "idle"
    /\ Impatient \/ ~Awaited
    /\ closed' = TRUE
    /\ event' = TRUE
    /\ closing' = Awaits
    /\ state' = IF Awaits THEN state ELSE "closed"
    /\ runs' = [i \in Runs |->
           IF i \in {supervisor, starter} /\ Alive(i)
           THEN Over(i)
           ELSE IF i = ws /\ Alive(i) THEN [runs[i] EXCEPT !.link = "lost"]
           ELSE runs[i]]
    /\ ws' = IF ws # 0 /\ runs[ws].step = "hello" /\ ws \in {supervisor, starter}
             THEN 0 ELSE ws
    /\ supervisor' = 0
    /\ starter' = 0
    /\ UNCHANGED <<failure, reader, used, faults>>

(* The end of close(): the reader is cancelled, and with it a task that    *)
(* waits for it.                                                           *)
CloseEnds ==
    /\ closing
    /\ closing' = FALSE
    /\ state' = "closed"
    /\ runs' = [i \in Runs |->
           IF reader # 0 /\ runs[i].step = "watch" /\ runs[i].watching = reader
           THEN [runs[i] EXCEPT !.task = "over"] ELSE runs[i]]
    /\ ws' = 0
    /\ reader' = 0
    /\ UNCHANGED <<closed, event, failure, supervisor, starter, used, faults>>

-----------------------------------------------------------------------------
(* An attempt: _establish() and _handshake(). *)

(* The credential is there and the socket open: the hello is sent. *)
Dialled(i) ==
    /\ Alive(i) /\ runs[i].step = "dial"
    /\ runs' = [runs EXCEPT ![i].step = "hello", ![i].link = "open"]
    /\ ws' = i
    /\ UNCHANGED <<closed, event, closing, state, failure, reader, supervisor,
                   starter, used, faults>>

(* What follows a failed attempt: connect() raises, the tasks retry. *)
AfterFailure(i) ==
    IF runs[i].task = "connect" THEN Over(i)
    ELSE [runs[i] EXCEPT !.step = "sleep", !.link = "none", !.retried = FALSE]

AttemptFails(i) ==
    /\ runs' = [runs EXCEPT ![i] = AfterFailure(i)]
    /\ ws' = IF runs[i].step = "hello" THEN 0 ELSE ws
    /\ failure' = IF closed THEN failure ELSE "attempt"
    /\ UNCHANGED <<closed, event, closing, state, reader, supervisor, starter, used>>

DialFails(i) ==
    /\ Alive(i) /\ runs[i].step = "dial"
    /\ Fault
    /\ AttemptFails(i)

(* A gateway_error, a lost socket or ten seconds without peer_ready. *)
HelloFails(i) ==
    /\ Alive(i) /\ runs[i].step = "hello"
    /\ \/ runs[i].link = "lost" /\ UNCHANGED faults
       \/ Fault
    /\ AttemptFails(i)

(* UNAUTHORIZED of a cached access token: the attempt starts over, once,   *)
(* with a new exchange.                                                    *)
TokenRefused(i) ==
    /\ Alive(i) /\ runs[i].step = "hello"
    /\ runs[i].link = "open"
    /\ ~runs[i].retried
    /\ Fault
    /\ runs' = [runs EXCEPT ![i].step = "dial", ![i].link = "none",
                            ![i].retried = TRUE]
    /\ ws' = 0
    /\ UNCHANGED <<closed, event, closing, state, failure, reader, supervisor,
                   starter, used>>

(* peer_ready: the reader and heartbeat tasks start, and connect() or the  *)
(* starter hands over to a new supervisor task.                            *)
Ready(i) ==
    /\ Alive(i) /\ runs[i].step = "hello"
    /\ runs[i].link = "open"
    /\ reader' = i
    /\ failure' = "none"
    /\ state' = "connected"
    /\ runs' = [runs EXCEPT ![i] =
           [@ EXCEPT !.task = "supervise", !.step = "begin", !.link = "up",
                     !.retried = FALSE]]
    /\ supervisor' = i
    /\ used' = IF runs[i].task = "connect" THEN "connect" ELSE used
    /\ UNCHANGED <<closed, event, closing, ws, starter, faults>>

-----------------------------------------------------------------------------
(* The supervisor. *)

(* The top of _supervise(): the reader task to wait for is read. *)
Supervise(i) ==
    /\ runs[i].task = "supervise" /\ runs[i].step = "begin"
    /\ runs' = [runs EXCEPT ![i].step = "watch", ![i].watching = reader]
    /\ UNCHANGED <<closed, event, closing, state, failure, ws, reader,
                   supervisor, starter, used, faults>>

(* The socket drops, or the gateway gives the identity to another process. *)
Lost(i) ==
    /\ Fault
    /\ runs[i].link \in {"open", "up"}
    /\ \/ runs' = [runs EXCEPT ![i].link = "lost"]
       \/ /\ runs[i].link = "up"
          /\ runs' = [runs EXCEPT ![i].link = "replaced"]
    /\ UNCHANGED <<closed, event, closing, state, failure, ws, reader,
                   supervisor, starter, used>>

(* After the reader has ended: a replaced backend stands down, a closed    *)
(* one ends, a dropped one reconnects.                                     *)
AfterDrop(i, replaced) ==
    IF closed \/ replaced
    THEN /\ state' = "closed" /\ event' = TRUE
         /\ failure' = IF closed THEN failure ELSE "replaced"
         /\ runs' = [runs EXCEPT ![i] = Over(i)]
    ELSE /\ state' = "connecting"
         /\ UNCHANGED <<failure, event>>
         /\ runs' = [runs EXCEPT ![i].step = "dial", ![i].link = "none"]

ReaderEnds(i) ==
    /\ runs[i].task = "supervise" /\ runs[i].step = "watch"
    /\ runs[i].watching # 0 => runs[runs[i].watching].link \in {"lost", "replaced"}
    /\ ws' = 0
    /\ reader' = 0
    /\ AfterDrop(i, runs[i].watching # 0 /\ runs[i].link = "replaced")
    /\ UNCHANGED <<closed, closing, supervisor, starter, used, faults>>

(* The back-off is over. *)
Wake(i) ==
    /\ Alive(i) /\ runs[i].step = "sleep"
    /\ IF closed
       THEN /\ runs' = [runs EXCEPT ![i] = Over(i)]
            /\ IF runs[i].task = "supervise"
               THEN state' = "closed" /\ event' = TRUE
               ELSE UNCHANGED <<state, event>>
       ELSE /\ runs' = [runs EXCEPT ![i].step = "dial"]
            /\ state' = "connecting"
            /\ UNCHANGED event
    /\ UNCHANGED <<closed, closing, failure, ws, reader, supervisor, starter,
                   used, faults>>

Progress(i) ==
    \/ Dialled(i) \/ HelloFails(i) \/ Ready(i) \/ Supervise(i)
    \/ ReaderEnds(i) \/ Wake(i)

Next ==
    \/ CloseBegins
    \/ CloseEnds
    \/ \E i \in Runs :
          \/ Connect(i) \/ Start(i) \/ Progress(i) \/ DialFails(i)
          \/ TokenRefused(i) \/ Lost(i)

Spec == Init /\ [][Next]_vars

(* The event loop runs every task; dials and handshakes end. *)
Fairness == WF_vars(CloseEnds) /\ \A i \in Runs : WF_vars(Progress(i))

FairSpec == Spec /\ Fairness

-----------------------------------------------------------------------------
(* Properties. *)

(* One run at a time has tasks, and one socket is open. *)
OneRun ==
    /\ Cardinality({i \in Runs : Alive(i)}) <= 1
    /\ Cardinality({i \in Runs : runs[i].link \in {"open", "up"}}) <= 1

(* Once close() has returned no connection is up. *)
NothingUpAfterClose ==
    closed /\ ~closing => \A i \in Runs : runs[i].link # "up"

(* What holds between two steps of the event loop. *)
PythonInv == PythonTypeOK /\ OneRun /\ NothingUpAfterClose

(* wait_closed() returns when the backend is closed. *)
ClosedEventTrue == event => state = "closed"

(* A replaced backend stands down: only connect() or start() revives it. *)
PythonStandsDown ==
    [][state = "closed" /\ failure = "replaced" /\ state' # "closed"
         => \E i \in Runs : NextRun(i) /\ runs'[i].task # "none"]_vars

(* The failure is kept by close() and not changed after it. *)
FailureKept == [][closed /\ closed' => failure' = failure]_vars

(* A backend that stood down stays down, and says why. *)
PythonStaysDown == PythonStandsDown /\ FailureKept

(* A backend that start() began, or that was dropped, is connected again   *)
(* or closed.                                                              *)
PythonRecovers ==
    \A i \in Runs :
        runs[i].task \in {"start", "supervise"} /\ state = "connecting" ~>
            state \in {"connected", "closed"}

=============================================================================
