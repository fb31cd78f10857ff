--------------------------- MODULE DashboardClient ---------------------------
(***************************************************************************)
(* One DashboardClient (dashboard_client.cpp) shared by several caller
   threads, talking to one dashboard server over one TCP stream.

   Each thread runs a script of calls (connect, disconnect, command*
   methods).  An exception ends the call; the caller is assumed to catch it
   and go on with its next call.  The steps of a thread are the points where
   another thread can interleave: taking write_mutex_, the write, the
   blocking read of one line, the unlocked parts of connect() (greeting
   read, setReceiveTimeout, the writes of polyscope_version_ and e_series_),
   the gate check and the setReceiveTimeout calls of the long commands.

   The stream is two FIFO queues of whole lines (TCP keeps order; bytes are
   not modelled).  Closing the socket discards both.  The server answers
   requests in order; an answer takes "fast" (< 1 s), "long" (> 1 s, within
   the 180/600 s of the long commands) or "stall" (longer than any timeout).
   A read times out when no line is there and the next one to arrive is
   later than the receive timeout in force.                                 *)
(***************************************************************************)
EXTENDS DashboardCatalog, Integers, SequencesExt, FiniteSets

CONSTANTS Threads,               \* caller threads sharing the client
          NoThread,              \* write_mutex_ is free
          Owner,                 \* the thread whose first call is connect()
          Script,                \* Script[t]: the calls thread t makes
          CallersWaitForConnect, \* other threads start after Owner's connect
          Controller,            \* the version the server reports
          DefaultWaitTicks,      \* waitForReply default 30.0 s in 100 ms ticks
          RetryWaitTicks,        \* retryCommand's 1.0 s window in ticks
          PowerOnTimeout,        \* commandPowerOn(timeout) attempt budget
          SetupMayFail,          \* TCPSocket::setup may fail
          ServerMayStall,        \* the server may answer after any timeout
          GreetingDelays         \* "fast": greeting sent on accept; "never": silent

\* Pseudo-commands for the two calls that are not command* methods.
ConnectCall == Cmd("Connect", NoVersion, NoVersion, "connect", "PolyscopeVersion", "none", "throw", 0)
DisconnectCall == Cmd("Disconnect", NoVersion, NoVersion, "disconnect", "none", "none", "throw", 0)

ASSUME /\ Owner \in Threads /\ NoThread \notin Threads
       /\ \A t \in Threads : Script[t] \in Seq(Catalog \cup {ConnectCall, DisconnectCall, CommandPolyscopeVersion})
       /\ Script[Owner] # <<>> /\ Script[Owner][1] = ConnectCall
       /\ {DefaultWaitTicks, RetryWaitTicks, PowerOnTimeout} \subseteq Nat
       /\ GreetingDelays \subseteq {"fast", "never"}

NoTimeout == 0   \* recv_timeout_ never set: reads block until data arrives

\* The greeting the server sends on accept; it answers no request.
Greeting == [id |-> 0, from |-> NoThread, cmd |-> "greeting", src |-> ConnectCall, delay |-> "fast"]
NoLine == [req |-> Greeting, ok |-> FALSE]

VARIABLES
  sock,             \* TCPSocket state: "Connected" / "Disconnected"
  recvTimeout,      \* receive timeout in seconds, NoTimeout if never set
  owner,            \* holder of write_mutex_
  polyscopeVersion, \* polyscope_version_
  eSeries,          \* e_series_
  toServer,         \* requests written and not yet answered
  toClient,         \* lines sent by the server and not yet read
  nsent,            \* requests written so far (gives each a unique id)
  pc, ip,           \* per thread: control point, index of the current call
  req,              \* per thread: the request of the current exchange
  line,             \* per thread: the last line read()
  ticks,            \* per thread: waitForReply's count, in 100 ms ticks
  tries,            \* per thread: retryCommand's count
  ret,              \* per thread: ret_val of connect / ret of a long command
  cont,             \* per thread: where the current exchange returns to
  outcome           \* per thread: how the last finished call ended

net == <<sock, toServer, toClient, nsent>>
cache == <<polyscopeVersion, eSeries>>
local == <<pc, ip, req, line, ticks, tries, ret, cont, outcome>>
vars == <<net, cache, recvTimeout, owner, local>>

Op(t) == Script[t][ip[t]]

Init ==
  /\ sock = "Disconnected"
  /\ recvTimeout = NoTimeout
  /\ owner = NoThread
  /\ polyscopeVersion = NoVersion
  /\ eSeries = Uninit
  /\ toServer = <<>> /\ toClient = <<>> /\ nsent = 0
  /\ pc = [t \in Threads |-> "idle"]
  /\ ip = [t \in Threads |-> 1]
  /\ req = [t \in Threads |-> Greeting]
  /\ line = [t \in Threads |-> NoLine]
  /\ ticks = [t \in Threads |-> 0]
  /\ tries = [t \in Threads |-> 0]
  /\ ret = [t \in Threads |-> FALSE]
  /\ cont = [t \in Threads |-> "idle"]
  /\ outcome = [t \in Threads |-> "none"]

Goto(t, l) == pc' = [pc EXCEPT ![t] = l]

\* The call returns v ("true", "false") or ends with "exception".
Finish(t, v) ==
  /\ Goto(t, "idle")
  /\ ip' = [ip EXCEPT ![t] = @ + 1]
  /\ outcome' = [outcome EXCEPT ![t] = v]

\* Enter sendAndReceive(wire + "\n"), continuing at l with the reply.
BeginExchange(t, wire, l) ==
  /\ Goto(t, "lock")
  /\ req' = [req EXCEPT ![t] = [id |-> 0, from |-> t, cmd |-> wire, src |-> Op(t), delay |-> "fast"]]
  /\ cont' = [cont EXCEPT ![t] = l]

\* TCPSocket::close(): the stream and everything on it is gone.
Close ==
  /\ sock' = "Disconnected"
  /\ toServer' = <<>> /\ toClient' = <<>>

Release(t) == owner' = IF owner = t THEN NoThread ELSE owner

\* What a reply line tells the reader: the answer it expected, positively.
Matches(t, l) == l.req.cmd = req[t].cmd /\ l.ok
-----------------------------------------------------------------------------
(***************************************************************************)
(* A thread starts its next call.  With CallersWaitForConnect the threads
   other than Owner start only after Owner's first call, connect(), came
   back, as a caller that connects before sharing the client would do.     *)
(***************************************************************************)
StartCall(t) ==
  /\ pc[t] = "idle"
  /\ ip[t] <= Len(Script[t])
  /\ CallersWaitForConnect /\ t # Owner => ip[Owner] > 1
  /\ Goto(t, CASE Op(t).kind = "connect"    -> "connect"
               [] Op(t).kind = "disconnect" -> "disconnect"
               [] Op(t).kind = "version"    -> "queryVersion"
               [] OTHER                     -> "gate")
  /\ UNCHANGED <<net, cache, recvTimeout, owner, ip, req, line, ticks, tries, ret, cont, outcome>>

(***************************************************************************)
(* connect() up to the greeting (lines 50-60): refuse when connected, else
   TCPSocket::setup; on success the server's greeting is on the stream (or,
   from a server that accepts and stays silent, never comes) and read() runs
   without write_mutex_, before any receive timeout has been set.  ret_val stays false when setup fails. *)
(***************************************************************************)
ConnectSetup(t) ==
  /\ pc[t] = "connect"
  /\ \/ /\ sock = "Connected"
        /\ Finish(t, "false")
        /\ UNCHANGED <<net, req, cont, ret>>
     \/ /\ sock = "Disconnected"
        /\ sock' = "Connected"
        /\ toServer' = <<>>
        /\ \E d \in GreetingDelays :
             toClient' = IF d = "fast" THEN <<[req |-> Greeting, ok |-> TRUE]>> ELSE <<>>
        /\ Goto(t, "read")
        /\ req' = [req EXCEPT ![t] = Greeting]
        /\ cont' = [cont EXCEPT ![t] = "setTimeout"]
        /\ ret' = [ret EXCEPT ![t] = TRUE]
        /\ UNCHANGED <<nsent, ip, outcome>>
     \/ /\ sock = "Disconnected" /\ SetupMayFail
        /\ Goto(t, "setTimeout")
        /\ ret' = [ret EXCEPT ![t] = FALSE]
        /\ UNCHANGED <<net, req, cont, ip, outcome>>
  /\ UNCHANGED <<cache, recvTimeout, owner, line, ticks, tries>>

\* Regression variant: connect returns without the version query.
ConnectSkipsVersion(t) ==
  /\ pc[t] = "setTimeout"
  /\ recvTimeout' = 1
  /\ Finish(t, IF ret[t] THEN "true" ELSE "false")
  /\ UNCHANGED <<net, cache, owner, line, ticks, tries, ret, req, cont>>

(***************************************************************************)
(* connect() lines 62-68: setReceiveTimeout(1 s), then
   commandPolyscopeVersion's sendRequestString("PolyscopeVersion", ...).     *)
(***************************************************************************)
ConnectSetTimeout(t) ==
  /\ pc[t] = "setTimeout"
  /\ recvTimeout' = 1
  /\ BeginExchange(t, "PolyscopeVersion", "recordVersion")
  /\ UNCHANGED <<net, cache, owner, ip, line, ticks, tries, ret, outcome>>

\* commandPolyscopeVersion called on its own (line 364); it returns the
\* regex_match of a reply sendRequestString already matched, i.e. true.
QueryVersion(t) ==
  /\ pc[t] = "queryVersion"
  /\ ret' = [ret EXCEPT ![t] = TRUE]
  /\ BeginExchange(t, "PolyscopeVersion", "recordVersion")
  /\ UNCHANGED <<net, cache, recvTimeout, owner, ip, line, ticks, tries, outcome>>

\* Regression variant: the substr at line 366 misses " (", so the date
\* suffix of "URSoftware 5.9.4.1 (Jan 01 2024)" stays in the cache.
RecordVersionWithDate(t) ==
  /\ pc[t] = "recordVersion"
  /\ IF Matches(t, line[t])
       THEN /\ polyscopeVersion' = VersionString(Controller.nums, TRUE)
            /\ Goto(t, "recordVariant")
            /\ UNCHANGED ip /\ UNCHANGED outcome
       ELSE /\ Finish(t, "exception")
            /\ UNCHANGED polyscopeVersion
  /\ UNCHANGED <<net, eSeries, recvTimeout, owner, req, line, ticks, tries, ret, cont>>

(***************************************************************************)
(* commandPolyscopeVersion lines 364-366: sendRequestString throws unless
   the reply matches "(?:URSoftware ).*"; the version text is cached.       *)
(***************************************************************************)
RecordVersion(t) ==
  /\ pc[t] = "recordVersion"
  /\ IF Matches(t, line[t])
       THEN /\ polyscopeVersion' = Controller
            /\ Goto(t, "recordVariant")
            /\ UNCHANGED ip /\ UNCHANGED outcome
       ELSE /\ Finish(t, "exception")
            /\ UNCHANGED polyscopeVersion
  /\ UNCHANGED <<net, eSeries, recvTimeout, owner, req, line, ticks, tries, ret, cont>>

\* Line 367, then connect() returns ret_val (line 70), or
\* commandPolyscopeVersion returns true (line 368).
RecordVariant(t) ==
  /\ pc[t] = "recordVariant"
  /\ eSeries' = IsESeries(polyscopeVersion)
  /\ Finish(t, IF ret[t] THEN "true" ELSE "false")
  /\ UNCHANGED <<net, polyscopeVersion, recvTimeout, owner, req, line, ticks, tries, ret, cont>>

\* disconnect() (lines 73-77).
Disconnect(t) ==
  /\ pc[t] = "disconnect"
  /\ Close
  /\ Finish(t, "none")
  /\ UNCHANGED <<nsent, cache, recvTimeout, owner, req, line, ticks, tries, ret, cont>>

-----------------------------------------------------------------------------
(***************************************************************************)
(* sendAndReceive (lines 110-125) with send (79-85) and read (87-108).      *)
(***************************************************************************)
Lock(t) ==
  /\ pc[t] = "lock"
  /\ owner = NoThread
  /\ owner' = t
  /\ Goto(t, "send")
  /\ UNCHANGED <<net, cache, recvTimeout, ip, req, line, ticks, tries, ret, cont, outcome>>

\* How late the server may answer a request.
Delays(r) ==
  (IF r.src.kind = "long" THEN {"long"} ELSE {"fast"})
    \cup (IF ServerMayStall THEN {"stall"} ELSE {})

\* Regression variant: a failed send throws with write_mutex_ still held.
SendKeepsLock(t) ==
  /\ pc[t] = "send"
  /\ \/ /\ sock = "Connected"
        /\ \E d \in Delays(req[t]) :
             LET r == [req[t] EXCEPT !.id = nsent + 1, !.delay = d]
             IN  /\ toServer' = Append(toServer, r)
                 /\ req' = [req EXCEPT ![t] = r]
        /\ nsent' = nsent + 1
        /\ Goto(t, "read")
        /\ UNCHANGED <<ip, outcome>>
     \/ /\ sock = "Disconnected"
        /\ Finish(t, "exception")
        /\ UNCHANGED <<nsent, toServer, req>>
  /\ UNCHANGED <<owner, sock, toClient, cache, recvTimeout, line, ticks, tries, ret, cont>>

\* Regression variant: the lock is scoped to the write only.
SendUnlocked(t) ==
  /\ pc[t] = "send"
  /\ \/ /\ sock = "Connected"
        /\ \E d \in Delays(req[t]) :
             LET r == [req[t] EXCEPT !.id = nsent + 1, !.delay = d]
             IN  /\ toServer' = Append(toServer, r)
                 /\ req' = [req EXCEPT ![t] = r]
        /\ nsent' = nsent + 1
        /\ Goto(t, "read")
        /\ UNCHANGED <<ip, outcome>>
     \/ /\ sock = "Disconnected"
        /\ Finish(t, "exception")
        /\ UNCHANGED <<nsent, toServer, req>>
  /\ Release(t)
  /\ UNCHANGED <<sock, toClient, cache, recvTimeout, line, ticks, tries, ret, cont>>

\* TCPSocket::write fails on a closed socket and sendAndReceive throws.
Send(t) ==
  /\ pc[t] = "send"
  /\ \/ /\ sock = "Connected"
        /\ \E d \in Delays(req[t]) :
             LET r == [req[t] EXCEPT !.id = nsent + 1, !.delay = d]
             IN  /\ toServer' = Append(toServer, r)
                 /\ req' = [req EXCEPT ![t] = r]
        /\ nsent' = nsent + 1
        /\ Goto(t, "read")
        /\ UNCHANGED <<owner, ip, outcome>>
     \/ /\ sock = "Disconnected"
        /\ Release(t)
        /\ Finish(t, "exception")
        /\ UNCHANGED <<nsent, toServer, req>>
  /\ UNCHANGED <<sock, toClient, cache, recvTimeout, line, ticks, tries, ret, cont>>

\* read() returns the next whole line; sendAndReceive then unlocks.
Read(t) ==
  /\ pc[t] = "read"
  /\ toClient # <<>>
  /\ line' = [line EXCEPT ![t] = Head(toClient)]
  /\ toClient' = Tail(toClient)
  /\ Release(t)
  /\ Goto(t, cont[t])
  /\ UNCHANGED <<sock, toServer, nsent, cache, recvTimeout, ip, req, ticks, tries, ret, cont, outcome>>

\* When the next line to arrive is due, given its server-side delay.
NextArrival == IF toServer = <<>> THEN "never" ELSE Head(toServer).delay

TimesOut(d, timeout) ==
  /\ timeout # NoTimeout
  /\ \/ d \in {"stall", "never"}
     \/ d = "long" /\ timeout = 1

\* Regression variant: read() throws on a timeout without disconnect().
ReadTimeoutKeepStream(t) ==
  /\ pc[t] = "read"
  /\ toClient = <<>>
  /\ TimesOut(NextArrival, recvTimeout)
  /\ Release(t)
  /\ Finish(t, "exception")
  /\ UNCHANGED <<net, cache, recvTimeout, req, line, ticks, tries, ret, cont>>

\* TCPSocket::read fails: read() disconnects and throws TimeoutException.
ReadTimeout(t) ==
  /\ pc[t] = "read"
  /\ toClient = <<>>
  /\ TimesOut(NextArrival, recvTimeout)
  /\ Close
  /\ Release(t)
  /\ Finish(t, "exception")
  /\ UNCHANGED <<nsent, cache, recvTimeout, req, line, ticks, tries, ret, cont>>
-----------------------------------------------------------------------------
(***************************************************************************)
(* The first statement of every command* method:
   if (!lessThanVersion(a, b, polyscope_version_)) return false;
   lessThanVersion throws when the check fails, so the "return false" is
   never reached.  On success the method goes on with its exchanges.        *)
(***************************************************************************)
Gate(t) ==
  /\ pc[t] = "gate"
  /\ \E admitted \in LessThanVersion(Op(t).a, Op(t).b, polyscopeVersion, eSeries) :
       IF ~admitted
         THEN /\ Finish(t, "exception")
              /\ UNCHANGED <<req, cont, tries>>
         ELSE /\ UNCHANGED <<ip, outcome>>
              /\ tries' = [tries EXCEPT ![t] = 0]
              /\ CASE Op(t).kind = "long" ->
                        Goto(t, "setLong") /\ UNCHANGED <<req, cont>>
                   [] Op(t).kind = "request" ->
                        BeginExchange(t, Op(t).wire, "checkReply")
                   [] OTHER ->
                        BeginExchange(t, Op(t).wire, "checkTrigger")
  /\ UNCHANGED <<net, cache, recvTimeout, owner, line, ticks, ret>>

(***************************************************************************)
(* The reply of a single-request command: sendRequest / sendRequestString
   throw on a mismatch (lines 131-136, 143-148); commandIsInRemoteControl
   and the methods that test "could not understand" return false instead.  *)
(***************************************************************************)
CheckReply(t) ==
  /\ pc[t] = "checkReply"
  /\ Finish(t, CASE Matches(t, line[t])     -> "true"
                 [] Op(t).mismatch = "false" -> "false"
                 [] OTHER                    -> "exception")
  /\ UNCHANGED <<net, cache, recvTimeout, owner, req, line, ticks, tries, ret, cont>>

(***************************************************************************)
(* The triggering sendRequest of a requestWait command (e.g. "power off")
   or of one retryCommand round (lines 187-188: sendRequest, count++); on a
   match the status query is polled with waitForReply.                     *)
(***************************************************************************)
CheckTrigger(t) ==
  /\ pc[t] = "checkTrigger"
  /\ IF Matches(t, line[t])
       THEN /\ Goto(t, "poll")
            /\ ticks' = [ticks EXCEPT ![t] = 0]
            /\ tries' = [tries EXCEPT ![t] = IF Op(t).kind = "retry" THEN @ + 1 ELSE @]
            /\ UNCHANGED <<ip, outcome>>
       ELSE /\ Finish(t, "exception")
            /\ UNCHANGED <<ticks, tries>>
  /\ UNCHANGED <<net, cache, recvTimeout, owner, req, line, ret, cont>>

\* waitForReply's window: 30.0 s by default, 1.0 s inside retryCommand.
WaitTicks(t) == IF Op(t).kind = "retry" THEN RetryWaitTicks ELSE DefaultWaitTicks

(***************************************************************************)
(* The values "count < timeout" can take after k steps of count += 0.1 in
   double arithmetic.  The rounding error stays far below one step, except
   when k steps are exactly the timeout: ten additions of 0.1 give
   0.9999999999999999 < 1.0 (one more poll) while 300 give a sum above 30.0. *)
(***************************************************************************)
CountBelow(k, limit) ==
  IF k < limit THEN {TRUE}
  ELSE IF k = limit /\ limit > 0 THEN BOOLEAN
  ELSE {FALSE}

\* The end of waitForReply with result v, and what its caller does with it.
PollDone(t, v) ==
  IF Op(t).kind = "retry" /\ ~v /\ tries[t] < PowerOnTimeout
    THEN /\ BeginExchange(t, Op(t).wire, "checkTrigger")   \* } while (count < timeout)
         /\ UNCHANGED <<ip, outcome>>
    ELSE /\ Finish(t, IF v THEN "true" ELSE "false")
         /\ UNCHANGED <<req, cont>>

(***************************************************************************)
(* waitForReply loop head (lines 158-161, 174-176): while count < timeout
   send the status query, else give up with false.                          *)
(***************************************************************************)
Poll(t) ==
  /\ pc[t] = "poll"
  /\ \E below \in CountBelow(ticks[t], WaitTicks(t)) :
       IF below
         THEN /\ BeginExchange(t, Op(t).query, "checkPoll")
              /\ UNCHANGED <<ip, outcome>>
         ELSE PollDone(t, FALSE)
  /\ UNCHANGED <<net, cache, recvTimeout, owner, line, ticks, tries, ret>>

\* Regression variant: the regex_match of the status reply is left out.
CheckPollNoMatch(t) ==
  /\ pc[t] = "checkPoll"
  /\ PollDone(t, TRUE)
  /\ UNCHANGED <<net, cache, recvTimeout, owner, line, ticks, tries, ret>>

\* Lines 164-171: a matching status ends the wait; else sleep 100 ms, count.
CheckPoll(t) ==
  /\ pc[t] = "checkPoll"
  /\ IF Matches(t, line[t])
       THEN /\ PollDone(t, TRUE)
            /\ UNCHANGED ticks
       ELSE /\ Goto(t, "poll")
            /\ ticks' = [ticks EXCEPT ![t] = @ + 1]
            /\ UNCHANGED <<ip, outcome, req, cont>>
  /\ UNCHANGED <<net, cache, recvTimeout, owner, line, tries, ret>>

(***************************************************************************)
(* commandGenerateFlightReport / commandGenerateSupportFile (lines 483-490,
   497-504): set the long receive timeout, sendRequest, then reset it to
   1 s.  A throwing sendRequest skips the reset.                            *)
(***************************************************************************)
SetLongTimeout(t) ==
  /\ pc[t] = "setLong"
  /\ recvTimeout' = Op(t).timeout
  /\ BeginExchange(t, Op(t).wire, "checkLong")
  /\ UNCHANGED <<net, cache, owner, ip, line, ticks, tries, ret, outcome>>

CheckLong(t) ==
  /\ pc[t] = "checkLong"
  /\ IF Matches(t, line[t])
       THEN /\ Goto(t, "resetTimeout")
            /\ ret' = [ret EXCEPT ![t] = TRUE]
            /\ UNCHANGED <<ip, outcome>>
       ELSE /\ Finish(t, "exception")
            /\ UNCHANGED ret
  /\ UNCHANGED <<net, cache, recvTimeout, owner, req, line, ticks, tries, cont>>

ResetTimeout(t) ==
  /\ pc[t] = "resetTimeout"
  /\ recvTimeout' = 1
  /\ Finish(t, IF ret[t] THEN "true" ELSE "false")
  /\ UNCHANGED <<net, cache, owner, req, line, ticks, tries, ret, cont>>
-----------------------------------------------------------------------------
(***************************************************************************)
(* The dashboard server answers the oldest request on the stream.  A status
   query may report the awaited state or not yet; a command may be accepted
   or refused; the version query always returns "URSoftware <version>".    *)
(***************************************************************************)
ServerReply ==
  /\ toServer # <<>>
  /\ \E ok \in IF Head(toServer).cmd = "PolyscopeVersion" THEN {TRUE} ELSE BOOLEAN :
       toClient' = Append(toClient, [req |-> Head(toServer), ok |-> ok])
  /\ toServer' = Tail(toServer)
  /\ UNCHANGED <<sock, nsent, cache, recvTimeout, owner, local>>

Done(t) == pc[t] = "idle" /\ ip[t] > Len(Script[t])

\* Every thread has made all its calls: the system stops here.
Terminated ==
  /\ \A t \in Threads : Done(t)
  /\ UNCHANGED vars

Step(t) ==
  \/ StartCall(t) \/ ConnectSetup(t) \/ ConnectSetTimeout(t) \/ QueryVersion(t)
  \/ RecordVersion(t) \/ RecordVariant(t) \/ Disconnect(t)
  \/ Gate(t) \/ Lock(t) \/ Send(t) \/ Read(t) \/ ReadTimeout(t)
  \/ CheckReply(t) \/ CheckTrigger(t) \/ Poll(t) \/ CheckPoll(t)
  \/ SetLongTimeout(t) \/ CheckLong(t) \/ ResetTimeout(t)

Next ==
  \/ \E t \in Threads : Step(t)
  \/ ServerReply
  \/ Terminated

(***************************************************************************)
(* Fairness: every caller thread keeps running (all its waits are bounded:
   the read by the receive timeout or the server's answer, the mutex by the
   bounded calls of the others) and the server keeps answering.            *)
(***************************************************************************)
Fairness ==
  /\ \A t \in Threads : WF_vars(Step(t))
  /\ WF_vars(ServerReply)

Spec == Init /\ [][Next]_vars /\ Fairness

-----------------------------------------------------------------------------
Labels == {"idle", "connect", "setTimeout", "queryVersion", "recordVersion", "recordVariant",
           "disconnect", "gate", "lock", "send", "read", "checkReply",
           "checkTrigger", "poll", "checkPoll", "setLong", "checkLong",
           "resetTimeout"}

TypeOK ==
  /\ sock \in {"Connected", "Disconnected"}
  /\ recvTimeout \in {NoTimeout, 1} \cup {c.timeout : c \in Catalog}
  /\ owner \in Threads \cup {NoThread}
  /\ polyscopeVersion \in {NoVersion, Controller}
  /\ eSeries \in BOOLEAN \cup {Uninit}
  /\ nsent \in Nat
  /\ pc \in [Threads -> Labels]
  /\ \A t \in Threads : ip[t] \in 1..Len(Script[t]) + 1
  /\ ticks \in [Threads -> Nat] /\ tries \in [Threads -> Nat]
  /\ ret \in [Threads -> BOOLEAN] /\ cont \in [Threads -> Labels]
  /\ outcome \in [Threads -> {"none", "true", "false", "exception"}]

(***************************************************************************)
(* RepliesAttributed (spec.md 5, 8.6): every line a thread's read() returns
   is the server's answer to that thread's own request (or, for connect(),
   the greeting).  A reply read by the wrong caller is misattributed: a
   power-off caller could take another thread's status line for its own.
   It needs the write and the read of an exchange under one lock, and a
   stream that is closed when a reply is abandoned by a timeout.           *)
(***************************************************************************)
RepliesAttributed ==
  [][\A t \in Threads : line'[t] # line[t] => line'[t].req = req[t]]_vars

(***************************************************************************)
(* WireOnlySupported: no request for a command reaches the controller
   unless spec.md 4.3 says the controller's version supports it.  This
   depends on the version cached by connect() (parse, variant, both fields
   written) being in place before another thread's gate check reads it.    *)
(***************************************************************************)
WireOnlySupported ==
  \A i \in 1..Len(toServer) :
     LET c == toServer[i].src
     IN  c.kind \in {"connect", "version"} \/ SpecSupported(c.a, c.b, Controller)

(***************************************************************************)
(* VersionCachedBeforeWire (spec.md 3, 5 "Handshake"): connect() queries
   the version before it returns, so no command other than connect's own
   query or commandPolyscopeVersion is written to the controller before both
   polyscope_version_ and e_series_ hold the controller's values.  The
   cache is written unlocked, in two steps, by whichever thread queries.    *)
(***************************************************************************)
VersionCachedBeforeWire ==
  \A i \in 1..Len(toServer) :
     toServer[i].src.kind \notin {"connect", "version"}
       => polyscopeVersion = Controller /\ eSeries = IsESeries(Controller)

(***************************************************************************)
(* Termination: every call of every thread returns or throws; no thread is
   left blocked on write_mutex_ or on a read, and no poll loop runs forever. *)
(***************************************************************************)
Termination == <>(\A t \in Threads : Done(t))

(***************************************************************************)
(* OrdinaryReadsUseDefaultTimeout (spec.md 4.4, 8.7): every read of an
   ordinary exchange runs under the standard 1 s receive timeout; the 180 s
   and 600 s of the diagnostic commands are restored "on all exit paths,
   including failure".  Only the greeting read of connect() and the reads
   of the long commands themselves are exempt.                              *)
(***************************************************************************)
OrdinaryReadsUseDefaultTimeout ==
  \A t \in Threads :
     pc[t] = "read" /\ req[t] # Greeting /\ req[t].src.kind # "long"
       => recvTimeout = 1

(***************************************************************************)
(* PollAttemptsWithinWindow (spec.md 4.2, 8.4): waitForReply gives up once
   attempts x 100 ms reach the timeout, so it never counts more unmatched
   polls than the window holds.  count is a double summed in steps of 0.1.  *)
(***************************************************************************)
PollAttemptsWithinWindow ==
  \A t \in Threads : pc[t] \in {"poll", "checkPoll"} => ticks[t] <= WaitTicks(t)

(***************************************************************************)
(* ExchangeExclusive (spec.md 5): the stream carries nothing but the
   greeting and the one exchange of the thread that holds write_mutex_ and
   waits in its read; a second caller writes only after the first caller's
   whole exchange (write and read) is over.                                 *)
(***************************************************************************)
ExchangeExclusive ==
  \A r \in {m.req : m \in ToSet(toClient)} \cup ToSet(toServer) :
     r # Greeting => owner = r.from /\ pc[r.from] = "read" /\ req[r.from] = r

-----------------------------------------------------------------------------
(***************************************************************************)
(* The refinement: the client implements DashboardCalls when each thread's
   call index, outcome and last line read are exposed and the stream, the
   mutex and the version cache are hidden.                                  *)
(***************************************************************************)
Calls == INSTANCE DashboardCalls WITH Greeting <- [req |-> Greeting, ok |-> TRUE]

(***************************************************************************)
(* CallsRefined: every read of a caller returns the greeting (in connect) or
   an answer to a request of its own current call, newer than its last one;
   a call returns "true" only on such a positive answer; every call returns.
   Breaks if replies cross between threads or calls (an unlocked read, a
   timed-out stream reused) or a result ignores the reply.                  *)
(***************************************************************************)
CallsRefined == Calls!Spec
=============================================================================
