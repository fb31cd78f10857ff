# TLA+ models of the UR dashboard client

These modules model `urcl::DashboardClient`. Its implementation is in
`src/src/ur/dashboard_client.cpp` and its declaration in
`src/include/ur_client_library/ur/dashboard_client.h`. They check the client against
what `spec.md` says it does.

## The system

The client talks to a UR robot's dashboard server over a single TCP stream. The
server sends one line per request. It also sends a greeting line when the
connection is accepted.

| Part | Code | State | Operations |
|---|---|---|---|
| Transport | `comm::TCPSocket` (outside this tree) | socket state, receive timeout | setup, close, write, read, setReceiveTimeout |
| Connection lifecycle | `connect`, `disconnect` | socket | refuses when already connected; setup; reads the greeting **without the lock**; sets a 1 s timeout; queries the version |
| Request/response engine | `send`, `read`, `sendAndReceive`, `sendRequest(String)` | `write_mutex_` | write and read one line under the lock; a read timeout disconnects and throws; a reply that does not match throws |
| Poll/retry engine | `waitForReply`, `retryCommand` | local counters | polls a status every 100 ms until a double count reaches the timeout; do/while retry of a trigger |
| Version gate | `parseSWVersion`, `lessThanVersion`, `commandPolyscopeVersion` | `polyscope_version_`, `e_series_` | caches the version; the first statement of every command compares thresholds (and throws on failure) |
| Command catalog | the 33 `command*` methods | none | gate, then one of four exchange shapes |
| Long commands | `commandGenerateFlightReport` / `SupportFile` | receive timeout | set the timeout to 180/600 s, send the request, reset it to 1 s |

How the parts interact:
- Every command reads the version cache that `connect` writes, and neither side takes a lock.
- All threads share one stream and one receive timeout.

## Modules

- **DashboardVersion**: version arithmetic.
  - A version string is abstracted to its integer fields plus a flag for a trailing word. The word covers the sentinel `"10. Only available on ..."`.
  - `ParseSWVersion` models which `int[4]` slots `operator>>` actually writes.
  - A slot that is never written is the model value `Uninit`. Comparing it gives every result (`SlotOrder`), because this is undefined behaviour.
  - `LexCompare` is `std::lexicographical_compare`. It is RECURSIVE and returns the set of results the build can give.
  - `LessThanVersion` and `IsESeries` model lines 209-221 and 367.
  - `SpecSupported` is the rule of spec.md 4.3, kept beside the code's rule so the two can be compared.
- **DashboardCatalog**: one record per `command*` method.
  - Each record holds the two thresholds, the kind (`request`, `requestWait`, `retry`, `long`), the wire command, the polled query, and what a mismatch does (throw, or return false).
  - Arguments and regular expressions are abstracted: a reply either matches or it does not.
- **DashboardGate**: the version cache and the gate on their own. The actions are `RecordVersion`, modelling `commandPolyscopeVersion` after its reply, and `CheckGate`.
- **DashboardClient**: the client shared by the caller threads `Threads`, each running `Script[t]`.
  - The stream is two FIFO queues of whole lines (`toServer`, `toClient`). Closing the socket empties both.
  - Each request carries a unique id, the command it came from, and a server delay: `fast`, `long` (over 1 s) or `stall` (beyond any timeout).
  - On accept the server's greeting is sent at once (`fast`) or, for a server that accepts and stays silent, never (`GreetingDelays`).
  - `ReadTimeout` fires when no line is waiting and the next line would arrive after the receive timeout in force.
  - One action covers each step that another thread can interleave with:
    - connect: `ConnectSetup` and `ConnectSetTimeout`;
    - a direct `commandPolyscopeVersion`: `QueryVersion`, then the same `RecordVersion`/`RecordVariant` as connect;
    - the version cache: `RecordVersion` and `RecordVariant`, which are unlocked;
    - the exchange: `Lock`, `Send`, `Read` and `ReadTimeout`;
    - the gate: `Gate`;
    - the reply checks: `CheckReply`, `CheckTrigger`, `Poll` and `CheckPoll`;
    - the long commands: `SetLongTimeout`, `CheckLong` and `ResetTimeout`;
    - the server: `ServerReply`.
  - An exception ends the call (`outcome = "exception"`). The caller then goes on with its next call.
  - `CountBelow` models the double loop bound of `waitForReply`. The sum of ten steps of 0.1 is just below 1.0, so the step at the limit may go either way.
- **DashboardCalls**: the abstract specification of what the client promises its
  callers (spec.md 4.1, 5, 7), with the stream, the mutex and the version cache hidden.
  Each thread works through its calls. Inside a call it reads the greeting (connect
  only) or an answer to a request of its own current call, newer than its previous
  one (`Answer`); a call returns "true" only on a confirmed answer (`Return`); weak
  fairness on `Return` says every call ends. `DashboardClient` instantiates it
  (`Calls == INSTANCE DashboardCalls WITH Greeting <- ...`; `ip`, `outcome`, `line`
  map to themselves) and checks `CallsRefined == Calls!Spec`.
- **MCDashboardGate** and **MCDashboardClient**: the controller versions, threads and scripts given to TLC.

## Runs

| Run | Expect | What it shows |
|---|---|---|
| gate_pass | pass | Checks `GateSound` over controller versions 3.12, 3.15.7.1, 5.4.1.1, 5.6.0 and 5.9.4.1 and all 33 commands: the gate admits a command only when spec 4.3 supports it, whatever values the uninitialised slots hold. |
| gate_complete | violation | A controller at exactly 5.6.0 can be refused a command whose threshold is 5.6.0: the 4th slot is uninitialised on both sides. |
| gate_variant_ten | violation | 10.1.0.1 is classified as CB3 by `stoi(substr(0,1))` and admitted to a CB3-only command (`SetUserRole`). |
| client_concurrent | pass | t1 runs connect, power on and get operational mode. t2, started once t1's connect has returned, runs power off, setUserRole and disconnect. The server may stall. Checks `TypeOK`, `WireOnlySupported`, `ExchangeExclusive`, `VersionCachedBeforeWire`, `RepliesAttributed`, `Termination` and the refinement `CallsRefined` (about 376k states, 2 min). |
| client_sequential | pass | One thread runs: failed or successful setup, flight report (long timeout), refused reconnect, power off, the CB3-only getUserRole probe, a direct version query and disconnect. Checks `WireOnlySupported`, `VersionCachedBeforeWire`, `RepliesAttributed`, `Termination` and `CallsRefined`; the type invariant and the two-caller `ExchangeExclusive` are checked in the multi-thread runs. |
| client_three | pass | Three threads: t1 connects, reads the robot mode and disconnects; t2 and t3 each read the robot mode, try CB3-only setUserRole and re-query the version (unlocked re-write of the cache). Safety only (`WireOnlySupported`, `ExchangeExclusive`, `VersionCachedBeforeWire`, `RepliesAttributed`) under `SYMMETRY` of t2/t3, which run identical scripts (about 234k states, 20 s). |
| client_variant_race | violation | With callers not waiting for connect, t2 gates its CB3-only command on the still-empty cache while t1 reads the greeting; the request reaches the e-series controller (`WireOnlySupported`). |
| client_long_timeout_race | violation | t1 generates a flight report while t2 reads the robot mode: `setReceiveTimeout(180 s)` is not under `write_mutex_`, so t2's ordinary read runs with the 180 s timeout. |
| client_poll_window | violation | With retryCommand's real 1.0 s window (10 ticks), waitForReply makes an 11th unmatched poll: ten additions of 0.1 give 0.9999999999999999 < 1.0 (spec 4.2 says it stops once attempts x 100 ms reach the timeout). |
| client_connect_race | violation | When callers do not wait for connect, another thread reads the greeting as its reply, and connect's unlocked greeting read then consumes that thread's reply (`RepliesAttributed`). |
| client_timeout_not_restored | violation | After a mismatching flight-report reply, later ordinary reads run with the 180 s timeout. |
| client_silent_greeting | violation | One thread connects to a server that accepts but never greets (`GreetingDelays = {"fast", "never"}`). The greeting is read before `setReceiveTimeout(1 s)`, so the read has no timeout and `connect` never returns (`Termination`; spec 5 says every read ends by data or by the 1 s timeout). |

Every property of a passing run has a mutant in PROJECT.json, a plausible bug that TLC finds:
- the thresholds swapped;
- the version date kept in the cache;
- the version date kept in the client's cache (breaks the client `TypeOK`);
- a read timeout that does not disconnect;
- a failed send that keeps the mutex;
- the lock scoped to the write only (breaks `ExchangeExclusive`);
- a status poll that ignores the reply's pattern (breaks `CallsRefined`);
- a connect that returns without the version query (breaks `VersionCachedBeforeWire`).

## Bounds and fairness

- **Client wait windows.** `DefaultWaitTicks` and `RetryWaitTicks` stand for the 30 s and 1 s windows and are scaled down to 1-2 polls. The scaling keeps the boundary behaviour of `CountBelow`: one extra poll can happen at the limit.
- **Power-on timeout.** `PowerOnTimeout = 2` allows a re-trigger in `retryCommand`.
- **Scripts.**
  - Each script reaches every action and every disjunct across the passing runs.
  - The concurrent script interleaves a poll loop with a retry loop and a disconnect.
  - The sequential script covers the setup failure, the refused reconnect, the long command and a direct version query.
  - The three-thread script is the smallest in which two threads wait on `write_mutex_` at once and a disconnect lands while one exchange is in flight and another caller waits. It is checked for safety only: symmetry is unsound for liveness, and liveness (`Termination`, `CallsRefined`) is checked on the two-thread and one-thread runs.
- **Gate versions.** The gate's versions sit on both sides of every distinct threshold, and some are equal to one.
- **Greeting.** Only the passing runs' `GreetingDelays = {"fast"}` keeps `Termination` meaningful there: a silent server is the separate question of `client_silent_greeting`.
- **Fairness.** Each thread has weak fairness on its own step and the server has weak fairness on replying. Every wait in the code is bounded: a read ends by data or by the receive timeout, and the mutex is held only for one bounded exchange. A stalled server is therefore always ended by a timeout.
- **Unfair mutex.** `std::mutex` is not fair, but each script is finite, so starvation cannot last.

Further divergences from spec.md are visible in the code and not given a run of their own:
- `lessThanVersion` throws when the gate fails (line 218), so the `return false` of every command is unreachable; spec 4.4 says an unsupported command returns false without I/O.
- `commandPowerOn(0)` still sends "power on" once, because `retryCommand` is a do/while loop (line 194); spec 4.2 gives the timeout as the attempt budget.
- The empty-cache case of the gate (spec 4.3 "fails closed") is shown end to end by `client_variant_race`.

## Not modelled

- **TCPSocket internals**: byte framing, partial writes, and the possible null `recv_timeout_` at line 99. A read with no timeout set is modelled as blocking until data arrives; what `*recv_timeout_` does after a failed read is decided inside `TCPSocket`.
- **connect's value after a failed setup** (line 68): the model follows the code (it sends the version query on the closed socket and throws), but spec.md gives no return value to check it against.
- **Logging and `rtrim`.**
- **The server closing the connection after `quit` or `shutdown`.** What the client then sees (whether `write` still succeeds, whether `read` returns EOF as a failure, what `getState` reports) is decided by `comm::TCPSocket`, which is not in this tree, so it cannot be modelled from the source.

## Plan for further work

- The remaining hazards without a property (unbounded line length in `read()`, commands after `quit`/`shutdown`, the null `recv_timeout_`) all depend on `comm::TCPSocket` or on byte-level framing, which this model abstracts; they would need the transport's source.

