---------------------------- MODULE DashboardCalls ----------------------------
(***************************************************************************)
(* What the client promises its callers (spec.md 4.1, 5, 7), with the
   stream hidden: every caller thread works through its calls one at a
   time; inside a call it reads the greeting (connect only) or answers to
   requests of its own current call, each newer than the last one it read;
   a call reports "true" only on a positive answer to its own request; and
   every call eventually returns or throws.

   DashboardClient is shown to implement this specification under the
   mapping in DashboardClient (CallsRefined).                               *)
(***************************************************************************)
EXTENDS Naturals, Sequences

CONSTANTS Threads,
          Script,    \* Script[t]: the calls of thread t (records with .kind)
          Greeting,  \* the line the server sends on accept
          NoLine     \* nothing read yet

VARIABLES ip,        \* per thread: index of its current call
          outcome,   \* per thread: how its last finished call ended
          line       \* per thread: the last line its read() returned

vars == <<ip, outcome, line>>

Op(t) == Script[t][ip[t]]
Busy(t) == ip[t] <= Len(Script[t])

Init ==
  /\ ip = [t \in Threads |-> 1]
  /\ outcome = [t \in Threads |-> "none"]
  /\ line = [t \in Threads |-> NoLine]

\* connect() logs the server's greeting.
Greet(t) ==
  /\ Busy(t) /\ Op(t).kind = "connect"
  /\ line' = [line EXCEPT ![t] = Greeting]
  /\ UNCHANGED <<ip, outcome>>

(***************************************************************************)
(* One exchange of the current call: the answer read is to a request this
   thread sent for this call, and newer than the last answer it read.       *)
(***************************************************************************)
Answer(t) ==
  /\ Busy(t)
  /\ line'[t].req.from = t
  /\ line'[t].req.src = Op(t)
  /\ line'[t].req.id > line[t].req.id
  /\ \A u \in Threads \ {t} : line'[u] = line[u]
  /\ UNCHANGED <<ip, outcome>>

\* A positive answer to this thread's request for the current call.
Confirmed(t) ==
  line[t].ok /\ line[t].req.from = t /\ line[t].req.src = Op(t)

(***************************************************************************)
(* The current call ends: "true" needs a confirmed answer; "false", an
   exception, or no result (disconnect) are always possible.               *)
(***************************************************************************)
Return(t) ==
  /\ Busy(t)
  /\ ip' = [ip EXCEPT ![t] = @ + 1]
  /\ \E v \in {"true", "false", "exception", "none"} :
       /\ v = "true" => Confirmed(t)
       /\ outcome' = [outcome EXCEPT ![t] = v]
  /\ UNCHANGED line

Next == \E t \in Threads : Greet(t) \/ Answer(t) \/ Return(t)

\* No call blocks forever: a call in progress always returns eventually.
Spec == Init /\ [][Next]_vars /\ \A t \in Threads : WF_vars(Return(t))
=============================================================================
