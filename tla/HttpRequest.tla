------------------------------ MODULE HttpRequest ------------------------------
(***************************************************************************)
(* CreateosSandboxHttp.requestRaw / request / stream (src/http.ts) over a   *)
(* fetch that honours its AbortSignal (the injected or global fetch).       *)
(* Each call is one asynchronous function; between two awaits it runs       *)
(* undisturbed, so a step of the call is the code from one await to the     *)
(* next.  The network, the server, the timer and the caller's AbortSignal   *)
(* act at any moment in between.                                            *)
(***************************************************************************)
EXTENDS RetryPolicy, FiniteSets

CONSTANTS Calls,       \* API calls in progress
          MaxRetries,  \* largest retry budget of a call
          Options,     \* option records a call may be made with
          Statuses     \* HTTP statuses the server answers with

(* replayable: the body is not a ReadableStream; streaming: made through    *)
(* stream(); timed: timeoutMs > 0.                                          *)
CallOptions == [method     : {"GET", "HEAD", "PUT", "DELETE", "POST", "PATCH"},
                retry      : BOOLEAN,
                maxRetries : 0 .. MaxRetries,
                replayable : BOOLEAN,
                streaming  : BOOLEAN,
                timed      : BOOLEAN]

ASSUME ConstantsAssumption ==
  /\ MaxRetries \in Nat
  /\ Options \subseteq CallOptions
  /\ Statuses \subseteq 200 .. 599

VARIABLES opts,     \* opts[c]: the options of call c
          pc,       \* where call c is suspended
          attempt,  \* attempt[c]: the local variable of requestRaw
          timer,    \* the per-dispatch timeout of c
          aborted,  \* whether the caller's signal has fired
          wire,     \* wire[c][k]: the fate of the request sent by attempt k
          reply,    \* status of the response in hand or arriving, 0 if none
          outcome   \* how the promise of c settled

vars == <<opts, pc, attempt, timer, aborted, wire, reply, outcome>>

Attempts == 0 .. MaxRetries

(* "aborted" is the raw AbortError, "broken" the raw error of a body that    *)
(* fails to arrive, "api" a typed error for a non-2xx reply, "invalid" a     *)
(* CreateosSandboxError for a body that is not a success envelope, "config"  *)
(* one thrown while the request is prepared.                                 *)
Outcomes == {"ok", "api", "invalid", "broken", "timeout", "connection",
             "aborted", "config"}

Init ==
  /\ opts \in [Calls -> Options]
  /\ pc = [c \in Calls |-> "start"]
  /\ attempt = [c \in Calls |-> 0]
  /\ timer = [c \in Calls |-> "off"]
  /\ aborted = [c \in Calls |-> FALSE]
  /\ wire = [c \in Calls |-> [k \in Attempts |-> "unsent"]]
  /\ reply = [c \in Calls |-> 0]
  /\ outcome = [c \in Calls |-> "none"]

-----------------------------------------------------------------------------
(* Retry decisions *)

(* Retries a body that the first attempt consumed. *)
RetriesStreamedBody(c) == opts[c].retry /\ ~opts[c].streaming

(* Whether requestRaw runs with a retry policy; stream() has no loop.        *)
Retries(c) == opts[c].retry /\ opts[c].replayable /\ ~opts[c].streaming

(* Grants one retry more than the policy. *)
BudgetOffByOne(c) == Retries(c) /\ attempt[c] <= opts[c].maxRetries

BudgetLeft(c) == Retries(c) /\ attempt[c] < opts[c].maxRetries

(* Retries a timeout like any other failed dispatch. *)
RetriesEveryError(c, error) ==
  error # "aborted" /\ BudgetLeft(c) /\ opts[c].method \in IDEMPOTENT

RetriesError(c, error) ==
  error = "connection" /\ BudgetLeft(c) /\ opts[c].method \in IDEMPOTENT

RetriesReply(c) ==
  ~IsOk(reply[c]) /\ BudgetLeft(c) /\ isRetryableStatus(opts[c].method, reply[c])

(* Looks at the timeout before the caller's signal. *)
TimeoutShadowsAbort(c) ==
  IF timer[c] = "fired" THEN "timeout"
  ELSE IF aborted[c] THEN "aborted" ELSE "connection"

(* What #dispatch makes of a rejected fetch. *)
DispatchError(c) ==
  IF aborted[c] THEN "aborted"
  ELSE IF timer[c] = "fired" THEN "timeout" ELSE "connection"

(* Composes no caller signal into the signal of the fetch. *)
TimeoutSignalOnly(c) == timer[c] = "fired"

(* AbortSignal.any([signal, timeout.signal]) has fired.                      *)
Signalled(c) == aborted[c] \/ timer[c] = "fired"

Goto(c, point) == pc' = [pc EXCEPT ![c] = point]

Settle(c, result) ==
  /\ Goto(c, "done")
  /\ outcome' = [outcome EXCEPT ![c] = result]
-----------------------------------------------------------------------------
(* Steps of the call *)

(* #prepare: build the URL, the headers and the body, or throw.              *)
Prepare(c) ==
  /\ pc[c] = "start"
  /\ \/ Goto(c, "onRequest") /\ UNCHANGED outcome
     \/ Settle(c, "config")
  /\ UNCHANGED <<opts, attempt, timer, aborted, wire, reply>>

(* Transmits even when the signal has fired. *)
SendIgnoringAbort(c) ==
  /\ pc[c] = "onRequest"
  /\ Goto(c, "fetch")
  /\ timer' = [timer EXCEPT ![c] = IF opts[c].timed THEN "armed" ELSE "off"]
  /\ wire' = [wire EXCEPT ![c][attempt[c]] = "transit"]
  /\ UNCHANGED <<opts, attempt, aborted, reply, outcome>>

(* Arms one timeout for the whole call instead of one per dispatch. *)
SendArmingOnce(c) ==
  /\ pc[c] = "onRequest"
  /\ Goto(c, "fetch")
  /\ timer' = [timer EXCEPT ![c] =
                 IF opts[c].timed /\ attempt[c] = 0 THEN "armed" ELSE "off"]
  /\ wire' = IF aborted[c] THEN wire
             ELSE [wire EXCEPT ![c][attempt[c]] = "transit"]
  /\ UNCHANGED <<opts, attempt, aborted, reply, outcome>>

(* The onRequest hook has run: #dispatch arms the timeout and calls fetch,    *)
(* which transmits nothing when its signal has fired already.                *)
Send(c) ==
  /\ pc[c] = "onRequest"
  /\ Goto(c, "fetch")
  /\ timer' = [timer EXCEPT ![c] = IF opts[c].timed THEN "armed" ELSE "off"]
  /\ wire' = IF aborted[c] THEN wire
             ELSE [wire EXCEPT ![c][attempt[c]] = "transit"]
  /\ UNCHANGED <<opts, attempt, aborted, reply, outcome>>

(* fetch resolves with the headers of the reply; the timeout is cleared.     *)
ReceiveHeaders(c) ==
  /\ pc[c] = "fetch" /\ reply[c] # 0 /\ ~Signalled(c)
  /\ Goto(c, "onResponse")
  /\ timer' = [timer EXCEPT ![c] = "off"]
  /\ UNCHANGED <<opts, attempt, aborted, wire, reply, outcome>>

(* fetch rejects, because a signal fired or because the connection failed:   *)
(* the catch of #dispatch, then the catch of requestRaw.                     *)
FetchRejects(c) ==
  /\ pc[c] = "fetch"
  /\ IF RetriesError(c, DispatchError(c))
     THEN Goto(c, "onRetry") /\ UNCHANGED outcome
     ELSE Settle(c, DispatchError(c))
  /\ timer' = [timer EXCEPT ![c] = "off"]
  /\ reply' = [reply EXCEPT ![c] = 0]
  /\ UNCHANGED <<opts, attempt, aborted, wire>>

FetchAborts(c) == Signalled(c) /\ FetchRejects(c)

(* The onResponse hook has run.                                              *)
DecideOnReply(c) ==
  /\ pc[c] = "onResponse"
  /\ Goto(c, IF RetriesReply(c) THEN "onRetry" ELSE "body")
  /\ UNCHANGED <<opts, attempt, timer, aborted, wire, reply, outcome>>

(* The onRetry hook has run: a reply to be retried is drained first.         *)
EnterBackoff(c) ==
  /\ pc[c] = "onRetry"
  /\ Goto(c, IF reply[c] = 0 THEN "backoff" ELSE "drain")
  /\ UNCHANGED <<opts, attempt, timer, aborted, wire, reply, outcome>>

(* arrayBuffer() resolves or rejects, and the rejection is swallowed.        *)
Drain(c) ==
  /\ pc[c] = "drain"
  /\ Goto(c, "backoff")
  /\ UNCHANGED <<opts, attempt, timer, aborted, wire, reply, outcome>>

(* Forgets to drop the reply of the attempt that failed. *)
WakeKeepingReply(c) ==
  /\ pc[c] = "backoff"
  /\ Goto(c, "onRequest")
  /\ attempt' = [attempt EXCEPT ![c] = @ + 1]
  /\ UNCHANGED <<opts, timer, aborted, wire, reply, outcome>>

(* sleep() resolves, at its time or as soon as the signal fires.             *)
Wake(c) ==
  /\ pc[c] = "backoff"
  /\ Goto(c, "onRequest")
  /\ attempt' = [attempt EXCEPT ![c] = @ + 1]
  /\ reply' = [reply EXCEPT ![c] = 0]
  /\ UNCHANGED <<opts, timer, aborted, wire, outcome>>

(* The body has arrived: unwrapJSend, or throwForResponse.                   *)
BodyArrives(c) ==
  /\ pc[c] = "body"
  /\ \E result \in IF IsOk(reply[c]) THEN {"ok", "invalid"} ELSE {"api"} :
       Settle(c, result)
  /\ UNCHANGED <<opts, attempt, timer, aborted, wire, reply>>

(* The body breaks off or its read is aborted: text() rejects, but           *)
(* throwForResponse still throws the typed error.                            *)
BodyFails(c) ==
  /\ pc[c] = "body"
  /\ Settle(c, IF IsOk(reply[c]) THEN "broken" ELSE "api")
  /\ UNCHANGED <<opts, attempt, timer, aborted, wire, reply>>

(* What the caller's signal cuts short once the headers are in.              *)
BodyAborts(c) == aborted[c] /\ (BodyFails(c) \/ Drain(c))
-----------------------------------------------------------------------------
(* The environment of the call *)

(* The timeout elapses while fetch is pending. *)
TimerFires(c) ==
  /\ timer[c] = "armed"
  /\ timer' = [timer EXCEPT ![c] = "fired"]
  /\ UNCHANGED <<opts, pc, attempt, aborted, wire, reply, outcome>>

(* The caller aborts. *)
Abort(c) ==
  /\ ~aborted[c] /\ pc[c] # "done"
  /\ aborted' = [aborted EXCEPT ![c] = TRUE]
  /\ UNCHANGED <<opts, pc, attempt, timer, wire, reply, outcome>>

(* A reply to attempt k reaches the client, or is lost, or comes too late.   *)
Answer(c, k, statuses) ==
  \/ UNCHANGED reply
  \/ /\ pc[c] = "fetch" /\ attempt[c] = k
     /\ \E s \in statuses : reply' = [reply EXCEPT ![c] = s]

(* The server acts on the request of attempt k.                              *)
Execute(c, k) ==
  /\ wire[c][k] = "transit"
  /\ wire' = [wire EXCEPT ![c][k] = "executed"]
  /\ Answer(c, k, {s \in Statuses : IsOk(s) \/ s \in Ambiguous})
  /\ UNCHANGED <<opts, pc, attempt, timer, aborted, outcome>>

(* The server turns the request of attempt k down without acting on it, as   *)
(* it does with a DELETE of what an earlier attempt deleted (404).           *)
Refuse(c, k) ==
  /\ wire[c][k] = "transit"
  /\ wire' = [wire EXCEPT ![c][k] = "refused"]
  /\ Answer(c, k, {s \in Statuses : ~IsOk(s)})
  /\ UNCHANGED <<opts, pc, attempt, timer, aborted, outcome>>

(* The request of attempt k never arrives. *)
Lose(c, k) ==
  /\ wire[c][k] = "transit"
  /\ wire' = [wire EXCEPT ![c][k] = "lost"]
  /\ UNCHANGED <<opts, pc, attempt, timer, aborted, reply, outcome>>

Client(c) ==
  \/ Prepare(c)       \/ Send(c)         \/ ReceiveHeaders(c)
  \/ FetchRejects(c)  \/ DecideOnReply(c) \/ EnterBackoff(c)
  \/ Drain(c)         \/ Wake(c)         \/ BodyArrives(c)  \/ BodyFails(c)

Server(c, k) == Execute(c, k) \/ Refuse(c, k) \/ Lose(c, k)

Next == \E c \in Calls : \/ Client(c)
                         \/ TimerFires(c)
                         \/ Abort(c)
                         \/ \E k \in Attempts : Server(c, k)

Spec == Init /\ [][Next]_vars

(* The runtime runs what is runnable, timers elapse, hooks return, and a     *)
(* fetch whose signal fired rejects.  Nothing is assumed of the network.     *)
ClientFairness ==
  \A c \in Calls :
    /\ WF_vars(Prepare(c)) /\ WF_vars(Send(c)) /\ WF_vars(ReceiveHeaders(c))
    /\ WF_vars(FetchAborts(c)) /\ WF_vars(TimerFires(c))
    /\ WF_vars(DecideOnReply(c)) /\ WF_vars(EnterBackoff(c))
    /\ WF_vars(Wake(c)) /\ WF_vars(BodyAborts(c))

(* A reply whose headers arrived is followed by its body.                    *)
BodyFairness == \A c \in Calls : WF_vars(BodyArrives(c) \/ BodyFails(c) \/ Drain(c))

FairSpec == Spec /\ ClientFairness
LiveSpec == FairSpec /\ BodyFairness
-----------------------------------------------------------------------------
(* Properties *)

Sent(c) == {k \in Attempts : wire[c][k] # "unsent"}
Executed(c) == {k \in Attempts : wire[c][k] = "executed"}

(* Every variable stays in its range.                                        *)
TypeOK ==
  /\ opts \in [Calls -> Options]
  /\ pc \in [Calls -> {"start", "onRequest", "fetch", "onResponse", "onRetry",
                       "drain", "backoff", "body", "done"}]
  /\ attempt \in [Calls -> Attempts]
  /\ timer \in [Calls -> {"off", "armed", "fired"}]
  /\ aborted \in [Calls -> BOOLEAN]
  /\ wire \in [Calls -> [Attempts ->
                 {"unsent", "transit", "executed", "refused", "lost"}]]
  /\ reply \in [Calls -> Statuses \cup {0}]
  /\ outcome \in [Calls -> Outcomes \cup {"none"}]

(* The server acts at most once on a POST or a PATCH, however the network    *)
(* delays or loses requests and replies: requestRaw repeats such a call only *)
(* when the previous transmission was turned down.                           *)
AtMostOnce ==
  \A c \in Calls : opts[c].method \notin IDEMPOTENT =>
    \A j, k \in Executed(c) : j = k

(* A call whose body cannot be replayed, one made with retry: false and a    *)
(* stream() put at most one request on the wire.                             *)
UnrepeatableSentOnce ==
  \A c \in Calls : ~(opts[c].retry /\ opts[c].replayable /\ ~opts[c].streaming) =>
    \A j, k \in Sent(c) : j = k

(* requestRaw transmits at most maxRetries + 1 times, and an attempt it      *)
(* skipped is never transmitted later: the attempts sent have no gap.        *)
BudgetKept ==
  \A c \in Calls : \A k \in Sent(c) :
    /\ k <= opts[c].maxRetries
    /\ k <= attempt[c]
    /\ \A j \in 0 .. k : j \in Sent(c)

(* A call settles on the answer to its last transmission and never on one to *)
(* an earlier attempt; when it reports success the server acted on it.       *)
AnswerToLastAttempt ==
  \A c \in Calls :
    /\ outcome[c] \in {"ok", "invalid", "broken", "api"} =>
         wire[c][attempt[c]] \in {"executed", "refused"}
    /\ outcome[c] = "ok" => wire[c][attempt[c]] = "executed"

(* Once the caller has aborted, the call transmits nothing more, also when   *)
(* the abort came in a hook, in a backoff or while a reply was drained.      *)
NoSendAfterAbort ==
  [][\A c \in Calls : aborted[c] =>
       {k \in Attempts : wire'[c][k] # "unsent"} = Sent(c)]_vars

(* An attempt whose timeout elapsed is the last one: no timer that fired is   *)
(* followed by another attempt, and the call ends with the timeout or, when  *)
(* the caller aborted as well, with the abort.                               *)
TimeoutEndsCall ==
  [][\A c \in Calls : timer[c] = "fired" =>
       /\ attempt'[c] = attempt[c]
       /\ timer'[c] # "fired" =>
            outcome'[c] = IF aborted[c] THEN "aborted" ELSE "timeout"]_vars

(* The caller who aborts never sees a TimeoutError or a ConnectionError in    *)
(* its place: whatever fails after the abort surfaces as the abort itself.   *)
AbortSurfacesAsAbort ==
  [][\A c \in Calls : (aborted[c] /\ outcome[c] = "none") =>
       outcome'[c] \notin {"timeout", "connection"}]_vars

(* A call with a timeout settles ("Every request carries a timeout",          *)
(* docs/explanation/reliability.md:158).  True when the body of a reply whose *)
(* headers arrived arrives or breaks off too (LiveSpec); the timeout alone    *)
(* does not bring it about (FairSpec), as it is cleared at the headers.       *)
TimedCallSettles ==
  \A c \in Calls : opts[c].timed ~> pc[c] = "done"

(* A call that the caller aborts settles, whatever the network does.         *)
AbortedCallSettles ==
  \A c \in Calls : aborted[c] ~> pc[c] = "done"

(* The promise made to the caller, see RemoteCall.                           *)
Promise == INSTANCE RemoteCall WITH
  Results <- Outcomes,
  repeatable <- [c \in Calls |-> opts[c].method \in IDEMPOTENT],
  effects <- [c \in Calls |-> Executed(c)],
  result <- outcome

(* requestRaw keeps that promise: every step of it is a step of RemoteCall.  *)
KeepsPromise == Promise!Spec
-----------------------------------------------------------------------------
(* A claim of the repository that this code does not keep *)

(* "a repeated DELETE on a resource that was already deleted is still a no-op *)
(* (or a 404, which is handled)" (docs/explanation/reliability.md:20): the   *)
(* 404 met by the retry of a DELETE that took effect is not thrown.          *)
RetriedDeleteHandled ==
  \A c \in Calls : opts[c].method = "DELETE" /\ Executed(c) # {} =>
    ~(outcome[c] = "api" /\ errorFromResponse(reply[c]) = "NotFound")
=============================================================================
