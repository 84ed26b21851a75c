--------------------------- MODULE HttpRequestProofs ---------------------------
(***************************************************************************)
(* The safety of HttpRequest, for any number of concurrent calls, any retry *)
(* budget, any set of options and any set of statuses.  The invariants of   *)
(* HttpRequest are not inductive; CallInv adds what the retry loop knows at *)
(* each of its suspension points.                                           *)
(***************************************************************************)
EXTENDS ClientOperations, TLAPS

(* Between the decision to retry and the next attempt.                       *)
Retrying(c) == pc[c] \in {"onRetry", "drain", "backoff"}

(* Before the request of the current attempt is sent.                        *)
Fresh(c) == pc[c] \in {"start", "onRequest"}

(* A retry under way was granted by the policy, and the budget is not        *)
(* overdrawn: what keeps attempt in range.                                   *)
BudgetInv(c) ==
  /\ attempt[c] <= opts[c].maxRetries
  /\ ~Retries(c) => attempt[c] = 0
  /\ Retrying(c) => Retries(c) /\ attempt[c] < opts[c].maxRetries

(* Nothing is on the wire of an attempt not made yet, and as long as the     *)
(* caller has not aborted every attempt made is.                             *)
WireInv(c) ==
  /\ \A k \in Attempts : k > attempt[c] => wire[c][k] = "unsent"
  /\ Fresh(c) => wire[c][attempt[c]] = "unsent"
  /\ ~aborted[c] => \A k \in Attempts : k < attempt[c] => wire[c][k] # "unsent"
  /\ (~aborted[c] /\ ~Fresh(c) /\ pc[c] # "done") => wire[c][attempt[c]] # "unsent"
  /\ \A j, k \in Attempts :
       (j < k /\ wire[c][k] # "unsent") => wire[c][j] # "unsent"

(* The reply in hand answers the current attempt and tells its fate.         *)
ReplyInv(c) ==
  /\ Fresh(c) => reply[c] = 0
  /\ pc[c] \in {"onResponse", "drain", "body"} => reply[c] # 0
  /\ reply[c] # 0 => wire[c][attempt[c]] \in {"executed", "refused"}
  /\ reply[c] \in Unprocessed => wire[c][attempt[c]] = "refused"
  /\ IsOk(reply[c]) => wire[c][attempt[c]] = "executed"

(* A call that is not idempotent goes on only from a request turned down.    *)
RepeatInv(c) ==
  opts[c].method \notin IDEMPOTENT =>
    /\ \A k \in Attempts : k < attempt[c] => wire[c][k] = "refused"
    /\ Retrying(c) => wire[c][attempt[c]] = "refused"

(* A settled call, and what it settled on.                                   *)
OutcomeInv(c) ==
  /\ outcome[c] # "none" <=> pc[c] = "done"
  /\ timer[c] # "off" => pc[c] = "fetch"
  /\ outcome[c] \in {"ok", "invalid", "broken", "api"} =>
       wire[c][attempt[c]] \in {"executed", "refused"}
  /\ outcome[c] = "ok" => wire[c][attempt[c]] = "executed"

CallInv(c) == /\ BudgetInv(c) /\ WireInv(c) /\ ReplyInv(c)
              /\ RepeatInv(c) /\ OutcomeInv(c)

IInv == TypeOK /\ \A c \in Calls : CallInv(c)
-----------------------------------------------------------------------------
(* Initially every call is fresh. *)
LEMMA InitIInv == Init => IInv
<1>. SUFFICES ASSUME Init PROVE IInv
  OBVIOUS
<1>1. TypeOK
  BY ConstantsAssumption DEF Init, TypeOK, Attempts, CallOptions, Outcomes
<1>2. ASSUME NEW c \in Calls PROVE CallInv(c)
  <2>. opts[c] \in CallOptions
    BY ConstantsAssumption DEF Init
  <2>1. BudgetInv(c)
    BY ConstantsAssumption DEF Init, BudgetInv, Retrying, CallOptions
  <2>2. WireInv(c)
    BY ConstantsAssumption DEF Init, WireInv, Fresh, Attempts
  <2>3. ReplyInv(c) /\ RepeatInv(c) /\ OutcomeInv(c)
    BY ConstantsAssumption
    DEF Init, ReplyInv, RepeatInv, OutcomeInv, Fresh, Retrying, Attempts,
        Unprocessed, IsOk
  <2>. QED
    BY <2>1, <2>2, <2>3 DEF CallInv
<1>. QED
  BY <1>1, <1>2 DEF IInv
-----------------------------------------------------------------------------
(* A step of one call *)

(* A call whose variables do not change keeps its invariant. *)
Still(c) ==
  /\ opts'[c] = opts[c] /\ pc'[c] = pc[c] /\ attempt'[c] = attempt[c]
  /\ timer'[c] = timer[c] /\ aborted'[c] = aborted[c] /\ wire'[c] = wire[c]
  /\ reply'[c] = reply[c] /\ outcome'[c] = outcome[c]

(* A call that stands still keeps its invariant. *)
LEMMA StillKeeps ==
  ASSUME NEW c \in Calls, CallInv(c), Still(c)
  PROVE  CallInv(c)'
BY DEF CallInv, Still, BudgetInv, WireInv, ReplyInv, RepeatInv, OutcomeInv,
       Retries, Retrying, Fresh, Attempts, IsOk

Step(c) == \/ Client(c) \/ TimerFires(c) \/ Abort(c)
           \/ \E k \in Attempts : Server(c, k)

(* A step of one call leaves every other call where it is. *)
LEMMA OthersStill ==
  ASSUME TypeOK, NEW c \in Calls, NEW d \in Calls, d # c, Step(c)
  PROVE  Still(d)
BY DEF TypeOK, Step, Still, Client, Server, Prepare, Send, ReceiveHeaders,
       FetchRejects, DecideOnReply, EnterBackoff, Drain, Wake, BodyArrives,
       BodyFails, TimerFires, Abort, Execute, Refuse, Lose, Answer, Goto, Settle

(* TypeOK, one action at a time: only Wake needs the retry budget. *)
LEMMA StepTypeOK ==
  ASSUME IInv, NEW c \in Calls, Step(c)
  PROVE  TypeOK'
<1>. TypeOK /\ CallInv(c)
  BY DEF IInv
<1>. USE DEF Goto, Settle, Outcomes
<1>1. CASE Prepare(c)
  BY <1>1 DEF TypeOK, Prepare
<1>2. CASE Send(c)
  BY <1>2 DEF TypeOK, Send
<1>3. CASE ReceiveHeaders(c)
  BY <1>3 DEF TypeOK, ReceiveHeaders
<1>4. CASE FetchRejects(c)
  BY <1>4 DEF TypeOK, FetchRejects, DispatchError
<1>5. CASE DecideOnReply(c)
  BY <1>5 DEF TypeOK, DecideOnReply
<1>6. CASE EnterBackoff(c)
  BY <1>6 DEF TypeOK, EnterBackoff
<1>7. CASE Drain(c)
  BY <1>7 DEF TypeOK, Drain
<1>8. CASE Wake(c)
  <2>1. attempt[c] + 1 \in Attempts
    BY <1>8, ConstantsAssumption
    DEF Wake, TypeOK, CallInv, BudgetInv, Retrying, Attempts, CallOptions
  <2>. QED
    BY <1>8, <2>1 DEF TypeOK, Wake
<1>9. CASE BodyArrives(c)
  BY <1>9 DEF TypeOK, BodyArrives
<1>10. CASE BodyFails(c)
  BY <1>10 DEF TypeOK, BodyFails
<1>11. CASE TimerFires(c)
  BY <1>11 DEF TypeOK, TimerFires
<1>12. CASE Abort(c)
  BY <1>12 DEF TypeOK, Abort
<1>13. ASSUME NEW k \in Attempts, Server(c, k) PROVE TypeOK'
  <2>1. wire' \in [Calls -> [Attempts ->
                   {"unsent", "transit", "executed", "refused", "lost"}]]
    <3>1. PICK fate \in {"executed", "refused", "lost"} :
             wire' = [wire EXCEPT ![c][k] = fate]
      BY <1>13 DEF Server, Execute, Refuse, Lose
    <3>. QED
      BY <3>1 DEF TypeOK
  <2>2. reply' \in [Calls -> Statuses \cup {0}]
    <3>1. CASE Execute(c, k)
      BY <3>1 DEF TypeOK, Execute, Answer
    <3>2. CASE Refuse(c, k)
      BY <3>2 DEF TypeOK, Refuse, Answer
    <3>3. CASE Lose(c, k)
      BY <3>3 DEF TypeOK, Lose
    <3>. QED
      BY <1>13, <3>1, <3>2, <3>3 DEF Server
  <2>3. UNCHANGED <<opts, pc, attempt, timer, aborted, outcome>>
    BY <1>13 DEF Server, Execute, Refuse, Lose
  <2>. QED
    BY <2>1, <2>2, <2>3 DEF TypeOK
<1>. QED
  BY <1>1, <1>2, <1>3, <1>4, <1>5, <1>6, <1>7, <1>8, <1>9, <1>10, <1>11,
     <1>12, <1>13 DEF Step, Client

(* What TypeOK says of one call, in the form the provers use best. *)
LEMMA CallTypes ==
  ASSUME TypeOK, NEW c \in Calls
  PROVE  /\ opts[c] \in CallOptions
         /\ attempt[c] \in Int /\ 0 <= attempt[c] /\ attempt[c] <= MaxRetries
         /\ opts[c].maxRetries \in Int /\ opts[c].maxRetries <= MaxRetries
         /\ 0 \notin Statuses /\ reply[c] \in Int
<1>1. opts[c] \in CallOptions
  BY ConstantsAssumption DEF TypeOK
<1>2. attempt[c] \in Int /\ 0 <= attempt[c] /\ attempt[c] <= MaxRetries
  <2>1. attempt[c] \in Attempts
    BY DEF TypeOK
  <2>. QED
    BY <2>1, ConstantsAssumption DEF Attempts
<1>3. opts[c].maxRetries \in Int /\ opts[c].maxRetries <= MaxRetries
  <2>1. opts[c].maxRetries \in 0 .. MaxRetries
    BY <1>1 DEF CallOptions
  <2>. QED
    BY <2>1, ConstantsAssumption
<1>4. 0 \notin Statuses
  BY ConstantsAssumption
<1>5. reply[c] \in Int
  <2>1. reply[c] \in Statuses \cup {0}
    BY DEF TypeOK
  <2>2. \A s \in Statuses : s \in 200 .. 599
    BY ConstantsAssumption
  <2>. QED
    BY <2>1, <2>2
<1>. QED
  BY <1>1, <1>2, <1>3, <1>4, <1>5

(* Preparing the request touches nothing but pc and outcome. *)
LEMMA PrepareKeeps ==
  ASSUME IInv, NEW c \in Calls, Prepare(c)
  PROVE  CallInv(c)'
<1>. TypeOK /\ CallInv(c)
  BY DEF IInv
<1>. QED
  BY CallTypes, ConstantsAssumption
  DEF Prepare, Goto, Settle, TypeOK, CallInv, BudgetInv, WireInv, ReplyInv, RepeatInv,
      OutcomeInv, Retries, Retrying, Fresh, IsOk, Attempts

(* A transmission opens the next slot of the wire, the earlier ones being
   closed: BudgetInv and RepeatInv say which. *)
LEMMA SendKeeps ==
  ASSUME IInv, NEW c \in Calls, Send(c)
  PROVE  CallInv(c)'
<1>. TypeOK /\ CallInv(c)
  BY DEF IInv
<1>. QED
  BY CallTypes, ConstantsAssumption
  DEF Send, Goto, Settle, TypeOK, CallInv, BudgetInv, WireInv, ReplyInv, RepeatInv,
      OutcomeInv, Retries, Retrying, Fresh, IsOk, Attempts

(* The headers of a reply disarm the timer only. *)
LEMMA ReceiveHeadersKeeps ==
  ASSUME IInv, NEW c \in Calls, ReceiveHeaders(c)
  PROVE  CallInv(c)'
<1>. TypeOK /\ CallInv(c)
  BY DEF IInv
<1>. QED
  BY CallTypes, ConstantsAssumption
  DEF ReceiveHeaders, Goto, Settle, TypeOK, CallInv, BudgetInv, WireInv, ReplyInv, RepeatInv,
      OutcomeInv, Retries, Retrying, Fresh, IsOk, Attempts

(* A rejected fetch settles the call, or leaves room for one more attempt. *)
LEMMA FetchRejectsKeeps ==
  ASSUME IInv, NEW c \in Calls, FetchRejects(c)
  PROVE  CallInv(c)'
<1>. TypeOK /\ CallInv(c)
  BY DEF IInv
<1>1. /\ pc[c] = "fetch" /\ attempt' = attempt /\ aborted' = aborted
      /\ wire' = wire /\ opts' = opts
      /\ reply'[c] = 0 /\ timer'[c] = "off"
  BY DEF FetchRejects, TypeOK
<1>2. \/ /\ pc'[c] = "onRetry" /\ outcome'[c] = outcome[c]
         /\ BudgetLeft(c) /\ opts[c].method \in IDEMPOTENT
      \/ /\ pc'[c] = "done" /\ ~Retrying(c)'
         /\ outcome'[c] \in {"aborted", "timeout", "connection"}
  BY DEF FetchRejects, RetriesError, DispatchError, Goto, Settle, Retrying, TypeOK
<1>3. outcome[c] = "none"
  BY <1>1 DEF CallInv, OutcomeInv
<1>4. BudgetInv(c)'
  BY <1>1, <1>2 DEF CallInv, BudgetInv, BudgetLeft, Retries, Retrying
<1>5. WireInv(c)'
  BY <1>1, <1>2 DEF CallInv, WireInv, Fresh, Attempts
<1>6. ReplyInv(c)'
  BY <1>1, <1>2 DEF ReplyInv, Fresh, Unprocessed, IsOk
<1>7. RepeatInv(c)'
  BY <1>1, <1>2 DEF CallInv, RepeatInv, Attempts
<1>8. OutcomeInv(c)'
  BY <1>1, <1>2, <1>3 DEF OutcomeInv
<1>. QED
  BY <1>4, <1>5, <1>6, <1>7, <1>8 DEF CallInv

(* A reply to be retried leaves room for one more attempt, and for a call
   that is not idempotent says that the server turned the request down. *)
LEMMA DecideOnReplyKeeps ==
  ASSUME IInv, NEW c \in Calls, DecideOnReply(c)
  PROVE  CallInv(c)'
<1>. TypeOK /\ CallInv(c)
  BY DEF IInv
<1>1. pc[c] = "onResponse" /\ UNCHANGED <<opts, attempt, timer, aborted, wire, reply, outcome>>
  BY DEF DecideOnReply
<1>2. reply[c] # 0 /\ timer[c] = "off" /\ outcome[c] = "none"
  BY <1>1 DEF CallInv, ReplyInv, OutcomeInv
<1>3. \/ pc'[c] = "onRetry" /\ RetriesReply(c)
      \/ pc'[c] = "body"
  BY DEF DecideOnReply, Goto, TypeOK
<1>4. BudgetInv(c)'
  BY <1>1, <1>3
  DEF CallInv, BudgetInv, RetriesReply, BudgetLeft, Retries, Retrying
<1>5. WireInv(c)'
  BY <1>1, <1>3 DEF CallInv, WireInv, Fresh, Attempts
<1>6. ReplyInv(c)'
  BY <1>1, <1>2, <1>3 DEF CallInv, ReplyInv, Fresh
<1>7. RepeatInv(c)'
  <2>1. ASSUME pc'[c] = "onRetry", opts[c].method \notin IDEMPOTENT
        PROVE  wire[c][attempt[c]] = "refused"
    <3>1. reply[c] \in Unprocessed
      BY <1>3, <2>1 DEF RetriesReply, isRetryableStatus
    <3>. QED
      BY <3>1 DEF CallInv, ReplyInv
  <2>. QED
    BY <1>1, <1>3, <2>1 DEF CallInv, RepeatInv, Retrying, Attempts
<1>8. OutcomeInv(c)'
  BY <1>1, <1>2, <1>3 DEF OutcomeInv
<1>. QED
  BY <1>4, <1>5, <1>6, <1>7, <1>8 DEF CallInv

(* The onRetry hook decides nothing. *)
LEMMA EnterBackoffKeeps ==
  ASSUME IInv, NEW c \in Calls, EnterBackoff(c)
  PROVE  CallInv(c)'
<1>. TypeOK /\ CallInv(c)
  BY DEF IInv
<1>. QED
  BY CallTypes, ConstantsAssumption
  DEF EnterBackoff, Goto, Settle, TypeOK, CallInv, BudgetInv, WireInv, ReplyInv, RepeatInv,
      OutcomeInv, Retries, Retrying, Fresh, IsOk, Attempts

(* Draining the reply decides nothing. *)
LEMMA DrainKeeps ==
  ASSUME IInv, NEW c \in Calls, Drain(c)
  PROVE  CallInv(c)'
<1>. TypeOK /\ CallInv(c)
  BY DEF IInv
<1>. QED
  BY CallTypes, ConstantsAssumption
  DEF Drain, Goto, Settle, TypeOK, CallInv, BudgetInv, WireInv, ReplyInv, RepeatInv,
      OutcomeInv, Retries, Retrying, Fresh, IsOk, Attempts

(* The next attempt begins without a reply, on a wire not used yet. *)
LEMMA WakeKeeps ==
  ASSUME IInv, NEW c \in Calls, Wake(c)
  PROVE  CallInv(c)'
<1>. TypeOK /\ CallInv(c)
  BY DEF IInv
<1>1. /\ pc[c] = "backoff" /\ pc'[c] = "onRequest"
      /\ attempt'[c] = attempt[c] + 1 /\ reply'[c] = 0
      /\ UNCHANGED <<opts, timer, aborted, wire, outcome>>
  BY DEF Wake, Goto, TypeOK
<1>2. Retries(c) /\ attempt[c] < opts[c].maxRetries
  BY <1>1 DEF CallInv, BudgetInv, Retrying
<1>3. attempt[c] + 1 \in Attempts
  BY <1>2, CallTypes, ConstantsAssumption DEF Attempts
<1>4. BudgetInv(c)'
  BY <1>1, <1>2, CallTypes DEF BudgetInv, Retries, Retrying
<1>5. WireInv(c)'
  <2>1. \A k \in Attempts : k > attempt[c] + 1 => wire[c][k] = "unsent"
    BY CallTypes DEF CallInv, WireInv, Attempts
  <2>2. wire[c][attempt[c] + 1] = "unsent"
    BY <1>3, CallTypes DEF CallInv, WireInv
  <2>3. ~aborted[c] => \A k \in Attempts : k < attempt[c] + 1 => wire[c][k] # "unsent"
    BY <1>1, CallTypes DEF CallInv, WireInv, Fresh, Attempts
  <2>4. \A j, k \in Attempts :
          (j < k /\ wire[c][k] # "unsent") => wire[c][j] # "unsent"
    BY DEF CallInv, WireInv
  <2>. QED
    BY <1>1, <2>1, <2>2, <2>3, <2>4 DEF WireInv, Fresh
<1>6. ReplyInv(c)'
  BY <1>1 DEF ReplyInv, Fresh, Unprocessed, IsOk
<1>7. RepeatInv(c)'
  <2>1. opts[c].method \notin IDEMPOTENT =>
          \A k \in Attempts : k < attempt[c] + 1 => wire[c][k] = "refused"
    BY <1>1, CallTypes DEF CallInv, RepeatInv, Retrying, Attempts
  <2>. QED
    BY <1>1, <2>1 DEF RepeatInv, Retrying
<1>8. OutcomeInv(c)'
  BY <1>1 DEF CallInv, OutcomeInv
<1>. QED
  BY <1>4, <1>5, <1>6, <1>7, <1>8 DEF CallInv

(* A body that arrives settles the call on the answer to its last attempt. *)
LEMMA BodyArrivesKeeps ==
  ASSUME IInv, NEW c \in Calls, BodyArrives(c)
  PROVE  CallInv(c)'
<1>. TypeOK /\ CallInv(c)
  BY DEF IInv
<1>. QED
  BY CallTypes, ConstantsAssumption
  DEF BodyArrives, Goto, Settle, TypeOK, CallInv, BudgetInv, WireInv, ReplyInv, RepeatInv,
      OutcomeInv, Retries, Retrying, Fresh, IsOk, Attempts

(* A body that breaks off settles it on that answer as well. *)
LEMMA BodyFailsKeeps ==
  ASSUME IInv, NEW c \in Calls, BodyFails(c)
  PROVE  CallInv(c)'
<1>. TypeOK /\ CallInv(c)
  BY DEF IInv
<1>. QED
  BY CallTypes, ConstantsAssumption
  DEF BodyFails, Goto, Settle, TypeOK, CallInv, BudgetInv, WireInv, ReplyInv, RepeatInv,
      OutcomeInv, Retries, Retrying, Fresh, IsOk, Attempts

(* The timeout moves the timer only. *)
LEMMA TimerFiresKeeps ==
  ASSUME IInv, NEW c \in Calls, TimerFires(c)
  PROVE  CallInv(c)'
<1>. TypeOK /\ CallInv(c)
  BY DEF IInv
<1>. QED
  BY CallTypes, ConstantsAssumption
  DEF TimerFires, Goto, Settle, TypeOK, CallInv, BudgetInv, WireInv, ReplyInv, RepeatInv,
      OutcomeInv, Retries, Retrying, Fresh, IsOk, Attempts

(* The abort moves the signal only. *)
LEMMA AbortKeeps ==
  ASSUME IInv, NEW c \in Calls, Abort(c)
  PROVE  CallInv(c)'
<1>. TypeOK /\ CallInv(c)
  BY DEF IInv
<1>. QED
  BY CallTypes, ConstantsAssumption
  DEF Abort, Goto, Settle, TypeOK, CallInv, BudgetInv, WireInv, ReplyInv, RepeatInv,
      OutcomeInv, Retries, Retrying, Fresh, IsOk, Attempts

(* The server settles the fate of a request under way. *)
LEMMA ServerKeeps ==
  ASSUME IInv, NEW c \in Calls, NEW k \in Attempts, Server(c, k)
  PROVE  CallInv(c)'
<1>. TypeOK /\ CallInv(c)
  BY DEF IInv
<1>1. PICK fate \in {"executed", "refused", "lost"} :
        /\ wire[c][k] = "transit"
        /\ wire'[c] = [wire[c] EXCEPT ![k] = fate]
        /\ \/ reply'[c] = reply[c]
           \/ /\ attempt[c] = k /\ pc[c] = "fetch" /\ reply'[c] \in Statuses
              /\ \/ fate = "executed" /\ (IsOk(reply'[c]) \/ reply'[c] \in Ambiguous)
                 \/ fate = "refused" /\ ~IsOk(reply'[c])
        /\ UNCHANGED <<opts, pc, attempt, timer, aborted, outcome>>
  <2>1. CASE Execute(c, k)
    BY <2>1 DEF Execute, Answer, TypeOK
  <2>2. CASE Refuse(c, k)
    BY <2>2 DEF Refuse, Answer, TypeOK
  <2>3. CASE Lose(c, k)
    BY <2>3 DEF Lose, TypeOK
  <2>. QED
    BY <2>1, <2>2, <2>3 DEF Server
<1>2. /\ wire'[c][k] = fate
      /\ \A j \in Attempts : j # k => wire'[c][j] = wire[c][j]
  BY <1>1 DEF TypeOK
<1>3. attempt[c] \in Attempts
  BY DEF TypeOK
<1>4. BudgetInv(c)'
  BY <1>1 DEF CallInv, BudgetInv, Retries, Retrying
<1>5. WireInv(c)'
  <2>1. \A j \in Attempts : wire'[c][j] = "unsent" <=> wire[c][j] = "unsent"
    BY <1>1, <1>2
  <2>. QED
    BY <1>1, <1>3, <2>1 DEF CallInv, WireInv, Fresh
<1>6. ReplyInv(c)'
  <2>1. CASE reply'[c] = reply[c]
    <3>1. wire[c][attempt[c]] \in {"executed", "refused"} =>
            wire'[c][attempt[c]] = wire[c][attempt[c]]
      BY <1>1, <1>2, <1>3
    <3>2. IsOk(reply[c]) => reply[c] # 0
      BY DEF IsOk
    <3>3. reply[c] \in Unprocessed => reply[c] # 0
      BY DEF Unprocessed
    <3>. QED
      BY <1>1, <2>1, <3>1, <3>2, <3>3 DEF CallInv, ReplyInv, Fresh, IsOk
  <2>2. CASE reply'[c] # reply[c]
    <3>1. attempt[c] = k /\ pc[c] = "fetch" /\ fate \in {"executed", "refused"}
      BY <1>1, <2>2
    <3>2. IsOk(reply'[c]) => fate = "executed"
      BY <1>1, <2>2
    <3>3. reply'[c] \in Unprocessed => fate = "refused"
      BY <1>1, <2>2 DEF Unprocessed, Ambiguous, IsOk
    <3>. QED
      BY <1>1, <1>2, <3>1, <3>2, <3>3 DEF ReplyInv, Fresh, IsOk
  <2>. QED
    BY <2>1, <2>2
<1>7. RepeatInv(c)'
  <2>1. \A j \in Attempts : wire[c][j] = "refused" => wire'[c][j] = "refused"
    BY <1>1, <1>2
  <2>. QED
    BY <1>1, <1>3, <2>1 DEF CallInv, RepeatInv, Retrying
<1>8. OutcomeInv(c)'
  <2>1. \A j \in Attempts : wire[c][j] \in {"executed", "refused"} =>
          wire'[c][j] = wire[c][j]
    BY <1>1, <1>2
  <2>. QED
    BY <1>1, <1>3, <2>1 DEF CallInv, OutcomeInv
<1>. QED
  BY <1>4, <1>5, <1>6, <1>7, <1>8 DEF CallInv

-----------------------------------------------------------------------------
(* The invariant and what follows from it *)

(* A step of one call preserves the invariant of all. *)
LEMMA StepIInv ==
  ASSUME IInv, NEW c \in Calls, Step(c)
  PROVE  IInv'
<1>1. TypeOK'
  BY StepTypeOK
<1>2. CallInv(c)'
  BY PrepareKeeps, SendKeeps, ReceiveHeadersKeeps, FetchRejectsKeeps,
     DecideOnReplyKeeps, EnterBackoffKeeps, DrainKeeps, WakeKeeps,
     BodyArrivesKeeps, BodyFailsKeeps, TimerFiresKeeps, AbortKeeps, ServerKeeps
  DEF Step, Client
<1>3. ASSUME NEW d \in Calls, d # c PROVE CallInv(d)'
  <2>1. TypeOK /\ CallInv(d)
    BY DEF IInv
  <2>. QED
    BY <1>3, <2>1, OthersStill, StillKeeps
<1>. QED
  BY <1>1, <1>2, <1>3 DEF IInv

(* The invariant is inductive. *)
LEMMA NextIInv == IInv /\ [Next]_vars => IInv'
<1>. SUFFICES ASSUME IInv, [Next]_vars PROVE IInv'
  OBVIOUS
<1>1. CASE Next
  BY <1>1, StepIInv DEF Next, Step
<1>2. CASE UNCHANGED vars
  <2>1. TypeOK'
    BY <1>2 DEF IInv, TypeOK, vars
  <2>2. ASSUME NEW c \in Calls PROVE CallInv(c)'
    BY <1>2, StillKeeps DEF IInv, Still, vars
  <2>. QED
    BY <2>1, <2>2 DEF IInv
<1>. QED
  BY <1>1, <1>2

(* Every reachable state satisfies the inductive invariant. *)
THEOREM Invariance == Spec => []IInv
BY InitIInv, NextIInv, PTL DEF Spec

(* Every variable stays in its range, for every set of calls and options:    *)
(* attempt never leaves 0 .. MaxRetries.                                     *)
THEOREM TypeCorrect == Spec => []TypeOK
<1>1. IInv => TypeOK
  BY DEF IInv
<1>. QED
  BY <1>1, Invariance, PTL

(* The server acts at most once on a POST or a PATCH.                        *)
THEOREM AtMostOnceCorrect == Spec => []AtMostOnce
<1>1. IInv => AtMostOnce
  <2>. SUFFICES ASSUME IInv, NEW c \in Calls, opts[c].method \notin IDEMPOTENT,
                       NEW j \in Executed(c)
                PROVE  j = attempt[c]
    BY DEF AtMostOnce
  <2>1. j \in Attempts /\ wire[c][j] = "executed"
    BY DEF Executed
  <2>2. ~(j < attempt[c]) /\ ~(j > attempt[c])
    BY <2>1 DEF IInv, CallInv, RepeatInv, WireInv
  <2>. QED
    BY <2>1, <2>2, CallTypes DEF IInv, Attempts
<1>. QED
  BY <1>1, Invariance, PTL

(* What shows when it is executed twice is sent by POST: the wrappers of the  *)
(* SDK have chosen their methods right.                                      *)
LEMMA AdditionsPosted == \A op \in Operations : op.effect = "add" => op.method = "POST"
<1>. DEFINE Posted(class) ==
       \A name \in DOMAIN class : class[name].effect = "add" => class[name].method = "POST"
<1>. USE DEF Op, Get, Put, Remove, Add, Set, Patch, Stream
<1>1. Posted(ServiceOperations) /\ Posted(SandboxesOperations)
  BY DEF ServiceOperations, SandboxesOperations
<1>2. Posted(TemplatesApi) /\ Posted(NetworksApi)
  BY DEF TemplatesApi, NetworksApi
<1>3. Posted(DisksApi) /\ Posted(SnapshotsApi)
  BY DEF DisksApi, SnapshotsApi
<1>4. Posted(SandboxCheckpoints) /\ Posted(SandboxFiles) /\ Posted(SandboxProcesses)
  BY DEF SandboxCheckpoints, SandboxFiles, SandboxProcesses
<1>5. Posted(SandboxComputerMouse) /\ Posted(SandboxComputerKeyboard)
  BY DEF SandboxComputerMouse, SandboxComputerKeyboard
<1>6. Posted(SandboxComputerWindows) /\ Posted(SandboxComputerScreens)
      /\ Posted(SandboxComputer)
  BY DEF SandboxComputerWindows, SandboxComputerScreens, SandboxComputer
<1>7. Posted(AccessTokenOperations) /\ Posted(CommandOperations)
      /\ Posted(LifecycleOperations)
  BY DEF AccessTokenOperations, CommandOperations, LifecycleOperations
<1>8. Posted(ConfigurationOperations) /\ Posted(BandwidthOperations)
      /\ Posted(AttachmentOperations)
  BY DEF ConfigurationOperations, BandwidthOperations, AttachmentOperations
<1>9. \A class \in Classes : Posted(class)
  <2>. HIDE DEF Posted, Op, Get, Put, Remove, Add, Set, Patch, Stream
  <2>. QED
    BY <1>1, <1>2, <1>3, <1>4, <1>5, <1>6, <1>7, <1>8 DEF Classes
<1>. QED
  BY <1>9 DEF Operations

(* No operation whose second execution would show is executed twice.         *)
THEOREM RepeatHarmlessCorrect == Spec => []RepeatHarmless
<1>1. AtMostOnce => RepeatHarmless
  <2>. SUFFICES ASSUME AtMostOnce, NEW c \in Calls, opts[c] \in Additions
                PROVE  \A j, k \in Executed(c) : j = k
    BY DEF RepeatHarmless
  <2>1. opts[c].method = "POST"
    BY AdditionsPosted DEF Additions, OptionsOf
  <2>. QED
    BY <2>1 DEF AtMostOnce, IDEMPOTENT
<1>. QED
  BY <1>1, AtMostOnceCorrect, PTL

(* What cannot be repeated is sent at most once.                             *)
THEOREM UnrepeatableSentOnceCorrect == Spec => []UnrepeatableSentOnce
<1>1. IInv => UnrepeatableSentOnce
  <2>. SUFFICES ASSUME IInv, NEW c \in Calls, ~Retries(c), NEW j \in Sent(c)
                PROVE  j = 0
    BY DEF UnrepeatableSentOnce, Retries
  <2>1. j \in Attempts /\ wire[c][j] # "unsent"
    BY DEF Sent
  <2>2. attempt[c] = 0 /\ ~(j > attempt[c])
    BY <2>1 DEF IInv, CallInv, BudgetInv, WireInv
  <2>. QED
    BY <2>1, <2>2 DEF Attempts
<1>. QED
  BY <1>1, Invariance, PTL

(* No call transmits more than maxRetries + 1 times, and none skips an       *)
(* attempt.                                                                  *)
THEOREM BudgetKeptCorrect == Spec => []BudgetKept
<1>1. IInv => BudgetKept
  <2>. SUFFICES ASSUME IInv, NEW c \in Calls, NEW k \in Sent(c)
                PROVE  /\ k <= opts[c].maxRetries /\ k <= attempt[c]
                       /\ \A j \in 0 .. k : j \in Sent(c)
    BY DEF BudgetKept
  <2>1. k \in Attempts /\ wire[c][k] # "unsent"
    BY DEF Sent
  <2>2. TypeOK /\ CallInv(c)
    BY DEF IInv
  <2>3. k <= attempt[c]
    BY <2>1, <2>2, CallTypes DEF CallInv, WireInv, Attempts
  <2>4. k <= opts[c].maxRetries
    BY <2>1, <2>2, <2>3, CallTypes DEF CallInv, BudgetInv, Attempts
  <2>5. ASSUME NEW j \in 0 .. k PROVE j \in Sent(c)
    <3>1. j \in Attempts
      BY <2>1, ConstantsAssumption DEF Attempts
    <3>. QED
      BY <2>1, <2>2, <3>1 DEF CallInv, WireInv, Sent, Attempts
  <2>. QED
    BY <2>3, <2>4, <2>5
<1>. QED
  BY <1>1, Invariance, PTL

(* A call settles on the answer to its last transmission.                    *)
THEOREM AnswerToLastAttemptCorrect == Spec => []AnswerToLastAttempt
<1>1. IInv => AnswerToLastAttempt
  BY DEF IInv, CallInv, OutcomeInv, AnswerToLastAttempt
<1>. QED
  BY <1>1, Invariance, PTL

-----------------------------------------------------------------------------
(* Steps *)

(* A step of the specification is a step of one call, the others standing     *)
(* still.                                                                    *)
LEMMA OneCallSteps ==
  ASSUME IInv, [Next]_vars, NEW d \in Calls
  PROVE  Step(d) \/ Still(d)
<1>1. CASE Next
  <2>1. PICK c \in Calls : Step(c)
    BY <1>1 DEF Next, Step
  <2>. QED
    BY <2>1, OthersStill DEF IInv
<1>2. CASE UNCHANGED vars
  BY <1>2 DEF Still, vars
<1>. QED
  BY <1>1, <1>2

(* Once the caller has aborted, the call transmits nothing more.             *)
THEOREM NoSendAfterAbortCorrect == Spec => NoSendAfterAbort
<1>1. ASSUME IInv, [Next]_vars, NEW c \in Calls, aborted[c], NEW k \in Attempts
      PROVE  wire'[c][k] # "unsent" <=> wire[c][k] # "unsent"
  <2>1. CASE Still(c)
    BY <2>1 DEF Still
  <2>2. CASE Client(c) \/ TimerFires(c) \/ Abort(c)
    <3>1. wire' = wire
      BY <1>1, <2>2
      DEF Client, Prepare, Send, ReceiveHeaders, FetchRejects, DecideOnReply,
          EnterBackoff, Drain, Wake, BodyArrives, BodyFails, TimerFires, Abort
    <3>. QED
      BY <3>1
  <2>3. ASSUME NEW j \in Attempts, Server(c, j)
        PROVE  wire'[c][k] # "unsent" <=> wire[c][k] # "unsent"
    <3>1. PICK fate \in {"executed", "refused", "lost"} :
            wire[c][j] = "transit" /\ wire' = [wire EXCEPT ![c][j] = fate]
      BY <2>3 DEF Server, Execute, Refuse, Lose
    <3>. QED
      BY <1>1, <3>1 DEF IInv, TypeOK
  <2>. QED
    BY <1>1, <2>1, <2>2, <2>3, OneCallSteps DEF Step
<1>2. IInv /\ [Next]_vars =>
        [\A c \in Calls : aborted[c] =>
           {k \in Attempts : wire'[c][k] # "unsent"} = Sent(c)]_vars
  BY <1>1 DEF Sent
<1>. QED
  BY <1>2, Invariance, PTL DEF Spec, NoSendAfterAbort

(* A timeout that elapsed ends the call.                                     *)
THEOREM TimeoutEndsCallCorrect == Spec => TimeoutEndsCall
<1>1. ASSUME IInv, [Next]_vars, NEW c \in Calls, timer[c] = "fired"
      PROVE  /\ attempt'[c] = attempt[c]
             /\ timer'[c] # "fired" =>
                  outcome'[c] = IF aborted[c] THEN "aborted" ELSE "timeout"
  <2>1. pc[c] = "fetch" /\ TypeOK
    BY <1>1 DEF IInv, CallInv, OutcomeInv
  <2>2. CASE Still(c)
    BY <1>1, <2>2 DEF Still
  <2>3. CASE FetchRejects(c)
    BY <1>1, <2>1, <2>3
    DEF FetchRejects, RetriesError, DispatchError, Settle, Goto, TypeOK
  <2>4. CASE ReceiveHeaders(c)
    BY <1>1, <2>4 DEF ReceiveHeaders, Signalled
  <2>5. CASE Client(c) /\ ~FetchRejects(c) /\ ~ReceiveHeaders(c)
    BY <2>1, <2>5
    DEF Client, Prepare, Send, DecideOnReply, EnterBackoff, Drain, Wake,
        BodyArrives, BodyFails
  <2>6. CASE TimerFires(c) \/ Abort(c) \/ \E k \in Attempts : Server(c, k)
    BY <1>1, <2>6 DEF TimerFires, Abort, Server, Execute, Refuse, Lose
  <2>. QED
    BY <1>1, <2>2, <2>3, <2>4, <2>5, <2>6, OneCallSteps DEF Step
<1>2. IInv /\ [Next]_vars =>
        [\A c \in Calls : timer[c] = "fired" =>
           /\ attempt'[c] = attempt[c]
           /\ timer'[c] # "fired" =>
                outcome'[c] = IF aborted[c] THEN "aborted" ELSE "timeout"]_vars
  BY <1>1
<1>. QED
  BY <1>2, Invariance, PTL DEF Spec, TimeoutEndsCall

(* Whatever fails after an abort surfaces as the abort.                      *)
THEOREM AbortSurfacesAsAbortCorrect == Spec => AbortSurfacesAsAbort
<1>1. ASSUME IInv, [Next]_vars, NEW c \in Calls, aborted[c], outcome[c] = "none"
      PROVE  outcome'[c] \notin {"timeout", "connection"}
  <2>. TypeOK
    BY <1>1 DEF IInv
  <2>1. CASE Still(c)
    BY <1>1, <2>1 DEF Still
  <2>2. CASE Client(c)
    BY <1>1, <2>2
    DEF Client, Prepare, Send, ReceiveHeaders, FetchRejects, DispatchError,
        DecideOnReply, EnterBackoff, Drain, Wake, BodyArrives, BodyFails, Goto,
        Settle, TypeOK
  <2>3. CASE TimerFires(c) \/ Abort(c) \/ \E k \in Attempts : Server(c, k)
    BY <1>1, <2>3 DEF TimerFires, Abort, Server, Execute, Refuse, Lose
  <2>. QED
    BY <1>1, <2>1, <2>2, <2>3, OneCallSteps DEF Step
<1>2. IInv /\ [Next]_vars =>
        [\A c \in Calls : (aborted[c] /\ outcome[c] = "none") =>
           outcome'[c] \notin {"timeout", "connection"}]_vars
  BY <1>1
<1>. QED
  BY <1>2, Invariance, PTL DEF Spec, AbortSurfacesAsAbort

-----------------------------------------------------------------------------
(* Refinement of RemoteCall *)

repeatableBar == [c \in Calls |-> opts[c].method \in IDEMPOTENT]
effectsBar == [c \in Calls |-> Executed(c)]

(* The steps that move neither an effect nor an outcome.                     *)
LEMMA QuietStutters ==
  ASSUME UNCHANGED <<opts, outcome>>,
         \A c \in Calls : Executed(c)' = Executed(c)
  PROVE  UNCHANGED Promise!vars
BY DEF Promise!vars, Executed

(* Settling maps to settling. *)
LEMMA SettleMaps ==
  ASSUME IInv, NEW c \in Calls, NEW r \in Outcomes,
         UNCHANGED <<opts, wire>>, outcome[c] = "none",
         outcome' = [outcome EXCEPT ![c] = r],
         r = "ok" => wire[c][attempt[c]] = "executed"
  PROVE  Promise!Settle(c, r)
<1>1. TypeOK /\ attempt[c] \in Attempts
  BY DEF IInv, TypeOK
<1>2. r = "ok" => [d \in Calls |-> Executed(d)][c] # {}
  BY <1>1 DEF Executed
<1>3. UNCHANGED <<repeatableBar, effectsBar>>
  BY DEF repeatableBar, effectsBar, Executed
<1>. QED
  BY <1>2, <1>3 DEF Promise!Settle, repeatableBar, effectsBar

(* Execution maps to an effect: a call that is not idempotent has none yet.  *)
LEMMA ExecuteMaps ==
  ASSUME IInv, NEW c \in Calls, NEW k \in Attempts, Execute(c, k)
  PROVE  Promise!Effect(c, k)
<1>1. TypeOK /\ CallInv(c)
  BY DEF IInv
<1>2. wire[c][k] = "transit" /\ wire' = [wire EXCEPT ![c][k] = "executed"]
      /\ UNCHANGED <<opts, outcome>>
  BY DEF Execute
<1>3. k \notin Executed(c)
  BY <1>2 DEF Executed
<1>4. opts[c].method \in IDEMPOTENT \/ Executed(c) = {}
  <2>. SUFFICES ASSUME opts[c].method \notin IDEMPOTENT, NEW j \in Executed(c)
                PROVE  FALSE
    OBVIOUS
  <2>1. j \in Attempts /\ wire[c][j] = "executed"
    BY DEF Executed
  <2>2. j = attempt[c]
    BY <1>1, <2>1, CallTypes DEF CallInv, RepeatInv, WireInv, Attempts
  <2>3. k = attempt[c]
    BY <1>1, <1>2, CallTypes DEF CallInv, RepeatInv, WireInv, Attempts
  <2>. QED
    BY <1>2, <2>1, <2>2, <2>3
<1>5. Executed(c)' = Executed(c) \cup {k}
  BY <1>1, <1>2 DEF Executed, TypeOK
<1>6. \A d \in Calls : d # c => Executed(d)' = Executed(d)
  BY <1>1, <1>2 DEF Executed, TypeOK
<1>7. effectsBar' = [effectsBar EXCEPT ![c] = @ \cup {k}]
  BY <1>5, <1>6 DEF effectsBar
<1>8. repeatableBar' = repeatableBar
  BY <1>2 DEF repeatableBar
<1>. QED
  BY <1>2, <1>3, <1>4, <1>7, <1>8
  DEF Promise!Effect, repeatableBar, effectsBar

(* A step of requestRaw settles the call, or leaves the promise alone. *)
LEMMA ClientMaps ==
  ASSUME IInv, NEW c \in Calls, Client(c)
  PROVE  Promise!Next \/ UNCHANGED Promise!vars
<1>. TypeOK /\ CallInv(c)
  BY DEF IInv
<1>1. UNCHANGED <<opts, wire>>
      \/ (Send(c) /\ UNCHANGED <<opts, outcome>>)
  BY DEF Client, Prepare, Send, ReceiveHeaders, FetchRejects, DecideOnReply,
         EnterBackoff, Drain, Wake, BodyArrives, BodyFails
<1>2. CASE Send(c)
  <2>1. /\ UNCHANGED <<opts, outcome>>
        /\ \/ wire' = wire
           \/ wire' = [wire EXCEPT ![c][attempt[c]] = "transit"]
    BY <1>2 DEF Send
  <2>2. wire[c][attempt[c]] = "unsent"
    BY <1>2 DEF Send, CallInv, WireInv, Fresh
  <2>3. \A d \in Calls : Executed(d)' = Executed(d)
    BY <2>1, <2>2 DEF Executed, TypeOK
  <2>. QED
    BY <2>1, <2>3, QuietStutters
<1>3. CASE UNCHANGED <<opts, wire, outcome>>
  <2>1. \A d \in Calls : Executed(d)' = Executed(d)
    BY <1>3 DEF Executed
  <2>. QED
    BY <1>3, <2>1, QuietStutters
<1>4. CASE UNCHANGED <<opts, wire>> /\ outcome' # outcome
  <2>1. PICK r \in Outcomes :
          /\ outcome' = [outcome EXCEPT ![c] = r]
          /\ pc[c] # "done"
          /\ r = "ok" => pc[c] = "body" /\ IsOk(reply[c])
    <3>1. CASE Prepare(c)
      BY <1>4, <3>1 DEF Prepare, Settle, Outcomes
    <3>2. CASE FetchRejects(c)
      BY <1>4, <3>2 DEF FetchRejects, DispatchError, Settle, Outcomes
    <3>3. CASE BodyArrives(c)
      BY <1>4, <3>3 DEF BodyArrives, Settle, Outcomes
    <3>4. CASE BodyFails(c)
      BY <1>4, <3>4 DEF BodyFails, Settle, Outcomes
    <3>. QED
      BY <1>4, <3>1, <3>2, <3>3, <3>4
      DEF Client, Send, ReceiveHeaders, DecideOnReply, EnterBackoff, Drain, Wake
  <2>2. outcome[c] = "none"
    BY <2>1 DEF CallInv, OutcomeInv
  <2>3. r = "ok" => wire[c][attempt[c]] = "executed"
    BY <2>1 DEF CallInv, ReplyInv
  <2>. QED
    BY <1>4, <2>1, <2>2, <2>3, SettleMaps DEF Promise!Next
<1>. QED
  BY <1>1, <1>2, <1>3, <1>4

(* A step of the server is an effect, or leaves the promise alone. *)
LEMMA ServerMaps ==
  ASSUME IInv, NEW c \in Calls, NEW k \in Attempts, Server(c, k)
  PROVE  Promise!Next \/ UNCHANGED Promise!vars
<1>1. CASE Execute(c, k)
  BY <1>1, ExecuteMaps DEF Promise!Next
<1>2. CASE Refuse(c, k) \/ Lose(c, k)
  <2>1. PICK fate \in {"refused", "lost"} :
          /\ wire[c][k] = "transit" /\ wire' = [wire EXCEPT ![c][k] = fate]
          /\ UNCHANGED <<opts, outcome>>
    BY <1>2 DEF Refuse, Lose
  <2>2. \A d \in Calls : Executed(d)' = Executed(d)
    BY <2>1 DEF IInv, TypeOK, Executed
  <2>. QED
    BY <2>1, <2>2, QuietStutters
<1>. QED
  BY <1>1, <1>2 DEF Server

(* Every step of the specification is a step of RemoteCall or a stutter. *)
LEMMA StepMaps ==
  IInv /\ [Next]_vars => [Promise!Next]_(Promise!vars)
<1>. SUFFICES ASSUME IInv, [Next]_vars
              PROVE  Promise!Next \/ UNCHANGED Promise!vars
  OBVIOUS
<1>1. ASSUME NEW c \in Calls, TimerFires(c) \/ Abort(c)
      PROVE  UNCHANGED Promise!vars
  <2>1. UNCHANGED <<opts, wire, outcome>>
    BY <1>1 DEF TimerFires, Abort
  <2>2. \A d \in Calls : Executed(d)' = Executed(d)
    BY <2>1 DEF Executed
  <2>. QED
    BY <2>1, <2>2, QuietStutters
<1>2. CASE UNCHANGED vars
  <2>1. \A d \in Calls : Executed(d)' = Executed(d)
    BY <1>2 DEF Executed, vars
  <2>. QED
    BY <1>2, <2>1, QuietStutters DEF vars
<1>. QED
  BY <1>1, <1>2, ClientMaps, ServerMaps DEF Next

(* Initial states map to initial states. *)
LEMMA InitMaps == Init => Promise!Init
BY DEF Init, Promise!Init, Executed

(* requestRaw keeps the promise of RemoteCall: for every number of calls,     *)
(* every budget and every set of options and statuses, each of its steps is  *)
(* a step of RemoteCall or leaves the promise alone.                         *)
THEOREM KeepsPromiseCorrect == Spec => KeepsPromise
BY InitMaps, StepMaps, Invariance, PTL DEF Spec, KeepsPromise, Promise!Spec
=============================================================================
