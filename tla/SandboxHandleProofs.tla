-------------------------- MODULE SandboxHandleProofs --------------------------
(***************************************************************************)
(* What is true of the cached view of a handle whatever calls are made on  *)
(* it, however many at once, and in whatever order their replies arrive.   *)
(***************************************************************************)
EXTENDS SandboxHandle, TLAPS

Replies == [view : Views, of : 0 .. MaxVersion]

(* A view that shows the sandbox gone is right about it; a failed sandbox may *)
(* have been destroyed since.                                                *)
Truthful(view) ==
  /\ view.status = "destroyed" => row.status = "destroyed"
  /\ view.status = "failed" => row.status \in Terminal

(* A call runs a method until it returns, and awaits a reply it can use.     *)
CallInv ==
  \A c \in Calls : /\ stage[c] # "idle" => method[c] \in Methods
                   /\ stage[c] = "reply" => reply[c] \in Replies

(* A disk grows by one with a change of the row.                             *)
GrowthInv == row.disk <= version

(* The terminal states are final on the control plane, so what any reply      *)
(* says of them stays true until it is applied.                              *)
TruthInv ==
  /\ Truthful(data)
  /\ \A c \in Calls : stage[c] = "reply" => Truthful(reply[c].view)

IInv == TypeOK /\ CallInv /\ GrowthInv /\ TruthInv /\ DiskAsAcked

-----------------------------------------------------------------------------
(* The control plane *)

(* What becomes of the row in one step.                                      *)
RowStep ==
  /\ row' \in Views /\ version' \in 0 .. MaxVersion
  /\ row'.disk <= version'
  /\ row.status = "destroyed" => row'.status = "destroyed"
  /\ row.status \in Terminal => row'.status \in Terminal

LEMMA ChangeTyped ==
  ASSUME TypeOK, NEW newRow \in Views, Change(newRow),
         newRow.disk <= version + 1,
         row.status \notin Terminal \/ newRow.status \in {row.status, "destroyed"}
  PROVE  RowStep
BY ConstantsAssumption DEF Change, RowStep, TypeOK, Terminal

LEMMA StatusStep ==
  ASSUME TypeOK, GrowthInv, NEW s \in Status,
         row.status \notin Terminal \/ s = "destroyed", Change([row EXCEPT !.status = s])
  PROVE  RowStep
<1>1. /\ [row EXCEPT !.status = s] \in Views
      /\ [row EXCEPT !.status = s].disk = row.disk
      /\ [row EXCEPT !.status = s].status = s
  BY DEF TypeOK, Views
<1>2. row.disk <= version + 1
  BY DEF TypeOK, Views, GrowthInv
<1>3. QED
  BY <1>1, <1>2, ChangeTyped

LEMMA ResizeStep ==
  ASSUME TypeOK, GrowthInv, row.status = "running", Change([row EXCEPT !.disk = @ + 1])
  PROVE  RowStep
<1>1. row.disk + 1 \in 0 .. MaxVersion
  BY ConstantsAssumption DEF TypeOK, Views, GrowthInv, Change
<1>2. /\ [row EXCEPT !.disk = @ + 1] \in Views
      /\ [row EXCEPT !.disk = @ + 1].disk <= version + 1
      /\ row.status \notin Terminal
  BY <1>1 DEF TypeOK, Views, GrowthInv, Terminal
<1>3. QED
  BY <1>2, ChangeTyped

LEMMA PatchStep ==
  ASSUME TypeOK, GrowthInv, NEW b \in BOOLEAN, Change([row EXCEPT !.ingress = b])
  PROVE  RowStep
<1>1. /\ [row EXCEPT !.ingress = b] \in Views
      /\ [row EXCEPT !.ingress = b].disk = row.disk
      /\ [row EXCEPT !.ingress = b].status = row.status
  BY DEF TypeOK, Views
<1>2. row.disk <= version + 1
  BY DEF TypeOK, Views, GrowthInv
<1>3. QED
  BY <1>1, <1>2, ChangeTyped

LEMMA StillRow ==
  ASSUME TypeOK, GrowthInv, UNCHANGED serverVars
  PROVE  RowStep
BY DEF RowStep, serverVars, TypeOK, GrowthInv

LEMMA EffectTyped ==
  ASSUME TypeOK, GrowthInv, NEW m, Effect(m)
  PROVE  RowStep
<1>1. CASE UNCHANGED serverVars
  BY <1>1, StillRow
<1>2. CASE \E s \in {"pausing", "resuming", "destroying", "destroyed"} :
             /\ row.status \notin Terminal \/ s = "destroyed"
             /\ Change([row EXCEPT !.status = s])
  BY <1>2, StatusStep DEF Status, Terminal
<1>3. CASE row.status = "running" /\ Change([row EXCEPT !.disk = @ + 1])
  BY <1>3, ResizeStep
<1>4. CASE \E b \in BOOLEAN : Change([row EXCEPT !.ingress = b])
  BY <1>4, PatchStep
<1>5. QED
  BY <1>1, <1>2, <1>3, <1>4 DEF Effect, Terminal

LEMMA ServerMovesTyped ==
  ASSUME TypeOK, GrowthInv, ServerMoves
  PROVE  RowStep
<1>1. PICK move \in Progress :
        row.status = move[1] /\ Change([row EXCEPT !.status = move[2]])
  BY DEF ServerMoves
<1>2. row.status \notin Terminal /\ move[2] \in Status
  BY <1>1 DEF Progress, Terminal, Status
<1>3. QED
  BY <1>1, <1>2, StatusStep

(* What was true of a view stays true of it.                                 *)
LEMMA TruthKept ==
  ASSUME RowStep, NEW view, Truthful(view)
  PROVE  /\ view.status = "destroyed" => row'.status = "destroyed"
         /\ view.status = "failed" => row'.status \in Terminal
BY DEF RowStep, Truthful

-----------------------------------------------------------------------------
(* Steps of the calls *)

(* The calls keep to their types, and no reply is one that was not there.     *)
CallStep ==
  /\ method' \in [Calls -> Methods \cup {None}]
  /\ stage' \in [Calls -> {"idle", "request", "reply", "judge"}]
  /\ reply' \in [Calls -> Replies \cup {None}]
  /\ quiet' \in [version : 0 .. MaxVersion, gone : BOOLEAN]
  /\ CallInv'
  /\ \A d \in Calls : stage'[d] = "reply" => stage[d] = "reply" /\ reply'[d] = reply[d]

LEMMA ReturnStep ==
  ASSUME TypeOK, CallInv, NEW c \in Calls, Return(c)
  PROVE  CallStep
BY ConstantsAssumption DEF CallStep, Return, TypeOK, CallInv, Replies

LEMMA GoOnStep ==
  ASSUME TypeOK, CallInv, NEW c \in Calls, NEW where \in {"request", "judge"},
         GoOn(c, where), stage[c] # "idle"
  PROVE  CallStep
BY DEF CallStep, GoOn, TypeOK, CallInv, Replies

LEMMA StillStep ==
  ASSUME TypeOK, CallInv, UNCHANGED <<callVars, quiet>>
  PROVE  CallStep
BY DEF CallStep, callVars, TypeOK, CallInv, Replies

LEMMA AbandonTyped ==
  ASSUME TypeOK, CallInv, NEW c \in Calls, stage[c] # "idle", Abandon(c)
  PROVE  stray' \subseteq Methods
BY DEF Abandon, TypeOK, CallInv

(* A step that does not write the view.                                      *)
LEMMA ViewKept ==
  ASSUME IInv, RowStep, CallStep, stray' \subseteq Methods, UNCHANGED <<viewVars, disk>>,
         ingress' \in {"on", "off", "unknown"}
  PROVE  IInv'
<1>1. TypeOK' /\ CallInv' /\ GrowthInv' /\ DiskAsAcked'
  BY DEF IInv, TypeOK, DiskAsAcked, RowStep, CallStep, GrowthInv, viewVars, Replies
<1>2. Truthful(data)'
  <2>1. Truthful(data)
    BY DEF IInv, TruthInv
  <2>2. QED
    BY <2>1, TruthKept DEF Truthful, viewVars
<1>3. ASSUME NEW d \in Calls, stage'[d] = "reply"
      PROVE  Truthful(reply[d].view)'
  <2>1. Truthful(reply[d].view) /\ reply'[d] = reply[d]
    BY <1>3 DEF CallStep, IInv, TruthInv
  <2>2. QED
    BY <2>1, TruthKept DEF Truthful
<1>4. QED
  BY <1>1, <1>2, <1>3 DEF IInv, TruthInv

LEMMA ServeKeeps ==
  ASSUME IInv, NEW c \in Calls, Serve(c)
  PROVE  IInv'
<1> USE DEF IInv
<1>1. RowStep
  BY EffectTyped DEF Serve
<1>2. /\ Answer(method[c]) \in Views
      /\ Answer(method[c]).status = row'.status
  BY <1>1 DEF RowStep, Answer, Views
<1>3. reply' = [reply EXCEPT ![c] = [view |-> Answer(method[c]), of |-> version']]
  BY DEF Serve
<1>4. reply' \in [Calls -> Replies \cup {None}] /\ reply'[c] \in Replies
  BY <1>1, <1>2, <1>3 DEF Replies, RowStep, TypeOK
<1>5. TypeOK' /\ CallInv' /\ GrowthInv' /\ DiskAsAcked'
  BY <1>1, <1>3, <1>4 DEF Serve, TypeOK, CallInv, DiskAsAcked, RowStep, GrowthInv,
                          viewVars, ackVars, Replies
<1>6. Truthful(data)'
  <2>1. Truthful(data)
    BY DEF TruthInv
  <2>2. QED
    BY <1>1, <2>1, TruthKept DEF Truthful, viewVars, Serve
<1>7. ASSUME NEW d \in Calls, stage'[d] = "reply"
      PROVE  Truthful(reply[d].view)'
  <2>1. CASE d = c
    BY <1>2, <1>3, <2>1 DEF Truthful, Terminal, TypeOK
  <2>2. CASE d # c
    <3>1. stage[d] = "reply" /\ reply'[d] = reply[d]
      BY <1>3, <1>7, <2>2 DEF Serve, TypeOK
    <3>2. Truthful(reply[d].view)
      BY <3>1 DEF TruthInv
    <3>3. QED
      BY <1>1, <3>1, <3>2, TruthKept DEF Truthful
  <2>3. QED
    BY <2>1, <2>2
<1>8. QED
  BY <1>5, <1>6, <1>7 DEF TruthInv

LEMMA ApplyKeeps ==
  ASSUME IInv, NEW c \in Calls, Apply(c)
  PROVE  IInv'
<1> USE DEF IInv
<1>1. /\ stage[c] = "reply" /\ reply[c] \in Replies /\ method[c] \in Methods
      /\ Truthful(reply[c].view) /\ Truthful(data)
  BY DEF Apply, CallInv, TruthInv
<1>2. CallStep
  <2>1. CASE Return(c)
    BY <2>1, ReturnStep
  <2>2. CASE GoOn(c, "judge")
    BY <1>1, <2>2, GoOnStep
  <2>3. QED
    BY <2>1, <2>2 DEF Apply
<1>3. RowStep
  BY StillRow DEF Apply
<1>4. /\ Merged(c) \in Views
      /\ Merged(c).status \in {data.status, reply[c].view.status}
      /\ Merged(c).disk = data.disk \/ Merged(c).disk = reply[c].view.disk
  BY <1>1 DEF Merged, Replies, Views, TypeOK
<1>5. disk' = -1 \/ Merged(c).disk = disk'
  BY <1>1 DEF Apply, Merged, DiskAsAcked, Replies, Views, TypeOK
<1>6. asOf' \in 0 .. MaxVersion /\ disk' \in -1 .. MaxVersion
  BY <1>1, ConstantsAssumption DEF Apply, Replies, Views, TypeOK
<1>7. ingress' \in {"on", "off", "unknown"}
  BY DEF Apply, TypeOK
<1>8. data' = Merged(c) /\ UNCHANGED <<row, version, stray>>
  BY DEF Apply, serverVars
<1>9. TypeOK' /\ CallInv' /\ GrowthInv' /\ DiskAsAcked'
  BY <1>2, <1>4, <1>5, <1>6, <1>7, <1>8
  DEF TypeOK, CallStep, DiskAsAcked, GrowthInv, Replies
<1>10. Truthful(data)'
  BY <1>1, <1>4, <1>8 DEF Truthful
<1>11. \A d \in Calls : stage'[d] = "reply" => Truthful(reply[d].view)'
  BY <1>2, <1>8 DEF CallStep, TruthInv, Truthful
<1>12. QED
  BY <1>9, <1>10, <1>11 DEF TruthInv

-----------------------------------------------------------------------------
(* All steps *)

LEMMA InitHolds == Init => IInv
<1> SUFFICES ASSUME Init PROVE IInv
  OBVIOUS
<1>1. row \in Views /\ data = row /\ row.disk = 0
  BY ConstantsAssumption DEF Init, Born, Views
<1>2. quiet \in [version : 0 .. MaxVersion, gone : BOOLEAN]
  BY ConstantsAssumption DEF Init
<1>3. Truthful(data)
  BY <1>1 DEF Truthful, Terminal
<1>4. QED
  BY <1>1, <1>2, <1>3, ConstantsAssumption
  DEF Init, IInv, TypeOK, CallInv, GrowthInv, TruthInv, DiskAsAcked

LEMMA StepKeeps == IInv /\ [Next]_vars => IInv'
<1> SUFFICES ASSUME IInv, [Next]_vars PROVE IInv'
  OBVIOUS
<1>0. TypeOK /\ CallInv /\ GrowthInv
  BY DEF IInv
<1>1. CASE ServerMoves
  BY <1>0, <1>1, ServerMovesTyped, StillStep, ViewKept
  DEF ServerMoves, TypeOK, ackVars
<1>2. CASE \E m \in stray : ServeStray(m)
  <2>1. PICK m \in stray : ServeStray(m)
    BY <1>2
  <2>2. RowStep
    BY <1>0, <2>1, EffectTyped DEF ServeStray
  <2>3. QED
    BY <1>0, <2>1, <2>2, StillStep, ViewKept DEF ServeStray, TypeOK, ackVars
<1>3. ASSUME NEW c \in Calls, NEW m \in Methods, Call(c, m)
      PROVE  IInv'
  <2>1. CallStep
    BY <1>0, <1>3 DEF Call, Overlap, CallStep, TypeOK, CallInv, Replies
  <2>2. ingress' \in {"on", "off", "unknown"} /\ UNCHANGED disk
    BY <1>0, <1>3 DEF Call, Overlap, TypeOK
  <2>3. QED
    BY <1>0, <1>3, <2>1, <2>2, StillRow, ViewKept DEF Call, TypeOK
<1>4. ASSUME NEW c \in Calls, Throw(c)
      PROVE  IInv'
  <2>1. CallStep /\ stray' \subseteq Methods
    BY <1>0, <1>4, ReturnStep, AbandonTyped DEF Throw
  <2>2. ingress' \in {"on", "off", "unknown"}
    BY <1>0, <1>4 DEF Throw, TypeOK
  <2>3. QED
    BY <1>0, <1>4, <2>1, <2>2, StillRow, ViewKept DEF Throw
<1>5. ASSUME NEW c \in Calls, Retry(c)
      PROVE  IInv'
  <2>1. CallStep /\ stray' \subseteq Methods
    BY <1>0, <1>5, GoOnStep, AbandonTyped DEF Retry
  <2>2. QED
    BY <1>0, <1>5, <2>1, StillRow, ViewKept DEF Retry, TypeOK, ackVars
<1>6. ASSUME NEW c \in Calls, Resolve(c) \/ GiveUp(c) \/ WaitTimesOut(c)
      PROVE  IInv'
  <2>1. CallStep
    BY <1>0, <1>6, ReturnStep DEF Resolve, GiveUp, WaitTimesOut
  <2>2. QED
    BY <1>0, <1>6, <2>1, StillRow, ViewKept
    DEF Resolve, GiveUp, WaitTimesOut, TypeOK, ackVars
<1>7. ASSUME NEW c \in Calls, PollAgain(c)
      PROVE  IInv'
  <2>1. CallStep
    BY <1>0, <1>7, GoOnStep DEF PollAgain
  <2>2. QED
    BY <1>0, <1>7, <2>1, StillRow, ViewKept DEF PollAgain, TypeOK, ackVars
<1>8. CASE UNCHANGED vars
  BY <1>0, <1>8, StillRow, StillStep, ViewKept DEF vars, TypeOK, ackVars
<1>9. QED
  BY <1>1, <1>2, <1>3, <1>4, <1>5, <1>6, <1>7, <1>8, ServeKeeps, ApplyKeeps DEF Next

(* The inductive invariant, for every set of calls and methods and however    *)
(* often the row changes.                                                    *)
THEOREM Invariance == Spec => []IInv
BY InitHolds, StepKeeps, PTL DEF Spec

(* Every variable stays in its range: what is stored in #data is a view of a  *)
(* sandbox, whichever method stored it.                                      *)
THEOREM TypeCorrect == Spec => []TypeOK
<1>1. IInv => TypeOK
  BY DEF IInv
<1>2. QED
  BY <1>1, Invariance, PTL

(* A handle never reports a sandbox destroyed or failed that is not, however  *)
(* many calls write its view and in whatever order: waitUntilDestroyed never *)
(* resolves early.                                                           *)
THEOREM TerminalIsTrueCorrect == Spec => []TerminalIsTrue
<1>1. IInv => TerminalIsTrue
  BY DEF IInv, TruthInv, Truthful, TerminalIsTrue
<1>2. QED
  BY <1>1, Invariance, PTL

(* Nothing but a method that replaces the whole view undoes the disk size     *)
(* that a resize() has acknowledged.                                         *)
THEOREM DiskAsAckedCorrect == Spec => []DiskAsAcked
<1>1. IInv => DiskAsAcked
  BY DEF IInv
<1>2. QED
  BY <1>1, Invariance, PTL
-----------------------------------------------------------------------------
-----------------------------------------------------------------------------
(* Waits.  What was read since the busy spell began: a version of the row no  *)
(* older than the spell, and a sandbox that is gone if it was then.          *)
Fresh(of, status) ==
  /\ quiet.version <= of
  /\ quiet.gone => status \in Terminal

(* Replies are younger than the spell, and so is the view once the first poll *)
(* of a wait was applied, whichever call wrote it last.                      *)
CurrentInv ==
  /\ Fresh(version, row.status)
  /\ \A c \in Calls : /\ stage[c] = "reply" => Fresh(reply[c].of, reply[c].view.status)
                      /\ stage[c] = "judge" => Fresh(asOf, data.status)

LEMMA EffectGrows ==
  ASSUME NEW m, Effect(m)
  PROVE  version' = version \/ version' = version + 1
BY DEF Effect, Change, serverVars

(* The control plane goes forward. *)
Forward ==
  /\ version \in Nat /\ version' \in Nat /\ version <= version'
  /\ row.status \in Terminal => row'.status \in Terminal

LEMMA StepForward ==
  ASSUME IInv, [Next]_vars
  PROVE  Forward
<1> USE DEF IInv
<1>1. version \in Nat
  BY ConstantsAssumption DEF TypeOK
<1>2. CASE UNCHANGED serverVars
  BY <1>1, <1>2 DEF Forward, serverVars
<1>3. CASE ServerMoves
  <2>1. version' = version + 1
    BY <1>3 DEF ServerMoves, Change
  <2>2. RowStep
    BY <1>3, ServerMovesTyped
  <2>3. QED
    BY <1>1, <2>1, <2>2 DEF Forward, RowStep
<1>4. CASE \E m \in stray \cup Methods : Effect(m)
  <2>1. PICK m \in stray \cup Methods : Effect(m)
    BY <1>4
  <2>2. version' = version \/ version' = version + 1
    BY <2>1, EffectGrows
  <2>3. RowStep
    BY <2>1, EffectTyped
  <2>4. QED
    BY <1>1, <2>2, <2>3 DEF Forward, RowStep
<1>5. ASSUME NEW c \in Calls, Serve(c)
      PROVE  \E m \in stray \cup Methods : Effect(m)
  BY <1>5 DEF Serve, CallInv
<1>6. QED
  BY <1>2, <1>3, <1>4, <1>5
  DEF Next, vars, ServeStray, Call, Throw, Retry, Apply, Resolve, GiveUp, PollAgain, WaitTimesOut

(* A step that reads nothing and writes no view. *)
LEMMA CurrentKept ==
  ASSUME Forward, IInv, CurrentInv, UNCHANGED <<viewVars, quiet>>,
         \A d \in Calls : /\ stage'[d] = "reply" => stage[d] = "reply" /\ reply'[d] = reply[d]
                          /\ stage'[d] = "judge" => stage[d] = "judge"
  PROVE  CurrentInv'
<1>1. quiet.version \in Nat
  BY ConstantsAssumption DEF IInv, TypeOK
<1>2. QED
  BY <1>1 DEF CurrentInv, Fresh, Forward, viewVars

LEMMA ApplyCurrent ==
  ASSUME Forward, IInv, CurrentInv, NEW c \in Calls, Apply(c)
  PROVE  CurrentInv'
<1> USE DEF IInv
<1>1. /\ stage[c] = "reply" /\ reply[c] \in Replies /\ data \in Views
      /\ UNCHANGED <<row, version, quiet>>
  BY DEF Apply, CallInv, TypeOK, Return, GoOn, serverVars
<1>2. \/ asOf' = asOf /\ data'.status = data.status /\ method[c] \notin WaitMethods
      \/ asOf' = reply[c].of /\ data'.status = reply[c].view.status
  BY <1>1 DEF Apply, Merged, Views, WaitMethods
<1>3. Fresh(reply[c].of, reply[c].view.status)
  BY <1>1 DEF CurrentInv
<1>4. ASSUME NEW d \in Calls, stage'[d] = "reply"
      PROVE  stage[d] = "reply" /\ reply'[d] = reply[d]
  BY <1>4 DEF Apply, Return, GoOn, TypeOK
<1>5. ASSUME NEW d \in Calls, stage'[d] = "judge"
      PROVE  stage[d] = "judge" \/ method[c] \in WaitMethods
  BY <1>5 DEF Apply, Return, GoOn, TypeOK
<1>6. ASSUME NEW d \in Calls, stage'[d] = "judge"
      PROVE  Fresh(asOf, data.status)'
  <2>1. CASE asOf' = reply[c].of /\ data'.status = reply[c].view.status
    BY <1>1, <1>3, <2>1 DEF Fresh
  <2>2. CASE asOf' = asOf /\ data'.status = data.status /\ method[c] \notin WaitMethods
    BY <1>1, <1>5, <1>6, <2>2 DEF Fresh, CurrentInv
  <2>3. QED
    BY <1>2, <2>1, <2>2
<1>7. QED
  BY <1>1, <1>4, <1>6 DEF CurrentInv, Fresh

LEMMA ServeCurrent ==
  ASSUME Forward, IInv, CurrentInv, NEW c \in Calls, Serve(c)
  PROVE  CurrentInv'
<1> USE DEF IInv
<1>1. UNCHANGED <<viewVars, quiet>>
  BY DEF Serve
<1>2. quiet.version \in Nat
  BY ConstantsAssumption DEF TypeOK
<1>3. Fresh(version, row.status)'
  BY <1>1, <1>2 DEF CurrentInv, Fresh, Forward
<1>4. row' \in Views
  BY StepKeeps DEF TypeOK, Next
<1>5. reply'[c].of = version' /\ reply'[c].view.status = row'.status
  BY <1>4 DEF Serve, TypeOK, Answer, Views
<1>6. ASSUME NEW d \in Calls, stage'[d] = "reply"
      PROVE  Fresh(reply[d].of, reply[d].view.status)'
  <2>1. CASE d = c
    BY <1>3, <1>5, <2>1 DEF Fresh
  <2>2. CASE d # c
    BY <1>1, <1>6, <2>2 DEF Serve, TypeOK, CurrentInv, Fresh
  <2>3. QED
    BY <2>1, <2>2
<1>7. ASSUME NEW d \in Calls, stage'[d] = "judge"
      PROVE  Fresh(asOf, data.status)'
  BY <1>1, <1>7 DEF Serve, TypeOK, CurrentInv, Fresh, viewVars
<1>8. QED
  BY <1>3, <1>6, <1>7 DEF CurrentInv

(* The first call of a spell finds every other one idle. *)
LEMMA CallCurrent ==
  ASSUME Forward, IInv, CurrentInv, NEW c \in Calls, NEW m \in Methods, Call(c, m)
  PROVE  CurrentInv'
<1> USE DEF IInv
<1>1. \A d \in Calls : /\ stage'[d] = "reply" => stage[d] = "reply" /\ reply'[d] = reply[d]
                       /\ stage'[d] = "judge" => stage[d] = "judge"
  BY DEF Call, TypeOK
<1>2. CASE Busy
  <2>1. UNCHANGED <<viewVars, quiet>>
    BY <1>2 DEF Call, Overlap
  <2>2. QED
    BY <1>1, <2>1, CurrentKept
<1>3. CASE ~Busy
  <2>1. \A d \in Calls : stage'[d] # "reply" /\ stage'[d] # "judge"
    BY <1>1, <1>3 DEF Busy
  <2>2. /\ quiet' = [version |-> version, gone |-> row.status \in Terminal]
        /\ UNCHANGED <<row, version>>
    BY <1>3 DEF Call, Overlap, serverVars
  <2>3. Fresh(version, row.status)'
    BY <2>2 DEF Fresh, Forward
  <2>4. QED
    BY <2>1, <2>3 DEF CurrentInv
<1>4. QED
  BY <1>2, <1>3

LEMMA CurrentStep ==
  ASSUME IInv, CurrentInv, [Next]_vars
  PROVE  CurrentInv'
<1>1. Forward
  BY StepForward
<1>2. TypeOK
  BY DEF IInv
<1>3. CASE UNCHANGED <<viewVars, callVars, quiet>>
  BY <1>1, <1>3, CurrentKept DEF callVars
<1>4. ASSUME NEW c \in Calls,
             Throw(c) \/ Retry(c) \/ Resolve(c) \/ GiveUp(c) \/ PollAgain(c) \/ WaitTimesOut(c)
      PROVE  CurrentInv'
  <2>1. Return(c) \/ GoOn(c, "request")
    BY <1>4 DEF Throw, Retry, Resolve, GiveUp, PollAgain, WaitTimesOut
  <2>2. UNCHANGED <<viewVars, quiet>>
    BY <1>4, <2>1 DEF Throw, Retry, Resolve, GiveUp, PollAgain, WaitTimesOut, Return, GoOn
  <2>3. \A d \in Calls : /\ stage'[d] = "reply" => stage[d] = "reply" /\ reply'[d] = reply[d]
                         /\ stage'[d] = "judge" => stage[d] = "judge"
    BY <1>2, <2>1 DEF Return, GoOn, TypeOK
  <2>4. QED
    BY <1>1, <2>2, <2>3, CurrentKept
<1>5. CASE UNCHANGED vars \/ ServerMoves \/ \E m \in stray : ServeStray(m)
  BY <1>3, <1>5 DEF vars, ServerMoves, ServeStray
<1>6. ASSUME NEW c \in Calls, Apply(c) \/ Serve(c) \/ \E m \in Methods : Call(c, m)
      PROVE  CurrentInv'
  BY <1>1, <1>6, ApplyCurrent, ServeCurrent, CallCurrent
<1>7. ASSUME NEW c \in Calls
      PROVE  /\ Apply(c) \/ Serve(c) \/ (\E m \in Methods : Call(c, m)) => CurrentInv'
             /\ Throw(c) \/ Retry(c) \/ Resolve(c) \/ GiveUp(c) \/ PollAgain(c)
                  \/ WaitTimesOut(c) => CurrentInv'
  BY <1>4, <1>6
<1>8. QED
  BY <1>5, <1>7 DEF Next

LEMMA CurrentInit == Init => CurrentInv
<1> SUFFICES ASSUME Init PROVE CurrentInv
  OBVIOUS
<1>1. quiet = [version |-> 0, gone |-> row.status \in Terminal] /\ version = 0
  BY DEF Init
<1>2. quiet.version <= version
  BY <1>1
<1>3. quiet.gone => row.status \in Terminal
  BY <1>1
<1>4. \A c \in Calls : stage[c] = "idle"
  BY DEF Init
<1>5. QED
  BY <1>2, <1>3, <1>4 DEF CurrentInv, Fresh

(* However many calls overlap, a wait resolves on a state read since the       *)
(* handle was last idle, and so a wait that is alone on one read since it     *)
(* began.                                                                    *)
THEOREM WaitSeesCurrentStateCorrect == Spec => WaitSeesCurrentState
<1>1. IInv /\ CurrentInv /\ [Next]_vars => (IInv /\ CurrentInv)'
  BY StepKeeps, CurrentStep
<1>2. IInv /\ CurrentInv /\ [Next]_vars =>
        [\A c \in Calls : Resolve(c) => asOf >= quiet.version]_vars
  <2>1. IInv /\ CurrentInv =>
          \A c \in Calls : stage[c] = "judge" => asOf >= quiet.version
    BY ConstantsAssumption DEF IInv, TypeOK, CurrentInv, Fresh
  <2>2. QED
    BY <2>1 DEF Resolve
<1>3. QED
  BY <1>1, <1>2, InitHolds, CurrentInit, PTL DEF Spec, WaitSeesCurrentState

(* A wait on a sandbox that was gone when the handle was last idle ends with   *)
(* its first poll, whatever the calls beside it write into the view.         *)
THEOREM GoneEndsWaitCorrect == Spec => GoneEndsWait
<1>1. IInv /\ CurrentInv /\ [Next]_vars => (IInv /\ CurrentInv)'
  BY StepKeeps, CurrentStep
<1>2. IInv /\ CurrentInv /\ [Next]_vars =>
        [\A c \in Calls : quiet.gone => ~PollAgain(c) /\ ~WaitTimesOut(c)]_vars
  <2>1. ASSUME CurrentInv, NEW c \in Calls, stage[c] = "judge", quiet.gone
        PROVE  data.status \in BadStates(method[c]) \cup {Awaited(method[c])}
    BY <2>1 DEF CurrentInv, Fresh, Terminal, BadStates, Awaited
  <2>2. QED
    BY <2>1 DEF PollAgain, WaitTimesOut
<1>3. QED
  BY <1>1, <1>2, InitHolds, CurrentInit, PTL DEF Spec, GoneEndsWait
-----------------------------------------------------------------------------
(* The ingress setting.  Until it is unknown, a setIngress in progress is the  *)
(* only call that replaces the view; the row holds the setting last          *)
(* acknowledged but for the one whose reply is under way; and what the handle *)
(* shows, or is about to, is what the row holds.                             *)
Pending(c) == stage[c] = "reply" /\ method[c] \in PatchMethods

Alone(c) ==
  stage[c] # "idle" /\ method[c] \in PatchMethods =>
    \A d \in Calls \ {c} : stage[d] # "idle" => method[d] \notin ReplacingMethods

IngressInv ==
  ingress # "unknown" =>
    /\ data.ingress <=> ingress = "on"
    /\ stray \cap PatchMethods = {}
    /\ (\A c \in Calls : ~Pending(c)) => (row.ingress <=> ingress = "on")
    /\ \A c \in Calls :
         /\ Alone(c)
         /\ Pending(c) => (row.ingress <=> method[c] = "ingressOn")
         /\ stage[c] = "reply" /\ method[c] \in ReplacingMethods =>
              (reply[c].view.ingress <=> row.ingress)

LEMMA PatchesReplace == PatchMethods \subseteq ReplacingMethods
BY DEF PatchMethods, ReplacingMethods, AllMethods, MutatingMethods

LEMMA EffectOnIngress ==
  ASSUME TypeOK, NEW m, Effect(m)
  PROVE  /\ m \notin PatchMethods => row'.ingress = row.ingress
         /\ m \in PatchMethods => (row'.ingress <=> m = "ingressOn")
<1>1. row \in Views
  BY DEF TypeOK
<1>2. CASE m \in PatchMethods
  BY <1>1, <1>2 DEF Effect, Change, serverVars, PatchMethods, WaitMethods, Views
<1>3. CASE m \notin PatchMethods
  BY <1>1, <1>3 DEF Effect, Change, serverVars, PatchMethods, WaitMethods, Views
<1>4. QED
  BY <1>2, <1>3

(* A step that leaves the setting alone: no setIngress takes effect, and no    *)
(* call is made or answered.                                                 *)
LEMMA IngressKept ==
  ASSUME IngressInv, row'.ingress = row.ingress, UNCHANGED <<data, ingress>>,
         stray' \cap PatchMethods \subseteq stray,
         \A d \in Calls :
           /\ stage'[d] # "idle" => stage[d] # "idle" /\ method'[d] = method[d]
           /\ stage'[d] = "reply" => stage[d] = "reply" /\ reply'[d] = reply[d]
           /\ Pending(d) => stage'[d] = "reply"
  PROVE  IngressInv'
<1> SUFFICES ASSUME ingress # "unknown" PROVE IngressInv'
  BY DEF IngressInv
<1>1. \A d \in Calls : Pending(d)' <=> Pending(d)
  BY DEF Pending
<1>2. \A d \in Calls : Alone(d)'
  BY DEF IngressInv, Alone
<1>3. stray' \cap PatchMethods = {}
  BY DEF IngressInv
<1>4. /\ data'.ingress <=> ingress' = "on"
      /\ (\A c \in Calls : ~Pending(c)') => (row'.ingress <=> ingress' = "on")
  BY <1>1 DEF IngressInv
<1>5. ASSUME NEW d \in Calls
      PROVE  /\ Pending(d)' => (row'.ingress <=> method'[d] = "ingressOn")
             /\ stage'[d] = "reply" /\ method'[d] \in ReplacingMethods =>
                  (reply'[d].view.ingress <=> row'.ingress)
  BY <1>1 DEF IngressInv, Pending
<1>6. QED
  BY <1>2, <1>3, <1>4, <1>5 DEF IngressInv

LEMMA CallIngress ==
  ASSUME IInv, IngressInv, NEW c \in Calls, NEW m \in Methods, Call(c, m), ingress' # "unknown"
  PROVE  IngressInv'
<1> USE DEF IInv
<1>1. /\ UNCHANGED <<row, data, stray, reply>> /\ stage[c] = "idle"
      /\ stage' = [stage EXCEPT ![c] = "request"]
      /\ method' = [method EXCEPT ![c] = m]
  BY DEF Call, serverVars, viewVars
<1>2. /\ ingress # "unknown" /\ UNCHANGED ingress
      /\ \A d \in Calls : stage[d] # "idle" /\ {m, method[d]} \subseteq ReplacingMethods =>
           {m, method[d]} \cap PatchMethods = {}
  BY DEF Call, Overlap
<1>3. \A d \in Calls : d # c => stage'[d] = stage[d] /\ method'[d] = method[d]
  BY <1>1 DEF TypeOK
<1>4. stage'[c] = "request" /\ method'[c] = m
  BY <1>1 DEF TypeOK
<1>5. \A d \in Calls : Pending(d)' <=> Pending(d)
  BY <1>1, <1>3, <1>4 DEF Pending
<1>6. \A d \in Calls : Alone(d)'
  BY <1>2, <1>3, <1>4, PatchesReplace DEF IngressInv, Alone
<1>7. ASSUME NEW d \in Calls
      PROVE  /\ Pending(d)' => (row'.ingress <=> method'[d] = "ingressOn")
             /\ stage'[d] = "reply" /\ method'[d] \in ReplacingMethods =>
                  (reply'[d].view.ingress <=> row'.ingress)
  BY <1>1, <1>2, <1>3, <1>4 DEF IngressInv, Pending
<1>8. QED
  BY <1>1, <1>2, <1>5, <1>6, <1>7 DEF IngressInv

LEMMA ServeIngress ==
  ASSUME IInv, IngressInv, NEW c \in Calls, Serve(c), ingress' # "unknown"
  PROVE  IngressInv'
<1> USE DEF IInv
<1>1. /\ UNCHANGED <<stray, data, ingress, method>> /\ stage[c] = "request"
      /\ stage' = [stage EXCEPT ![c] = "reply"]
      /\ \A d \in Calls : d # c => stage'[d] = stage[d] /\ reply'[d] = reply[d]
  BY DEF Serve, viewVars, ackVars, TypeOK
<1>2. /\ method[c] \notin PatchMethods => row'.ingress = row.ingress
      /\ method[c] \in PatchMethods => (row'.ingress <=> method[c] = "ingressOn")
  BY EffectOnIngress DEF Serve
<1>3. row' \in Views
  BY StepKeeps DEF TypeOK, Next
<1>4. stage'[c] = "reply" /\ reply'[c].view.ingress = row'.ingress
  BY <1>1, <1>3 DEF Serve, Answer, Views, TypeOK
<1>5. \A d \in Calls : Alone(d)'
  BY <1>1, <1>4 DEF IngressInv, Alone
<1>6. CASE method[c] \in PatchMethods
  <2>1. \A d \in Calls \ {c} : ~(stage'[d] = "reply" /\ method'[d] \in ReplacingMethods)
    BY <1>1, <1>6 DEF IngressInv, Alone
  <2>2. \A d \in Calls \ {c} : ~Pending(d)'
    BY <2>1, PatchesReplace DEF Pending
  <2>3. Pending(c)'
    BY <1>1, <1>4, <1>6 DEF Pending
  <2>4. QED
    BY <1>1, <1>2, <1>4, <1>5, <1>6, <2>1, <2>2, <2>3 DEF IngressInv
<1>7. CASE method[c] \notin PatchMethods
  <2>1. \A d \in Calls : Pending(d)' <=> Pending(d)
    BY <1>1, <1>4, <1>7 DEF Pending
  <2>2. row'.ingress = row.ingress
    BY <1>2, <1>7
  <2>3. ASSUME NEW d \in Calls
        PROVE  /\ Pending(d)' => (row'.ingress <=> method'[d] = "ingressOn")
               /\ stage'[d] = "reply" /\ method'[d] \in ReplacingMethods =>
                    (reply'[d].view.ingress <=> row'.ingress)
    BY <1>1, <1>4, <2>1, <2>2 DEF IngressInv
  <2>4. QED
    BY <1>1, <1>5, <2>1, <2>2, <2>3 DEF IngressInv
<1>8. QED
  BY <1>6, <1>7

LEMMA ApplyIngress ==
  ASSUME IInv, IngressInv, NEW c \in Calls, Apply(c), ingress' # "unknown"
  PROVE  IngressInv'
<1> USE DEF IInv
<1>1. /\ stage[c] = "reply" /\ UNCHANGED <<row, stray>> /\ ingress # "unknown"
      /\ reply[c].view \in Views /\ data \in Views /\ method[c] \in AllMethods
  BY ConstantsAssumption DEF Apply, serverVars, CallInv, Replies, TypeOK
<1>2. /\ stage'[c] # "reply" /\ (stage'[c] = "idle" \/ method'[c] = method[c])
      /\ \A d \in Calls : d # c =>
           stage'[d] = stage[d] /\ reply'[d] = reply[d] /\ method'[d] = method[d]
  BY DEF Apply, Return, GoOn, TypeOK
<1>3. \A d \in Calls : Pending(d)' <=> Pending(d) /\ d # c
  BY <1>2 DEF Pending
<1>4. \A d \in Calls : Alone(d)'
  BY <1>1, <1>2 DEF IngressInv, Alone
<1>5. ASSUME NEW d \in Calls
      PROVE  /\ Pending(d)' => (row'.ingress <=> method'[d] = "ingressOn")
             /\ stage'[d] = "reply" /\ method'[d] \in ReplacingMethods =>
                  (reply'[d].view.ingress <=> row'.ingress)
  BY <1>1, <1>2, <1>3 DEF IngressInv, Pending
<1>6. CASE method[c] \notin ReplacingMethods
  <2>1. method[c] \in {"destroy", "resize", "fork"} /\ method[c] \notin PatchMethods
    BY <1>1, <1>6, PatchesReplace DEF ReplacingMethods
  <2>2. data'.ingress = data.ingress
    BY <1>1, <2>1 DEF Apply, Merged, Views
  <2>3. UNCHANGED ingress /\ ~Pending(c)
    BY <1>1, <2>1 DEF Apply, Pending
  <2>4. QED
    BY <1>1, <1>3, <1>4, <1>5, <2>2, <2>3 DEF IngressInv
<1>7. CASE method[c] \in ReplacingMethods
  <2>1. data' = reply[c].view
    BY <1>7 DEF Apply, Merged, ReplacingMethods
  <2>2. ASSUME NEW d \in Calls
        PROVE  ~Pending(d)'
    <3>1. CASE d = c
      BY <1>2, <3>1 DEF Pending
    <3>2. CASE d # c
      BY <1>1, <1>2, <1>7, <3>2 DEF IngressInv, Alone, Pending
    <3>3. QED
      BY <3>1, <3>2
  <2>3. row.ingress <=> ingress' = "on"
    <3>1. CASE method[c] \in PatchMethods
      <4>1. row.ingress <=> method[c] = "ingressOn"
        BY <1>1, <3>1 DEF IngressInv, Pending
      <4>2. QED
        BY <1>1, <3>1, <4>1 DEF Apply
    <3>2. CASE method[c] \notin PatchMethods
      <4>1. \A d \in Calls : ~Pending(d)
        BY <1>3, <2>2, <3>2 DEF Pending
      <4>2. QED
        BY <1>1, <3>2, <4>1 DEF Apply, IngressInv
    <3>3. QED
      BY <3>1, <3>2
  <2>4. data'.ingress <=> row.ingress
    BY <1>1, <1>7, <2>1 DEF IngressInv
  <2>5. QED
    BY <1>1, <1>4, <1>5, <2>3, <2>4 DEF IngressInv
<1>8. QED
  BY <1>6, <1>7

(* A setIngress that throws makes the setting unknown, and is not repeated.   *)
LEMMA OtherIngress ==
  ASSUME IInv, IngressInv, NEW c \in Calls, ingress' # "unknown",
         Throw(c) \/ Retry(c) \/ Resolve(c) \/ GiveUp(c) \/ PollAgain(c) \/ WaitTimesOut(c)
  PROVE  IngressInv'
<1> USE DEF IInv
<1>1. (Return(c) \/ GoOn(c, "request")) /\ UNCHANGED <<row, data, ingress>>
  BY DEF Throw, Retry, Resolve, GiveUp, PollAgain, WaitTimesOut, serverVars, viewVars, ackVars
<1>2. ~Pending(c)
  <2>1. CASE Throw(c)
    BY <2>1 DEF Throw, Pending
  <2>2. CASE Retry(c)
    BY <2>2 DEF Retry, RetriedMethods, WaitMethods, PatchMethods, Pending
  <2>3. CASE ~Throw(c) /\ ~Retry(c)
    BY <2>3 DEF Resolve, GiveUp, PollAgain, WaitTimesOut, Pending
  <2>4. QED
    BY <2>1, <2>2, <2>3
<1>3. stray' \cap PatchMethods \subseteq stray
  <2>1. CASE Throw(c)
    BY <2>1 DEF Throw, Abandon
  <2>2. CASE Retry(c)
    BY <2>2 DEF Retry, Abandon, RetriedMethods, WaitMethods, PatchMethods
  <2>3. CASE ~Throw(c) /\ ~Retry(c)
    BY <2>3 DEF Resolve, GiveUp, PollAgain, WaitTimesOut
  <2>4. QED
    BY <2>1, <2>2, <2>3
<1>4. ASSUME NEW d \in Calls
      PROVE  /\ stage'[d] # "idle" => stage[d] # "idle" /\ method'[d] = method[d]
             /\ stage'[d] = "reply" => stage[d] = "reply" /\ reply'[d] = reply[d]
             /\ Pending(d) => stage'[d] = "reply"
  <2>1. stage[c] # "idle"
    BY DEF Throw, Retry, Resolve, GiveUp, PollAgain, WaitTimesOut
  <2>2. QED
    BY <1>1, <1>2, <2>1 DEF Return, GoOn, TypeOK, Pending
<1>5. QED
  BY <1>1, <1>3, <1>4, IngressKept

LEMMA IngressStep ==
  ASSUME IInv, IngressInv, [Next]_vars
  PROVE  IngressInv'
<1> USE DEF IInv
<1> SUFFICES ASSUME ingress' # "unknown" PROVE IngressInv'
  BY DEF IngressInv
<1>1. CASE UNCHANGED vars
  BY <1>1 DEF IngressInv, Pending, Alone, vars, serverVars, viewVars, ackVars, callVars
<1>2. CASE ServerMoves
  <2>1. row'.ingress = row.ingress
    BY <1>2 DEF ServerMoves, Change, TypeOK, Views
  <2>2. UNCHANGED <<stray, data, ingress, method, stage, reply>>
    BY <1>2 DEF ServerMoves, viewVars, ackVars, callVars
  <2>3. QED
    BY <2>1, <2>2, IngressKept DEF Pending
<1>3. ASSUME NEW m \in stray, ServeStray(m)
      PROVE  IngressInv'
  <2>1. UNCHANGED <<data, ingress, method, stage, reply>> /\ stray' \subseteq stray
    BY <1>3 DEF ServeStray, viewVars, ackVars, callVars
  <2>2. m \notin PatchMethods
    BY <2>1, <1>3 DEF IngressInv
  <2>3. row'.ingress = row.ingress
    BY <1>3, <2>2, EffectOnIngress DEF ServeStray
  <2>4. QED
    BY <2>1, <2>3, IngressKept DEF Pending
<1>4. ASSUME NEW c \in Calls
      PROVE  /\ (\E m \in Methods : Call(c, m)) \/ Serve(c) \/ Apply(c) => IngressInv'
             /\ Throw(c) \/ Retry(c) \/ Resolve(c) \/ GiveUp(c) \/ PollAgain(c)
                  \/ WaitTimesOut(c) => IngressInv'
  BY <1>4, CallIngress, ServeIngress, ApplyIngress, OtherIngress
<1>5. QED
  BY <1>1, <1>2, <1>3, <1>4 DEF Next

(* Until a setIngress throws or overlaps another call that replaces the view,  *)
(* the handle shows the ingress setting that the last setIngress set, so      *)
(* previewUrl does not hand out the URL of an ingress that is off.           *)
THEOREM IngressAsAckedCorrect == Spec => []IngressAsAcked
<1>1. ASSUME Init
      PROVE  IngressInv
  <2>1. /\ row.ingress = TRUE /\ data = row /\ ingress = "on" /\ stray = {}
        /\ \A c \in Calls : stage[c] = "idle"
    BY <1>1 DEF Init, Born
  <2>2. QED
    BY <2>1 DEF IngressInv, Pending, Alone
<1>2. IInv /\ IngressInv /\ [Next]_vars => (IInv /\ IngressInv)'
  BY StepKeeps, IngressStep
<1>3. IInv /\ IngressInv => IngressAsAcked
  BY DEF IngressInv, IngressAsAcked
<1>4. QED
  BY <1>1, <1>2, <1>3, InitHolds, PTL DEF Spec
=============================================================================
