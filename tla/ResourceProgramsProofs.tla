------------------------- MODULE ResourceProgramsProofs -------------------------
(***************************************************************************)
(* What holds of every program over every set of resources: the variables  *)
(* stay in their ranges, and a program whose blocks clean up after         *)
(* themselves leaves nothing behind.                                       *)
(***************************************************************************)
EXTENDS ResourcePrograms, TLAPS

(* An await is for calls of the step the program is at; that of a creation   *)
(* is for all of them, and leaving something behind calls nothing.           *)
AwaitInv ==
  awaiting => /\ AtStep /\ targets \subseteq Now.on
              /\ Now.do = "create" => targets = Now.on
              /\ Now.do = "keep" => targets = {}

(* Only a call with attempts left is made again.                             *)
BackoffInv == \A k \in Kinds, r \in Resources : call[k][r] = "backoff" => left[k][r] > 1

CoreInv == TypeOK /\ AwaitInv /\ BackoffInv

Outcomes == {"idle", "asked", "backoff", "ok", "failed", "done"}
Blocks == [body : Seq(StepType), cleanup : Seq(StepType)]

-----------------------------------------------------------------------------
(* The text of a program *)

(* The blocks of a program are blocks of typed steps. *)
LEMMA TextTyped ==
  ASSUME NEW p \in DOMAIN Programs
  PROVE  /\ Programs[p] \in Seq(Blocks)
         /\ Len(Programs[p]) \in Nat \ {0}
<1>1. Programs[p] \in Seq(Blocks) /\ Programs[p] # <<>>
  BY ProgramsAssumption DEF Blocks
<1>2. QED
  BY <1>1

LEMMA BlockTyped ==
  ASSUME TypeOK
  PROVE  /\ Block \in Blocks
         /\ Steps \in Seq(StepType)
<1>1. /\ prog \in DOMAIN Programs
      /\ block \in 1 .. Len(Programs[prog])
  BY DEF TypeOK, ProgramText
<1>2. Programs[prog][block] \in Blocks
  BY <1>1, TextTyped
<1>3. Block \in Blocks
  BY <1>2 DEF Block, ProgramText
<1>4. Steps = Block.body \/ Steps = Block.cleanup
  BY DEF Steps
<1>5. QED
  BY <1>3, <1>4 DEF Blocks

LEMMA NowTyped ==
  ASSUME TypeOK, AtStep
  PROVE  Now \in StepType
<1>1. Steps \in Seq(StepType) /\ step \in 1 .. Len(Steps)
  BY BlockTyped DEF TypeOK, AtStep
<1>2. QED
  BY <1>1 DEF Now

LEMMA NowFields ==
  ASSUME TypeOK, AtStep
  PROVE  /\ Now.on \subseteq Resources
         /\ Now.ok \in Nat \ {0} /\ Now.fail \subseteq Nat
         /\ Now.births \in BoxStates
         /\ Now.tries \in Nat \ {0}
         /\ KindOf(Now.do) \in Kinds
BY NowTyped DEF StepType, KindOf, Kinds

LEMMA CalledTyped ==
  ASSUME TypeOK, AtStep
  PROVE  /\ Called(Now) \subseteq Now.on
         /\ Now.do = "create" => Called(Now) = Now.on
         /\ Now.do = "keep" => Called(Now) = {}
BY NowFields DEF Called

LEMMA AttemptsTyped ==
  ASSUME TypeOK, AtStep
  PROVE  Attempts(Now) \in 0 .. MaxTries
BY NowFields, ProgramsAssumption DEF Attempts

LEMMA AwaitedTyped ==
  ASSUME TypeOK, AwaitInv, NEW r \in Resources
  PROVE  Awaited(r).births \in BoxStates
<1>1. CASE awaiting /\ r \in targets
  BY <1>1, NowFields DEF AwaitInv, Awaited
<1>2. CASE ~(awaiting /\ r \in targets)
  BY <1>2 DEF Awaited, Step, BoxStates
<1>3. QED
  BY <1>1, <1>2

LEMMA EffectTyped ==
  ASSUME TypeOK, AwaitInv, NEW k \in Kinds, NEW r \in Resources, Effect(k, r)
  PROVE  /\ box' \in [Resources -> BoxStates]
         /\ strays' \subseteq Resources
         /\ serving' \in [Resources -> {"none", "booting", "listening"}]
<1>1. CASE k = "create"
  BY <1>1, AwaitedTyped DEF Effect, TypeOK
<1>2. CASE k = "delete"
  BY <1>2 DEF Effect, TypeOK, BoxStates
<1>3. CASE k = "work"
  <2>1. Worked(r) \in BoxStates
    BY DEF Worked, TypeOK, BoxStates
  <2>2. box' = [box EXCEPT ![r] = Worked(r)] /\ UNCHANGED strays
        /\ serving' = [serving EXCEPT
                         ![r] = IF Awaited(r).do = "serve" THEN "booting" ELSE serving[r]]
    BY <1>3 DEF Effect
  <2>3. QED
    BY <2>1, <2>2 DEF TypeOK
<1>4. QED
  BY <1>1, <1>2, <1>3 DEF Kinds

-----------------------------------------------------------------------------
(* The types are kept *)

(* What the calls' own steps leave the program in. *)
LEMMA ControlKept ==
  ASSUME AwaitInv, UNCHANGED control
  PROVE  AwaitInv'
BY DEF AwaitInv, control, AtStep, Running, Now, Steps, Block

LEMMA ForgottenTyped ==
  ASSUME TypeOK
  PROVE  /\ Forgotten \in [Kinds -> [Resources -> Outcomes]]
         /\ \A k \in Kinds, r \in Resources :
              Forgotten[k][r] = "backoff" => call[k][r] = "backoff"
         /\ Forgotten["create"] = call["create"]
         /\ \A r \in Resources :
              call["delete"][r] # "idle" => Forgotten["delete"][r] # "idle"
BY DEF Forgotten, TypeOK, Kinds, Outcomes

LEMMA CoreInit == Init => CoreInv
<1> SUFFICES ASSUME Init PROVE CoreInv
  OBVIOUS
<1>1. prog \in DOMAIN Programs /\ block \in 1 .. Len(ProgramText[prog])
  BY TextTyped DEF Init, ProgramText
<1>2. TypeOK
  <2>1. left \in [Kinds -> [Resources -> 0 .. MaxTries]]
    BY ProgramsAssumption DEF Init
  <2>2. /\ call \in [Kinds -> [Resources -> Outcomes]]
        /\ box \in [Resources -> BoxStates]
        /\ serving \in [Resources -> {"none", "booting", "listening"}]
    BY DEF Init, BoxStates, Outcomes
  <2>3. awaiting \in BOOLEAN /\ thrown \in BOOLEAN
    BY Zenon DEF Init
  <2>4. /\ phase \in {"body", "cleanup"} /\ exit \in {"no", "ok", "error"}
        /\ step \in Nat \ {0}
        /\ targets \subseteq Resources /\ held \subseteq Resources
        /\ strays \subseteq Resources /\ misled \subseteq Resources
    BY DEF Init
  <2>5. QED
    BY <1>1, <2>1, <2>2, <2>3, <2>4 DEF Init, TypeOK, Outcomes
<1>3. AwaitInv /\ BackoffInv
  BY DEF Init, AwaitInv, BackoffInv, Kinds
<1>4. QED
  BY <1>2, <1>3 DEF CoreInv

LEMMA IssueCore == CoreInv /\ Issue => CoreInv'
<1> SUFFICES ASSUME CoreInv, Issue PROVE CoreInv'
  OBVIOUS
<1> USE DEF CoreInv
<1> DEFINE k == KindOf(Now.do)
<1>1. /\ targets' \subseteq Now.on
      /\ Now.do = "create" => targets' = Now.on
      /\ Now.do = "keep" => targets' = {}
      /\ targets' \subseteq Resources /\ k \in Kinds
  BY CalledTyped, NowFields DEF Issue
<1>2. /\ call' = [call EXCEPT ![k] =
                   [r \in Resources |-> IF r \in targets' THEN "asked" ELSE call[k][r]]]
      /\ left' = [left EXCEPT ![k] =
                   [r \in Resources |-> IF r \in targets' THEN Attempts(Now) ELSE left[k][r]]]
  BY DEF Issue
<1> HIDE DEF k
<1>3. call' \in [Kinds -> [Resources -> Outcomes]]
  BY <1>1, <1>2 DEF TypeOK, Outcomes
<1>4. left' \in [Kinds -> [Resources -> 0 .. MaxTries]]
  <2>1. Attempts(Now) \in 0 .. MaxTries
    BY AttemptsTyped DEF Issue
  <2>2. QED
    BY <1>1, <1>2, <2>1 DEF TypeOK
<1>5. TypeOK'
  BY <1>1, <1>3, <1>4 DEF TypeOK, Issue, server, Outcomes
<1>6. AwaitInv'
  BY <1>1 DEF AwaitInv, Issue, AtStep, Running, Now, Steps, Block
<1>7. BackoffInv'
  BY <1>1, <1>2 DEF BackoffInv, TypeOK
<1>8. QED
  BY <1>5, <1>6, <1>7

LEMMA SucceedCore == CoreInv /\ Succeed => CoreInv'
<1> SUFFICES ASSUME CoreInv, Succeed PROVE CoreInv'
  OBVIOUS
<1> USE DEF CoreInv
<1>1. /\ Now.on \subseteq Resources /\ Now.ok \in Nat \ {0}
  BY NowFields DEF Succeed
<1>2. /\ call' \in [Kinds -> [Resources -> Outcomes]]
      /\ \A k \in Kinds, r \in Resources : call'[k][r] = "backoff" => call[k][r] = "backoff"
  BY ForgottenTyped DEF Succeed, Outcomes, Kinds
<1>3. held' \subseteq Resources
  BY <1>1 DEF Succeed, Released, Acquired, TypeOK
<1>4. TypeOK'
  <2>1. /\ ~awaiting' /\ step' \in Nat \ {0} /\ targets' = {}
        /\ UNCHANGED <<prog, block, phase, thrown, exit, left, server>>
    BY <1>1 DEF TypeOK, Succeed, Advance
  <2>2. awaiting' \in BOOLEAN
    BY DEF Succeed, Advance
  <2>3. QED
    BY <1>2, <1>3, <2>1, <2>2 DEF TypeOK, server, Outcomes
<1>5. AwaitInv'
  BY DEF AwaitInv, Succeed, Advance
<1>6. BackoffInv'
  BY <1>2 DEF BackoffInv, Succeed
<1>7. QED
  BY <1>4, <1>5, <1>6

LEMMA FailCore == CoreInv /\ Fail => CoreInv'
<1> SUFFICES ASSUME CoreInv, Fail PROVE CoreInv'
  OBVIOUS
<1> USE DEF CoreInv
<1>1. Now.on \subseteq Resources /\ Now.fail \subseteq Nat
  BY NowFields DEF Fail
<1>2. /\ call' \in [Kinds -> [Resources -> Outcomes]]
      /\ \A k \in Kinds, r \in Resources : call'[k][r] = "backoff" => call[k][r] = "backoff"
  BY ForgottenTyped DEF Fail
<1>3. awaiting' = FALSE /\ step' \in Nat \ {0} /\ held' \subseteq Resources
      /\ phase' \in {"body", "cleanup"} /\ thrown' \in BOOLEAN
      /\ targets' = {} /\ UNCHANGED <<prog, block, exit>>
  <2>1. CASE Throw
    BY <2>1, BlockTyped DEF Throw, TypeOK
  <2>2. ASSUME NEW n \in Now.fail \ {0}, Advance(n), held' = Released(Now)
        PROVE  <1>3!:
    BY <2>2, <1>1 DEF Advance, Released, TypeOK
  <2>3. QED
    BY <2>1, <2>2 DEF Fail
<1>4. TypeOK'
  <2>1. UNCHANGED <<left, server>>
    BY DEF Fail
  <2>2. QED
    BY <1>2, <1>3, <2>1 DEF TypeOK, server, Outcomes
<1>5. AwaitInv'
  BY <1>3 DEF AwaitInv
<1>6. BackoffInv'
  BY <1>2 DEF BackoffInv, Fail
<1>7. QED
  BY <1>4, <1>5, <1>6

LEMMA EndPhaseCore == CoreInv /\ EndPhase => CoreInv'
<1> SUFFICES ASSUME CoreInv, EndPhase PROVE CoreInv'
  OBVIOUS
<1> USE DEF CoreInv
<1>1. block' \in 1 .. Len(ProgramText[prog])
  <2>1. Len(ProgramText[prog]) \in Nat
    BY TextTyped DEF TypeOK, ProgramText
  <2>2. QED
    BY <2>1 DEF EndPhase, TypeOK
<1>2. TypeOK'
  BY <1>1 DEF TypeOK, EndPhase, server
<1>3. AwaitInv'
  BY DEF AwaitInv, EndPhase
<1>4. BackoffInv'
  BY DEF BackoffInv, EndPhase
<1>5. QED
  BY <1>2, <1>3, <1>4

(* A call that is refused keeps the variables of the calls in their ranges. *)
LEMMA RejectedCore ==
  ASSUME CoreInv, NEW k \in Kinds, NEW r \in Resources, Rejected(k, r)
  PROVE  /\ call' \in [Kinds -> [Resources -> Outcomes]]
         /\ left' \in [Kinds -> [Resources -> 0 .. MaxTries]]
         /\ BackoffInv'
<1>1. CASE call' = [call EXCEPT ![k][r] = "failed"] /\ left' = [left EXCEPT ![k][r] = 0]
  BY <1>1, ProgramsAssumption DEF CoreInv, TypeOK, BackoffInv, Outcomes
<1>2. CASE left[k][r] > 1 /\ call' = [call EXCEPT ![k][r] = "backoff"] /\ UNCHANGED left
  BY <1>2 DEF CoreInv, TypeOK, BackoffInv, Outcomes
<1>3. QED
  BY <1>1, <1>2 DEF Rejected

LEMMA CallCore ==
  ASSUME CoreInv, NEW k \in Kinds, NEW r \in Resources,
         Accept(k, r) \/ Refuse(k, r) \/ LoseReply(k, r) \/ TryAgain(k, r)
  PROVE  CoreInv'
<1> USE DEF CoreInv
<1>1. UNCHANGED control /\ AwaitInv'
  BY ControlKept DEF Accept, Refuse, LoseReply, TryAgain, Rejected
<1>2. CASE Accept(k, r)
  <2>1. /\ call' \in [Kinds -> [Resources -> Outcomes]]
        /\ left' \in [Kinds -> [Resources -> 0 .. MaxTries]]
        /\ BackoffInv'
    BY <1>2, ProgramsAssumption DEF Accept, TypeOK, BackoffInv, Outcomes
  <2>2. TypeOK'
    BY <1>1, <1>2, <2>1, EffectTyped DEF Accept, TypeOK, Outcomes, control
  <2>3. QED
    BY <1>1, <2>1, <2>2
<1>3. CASE Refuse(k, r)
  BY <1>1, <1>3, RejectedCore DEF Refuse, TypeOK, Outcomes, control, server
<1>4. CASE LoseReply(k, r)
  <2>1. /\ box' \in [Resources -> BoxStates]
        /\ strays' \subseteq Resources
        /\ serving' \in [Resources -> {"none", "booting", "listening"}]
        /\ misled' \subseteq Resources
    BY <1>4, EffectTyped DEF LoseReply, TypeOK
  <2>2. QED
    BY <1>1, <1>4, <2>1, RejectedCore DEF LoseReply, TypeOK, Outcomes, control
<1>5. CASE TryAgain(k, r)
  <2>1. left[k][r] \in Nat /\ left[k][r] > 1
    BY <1>5 DEF TryAgain, BackoffInv, TypeOK
  <2>2. /\ call' \in [Kinds -> [Resources -> Outcomes]]
        /\ left' \in [Kinds -> [Resources -> 0 .. MaxTries]]
        /\ BackoffInv'
    BY <1>5, <2>1, ProgramsAssumption DEF TryAgain, TypeOK, BackoffInv, Outcomes
  <2>3. QED
    BY <1>1, <1>5, <2>2 DEF TryAgain, TypeOK, Outcomes, control, server
<1>6. QED
  BY <1>2, <1>3, <1>4, <1>5

LEMMA ServerCore ==
  ASSUME CoreInv, NEW r \in Resources,
         Becomes(r, "pausing", "paused") \/ Becomes(r, "resuming", "up")
           \/ Listen(r) \/ Nudge(r)
  PROVE  CoreInv'
<1> USE DEF CoreInv
<1>1. UNCHANGED <<control, call, left, strays, misled>>
  BY DEF Becomes, Listen, Nudge
<1>2. AwaitInv'
  BY <1>1, ControlKept
<1>3. BackoffInv'
  BY <1>1 DEF BackoffInv
<1>4. /\ box' \in [Resources -> BoxStates]
      /\ serving' \in [Resources -> {"none", "booting", "listening"}]
  BY DEF Becomes, Listen, Nudge, TypeOK, BoxStates
<1>5. TypeOK'
  BY <1>1, <1>4 DEF TypeOK, control
<1>6. QED
  BY <1>2, <1>3, <1>5

LEMMA CoreStep == CoreInv /\ [Next]_vars => CoreInv'
<1> SUFFICES ASSUME CoreInv, [Next]_vars PROVE CoreInv'
  OBVIOUS
<1>1. CASE UNCHANGED vars
  BY <1>1, ControlKept DEF CoreInv, TypeOK, BackoffInv, vars, control, server
<1>2. CASE Next
  BY <1>2, IssueCore, SucceedCore, FailCore, EndPhaseCore, CallCore, ServerCore DEF Next
<1>3. QED
  BY <1>1, <1>2

(* The state stays within its types, whatever programs are run over whatever *)
(* resources, with however many attempts.                                    *)
THEOREM TypeCorrect == Spec => []TypeOK
<1>1. Init => CoreInv
  BY CoreInit
<1>2. CoreInv /\ [Next]_vars => CoreInv'
  BY CoreStep
<1>3. CoreInv => TypeOK
  BY DEF CoreInv
<1>4. QED
  BY <1>1, <1>2, <1>3, PTL DEF Spec

-----------------------------------------------------------------------------
(* A program that cleans up after itself *)

(* The program waits for the creation of r.                                  *)
Creating(r) == awaiting /\ phase = "body" /\ Now.do = "create" /\ r \in targets

(* The delete of r at index j of the cleanup is still to come.               *)
DeleteAhead(r, j) ==
  /\ j >= step /\ (awaiting => j > step)
  /\ Block.cleanup[j].do = "delete" /\ r \in Block.cleanup[j].on

(* The program holds r and has not come to its deletion.                     *)
ToBeDeleted(r) ==
  /\ Running /\ r \in held
  /\ \/ phase = "body" /\ r \in Created(Block.body)
     \/ phase = "cleanup" /\ \E j \in DOMAIN Block.cleanup : DeleteAhead(r, j)

(* A creation under way is awaited, and what was created is deleted, about   *)
(* to be assigned, or assigned with its deletion ahead.                      *)
Tended(r) ==
  /\ call["create"][r] \in {"asked", "backoff"} => Creating(r)
  /\ call["create"][r] = "ok" =>
       call["delete"][r] # "idle" \/ Creating(r) \/ ToBeDeleted(r)

AllTended == CleanProgram => \A r \in Resources : Tended(r)

LEMMA BlockClean ==
  ASSUME TypeOK, CleanProgram
  PROVE  Disciplined(Block)
<1>1. prog \in DOMAIN Programs /\ block \in 1 .. Len(Programs[prog])
  BY DEF TypeOK, ProgramText
<1>2. block \in DOMAIN Programs[prog]
  BY <1>1, TextTyped
<1>3. QED
  BY <1>2 DEF CleanProgram, CleanPrograms, Block, ProgramText

(* A creation makes one resource, which is assigned at once.                 *)
LEMMA CleanCreate ==
  ASSUME TypeOK, CleanProgram, AtStep, phase = "body", Now.do = "create"
  PROVE  /\ Now.hold /\ \E r \in Now.on : Now.on = {r}
         /\ Now.on \subseteq Created(Block.body)
<1>1. step \in DOMAIN Block.body /\ Now = Block.body[step]
  BY BlockTyped DEF AtStep, Now, Steps, TypeOK
<1>2. QED
  BY <1>1, BlockClean DEF Disciplined, Created

(* A step of a cleanup leads to the next one, and only the last may throw.   *)
LEMMA CleanCleanup ==
  ASSUME TypeOK, CleanProgram, AtStep, phase = "cleanup"
  PROVE  /\ Now = Block.cleanup[step] /\ step \in DOMAIN Block.cleanup
         /\ Now.do \in {"delete", "call", "sweep", "host"}
         /\ Now.ok = 1
         /\ Now.fail = {1} \/ (step = Len(Block.cleanup) /\ Now.fail = {0})
<1>1. step \in DOMAIN Block.cleanup /\ Now = Block.cleanup[step]
  BY BlockTyped DEF AtStep, Now, Steps, TypeOK
<1>2. QED
  BY <1>1, BlockClean DEF Disciplined

(* The cleanup of a block has a deletion for all that its body creates.      *)
LEMMA CreatedIsDeleted ==
  ASSUME TypeOK, CleanProgram, NEW r \in Created(Block.body)
  PROVE  \E j \in DOMAIN Block.cleanup :
           /\ j \in Nat /\ j >= 1 /\ j <= Len(Block.cleanup)
           /\ Block.cleanup[j].do = "delete" /\ r \in Block.cleanup[j].on
<1>1. PICK j \in DOMAIN Block.cleanup :
           Block.cleanup[j].do = "delete" /\ r \in Block.cleanup[j].on
  BY BlockClean DEF Disciplined, Deleted
<1>2. Block.cleanup \in Seq(StepType)
  BY BlockTyped DEF Blocks
<1>3. QED
  BY <1>1, <1>2

LEMMA TendedInit == Init => AllTended
BY DEF Init, AllTended, Tended, Kinds

LEMMA IssueTended ==
  ASSUME CoreInv, AllTended, Issue, CleanProgram, NEW r \in Resources
  PROVE  Tended(r)'
<1> USE DEF CoreInv
<1>1. ~awaiting /\ AtStep /\ awaiting'
      /\ UNCHANGED <<prog, block, phase, step, thrown, exit, held>>
  BY DEF Issue
<1>2. Tended(r) /\ ~Creating(r)
  BY <1>1 DEF AllTended, Creating
<1>3. Now' = Now /\ Block' = Block /\ Running' = Running
  BY <1>1 DEF Now, Steps, Block, Running
<1>4. /\ call'["create"][r] =
           IF Now.do = "create" /\ r \in targets' THEN "asked" ELSE call["create"][r]
      /\ call'["delete"][r] =
           IF KindOf(Now.do) = "delete" /\ r \in targets' THEN "asked" ELSE call["delete"][r]
  BY DEF Issue, TypeOK, KindOf, Kinds
<1>5. CASE Now.do = "create" /\ r \in targets'
  <2>1. phase = "body"
    BY <1>1, <1>5, CleanCleanup DEF TypeOK
  <2>2. QED
    BY <1>1, <1>3, <1>4, <1>5, <2>1 DEF Tended, Creating
<1>6. CASE ~(Now.do = "create" /\ r \in targets')
  <2>1. call["create"][r] \notin {"asked", "backoff"}
    BY <1>2 DEF Tended
  <2> SUFFICES ASSUME call["create"][r] = "ok", call'["delete"][r] = "idle"
               PROVE  ToBeDeleted(r)'
    BY <1>4, <1>6, <2>1 DEF Tended
  <2>2. call["delete"][r] = "idle" /\ ToBeDeleted(r)
    BY <1>2, <1>4 DEF Tended
  <2>3. CASE phase = "body"
    BY <1>1, <1>3, <2>2, <2>3 DEF ToBeDeleted
  <2>4. CASE phase = "cleanup"
    <3>1. PICK j \in DOMAIN Block.cleanup : DeleteAhead(r, j)
      BY <2>2, <2>4 DEF ToBeDeleted
    <3>2. j # step
      <4> SUFFICES ASSUME j = step PROVE FALSE
        OBVIOUS
      <4>1. Now.do = "delete" /\ r \in Now.on /\ r \in held
        BY <1>1, <2>2, <2>4, <3>1, CleanCleanup DEF DeleteAhead, ToBeDeleted
      <4>2. r \in targets'
        BY <4>1 DEF Issue, Called
      <4>3. QED
        BY <1>4, <4>1, <4>2 DEF KindOf
    <3>3. j \in Nat /\ step \in Nat
      BY BlockTyped DEF Blocks, TypeOK
    <3>4. DeleteAhead(r, j)'
      BY <1>1, <1>3, <3>1, <3>2, <3>3 DEF DeleteAhead
    <3>5. QED
      BY <1>1, <1>3, <2>2, <2>4, <3>4 DEF ToBeDeleted
  <2>5. QED
    BY <2>3, <2>4 DEF TypeOK
<1>7. QED
  BY <1>5, <1>6

LEMMA SucceedTended ==
  ASSUME CoreInv, AllTended, Succeed, CleanProgram, NEW r \in Resources
  PROVE  Tended(r)'
<1> USE DEF CoreInv
<1>1. /\ AtStep /\ awaiting /\ ~awaiting' /\ step' = step + Now.ok
      /\ UNCHANGED <<prog, block, phase, thrown, exit>>
  BY DEF Succeed, Advance
<1>2. Tended(r) /\ Block' = Block /\ Running' /\ Running
  BY <1>1 DEF AllTended, Block, Running, AtStep
<1>3. call'["create"][r] = call["create"][r]
  BY ForgottenTyped DEF Succeed, Kinds
<1>4. call["delete"][r] # "idle" => call'["delete"][r] # "idle"
  BY ForgottenTyped DEF Succeed, Kinds
<1>5. \A k \in Kinds : r \in targets /\ KindOf(Now.do) = k => call[k][r] = "ok"
  BY DEF Succeed, Answered
<1>6. ~(call["create"][r] \in {"asked", "backoff"})
  BY <1>2, <1>5 DEF Tended, Creating, KindOf, Kinds
<1> SUFFICES ASSUME call["create"][r] = "ok", call["delete"][r] = "idle",
                    call'["delete"][r] = "idle"
             PROVE  ToBeDeleted(r)'
  BY <1>3, <1>4, <1>6 DEF Tended
<1>7. CASE Creating(r)
  <2>1. /\ phase = "body" /\ Now.do = "create" /\ r \in Now.on
    BY <1>7 DEF Creating, AwaitInv
  <2>2. r \in Acquired(Now) /\ r \in Created(Block.body)
    BY <1>1, <2>1, CleanCreate DEF Acquired
  <2>3. QED
    BY <1>1, <1>2, <2>1, <2>2 DEF ToBeDeleted, Succeed
<1>8. CASE ToBeDeleted(r)
  <2>1. r \in held'
    <3>1. ~(Now.do \in {"delete", "sweep"} /\ r \in targets)
      BY <1>5 DEF KindOf, Kinds
    <3>2. ~(Now.do = "keep" /\ r \in Now.on)
      BY ForgottenTyped DEF Succeed, Kinds
    <3>3. QED
      BY <1>8, <3>1, <3>2 DEF ToBeDeleted, Succeed, Released
  <2>2. CASE phase = "body"
    BY <1>1, <1>2, <1>8, <2>1, <2>2 DEF ToBeDeleted
  <2>3. CASE phase = "cleanup"
    <3>1. PICK j \in DOMAIN Block.cleanup : DeleteAhead(r, j)
      BY <1>8, <2>3 DEF ToBeDeleted
    <3>2. j \in Nat /\ step \in Nat
      BY BlockTyped DEF Blocks, TypeOK
    <3>3. step' = step + 1
      BY <1>1, <2>3, CleanCleanup
    <3>4. DeleteAhead(r, j)'
      BY <1>1, <1>2, <3>1, <3>2, <3>3 DEF DeleteAhead
    <3>5. QED
      BY <1>1, <1>2, <2>1, <2>3, <3>4 DEF ToBeDeleted
  <2>4. QED
    BY <2>2, <2>3 DEF TypeOK
<1>9. QED
  BY <1>2, <1>7, <1>8 DEF Tended

LEMMA FailTended ==
  ASSUME CoreInv, AllTended, Fail, CleanProgram, NEW r \in Resources
  PROVE  Tended(r)'
<1> USE DEF CoreInv
<1>1. /\ AtStep /\ awaiting /\ ~awaiting' /\ UNCHANGED <<prog, block, exit>>
  BY DEF Fail, Advance, Throw
<1>2. Tended(r) /\ Block' = Block /\ Running' /\ Running
  BY <1>1 DEF AllTended, Block, Running, AtStep
<1>3. call'["create"][r] = call["create"][r]
  BY ForgottenTyped DEF Fail, Kinds
<1>4. call["delete"][r] # "idle" => call'["delete"][r] # "idle"
  BY ForgottenTyped DEF Fail, Kinds
<1>5. Creating(r) => call["create"][r] = "failed"
  <2> SUFFICES ASSUME Creating(r) PROVE call["create"][r] = "failed"
    OBVIOUS
  <2>1. Now.do = "create" /\ targets = {r}
    BY <1>1, CleanCreate DEF Creating, AwaitInv
  <2>2. Answered("failed") # {}
    BY <2>1 DEF Fail
  <2>3. QED
    BY <2>1, <2>2 DEF Answered, KindOf
<1> SUFFICES ASSUME call["create"][r] = "ok", call["delete"][r] = "idle",
                    call'["delete"][r] = "idle", ToBeDeleted(r)
             PROVE  ToBeDeleted(r)'
  BY <1>2, <1>3, <1>4, <1>5 DEF Tended
<1>6. CASE 0 \in Now.fail /\ Throw
  <2>1. phase' = "cleanup" /\ held' = held
    BY <1>6 DEF Throw
  <2>2. phase = "body"
    <3> SUFFICES ASSUME phase = "cleanup" PROVE FALSE
      BY DEF TypeOK
    <3>1. step = Len(Block.cleanup)
      BY <1>1, <1>6, CleanCleanup
    <3>2. PICK j \in DOMAIN Block.cleanup : j > step
      BY <1>1 DEF ToBeDeleted, DeleteAhead
    <3>3. QED
      BY <3>1, <3>2, BlockTyped DEF Blocks
  <2>3. PICK j \in DOMAIN Block.cleanup :
           /\ j \in Nat /\ j >= 1
           /\ Block.cleanup[j].do = "delete" /\ r \in Block.cleanup[j].on
    BY <2>2, CreatedIsDeleted DEF ToBeDeleted
  <2>4. step' = 1
    BY <1>6, <2>2 DEF Throw
  <2>5. DeleteAhead(r, j)'
    BY <1>1, <1>2, <2>3, <2>4 DEF DeleteAhead
  <2>6. QED
    BY <1>2, <2>1, <2>5 DEF ToBeDeleted
<1>7. ASSUME NEW n \in Now.fail \ {0}, Advance(n), held' = Released(Now),
             Answered("ok") \cup Answered("failed") = targets
      PROVE  ToBeDeleted(r)'
  <2>1. r \in held'
    <3>1. ~(Now.do \in {"delete", "sweep"} /\ r \in targets)
      BY <1>7 DEF Answered, KindOf
    <3>2. Now.do # "keep"
      BY <1>1 DEF Fail, AwaitInv, Answered
    <3>3. QED
      BY <1>7, <3>1, <3>2 DEF ToBeDeleted, Released
  <2>2. UNCHANGED phase /\ step' = step + n
    BY <1>7 DEF Advance
  <2>3. CASE phase = "body"
    BY <1>2, <2>1, <2>2, <2>3 DEF ToBeDeleted
  <2>4. CASE phase = "cleanup"
    <3>1. PICK j \in DOMAIN Block.cleanup : DeleteAhead(r, j)
      BY <2>4 DEF ToBeDeleted
    <3>2. j \in Nat /\ step \in Nat
      BY BlockTyped DEF Blocks, TypeOK
    <3>3. step' = step + 1
      BY <1>1, <1>7, <2>2, <2>4, CleanCleanup
    <3>4. DeleteAhead(r, j)'
      BY <1>1, <1>2, <3>1, <3>2, <3>3 DEF DeleteAhead
    <3>5. QED
      BY <1>2, <2>1, <2>2, <2>4, <3>4 DEF ToBeDeleted
  <2>5. QED
    BY <2>3, <2>4 DEF TypeOK
<1>8. QED
  BY <1>6, <1>7 DEF Fail

LEMMA EndPhaseTended ==
  ASSUME CoreInv, AllTended, EndPhase, CleanProgram, NEW r \in Resources
  PROVE  Tended(r)'
<1> USE DEF CoreInv
<1>1. ~awaiting /\ ~awaiting' /\ Running /\ step > Len(Steps) /\ step' = 1
      /\ UNCHANGED <<prog, held, call>>
  BY DEF EndPhase
<1>2. Tended(r) /\ ~Creating(r)
  BY <1>1 DEF AllTended, Creating
<1> SUFFICES ASSUME ToBeDeleted(r) PROVE ToBeDeleted(r)'
  BY <1>1, <1>2 DEF Tended
<1>3. CASE phase = "body"
  <2>1. phase' = "cleanup" /\ UNCHANGED <<block, exit>>
    BY <1>3 DEF EndPhase
  <2>2. Block' = Block /\ Running'
    BY <1>1, <2>1 DEF Block, Running
  <2>3. PICK j \in DOMAIN Block.cleanup :
           /\ j \in Nat /\ j >= 1
           /\ Block.cleanup[j].do = "delete" /\ r \in Block.cleanup[j].on
    BY <1>3, CreatedIsDeleted DEF ToBeDeleted
  <2>4. DeleteAhead(r, j)'
    BY <1>1, <2>2, <2>3 DEF DeleteAhead
  <2>5. QED
    BY <1>1, <2>1, <2>2, <2>4 DEF ToBeDeleted
<1>4. CASE phase = "cleanup"
  <2>1. PICK j \in DOMAIN Block.cleanup : j >= step
    BY <1>4 DEF ToBeDeleted, DeleteAhead
  <2>2. Steps = Block.cleanup /\ Block.cleanup \in Seq(StepType) /\ step \in Nat
    BY <1>4, BlockTyped DEF Steps, Blocks, TypeOK
  <2>3. QED
    BY <1>1, <2>1, <2>2
<1>5. QED
  BY <1>3, <1>4 DEF TypeOK

(* Neither the calls nor the control plane move the program.                 *)
LEMMA PlaceKept ==
  ASSUME UNCHANGED control, NEW r
  PROVE  Creating(r)' = Creating(r) /\ ToBeDeleted(r)' = ToBeDeleted(r)
<1>1. Now' = Now /\ Block' = Block /\ Running' = Running
  BY DEF control, Now, Steps, Block, Running
<1>2. QED
  BY <1>1 DEF control, Creating, ToBeDeleted, DeleteAhead

LEMMA CallTended ==
  ASSUME CoreInv, AllTended, CleanProgram, NEW r \in Resources,
         NEW k \in Kinds, NEW x \in Resources,
         Accept(k, x) \/ Refuse(k, x) \/ LoseReply(k, x) \/ TryAgain(k, x)
  PROVE  Tended(r)'
<1> USE DEF CoreInv
<1>1. UNCHANGED control
  BY DEF Accept, Refuse, LoseReply, TryAgain, Rejected
<1>2. /\ call[k][x] \in {"asked", "backoff"}
      /\ \E o \in {"ok", "failed", "backoff", "asked"} : call' = [call EXCEPT ![k][x] = o]
  BY DEF Accept, Refuse, LoseReply, TryAgain, Rejected
<1>3. Tended(r) /\ (k = "create" => Tended(x))
  BY DEF AllTended
<1>4. \/ call'["create"][r] = call["create"][r]
      \/ k = "create" /\ x = r
  BY <1>2 DEF TypeOK, Kinds
<1>5. call["delete"][r] # "idle" => call'["delete"][r] # "idle"
  BY <1>2 DEF TypeOK, Kinds
<1>6. CASE k = "create" /\ x = r
  BY <1>1, <1>2, <1>3, <1>6, PlaceKept DEF Tended
<1>7. CASE call'["create"][r] = call["create"][r]
  BY <1>1, <1>3, <1>5, <1>7, PlaceKept DEF Tended
<1>8. QED
  BY <1>4, <1>6, <1>7

LEMMA TendedStep == CoreInv /\ AllTended /\ [Next]_vars => AllTended'
<1> SUFFICES ASSUME CoreInv, AllTended, [Next]_vars, CleanProgram', NEW r \in Resources
             PROVE  Tended(r)'
  BY DEF AllTended
<1>1. CleanProgram
  <2>1. prog' = prog
    BY DEF Next, Issue, Succeed, Fail, Advance, Throw, EndPhase, Accept, Refuse, LoseReply,
           TryAgain, Rejected, Becomes, Listen, Nudge, vars, control
  <2>2. QED
    BY <2>1 DEF CleanProgram
<1>2. CASE UNCHANGED <<control, call>>
  <2>1. Tended(r)
    BY <1>1 DEF AllTended
  <2>2. QED
    BY <1>2, <2>1, PlaceKept DEF Tended
<1>3. CASE Issue
  BY <1>1, <1>3, IssueTended
<1>4. CASE Succeed
  BY <1>1, <1>4, SucceedTended
<1>5. CASE Fail
  BY <1>1, <1>5, FailTended
<1>6. CASE EndPhase
  BY <1>1, <1>6, EndPhaseTended
<1>7. CASE \E k \in Kinds, x \in Resources :
             Accept(k, x) \/ Refuse(k, x) \/ LoseReply(k, x) \/ TryAgain(k, x)
  BY <1>1, <1>7, CallTended
<1>8. CASE \E x \in Resources :
             \/ Becomes(x, "pausing", "paused") \/ Becomes(x, "resuming", "up")
             \/ Listen(x) \/ Nudge(x)
  BY <1>2, <1>8 DEF Becomes, Listen, Nudge
<1>9. CASE UNCHANGED vars
  BY <1>2, <1>9 DEF vars
<1>10. QED
  BY <1>3, <1>4, <1>5, <1>6, <1>7, <1>8, <1>9 DEF Next

(* A program whose blocks clean up after themselves, over whatever resources *)
(* and however often its calls are refused, go unanswered or are retried,    *)
(* ends only once all it knows to have created was asked to be deleted.      *)
THEOREM NothingLeftCorrect == Spec => []NothingLeft
<1>1. Init => CoreInv /\ AllTended
  BY CoreInit, TendedInit
<1>2. CoreInv /\ AllTended /\ [Next]_vars => (CoreInv /\ AllTended)'
  BY CoreStep, TendedStep
<1>3. CoreInv /\ AllTended => NothingLeft
  <2> SUFFICES ASSUME CoreInv, CleanProgram, ~Running,
                      NEW r \in Resources, Tended(r), call["create"][r] = "ok"
               PROVE  call["delete"][r] # "idle"
    BY DEF NothingLeft, ReapsAll, AllTended
  <2>1. ~Creating(r)
    BY DEF Creating, CoreInv, AwaitInv, AtStep
  <2>2. ~ToBeDeleted(r)
    BY DEF ToBeDeleted
  <2>3. QED
    BY <2>1, <2>2 DEF Tended
<1>4. QED
  BY <1>1, <1>2, <1>3, PTL DEF Spec
=============================================================================
