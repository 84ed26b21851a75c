--------------------------- MODULE ProgramTextProofs ---------------------------
(***************************************************************************)
(* What follows for every run from the text of a program, for any programs *)
(* over any resources, with any number of attempts.                        *)
(***************************************************************************)
EXTENDS ProgramText, ResourceProgramsProofs

-----------------------------------------------------------------------------
(* Bases are deleted last *)

(* Nothing is under way for r, and if it was created it was asked to be       *)
(* deleted.                                                                  *)
Settled(r) ==
  /\ call["create"][r] \notin {"asked", "backoff"}
  /\ call["create"][r] = "ok" => call["delete"][r] # "idle"

(* The rest of the program creates bases only. *)
NoneToCome ==
  /\ phase = "body" => Created(Block.body) \subseteq Bases
  /\ \A c \in DOMAIN Programs[prog] : c > block => Created(Programs[prog][c].body) \subseteq Bases

(* Once a base was asked to be deleted the sandboxes are settled for good.   *)
BasesInv ==
  CleanProgram /\ (\E b \in Bases : call["delete"][b] # "idle") =>
    NoneToCome /\ \A r \in Resources \ Bases : Settled(r)

LEMMA BlockOrdered ==
  ASSUME TypeOK, CleanProgram, OrderedPrograms
  PROVE  /\ BasesLast(Programs[prog])
         /\ block \in DOMAIN Programs[prog] /\ Block = Programs[prog][block]
<1>1. prog \in CleanPrograms
  BY DEF CleanProgram
<1>2. block \in DOMAIN Programs[prog]
  BY TextTyped DEF TypeOK, ProgramText
<1>3. QED
  BY <1>1, <1>2 DEF OrderedPrograms, Block, ProgramText

(* At the step that deletes a base, all else that was created is deleted.    *)
LEMMA BasesIssue ==
  ASSUME CoreInv, AllTended, AllTended', BasesInv, Issue, CleanProgram, OrderedPrograms
  PROVE  BasesInv'
<1> USE DEF CoreInv
<1>1. /\ ~awaiting /\ AtStep /\ awaiting'
      /\ UNCHANGED <<prog, block, phase, step, thrown, exit, held>>
  BY DEF Issue
<1>2. Now' = Now /\ Block' = Block /\ Running' = Running /\ CleanProgram'
  BY <1>1 DEF Now, Steps, Block, Running, CleanProgram
<1>3. ASSUME NEW r \in Resources
      PROVE  /\ call'["create"][r] =
                  IF Now.do = "create" /\ r \in targets' THEN "asked" ELSE call["create"][r]
             /\ call'["delete"][r] =
                  IF KindOf(Now.do) = "delete" /\ r \in targets' THEN "asked" ELSE call["delete"][r]
  BY DEF Issue, TypeOK, KindOf, Kinds
<1>4. targets' \subseteq Now.on
  BY CalledTyped, <1>1 DEF Issue
<1>5. NoneToCome' = NoneToCome
  BY <1>1, <1>2 DEF NoneToCome
<1>6. CASE \E b \in Bases : call["delete"][b] # "idle"
  <2>1. NoneToCome /\ \A r \in Resources \ Bases : Settled(r)
    BY <1>6 DEF BasesInv
  <2>2. Now.do = "create" => Now.on \subseteq Bases
    <3> SUFFICES ASSUME Now.do = "create"
                 PROVE  Now.on \subseteq Bases
      OBVIOUS
    <3>1. phase = "body"
      BY <1>1, CleanCleanup DEF TypeOK
    <3>2. QED
      BY <1>1, <2>1, <3>1, CleanCreate DEF NoneToCome
  <2>3. ASSUME NEW r \in Resources \ Bases
        PROVE  Settled(r)'
    BY <1>3, <1>4, <2>1, <2>2 DEF Settled
  <2>4. QED
    BY <1>5, <2>1, <2>3 DEF BasesInv
<1>7. CASE ~ \E b \in Bases : call["delete"][b] # "idle"
  <2> SUFFICES ASSUME NEW b \in Bases, call'["delete"][b] # "idle"
               PROVE  NoneToCome /\ \A r \in Resources \ Bases : Settled(r)'
    BY <1>5 DEF BasesInv
  <2>1. b \in Resources
    BY ProgramsAssumption
  <2>2. KindOf(Now.do) = "delete" /\ b \in Now.on
    BY <1>3, <1>4, <1>7, <2>1
  <2>3. Now.do \in {"delete", "sweep"} /\ Now.on \cap Bases # {}
    BY <2>2 DEF KindOf
  <2>4. phase = "cleanup"
    <3> SUFFICES ASSUME phase = "body"
                 PROVE  FALSE
      BY DEF TypeOK
    <3>1. step \in DOMAIN Block.body /\ Now = Block.body[step]
      BY <1>1, BlockTyped DEF AtStep, Now, Steps, TypeOK
    <3>2. QED
      BY <2>3, <3>1, BlockOrdered DEF BasesLast
  <2>5. Now = Block.cleanup[step] /\ step \in DOMAIN Block.cleanup
    BY <1>1, <2>4, CleanCleanup
  <2>6. /\ \A i \in DOMAIN Block.cleanup :
             i >= step /\ Block.cleanup[i].do = "delete" => Block.cleanup[i].on \subseteq Bases
        /\ \A c \in DOMAIN Programs[prog] :
             c > block => Created(Programs[prog][c].body) \subseteq Bases
    BY <2>3, <2>5, BlockOrdered DEF BasesLast
  <2>7. NoneToCome
    BY <2>4, <2>6 DEF NoneToCome
  <2>8. ASSUME NEW r \in Resources \ Bases
        PROVE  Settled(r)'
    <3>1. Tended(r)'
      BY <1>2 DEF AllTended
    <3>2. ~ Creating(r)'
      BY <1>1, <2>4 DEF Creating
    <3>3. ~ ToBeDeleted(r)'
      <4> SUFFICES ASSUME NEW j \in DOMAIN Block.cleanup, DeleteAhead(r, j)'
                   PROVE  FALSE
        BY <1>1, <1>2, <2>4 DEF ToBeDeleted
      <4>1. j >= step /\ Block.cleanup[j].do = "delete" /\ r \in Block.cleanup[j].on
        BY <1>1, <1>2 DEF DeleteAhead
      <4>2. QED
        BY <2>6, <4>1
    <3>4. QED
      BY <3>1, <3>2, <3>3 DEF Tended, Settled
  <2>9. QED
    BY <2>7, <2>8
<1>8. QED
  BY <1>6, <1>7

(* A step that is over has not left a base behind on purpose.                *)
LEMMA BasesReturn ==
  ASSUME CoreInv, BasesInv, Succeed \/ Fail, CleanProgram, OrderedPrograms
  PROVE  BasesInv'
<1> USE DEF CoreInv
<1>1. /\ AtStep /\ UNCHANGED <<prog, block, exit>>
      /\ phase' \in {phase, "cleanup"}
  BY DEF Succeed, Fail, Advance, Throw
<1>2. Block' = Block
  BY <1>1 DEF Block
<1>3. /\ call'["create"] = call["create"]
      /\ \A r \in Resources : call["delete"][r] # "idle" => call'["delete"][r] # "idle"
  BY ForgottenTyped DEF Succeed, Fail, Kinds
<1>4. ASSUME NEW b \in Bases, call["delete"][b] = "idle"
      PROVE  call'["delete"][b] = "idle"
  <2>1. b \in Resources
    BY ProgramsAssumption
  <2>2. Forgotten["delete"][b] = "idle"
    BY <1>4, <2>1 DEF Forgotten, TypeOK, Kinds
  <2>3. ~ (Now.do = "keep" /\ b \in Now.on)
    <3> SUFFICES ASSUME Now.do = "keep"
                 PROVE  b \notin Now.on
      OBVIOUS
    <3>1. phase = "body"
      BY <1>1, CleanCleanup DEF TypeOK
    <3>2. step \in DOMAIN Block.body /\ Now = Block.body[step]
      BY <1>1, <3>1, BlockTyped DEF AtStep, Now, Steps, TypeOK
    <3>3. Now.on \cap Bases = {}
      BY <3>2, BlockOrdered DEF BasesLast
    <3>4. QED
      BY <3>3
  <2>4. QED
    BY <2>1, <2>2, <2>3, ForgottenTyped DEF Succeed, Fail, Kinds
<1>5. NoneToCome => NoneToCome'
  BY <1>1, <1>2 DEF NoneToCome
<1>6. \A r \in Resources : Settled(r) => Settled(r)'
  BY <1>3 DEF Settled
<1>7. QED
  BY <1>4, <1>5, <1>6 DEF BasesInv

LEMMA BasesEndPhase ==
  ASSUME CoreInv, BasesInv, EndPhase, CleanProgram, OrderedPrograms
  PROVE  BasesInv'
<1> USE DEF CoreInv
<1>1. UNCHANGED <<prog, call>>
  BY DEF EndPhase
<1>2. \A r \in Resources : Settled(r)' = Settled(r)
  BY <1>1 DEF Settled
<1>3. NoneToCome => NoneToCome'
  <2> SUFFICES ASSUME NoneToCome
               PROVE  NoneToCome'
    OBVIOUS
  <2>1. CASE phase' = "cleanup"
    <3>1. block' = block
      BY <2>1 DEF EndPhase
    <3>2. QED
      BY <1>1, <2>1, <3>1 DEF NoneToCome
  <2>2. CASE phase' = "body"
    <3>1. block' = block + 1
      BY <2>2 DEF EndPhase
    <3>2. Len(Programs[prog]) \in Nat /\ DOMAIN Programs[prog] = 1 .. Len(Programs[prog])
      BY TextTyped DEF TypeOK
    <3>3. block' \in DOMAIN Programs[prog]
      <4>1. block \in 1 .. Len(Programs[prog]) /\ block # Len(Programs[prog])
        BY <2>2 DEF EndPhase, TypeOK, ProgramText
      <4>2. QED
        BY <3>1, <3>2, <4>1
    <3>4. Block' = Programs[prog][block']
      BY <1>1 DEF Block, ProgramText
    <3>5. block \in Nat /\ block' > block /\ \A c \in DOMAIN Programs[prog] : c > block' => c > block
      BY <3>1, <3>2 DEF TypeOK, ProgramText
    <3>6. QED
      BY <1>1, <3>3, <3>4, <3>5 DEF NoneToCome
  <2>3. QED
    BY <2>1, <2>2 DEF EndPhase
<1>4. QED
  BY <1>1, <1>2, <1>3 DEF BasesInv

LEMMA BasesCall ==
  ASSUME CoreInv, BasesInv, CleanProgram, NEW k \in Kinds, NEW x \in Resources,
         Accept(k, x) \/ Refuse(k, x) \/ LoseReply(k, x) \/ TryAgain(k, x)
  PROVE  BasesInv'
<1> USE DEF CoreInv
<1>1. UNCHANGED <<prog, block, phase>>
  BY DEF Accept, Refuse, LoseReply, TryAgain, Rejected, control
<1>2. /\ call[k][x] \in {"asked", "backoff"}
      /\ \E o \in {"ok", "failed", "backoff", "asked"} : call' = [call EXCEPT ![k][x] = o]
  BY DEF Accept, Refuse, LoseReply, TryAgain, Rejected
<1>3. NoneToCome' = NoneToCome
  BY <1>1 DEF NoneToCome, Block
<1>4. \A r \in Resources : call'["delete"][r] = "idle" <=> call["delete"][r] = "idle"
  BY <1>2 DEF TypeOK, Kinds
<1>5. ASSUME NEW r \in Resources, Settled(r)
      PROVE  Settled(r)'
  <2>1. call'["create"][r] = call["create"][r]
    BY <1>2, <1>5 DEF Settled, TypeOK, Kinds
  <2>2. QED
    BY <1>4, <1>5, <2>1 DEF Settled
<1>6. Bases \subseteq Resources
  BY ProgramsAssumption
<1>7. QED
  BY <1>3, <1>4, <1>5, <1>6 DEF BasesInv

LEMMA BasesInit == Init => BasesInv
BY ProgramsAssumption DEF Init, BasesInv, Kinds

LEMMA BasesStep ==
  ASSUME OrderedPrograms, CoreInv, AllTended, AllTended', BasesInv, [Next]_vars
  PROVE  BasesInv'
<1>1. prog' = prog /\ CleanProgram' = CleanProgram
  BY DEF Next, Issue, Succeed, Fail, Advance, Throw, EndPhase, Accept, Refuse, LoseReply,
         TryAgain, Rejected, Becomes, Listen, Nudge, vars, control, CleanProgram
<1> SUFFICES ASSUME CleanProgram
             PROVE  BasesInv'
  BY <1>1 DEF BasesInv
<1>2. CASE UNCHANGED <<control, call>>
  BY <1>1, <1>2 DEF BasesInv, NoneToCome, Settled, Block, control
<1>3. CASE Issue
  BY <1>3, BasesIssue
<1>4. CASE Succeed \/ Fail
  BY <1>4, BasesReturn
<1>5. CASE EndPhase
  BY <1>5, BasesEndPhase
<1>6. CASE \E k \in Kinds, x \in Resources :
             Accept(k, x) \/ Refuse(k, x) \/ LoseReply(k, x) \/ TryAgain(k, x)
  BY <1>6, BasesCall
<1>7. CASE \E x \in Resources :
             \/ Becomes(x, "pausing", "paused") \/ Becomes(x, "resuming", "up")
             \/ Listen(x) \/ Nudge(x)
  BY <1>2, <1>7 DEF Becomes, Listen, Nudge
<1>8. CASE UNCHANGED vars
  BY <1>2, <1>8 DEF vars
<1>9. QED
  BY <1>3, <1>4, <1>5, <1>6, <1>7, <1>8 DEF Next

(* In a program that cleans up after itself and whose text deletes bases last, *)
(* a base is asked to be deleted only when every sandbox that was created was *)
(* asked to be before, and none is being created or will be: whichever calls  *)
(* are refused or lost on the way to the deletion.                           *)
THEOREM DependentsFirstCorrect ==
  ASSUME OrderedPrograms
  PROVE  Spec => []DependentsFirst
<1> DEFINE Inv == CoreInv /\ AllTended /\ BasesInv
<1>1. Init => Inv
  BY CoreInit, TendedInit, BasesInit
<1>2. Inv /\ [Next]_vars => Inv'
  BY CoreStep, TendedStep, BasesStep
<1>3. Inv => DependentsFirst
  BY DEF DependentsFirst, BasesInv, Settled
<1> HIDE DEF Inv
<1>4. QED
  BY <1>1, <1>2, <1>3, PTL DEF Spec

-----------------------------------------------------------------------------
(* What is known at each place *)

Confirming == {"create", "awaitRunning", "recover", "awaitPaused", "awaitPort"}

(* Without an error on its way up no call goes on that is not awaited: none   *)
(* of them was left behind by a Promise.all.                                 *)
QuietInv ==
  /\ thrown => phase = "cleanup"
  /\ Running /\ ~thrown =>
       /\ step <= Len(Steps) + 1
       /\ awaiting /\ Now.do \in Confirming => targets = Now.on
       /\ \A k \in Kinds, r \in Resources :
            call[k][r] \in {"asked", "backoff"} => awaiting /\ r \in targets /\ k = KindOf(Now.do)

(* What is known where the program is. *)
Outline(outlines) ==
  IF phase = "body" THEN outlines[prog][block].body ELSE outlines[prog][block].cleanup
Known(outlines) == Outline(outlines)[step]

Outlined(outlines) == \A p \in DOMAIN Programs : Outlines(outlines[p], Programs[p])

Among(f, R) ==
  [up |-> f.up \cap R, paused |-> f.paused \cap R, listening |-> f.listening \cap R]

Holds(f) ==
  /\ \A r \in f.up : box[r] = "up" \/ r \in misled
  /\ \A r \in f.paused : box[r] = "paused"
  /\ \A r \in f.listening : serving[r] = "listening"

(* It holds; during a step what the step does not touch is, and what the    *)
(* calls show that have been answered.                                       *)
KnownInv(outlines) ==
  Running /\ ~thrown =>
    IF awaiting THEN Holds(KeptBy(Now, Known(outlines))) /\ Holds(Among(GainedBy(Now), Answered("ok")))
    ELSE Holds(Known(outlines))

LEMMA OutlineHere ==
  ASSUME TypeOK, NEW outlines, Outlined(outlines)
  PROVE  /\ StepsOutlined(Steps, Outline(outlines))
         /\ StepsOutlined(Block.cleanup, outlines[prog][block].cleanup)
         /\ phase = "body" =>
              \A j \in DOMAIN Steps : Supported(Steps[j], Outline(outlines)[j])
         /\ phase = "cleanup" => \A j \in DOMAIN Steps : Steps[j].do \notin {"fetch", "create"}
<1>1. prog \in DOMAIN Programs /\ block \in DOMAIN Programs[prog] /\ Block = Programs[prog][block]
  BY TextTyped DEF TypeOK, ProgramText, Block
<1>2. Outlines(outlines[prog], Programs[prog])
  BY <1>1 DEF Outlined
<1>3. /\ StepsOutlined(Block.body, outlines[prog][block].body)
      /\ StepsOutlined(Block.cleanup, outlines[prog][block].cleanup)
      /\ \A j \in DOMAIN Block.body : Supported(Block.body[j], outlines[prog][block].body[j])
      /\ \A j \in DOMAIN Block.cleanup : Block.cleanup[j].do \notin {"fetch", "create"}
  BY <1>1, <1>2 DEF Outlines
<1>4. CASE phase = "body"
  BY <1>3, <1>4 DEF Steps, Outline
<1>5. CASE phase = "cleanup"
  BY <1>3, <1>5 DEF Steps, Outline
<1>6. QED
  BY <1>4, <1>5 DEF TypeOK

(* Where a step leads to, its outline has an entry that follows.             *)
LEMMA NowOutlined ==
  ASSUME TypeOK, AtStep, NEW outlines, Outlined(outlines)
  PROVE  /\ Known(outlines) \in Facts
         /\ Now.do # "raise" =>
              /\ step + Now.ok <= Len(Steps) + 1
              /\ Implies(After(Now, Known(outlines)), Outline(outlines)[step + Now.ok])
         /\ \A n \in Now.fail \ {0} :
              /\ step + n <= Len(Steps) + 1
              /\ Implies(KeptBy(Now, Known(outlines)), Outline(outlines)[step + n])
         /\ phase = "body" => Supported(Now, Known(outlines))
         /\ phase = "cleanup" => Now.do \notin {"fetch", "create"}
<1>1. step \in DOMAIN Steps /\ step \in 1 .. Len(Steps) + 1 /\ Now = Steps[step]
  BY BlockTyped DEF AtStep, Now, TypeOK
<1>2. StepsOutlined(Steps, Outline(outlines))
  BY OutlineHere
<1>3. Known(outlines) \in Facts
  BY <1>1, <1>2 DEF StepsOutlined, Known
<1>4. /\ Now.do # "raise" =>
           /\ step + Now.ok <= Len(Steps) + 1
           /\ Implies(After(Now, Known(outlines)), Outline(outlines)[step + Now.ok])
      /\ \A n \in Now.fail \ {0} :
           /\ step + n <= Len(Steps) + 1
           /\ Implies(KeptBy(Now, Known(outlines)), Outline(outlines)[step + n])
  BY <1>1, <1>2 DEF StepsOutlined, Known
<1>5. /\ phase = "body" => Supported(Now, Known(outlines))
      /\ phase = "cleanup" => Now.do \notin {"fetch", "create"}
  BY <1>1, OutlineHere DEF Known
<1>6. QED
  BY <1>3, <1>4, <1>5

-----------------------------------------------------------------------------
(* No call goes on unawaited *)

LEMMA QuietInit == Init => QuietInv
<1> SUFFICES ASSUME Init
             PROVE  QuietInv
  OBVIOUS
<1>1. Steps \in Seq(StepType)
  BY CoreInit, BlockTyped DEF CoreInv
<1>2. step <= Len(Steps) + 1
  BY <1>1 DEF Init
<1>3. QED
  BY <1>2 DEF Init, QuietInv, Kinds

LEMMA QuietIssue ==
  ASSUME CoreInv, QuietInv, Issue
  PROVE  QuietInv'
<1> USE DEF CoreInv
<1>1. /\ ~awaiting /\ AtStep /\ awaiting' /\ Running
      /\ UNCHANGED <<prog, block, phase, step, thrown, exit, held>>
  BY DEF Issue, AtStep
<1>2. Now' = Now /\ Steps' = Steps /\ Running' = Running
  BY <1>1 DEF Now, Steps, Block, Running
<1>3. Now.do \in Confirming => targets' = Now.on
  BY <1>1, NowFields DEF Issue, Called, Confirming
<1>4. ASSUME NEW k \in Kinds, NEW r \in Resources
      PROVE  call'[k][r] = IF k = KindOf(Now.do) /\ r \in targets' THEN "asked" ELSE call[k][r]
  BY <1>1, NowFields DEF Issue, TypeOK
<1>5. QED
  BY <1>1, <1>2, <1>3, <1>4 DEF QuietInv

LEMMA QuietReturn ==
  ASSUME CoreInv, QuietInv, Succeed \/ Fail, NEW outlines, Outlined(outlines)
  PROVE  QuietInv'
<1> USE DEF CoreInv
<1>1. /\ AtStep /\ Running /\ ~awaiting' /\ UNCHANGED <<prog, block, exit>>
      /\ \A k \in Kinds, r \in Resources : call'[k][r] \in {"asked", "backoff"} => call'[k][r] = call[k][r]
  <2>1. /\ AtStep /\ Running /\ ~awaiting' /\ UNCHANGED <<prog, block, exit>>
    BY DEF Succeed, Fail, Advance, Throw, AtStep
  <2>2. \A k \in Kinds, r \in Resources : Forgotten[k][r] \in {"asked", "backoff"} => Forgotten[k][r] = call[k][r]
    BY DEF Forgotten, TypeOK, Kinds
  <2>3. \A k \in Kinds, r \in Resources : call'[k][r] \in {Forgotten[k][r], "done"}
    BY ForgottenTyped DEF Succeed, Fail, Kinds
  <2>4. QED
    BY <2>1, <2>2, <2>3
<1>2. CASE phase' = "cleanup" /\ thrown'
  BY <1>2 DEF QuietInv
<1>3. ASSUME UNCHANGED <<phase, thrown>>, Answered("ok") \cup Answered("failed") = targets,
             step' <= Len(Steps) + 1
      PROVE  QuietInv'
  <2> SUFFICES ASSUME ~ thrown
               PROVE  QuietInv'
    BY <1>3 DEF QuietInv
  <2>1. \A k \in Kinds, r \in Resources : call[k][r] \notin {"asked", "backoff"}
    BY <1>1, <1>3 DEF QuietInv, Answered
  <2>2. Steps' = Steps
    BY <1>1, <1>3 DEF Steps, Block
  <2>3. QED
    BY <1>1, <1>3, <2>1, <2>2 DEF QuietInv
<1>4. CASE Succeed
  <2>1. UNCHANGED <<phase, thrown>> /\ Answered("ok") = targets /\ Now.do # "raise" /\ step' = step + Now.ok
    BY <1>4 DEF Succeed, Advance
  <2>2. Answered("ok") \cup Answered("failed") = targets
    BY <2>1 DEF Answered
  <2>3. QED
    BY <1>1, <1>3, <2>1, <2>2, NowOutlined
<1>5. CASE Fail
  <2>1. CASE Throw
    BY <1>2, <2>1 DEF Throw
  <2>2. ASSUME NEW n \in Now.fail \ {0}, Advance(n),
               Answered("ok") \cup Answered("failed") = targets
        PROVE  QuietInv'
    <3>1. UNCHANGED <<phase, thrown>> /\ step' = step + n
      BY <2>2 DEF Advance
    <3>2. QED
      BY <1>1, <1>3, <2>2, <3>1, NowOutlined
  <2>3. QED
    BY <1>5, <2>1, <2>2 DEF Fail
<1>6. QED
  BY <1>4, <1>5

LEMMA QuietEndPhase ==
  ASSUME CoreInv, CoreInv', QuietInv, EndPhase
  PROVE  QuietInv'
<1>1. Running /\ ~awaiting /\ ~awaiting' /\ step' = 1 /\ UNCHANGED <<thrown, call>>
  BY DEF EndPhase
<1>2. thrown => phase' = "cleanup"
  BY DEF EndPhase, QuietInv
<1>3. step' <= Len(Steps') + 1
  <2>1. prog' \in DOMAIN Programs /\ block' \in 1 .. Len(Programs[prog'])
    BY DEF CoreInv, TypeOK, ProgramText
  <2>2. Programs[prog'][block'] \in Blocks
    BY <2>1, TextTyped
  <2>3. Steps' \in Seq(StepType)
    BY <2>2 DEF Steps, Block, ProgramText, Blocks
  <2>4. QED
    BY <1>1, <2>3
<1>4. QED
  BY <1>1, <1>2, <1>3 DEF QuietInv

LEMMA QuietCall ==
  ASSUME CoreInv, QuietInv, NEW k \in Kinds, NEW x \in Resources,
         Accept(k, x) \/ Refuse(k, x) \/ LoseReply(k, x) \/ TryAgain(k, x)
  PROVE  QuietInv'
<1> USE DEF CoreInv
<1>1. UNCHANGED control
  BY DEF Accept, Refuse, LoseReply, TryAgain, Rejected
<1>2. /\ call[k][x] \in {"asked", "backoff"}
      /\ \E o \in {"ok", "failed", "backoff", "asked"} : call' = [call EXCEPT ![k][x] = o]
  BY DEF Accept, Refuse, LoseReply, TryAgain, Rejected
<1>3. \A m \in Kinds, r \in Resources :
        call'[m][r] \in {"asked", "backoff"} => call[m][r] \in {"asked", "backoff"}
  BY <1>2 DEF TypeOK
<1>4. Now' = Now /\ Steps' = Steps /\ Running' = Running
  BY <1>1 DEF control, Now, Steps, Block, Running
<1>5. QED
  BY <1>1, <1>3, <1>4 DEF QuietInv, control

LEMMA QuietStep ==
  ASSUME CoreInv, CoreInv', QuietInv, [Next]_vars, NEW outlines, Outlined(outlines)
  PROVE  QuietInv'
<1>1. CASE UNCHANGED <<control, call>>
  BY <1>1 DEF QuietInv, Now, Steps, Block, Running, control
<1>2. CASE Issue
  BY <1>2, QuietIssue
<1>3. CASE Succeed \/ Fail
  BY <1>3, QuietReturn
<1>4. CASE EndPhase
  BY <1>4, QuietEndPhase
<1>5. CASE \E k \in Kinds, x \in Resources :
             Accept(k, x) \/ Refuse(k, x) \/ LoseReply(k, x) \/ TryAgain(k, x)
  BY <1>5, QuietCall
<1>6. CASE \E x \in Resources :
             \/ Becomes(x, "pausing", "paused") \/ Becomes(x, "resuming", "up")
             \/ Listen(x) \/ Nudge(x)
  BY <1>1, <1>6 DEF Becomes, Listen, Nudge
<1>7. CASE UNCHANGED vars
  BY <1>1, <1>7 DEF vars
<1>8. QED
  BY <1>2, <1>3, <1>4, <1>5, <1>6, <1>7 DEF Next

-----------------------------------------------------------------------------
(* What is known holds *)

LEMMA KnownInit ==
  ASSUME Init, NEW outlines, Outlined(outlines)
  PROVE  KnownInv(outlines)
<1>1. prog \in DOMAIN Programs /\ 1 \in DOMAIN Programs[prog]
  BY TextTyped DEF Init
<1>2. Known(outlines) = NoFacts
  BY <1>1 DEF Init, Known, Outline, Outlined, Outlines
<1>3. QED
  BY <1>2 DEF Init, KnownInv, Holds, NoFacts

LEMMA KnownIssue ==
  ASSUME CoreInv, Issue, NEW outlines, Outlined(outlines), KnownInv(outlines)
  PROVE  KnownInv(outlines)'
<1> USE DEF CoreInv
<1>1. /\ ~awaiting /\ AtStep /\ awaiting' /\ Running
      /\ UNCHANGED <<prog, block, phase, step, thrown, exit, held, box, serving, misled>>
  BY DEF Issue, AtStep, server
<1>2. Now' = Now /\ Running' = Running /\ Known(outlines)' = Known(outlines)
  BY <1>1 DEF Now, Steps, Block, Running, Known, Outline
<1> SUFFICES ASSUME ~ thrown
             PROVE  Holds(KeptBy(Now, Known(outlines)))' /\ Holds(Among(GainedBy(Now), Answered("ok")))'
  BY <1>1, <1>2 DEF KnownInv
<1>3. Holds(Known(outlines))
  BY <1>1 DEF KnownInv
<1>4. Holds(KeptBy(Now, Known(outlines)))'
  BY <1>1, <1>2, <1>3 DEF Holds, KeptBy
<1>5. Answered("ok")' = {}
  <2>1. \A r \in targets' : call'[KindOf(Now.do)][r] = "asked"
    BY <1>1, CalledTyped, NowFields DEF Issue, TypeOK
  <2>2. QED
    BY <1>2, <2>1 DEF Answered
<1>6. Holds(Among(GainedBy(Now), Answered("ok")))'
  BY <1>5 DEF Holds, Among
<1>7. QED
  BY <1>4, <1>6

LEMMA KnownReturn ==
  ASSUME CoreInv, QuietInv, Succeed \/ Fail, NEW outlines, Outlined(outlines), KnownInv(outlines)
  PROVE  KnownInv(outlines)'
<1> USE DEF CoreInv
<1> DEFINE f == Known(outlines)
<1>1. /\ AtStep /\ Running /\ awaiting /\ ~awaiting'
      /\ UNCHANGED <<prog, block, exit, box, serving, misled>>
  BY DEF Succeed, Fail, Advance, Throw, AtStep, server
<1>2. ~ thrown => Holds(KeptBy(Now, f)) /\ Holds(Among(GainedBy(Now), Answered("ok")))
  BY <1>1 DEF KnownInv
<1> HIDE DEF f
<1>3. CASE Succeed
  <2>1. /\ UNCHANGED <<phase, thrown>> /\ step' = step + Now.ok
        /\ Answered("ok") = targets /\ Now.do # "raise"
    BY <1>3 DEF Succeed, Advance
  <2> SUFFICES ASSUME ~ thrown
               PROVE  Holds(Known(outlines))'
    BY <1>1, <2>1 DEF KnownInv
  <2>2. Known(outlines)' = Outline(outlines)[step + Now.ok]
    BY <1>1, <2>1 DEF Known, Outline
  <2>3. Implies(After(Now, f), Known(outlines)')
    BY <1>1, <2>1, <2>2, NowOutlined DEF f
  <2>4. Now.do \in Confirming => Answered("ok") = Now.on
    BY <1>1, <2>1 DEF QuietInv
  <2>5. Among(GainedBy(Now), Answered("ok")) = GainedBy(Now)
    BY <2>4 DEF Among, GainedBy, Confirming
  <2>6. Holds(After(Now, f))
    BY <1>2, <2>5 DEF Holds, After, Both
  <2>7. QED
    BY <1>1, <2>3, <2>6 DEF Holds, Implies
<1>4. CASE Fail
  <2>1. CASE Throw
    BY <2>1 DEF KnownInv, Throw
  <2>2. ASSUME NEW n \in Now.fail \ {0}, Advance(n)
        PROVE  KnownInv(outlines)'
    <3>1. UNCHANGED <<phase, thrown>> /\ step' = step + n
      BY <2>2 DEF Advance
    <3> SUFFICES ASSUME ~ thrown
                 PROVE  Holds(Known(outlines))'
      BY <1>1, <3>1 DEF KnownInv
    <3>2. Known(outlines)' = Outline(outlines)[step + n]
      BY <1>1, <3>1 DEF Known, Outline
    <3>3. Implies(KeptBy(Now, f), Known(outlines)')
      BY <1>1, <2>2, <3>2, NowOutlined DEF f
    <3>4. QED
      BY <1>1, <1>2, <3>3 DEF Holds, Implies
  <2>3. QED
    BY <1>4, <2>1, <2>2 DEF Fail
<1>5. QED
  BY <1>3, <1>4

(* From a body into its cleanup, and from there into the next body.          *)
LEMMA KnownEndPhase ==
  ASSUME CoreInv, QuietInv, EndPhase, NEW outlines, Outlined(outlines), KnownInv(outlines)
  PROVE  KnownInv(outlines)'
<1> USE DEF CoreInv
<1>1. /\ ~awaiting /\ ~awaiting' /\ Running /\ step > Len(Steps) /\ step' = 1
      /\ UNCHANGED <<prog, thrown, box, serving, misled>>
  BY DEF EndPhase, server
<1> SUFFICES ASSUME Running', ~ thrown
             PROVE  Holds(Known(outlines))'
  BY <1>1 DEF KnownInv
<1>2. step = Len(Steps) + 1
  BY <1>1, BlockTyped DEF QuietInv, TypeOK
<1>3. Holds(Outline(outlines)[Len(Steps) + 1])
  BY <1>1, <1>2 DEF KnownInv, Known
<1>4. /\ prog \in DOMAIN Programs /\ block \in DOMAIN Programs[prog]
      /\ Block = Programs[prog][block] /\ Outlines(outlines[prog], Programs[prog])
  BY TextTyped DEF TypeOK, ProgramText, Block, Outlined
<1>5. CASE phase = "body"
  <2>1. phase' = "cleanup" /\ UNCHANGED block
    BY <1>5 DEF EndPhase
  <2>2. Known(outlines)' = outlines[prog][block].cleanup[1]
    BY <1>1, <2>1 DEF Known, Outline
  <2>3. Implies(outlines[prog][block].body[Len(Block.body) + 1], outlines[prog][block].cleanup[1])
    BY <1>4 DEF Outlines
  <2>4. Implies(Outline(outlines)[Len(Steps) + 1], Known(outlines)')
    BY <1>5, <2>2, <2>3 DEF Outline, Steps
  <2>5. QED
    BY <1>1, <1>3, <2>4 DEF Holds, Implies
<1>6. CASE phase = "cleanup"
  <2>1. phase' = "body" /\ block' = block + 1 /\ block # Len(Programs[prog])
    BY <1>6 DEF EndPhase, Running, ProgramText
  <2>2. block + 1 \in DOMAIN Programs[prog]
    BY <1>4, <2>1, TextTyped
  <2>3. Known(outlines)' = outlines[prog][block + 1].body[1]
    BY <1>1, <2>1 DEF Known, Outline
  <2>4. Implies(outlines[prog][block].cleanup[Len(Block.cleanup) + 1],
                outlines[prog][block + 1].body[1])
    BY <1>4, <2>2 DEF Outlines
  <2>5. Implies(Outline(outlines)[Len(Steps) + 1], Known(outlines)')
    BY <1>6, <2>3, <2>4 DEF Outline, Steps
  <2>6. QED
    BY <1>1, <1>3, <2>5 DEF Holds, Implies
<1>7. QED
  BY <1>5, <1>6 DEF TypeOK

(* The control plane acts on sandboxes of the present step only, and moves    *)
(* only those that the step moves.                                           *)
LEMMA KnownCall ==
  ASSUME CoreInv, QuietInv, NEW k \in Kinds, NEW x \in Resources,
         Accept(k, x) \/ Refuse(k, x) \/ LoseReply(k, x) \/ TryAgain(k, x),
         NEW outlines, Outlined(outlines), KnownInv(outlines)
  PROVE  KnownInv(outlines)'
<1> USE DEF CoreInv
<1>1. UNCHANGED control /\ Running /\ call[k][x] \in {"asked", "backoff"}
  BY DEF Accept, Refuse, LoseReply, TryAgain, Rejected
<1>2. Now' = Now /\ Running' = Running /\ Known(outlines)' = Known(outlines)
      /\ UNCHANGED <<awaiting, targets, thrown>>
  BY <1>1 DEF control, Now, Steps, Block, Running, Known, Outline
<1> SUFFICES ASSUME ~ thrown
             PROVE  KnownInv(outlines)'
  BY <1>2 DEF KnownInv
<1>3. awaiting /\ x \in targets /\ k = KindOf(Now.do) /\ x \in Now.on /\ Awaited(x) = Now /\ AtStep
  BY <1>1 DEF QuietInv, AwaitInv, Awaited
<1> DEFINE f == KeptBy(Now, Known(outlines))
           g == GainedBy(Now)
           Good == Answered("ok")
<1>4. Holds(f) /\ Holds(Among(g, Good))
  BY <1>1, <1>3 DEF KnownInv
<1>5. misled \subseteq misled'
  BY DEF Accept, Refuse, LoseReply, TryAgain, server
<1>6. ASSUME NEW r \in Resources, r # x
      PROVE  box'[r] = box[r] /\ serving'[r] = serving[r]
  BY <1>6 DEF Accept, Refuse, LoseReply, TryAgain, server, Effect, TypeOK
<1>7. x \notin Moves(Now) => box'[x] = box[x]
  BY <1>3 DEF Moves, KindOf, Accept, Refuse, LoseReply, TryAgain, server, Effect, Worked, TypeOK, Kinds
<1>8. x \notin Boots(Now) => serving'[x] = serving[x]
  BY <1>3 DEF Boots, Accept, Refuse, LoseReply, TryAgain, server, Effect, TypeOK, Kinds
<1>9. /\ Now.on \subseteq Resources /\ targets \subseteq Now.on
      /\ Known(outlines) \in Facts
  BY <1>3, NowFields, NowOutlined DEF AwaitInv
<1>10. Holds(f)'
  <2>1. /\ \A r \in f.up \cup f.paused : r \in Resources /\ r \notin Moves(Now)
        /\ \A r \in f.listening : r \in Resources /\ r \notin Boots(Now)
    BY <1>9 DEF KeptBy, Facts
  <2>2. /\ \A r \in f.up \cup f.paused : box'[r] = box[r]
        /\ \A r \in f.listening : serving'[r] = serving[r]
    BY <1>6, <1>7, <1>8, <2>1
  <2>3. f' = f
    BY <1>2 DEF KeptBy, Moves, Boots
  <2> HIDE DEF f
  <2>4. QED
    BY <1>4, <1>5, <2>2, <2>3 DEF Holds
<1>11. Holds(Among(g, Good))'
  <2>1. g' = g /\ Good' = {r \in targets : call'[k][r] = "ok"}
    BY <1>2, <1>3 DEF GainedBy, Answered
  <2>2. \A r \in Good' : r \in Resources
    BY <1>9, <2>1
  <2>3. ASSUME NEW r \in Good', r # x
        PROVE  r \in Good /\ box'[r] = box[r] /\ serving'[r] = serving[r]
    <3>1. call'[k][r] = call[k][r]
      BY <2>2, <2>3 DEF Accept, Refuse, LoseReply, TryAgain, Rejected, TypeOK
    <3>2. QED
      BY <1>3, <1>6, <2>1, <2>2, <2>3, <3>1 DEF Answered
  <2>4. ASSUME x \in Good'
        PROVE  Accept(k, x)
    <3>1. call'[k][x] = "ok"
      BY <2>1, <2>4
    <3>2. QED
      BY <3>1 DEF Refuse, LoseReply, TryAgain, Rejected, TypeOK
  <2>5. ASSUME x \in Good'
        PROVE  /\ x \in g.up => box'[x] = "up" \/ x \in misled
               /\ x \in g.paused => box'[x] = "paused"
               /\ x \in g.listening => serving'[x] = "listening"
    <3>1. Able(k, x) /\ Effect(k, x)
      BY <2>4, <2>5 DEF Accept
    <3>2. CASE Now.do = "create"
      BY <1>3, <3>1, <3>2 DEF GainedBy, KindOf, Effect, TypeOK
    <3>3. CASE Now.do \in {"awaitRunning", "recover", "awaitPaused", "awaitPort"}
      BY <1>3, <3>1, <3>3 DEF GainedBy, KindOf, Able, Effect, Worked, TypeOK
    <3>4. CASE Now.do \notin {"create", "awaitRunning", "recover", "awaitPaused", "awaitPort"}
      BY <3>4 DEF GainedBy
    <3>5. QED
      BY <3>2, <3>3, <3>4
  <2> HIDE DEF g, Good
  <2>6. /\ \A r \in g.up \cap Good' : box'[r] = "up" \/ r \in misled'
        /\ \A r \in g.paused \cap Good' : box'[r] = "paused"
        /\ \A r \in g.listening \cap Good' : serving'[r] = "listening"
    BY <1>4, <1>5, <2>3, <2>5 DEF Holds, Among
  <2>7. QED
    BY <2>1, <2>6 DEF Holds, Among
<1> HIDE DEF f, g, Good
<1>12. QED
  BY <1>2, <1>3, <1>10, <1>11 DEF KnownInv, f, g, Good

(* On its own the control plane completes what was begun; only the loop that  *)
(* recovers a sandbox moves one that has come to rest, the one it waits for. *)
LEMMA KnownServer ==
  ASSUME CoreInv, QuietInv, NEW x \in Resources,
         \/ Becomes(x, "pausing", "paused") \/ Becomes(x, "resuming", "up")
         \/ Listen(x) \/ Nudge(x),
         NEW outlines, Outlined(outlines), KnownInv(outlines)
  PROVE  KnownInv(outlines)'
<1> USE DEF CoreInv
<1>1. UNCHANGED <<control, call, misled>>
  BY DEF Becomes, Listen, Nudge
<1>2. /\ Now' = Now /\ Running' = Running /\ Known(outlines)' = Known(outlines)
      /\ Answered("ok")' = Answered("ok") /\ UNCHANGED <<awaiting, targets, thrown, misled>>
  BY <1>1 DEF control, Now, Steps, Block, Running, Known, Outline, Answered
<1> SUFFICES ASSUME Running, ~ thrown
             PROVE  KnownInv(outlines)'
  BY <1>2 DEF KnownInv
<1> DEFINE Undisturbed(f) ==
             /\ \A r \in f.up : r \in Resources /\ (box[r] = "up" => box'[r] = "up")
             /\ \A r \in f.paused : r \in Resources /\ (box[r] = "paused" => box'[r] = "paused")
             /\ \A r \in f.listening :
                  r \in Resources /\ (serving[r] = "listening" => serving'[r] = "listening")
<1>3. /\ awaiting => /\ AtStep /\ targets \subseteq Now.on /\ Now.on \subseteq Resources
                     /\ Known(outlines) \in Facts
      /\ ~ awaiting => Known(outlines) \in Facts
  <2>1. awaiting => AtStep /\ targets \subseteq Now.on
    BY DEF AwaitInv
  <2>2. awaiting => Now.on \subseteq Resources
    BY <2>1, NowFields
  <2>3. step \in 1 .. Len(Steps) + 1
    BY BlockTyped DEF QuietInv, TypeOK
  <2>4. Known(outlines) \in Facts
    BY <2>3, OutlineHere DEF StepsOutlined, Known
  <2>5. QED
    BY <2>1, <2>2, <2>4
<1>4. CASE ~ Nudge(x)
  <2>1. \A r \in Resources :
          /\ box[r] = "up" => box'[r] = "up"
          /\ box[r] = "paused" => box'[r] = "paused"
          /\ serving[r] = "listening" => serving'[r] = "listening"
    BY <1>4 DEF Becomes, Listen, TypeOK
  <2>2. CASE awaiting
    <3>1. Undisturbed(KeptBy(Now, Known(outlines)))
      BY <1>3, <2>1, <2>2 DEF KeptBy, Facts
    <3>2. Undisturbed(Among(GainedBy(Now), Answered("ok")))
      BY <1>3, <2>1, <2>2 DEF Among, GainedBy
    <3>3. Holds(KeptBy(Now, Known(outlines)))'
      BY <1>2, <2>2, <3>1 DEF KnownInv, Holds, KeptBy, Moves, Boots
    <3>4. Holds(Among(GainedBy(Now), Answered("ok")))'
      BY <1>2, <2>2, <3>2 DEF KnownInv, Holds, Among, GainedBy
    <3>5. QED
      BY <1>2, <2>2, <3>3, <3>4 DEF KnownInv
  <2>3. CASE ~ awaiting
    <3>1. Undisturbed(Known(outlines))
      BY <1>3, <2>1, <2>3 DEF Facts
    <3>2. QED
      BY <1>2, <2>3, <3>1 DEF KnownInv, Holds
  <2>4. QED
    BY <2>2, <2>3
<1>5. CASE Nudge(x)
  <2>1. /\ awaiting /\ Now.do = "recover" /\ x \in Now.on /\ box[x] = "paused"
        /\ UNCHANGED serving /\ \A r \in Resources \ {x} : box'[r] = box[r]
    BY <1>3, <1>5 DEF Nudge, Becomes, TypeOK
  <2>2. Undisturbed(KeptBy(Now, Known(outlines)))
    BY <1>3, <2>1 DEF KeptBy, Facts, Moves, Boots
  <2>3. Undisturbed(Among(GainedBy(Now), Answered("ok")))
    BY <1>3, <2>1 DEF Among, GainedBy
  <2>4. Holds(KeptBy(Now, Known(outlines)))'
    BY <1>2, <2>1, <2>2 DEF KnownInv, Holds, KeptBy, Moves, Boots
  <2>5. Holds(Among(GainedBy(Now), Answered("ok")))'
    BY <1>2, <2>1, <2>3 DEF KnownInv, Holds, Among, GainedBy
  <2>6. QED
    BY <1>2, <2>1, <2>4, <2>5 DEF KnownInv
<1>6. QED
  BY <1>4, <1>5

LEMMA KnownStep ==
  ASSUME CoreInv, QuietInv, [Next]_vars,
         NEW outlines, Outlined(outlines), KnownInv(outlines)
  PROVE  KnownInv(outlines)'
<1>1. CASE Issue
  BY <1>1, KnownIssue
<1>2. CASE Succeed \/ Fail
  BY <1>2, KnownReturn
<1>3. CASE EndPhase
  BY <1>3, KnownEndPhase
<1>4. CASE \E k \in Kinds, x \in Resources :
             Accept(k, x) \/ Refuse(k, x) \/ LoseReply(k, x) \/ TryAgain(k, x)
  BY <1>4, KnownCall
<1>5. CASE \E x \in Resources :
             \/ Becomes(x, "pausing", "paused") \/ Becomes(x, "resuming", "up")
             \/ Listen(x) \/ Nudge(x)
  BY <1>5, KnownServer
<1>6. CASE UNCHANGED vars
  <2>1. /\ Now' = Now /\ Running' = Running /\ Known(outlines)' = Known(outlines)
        /\ Answered("ok")' = Answered("ok") /\ UNCHANGED <<awaiting, thrown, box, serving, misled>>
    BY <1>6 DEF vars, control, server, Now, Steps, Block, Running, Known, Outline, Answered
  <2>2. QED
    BY <2>1 DEF KnownInv, Holds, KeptBy, Moves, Boots, Among, GainedBy
<1>7. QED
  BY <1>1, <1>2, <1>3, <1>4, <1>5, <1>6 DEF Next

-----------------------------------------------------------------------------
(* What the steps of a program rely on *)

(* In every state the program is in, calls that were left behind, refused,    *)
(* repeated or answered late included, its outline tells the truth.          *)
LEMMA KnownAlways ==
  ASSUME NEW outlines, Outlined(outlines)
  PROVE  Spec => [](CoreInv /\ QuietInv /\ KnownInv(outlines))
<1> DEFINE Inv == CoreInv /\ QuietInv /\ KnownInv(outlines)
<1>1. Init => Inv
  BY CoreInit, QuietInit, KnownInit
<1>2. Inv /\ [Next]_vars => Inv'
  BY CoreStep, QuietStep, KnownStep
<1> HIDE DEF Inv
<1>3. Spec => []Inv
  BY <1>1, <1>2, PTL DEF Spec
<1>4. QED
  BY <1>3 DEF Inv

(* In a program that has an outline, commands, files, endpoints and pauses    *)
(* are called on running sandboxes only and forks are taken of paused ones,  *)
(* however often its calls fail, are repeated or lose their replies.         *)
THEOREM CallsOnRunningCorrect ==
  ASSUME NEW outlines, Outlined(outlines)
  PROVE  Spec => []CallsOnRunning
<1>1. CoreInv /\ QuietInv /\ KnownInv(outlines) => CallsOnRunning
  <2> SUFFICES ASSUME CoreInv, QuietInv, KnownInv(outlines), AtStep, ~ awaiting
               PROVE  /\ Now.do \in {"call", "serve", "fetch", "pause"} /\ phase = "body" =>
                           \A r \in Now.on : box[r] = "up" \/ r \in misled
                      /\ Now.do = "create" /\ Now.from # "none" => box[Now.from] = "paused"
    BY DEF CallsOnRunning
  <2>1. TypeOK /\ (phase = "cleanup" => Now.do \notin {"fetch", "create"})
    BY NowOutlined DEF CoreInv
  <2>2. CASE phase = "body"
    <3>1. Holds(Known(outlines))
      BY <2>2 DEF KnownInv, QuietInv, AtStep
    <3>2. Supported(Now, Known(outlines))
      BY <2>1, <2>2, NowOutlined
    <3>3. QED
      BY <3>1, <3>2 DEF Holds, Supported
  <2>3. QED
    BY <2>1, <2>2 DEF TypeOK
<1>2. QED
  BY <1>1, KnownAlways, PTL

(* In a program that has an outline a preview URL is requested only when the  *)
(* server behind it listens.                                                 *)
THEOREM FetchAfterListeningCorrect ==
  ASSUME NEW outlines, Outlined(outlines)
  PROVE  Spec => []FetchAfterListening
<1>1. CoreInv /\ QuietInv /\ KnownInv(outlines) => FetchAfterListening
  <2> SUFFICES ASSUME CoreInv, QuietInv, KnownInv(outlines), AtStep, ~ awaiting, Now.do = "fetch"
               PROVE  \A r \in Now.on : serving[r] = "listening"
    BY DEF FetchAfterListening
  <2>1. phase = "body" /\ Supported(Now, Known(outlines))
    BY NowOutlined DEF CoreInv, TypeOK
  <2>2. Holds(Known(outlines))
    BY <2>1 DEF KnownInv, QuietInv, AtStep
  <2>3. QED
    BY <2>1, <2>2 DEF Holds, Supported
<1>2. QED
  BY <1>1, KnownAlways, PTL
=============================================================================
