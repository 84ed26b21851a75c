---------------------------- MODULE ResourcePrograms ----------------------------
(***************************************************************************)
(* A program of examples/ against the control plane: it creates resources, *)
(* works on them and deletes them in finally blocks, while any call may be *)
(* refused, may be carried out although its reply is lost, or may still be *)
(* under way when Promise.all has given up on its siblings.  The top-level *)
(* await of the program, the calls and the server take turns.              *)
(***************************************************************************)
EXTENDS ExampleSteps

CONSTANTS Programs,   \* Programs[p]: the blocks of program p
          Resources,  \* what the programs create
          Bases,      \* networks, disks, templates: what sandboxes are built on
          MaxTries    \* bound on the attempts of a retry wrapper

BoxStates == {"none", "up", "pausing", "paused", "resuming", "gone"}

StepType ==
  [do : {"create", "call", "serve", "awaitPort", "fetch", "pause", "resume", "awaitPaused",
         "awaitRunning", "recover", "probe", "selfPause", "selfDelete", "delete", "sweep",
         "host", "raise", "hold", "keep"},
   on : SUBSET Resources, from : Resources \cup {"none"}, tries : Nat \ {0},
   births : BoxStates, hold : BOOLEAN, ok : Nat \ {0}, fail : SUBSET Nat]

ASSUME ProgramsAssumption ==
  /\ Bases \subseteq Resources
  /\ MaxTries \in Nat \ {0}
  /\ \A p \in DOMAIN Programs :
       /\ Programs[p] \in Seq([body : Seq(StepType), cleanup : Seq(StepType)])
       /\ Programs[p] # <<>>

VARIABLES prog, block, phase, step,  \* the program and where it is
          awaiting, targets,         \* the calls the await is for
          thrown,                    \* an error is on its way up
          exit,                      \* how the process ended
          held,                      \* resources the cleanup finds assigned
          call, left,                \* call[k][r], its attempts left
          box,                       \* state of r at the control plane
          strays,                    \* created, but the reply never came
          serving,                   \* the server started inside r
          misled                     \* handles that say running: the pause went unheard

control == <<prog, block, phase, step, awaiting, targets, thrown, exit, held>>
server == <<box, strays, serving, misled>>
vars == <<control, call, left, server>>

Kinds == {"create", "delete", "work"}

Init ==
  /\ prog \in DOMAIN Programs
  /\ block = 1 /\ phase = "body" /\ step = 1
  /\ awaiting = FALSE /\ targets = {}
  /\ thrown = FALSE /\ exit = "no" /\ held = {}
  /\ call = [k \in Kinds |-> [r \in Resources |-> "idle"]]
  /\ left = [k \in Kinds |-> [r \in Resources |-> 0]]
  /\ box = [r \in Resources |-> "none"]
  /\ strays = {}
  /\ serving = [r \in Resources |-> "none"]
  /\ misled = {}

-----------------------------------------------------------------------------
(* The program counter *)

ProgramText == Programs  \* a constant definition: TLC evaluates it once

Running == exit = "no"
Block == ProgramText[prog][block]
Steps == IF phase = "body" THEN Block.body ELSE Block.cleanup
AtStep == Running /\ step <= Len(Steps)
Now == Steps[step]

KindOf(do) ==
  IF do = "create" THEN "create" ELSE IF do \in {"delete", "sweep"} THEN "delete" ELSE "work"

OnServer(r) == box[r] \notin {"none", "gone"} \/ r \in strays

(* Whom a step calls: cleaning up skips what is not held (if (fork) ...), a  *)
(* sweep deletes whatever the listing shows of R that is not held.           *)
Called(s) ==
  {r \in s.on :
     /\ s.do \notin {"hold", "keep"}
     /\ s.do = "delete" \/ (s.do = "call" /\ phase = "cleanup") => r \in held
     /\ s.do = "sweep" => r \notin held /\ OnServer(r)}

Attempts(s) == IF s.tries < MaxTries THEN s.tries ELSE MaxTries

(* The calls of a step go out together.  A sweep whose listing fails makes   *)
(* none.                                                                     *)
Issue ==
  /\ AtStep /\ ~awaiting
  /\ awaiting' = TRUE
  /\ targets' \in {Called(Now)} \cup (IF Now.do = "sweep" THEN {{}} ELSE {})
  /\ LET k == KindOf(Now.do) IN
       /\ call' = [call EXCEPT ![k] =
            [r \in Resources |-> IF r \in targets' THEN "asked" ELSE @[r]]]
       /\ left' = [left EXCEPT ![k] =
            [r \in Resources |-> IF r \in targets' THEN Attempts(Now) ELSE @[r]]]
  /\ UNCHANGED <<prog, block, phase, step, thrown, exit, held, server>>

Advance(n) ==
  /\ awaiting' = FALSE
  /\ targets' = {}
  /\ step' = step + n
  /\ UNCHANGED <<prog, block, phase, thrown, exit>>

(* An error that ends the process at once, as an unhandled one would.        *)
ThrowPastFinally ==
  /\ awaiting' = FALSE
  /\ targets' = {}
  /\ thrown' = TRUE
  /\ phase' = "cleanup"
  /\ step' = Len(Block.cleanup) + 1
  /\ UNCHANGED <<prog, block, exit, held>>

(* An error leaves the body for its finally block, and a finally block for   *)
(* good.                                                                     *)
Throw ==
  /\ awaiting' = FALSE
  /\ targets' = {}
  /\ thrown' = TRUE
  /\ phase' = "cleanup"
  /\ step' = IF phase = "body" THEN 1 ELSE Len(Steps) + 1
  /\ UNCHANGED <<prog, block, exit, held>>

(* What the program has assigned once a step is over.                        *)
Released(s) ==
  held \ IF s.do \in {"delete", "sweep"} THEN targets ELSE IF s.do = "keep" THEN s.on ELSE {}

Acquired(s) == IF s.do = "hold" \/ (s.do = "create" /\ s.hold) THEN s.on ELSE {}

(* The answers to work are forgotten when the program has reacted to them, of *)
(* deletions what remains is that they were asked for.                        *)
Forgotten ==
  LET Over(k, rest) ==
        [r \in Resources |-> IF call[k][r] \in {"ok", "failed"} THEN rest ELSE call[k][r]]
  IN  [call EXCEPT !["work"] = Over("work", "idle"), !["delete"] = Over("delete", "done")]

Answered(result) == {r \in targets : call[KindOf(Now.do)][r] = result}

(* Goes on without the await: whether the calls were answered or not.        *)
SucceedUnawaited ==
  /\ AtStep /\ awaiting /\ Now.do # "raise"
  /\ Advance(Now.ok)
  /\ held' = Released(Now) \cup Acquired(Now)
  /\ call' = IF Now.do = "keep"
               THEN [Forgotten EXCEPT !["delete"] =
                      [r \in Resources |-> IF r \in Now.on THEN "done" ELSE @[r]]]
               ELSE Forgotten
  /\ UNCHANGED <<left, server>>

(* All calls of the step were answered.  A sandbox left behind on purpose    *)
(* counts as dealt with.                                                     *)
Succeed ==
  /\ AtStep /\ awaiting /\ Now.do # "raise"
  /\ Answered("ok") = targets
  /\ Advance(Now.ok)
  /\ held' = Released(Now) \cup Acquired(Now)
  /\ call' = IF Now.do = "keep"
               THEN [Forgotten EXCEPT !["delete"] =
                      [r \in Resources |-> IF r \in Now.on THEN "done" ELSE @[r]]]
               ELSE Forgotten
  /\ UNCHANGED <<left, server>>

(* Every failure is caught, and the program goes on as if there were none.    *)
FailSwallowed ==
  /\ AtStep /\ awaiting
  /\ Now.do \in {"host", "raise"} \/ Answered("failed") # {}
  /\ Answered("ok") \cup Answered("failed") = targets
  /\ Advance(1)
  /\ held' = Released(Now)
  /\ call' = Forgotten
  /\ UNCHANGED <<left, server>>

(* A call has failed, or the work of a host step has.  Promise.all rejects   *)
(* with the first failure; allSettled and a catch wait for every call.       *)
Fail ==
  /\ AtStep /\ awaiting
  /\ Now.do \in {"host", "raise"} \/ Answered("failed") # {}
  /\ \/ 0 \in Now.fail /\ Throw
     \/ /\ Answered("ok") \cup Answered("failed") = targets
        /\ \E n \in Now.fail \ {0} : Advance(n)
        /\ held' = Released(Now)
  /\ call' = Forgotten
  /\ UNCHANGED <<left, server>>

(* The end of a body leads into the finally block, the end of that to the    *)
(* next block, unless an error is pending: it ends the process.              *)
EndPhase ==
  /\ Running /\ ~awaiting /\ step > Len(Steps)
  /\ step' = 1
  /\ \/ /\ phase = "body"
        /\ phase' = "cleanup"
        /\ UNCHANGED <<block, exit>>
     \/ /\ phase = "cleanup"
        /\ IF thrown \/ block = Len(ProgramText[prog])
             THEN /\ exit' = IF thrown THEN "error" ELSE "ok"
                  /\ UNCHANGED <<block, phase>>
             ELSE /\ block' = block + 1
                  /\ phase' = "body"
                  /\ UNCHANGED exit
  /\ UNCHANGED <<prog, awaiting, targets, thrown, held, call, left, server>>

-----------------------------------------------------------------------------
(* The calls *)

(* The step r is being called for; a call Promise.all no longer waits for    *)
(* creates or works on a running sandbox.                                    *)
Awaited(r) == IF awaiting /\ r \in targets THEN Now ELSE Step("call", {r})

(* Whether the control plane, or the poll of a wait, can say yes.            *)
Able(k, r) ==
  LET s == Awaited(r) IN
  /\ k = "create" => (s.from # "none" => box[s.from] = "paused")
  /\ k = "delete" => OnServer(r)
  /\ k = "work" =>
       /\ s.do \in {"resume", "awaitPaused"} => box[r] = "paused"
       /\ s.do = "probe" => OnServer(r)
       /\ s.do = "recover" => box[r] = "up" \/ r \in misled
       /\ s.do \in {"awaitPort", "fetch"} => serving[r] = "listening"
       /\ s.do \notin {"resume", "awaitPaused", "probe", "recover"} => box[r] = "up"

(* What it does then.                                                        *)
Worked(r) ==
  LET do == Awaited(r).do IN
  IF do \in {"pause", "selfPause"} THEN "pausing"
  ELSE IF do = "resume" THEN "resuming"
  ELSE IF do = "selfDelete" THEN "gone" ELSE box[r]

Effect(k, r) ==
  \/ /\ k = "create"
     /\ box' = [box EXCEPT ![r] = Awaited(r).births]
     /\ UNCHANGED <<strays, serving>>
  \/ /\ k = "delete"
     /\ box' = [box EXCEPT ![r] = "gone"]
     /\ strays' = strays \ {r}
     /\ UNCHANGED serving
  \/ /\ k = "work"
     /\ box' = [box EXCEPT ![r] = Worked(r)]
     /\ serving' = [serving EXCEPT ![r] = IF Awaited(r).do = "serve" THEN "booting" ELSE @]
     /\ UNCHANGED strays

Accept(k, r) ==
  /\ Running /\ call[k][r] = "asked" /\ Able(k, r)
  /\ call' = [call EXCEPT ![k][r] = "ok"]
  /\ left' = [left EXCEPT ![k][r] = 0]
  /\ Effect(k, r)
  /\ UNCHANGED <<control, misled>>

(* Backs off after the last attempt, too. *)
RejectedUncounted(k, r) ==
  /\ call' = [call EXCEPT ![k][r] = "backoff"]
  /\ UNCHANGED left
  /\ UNCHANGED control

(* The wrapper backs off while it has attempts left, or it gives up: which   *)
(* errors it takes for transient differs from example to example.            *)
Rejected(k, r) ==
  /\ \/ /\ call' = [call EXCEPT ![k][r] = "failed"]
        /\ left' = [left EXCEPT ![k][r] = 0]
     \/ /\ left[k][r] > 1
        /\ call' = [call EXCEPT ![k][r] = "backoff"]
        /\ UNCHANGED left
  /\ UNCHANGED control

Refuse(k, r) ==
  /\ Running /\ call[k][r] = "asked"
  /\ Rejected(k, r)
  /\ UNCHANGED server

(* The request was carried out, but no reply came: of what it created the    *)
(* program has no id.                                                        *)
LoseReply(k, r) ==
  /\ Running /\ call[k][r] = "asked" /\ Able(k, r)
  /\ Rejected(k, r)
  /\ IF k = "create"
       THEN strays' = strays \cup {r} /\ UNCHANGED <<box, serving>>
       ELSE Effect(k, r)
  /\ misled' = IF k = "work" /\ Awaited(r).do = "pause" THEN misled \cup {r} ELSE misled

(* Issues the attempt again without counting it. *)
TryForever(k, r) ==
  /\ Running /\ call[k][r] = "backoff"
  /\ call' = [call EXCEPT ![k][r] = "asked"]
  /\ UNCHANGED <<control, left, server>>

TryAgain(k, r) ==
  /\ Running /\ call[k][r] = "backoff"
  /\ call' = [call EXCEPT ![k][r] = "asked"]
  /\ left' = [left EXCEPT ![k][r] = @ - 1]
  /\ UNCHANGED <<control, server>>

-----------------------------------------------------------------------------
(* The control plane and the sandboxes on their own *)

Becomes(r, from, to) ==
  /\ Running /\ box[r] = from
  /\ box' = [box EXCEPT ![r] = to]
  /\ UNCHANGED <<control, call, left, strays, serving, misled>>

Listen(r) ==
  /\ Running /\ serving[r] = "booting" /\ box[r] = "up"
  /\ serving' = [serving EXCEPT ![r] = "listening"]
  /\ UNCHANGED <<control, call, left, box, strays, misled>>

(* The loop that brings a sandbox back resumes it whenever it is paused; it  *)
(* ends as soon as the handle says running, refreshed or not.                *)
Nudge(r) ==
  /\ AtStep /\ awaiting /\ Now.do = "recover" /\ r \in targets
  /\ Becomes(r, "paused", "resuming")

Next ==
  \/ Issue \/ Succeed \/ Fail \/ EndPhase
  \/ \E k \in Kinds, r \in Resources :
       Accept(k, r) \/ Refuse(k, r) \/ LoseReply(k, r) \/ TryAgain(k, r)
  \/ \E r \in Resources :
       \/ Becomes(r, "pausing", "paused") \/ Becomes(r, "resuming", "up")
       \/ Listen(r) \/ Nudge(r)

Spec == Init /\ [][Next]_vars

(* A request is answered or times out, a backoff ends, and the program runs  *)
(* on whenever it can.                                                       *)
FairSpec == Spec /\ WF_vars(Next)

-----------------------------------------------------------------------------
(* Properties *)

(* The state stays within its types. *)
TypeOK ==
  /\ prog \in DOMAIN Programs
  /\ block \in 1 .. Len(ProgramText[prog])
  /\ phase \in {"body", "cleanup"} /\ step \in Nat \ {0}
  /\ awaiting \in BOOLEAN /\ targets \subseteq Resources
  /\ thrown \in BOOLEAN /\ exit \in {"no", "ok", "error"}
  /\ held \subseteq Resources
  /\ call \in [Kinds -> [Resources -> {"idle", "asked", "backoff", "ok", "failed", "done"}]]
  /\ left \in [Kinds -> [Resources -> 0 .. MaxTries]]
  /\ box \in [Resources -> BoxStates]
  /\ strays \subseteq Resources
  /\ serving \in [Resources -> {"none", "booting", "listening"}]
  /\ misled \subseteq Resources

CleanPrograms ==
  {p \in DOMAIN Programs : \A b \in DOMAIN Programs[p] : Disciplined(Programs[p][b])}
CleanProgram == prog \in CleanPrograms

(* When the process ends, whichever calls failed on the way, every resource  *)
(* whose creation was answered has been asked to be deleted, or was left     *)
(* behind on purpose.                                                        *)
ReapsAll == ~Running => \A r \in Resources : call["create"][r] = "ok" => call["delete"][r] # "idle"

(* The programs whose blocks clean up after themselves leave nothing behind: *)
(* the try/finally of the examples, nested or one after the other, with the  *)
(* errors they catch and those they do not.  A program that does something    *)
(* which may fail between a creation and the try block, such as asking for a  *)
(* preview URL, is not one of them: it can leave its sandbox running.         *)
NothingLeft == CleanProgram => ReapsAll

(* A network, disk or template is deleted after the sandboxes built on it:   *)
(* once its deletion is asked for, no creation is under way and every        *)
(* sandbox that was created has been asked to be deleted before.             *)
DependentsFirst ==
  CleanProgram /\ (\E b \in Bases : call["delete"][b] # "idle") =>
    \A r \in Resources \ Bases :
      /\ call["create"][r] \notin {"asked", "backoff"}
      /\ call["create"][r] = "ok" => call["delete"][r] # "idle"

(* Commands, files and endpoints are called on a running sandbox only: never *)
(* between a pause and the wait after the resume, and never on one that the  *)
(* program has destroyed; a fork is taken of a paused one.  Only a handle    *)
(* that missed the reply to its own pause can still take it for running.     *)
CallsOnRunning ==
  AtStep /\ ~awaiting =>
    /\ Now.do \in {"call", "serve", "fetch", "pause"} /\ phase = "body" =>
         \A r \in Now.on : box[r] = "up" \/ r \in misled
    /\ Now.do = "create" /\ Now.from # "none" => box[Now.from] = "paused"

(* A preview URL is requested only when the server behind it listens: the    *)
(* server boots in the background, and the wait for its port is what keeps    *)
(* the request from racing the listener.                                     *)
FetchAfterListening ==
  AtStep /\ ~awaiting /\ Now.do = "fetch" => \A r \in Now.on : serving[r] = "listening"

(* Every run ends, with every call answered or abandoned.                    *)
RunEnds == <>(~Running)
=============================================================================
