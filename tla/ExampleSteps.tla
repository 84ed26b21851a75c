------------------------------ MODULE ExampleSteps ------------------------------
(***************************************************************************)
(* The vocabulary in which the example programs (examples/*/index.ts) are  *)
(* written down.  A program is a sequence of try/finally blocks            *)
(* [body |-> steps, cleanup |-> steps]; a nested finally appears both in   *)
(* the body, where the program reaches it, and in the cleanup, which skips *)
(* what the program no longer holds.  A step stands for one await, or for  *)
(* a run of awaits of one kind on the same sandboxes:                      *)
(*   do     what is called, with the checks of its result that throw       *)
(*   on     the resources it is called on, all at once (Promise.all)       *)
(*   from   the sandbox a fork is taken of                                 *)
(*   tries  how often a retry wrapper of the program issues the call       *)
(*   births the state a created sandbox is in when the call is answered    *)
(*   hold   the result is assigned, so that the cleanup can find it        *)
(*   ok     how many steps further a success leads                         *)
(*   fail   how many steps further a failure may lead, 0 when it is thrown *)
(***************************************************************************)
EXTENDS Sequences, FiniteSets, Naturals

Step(do, on) ==
  [do |-> do, on |-> on, from |-> "none", tries |-> 1, births |-> "up",
   hold |-> TRUE, ok |-> 1, fail |-> {0}]

-----------------------------------------------------------------------------
(* Calls of the SDK *)

Create(r)       == Step("create", {r})
CreateAll(R)    == Step("create", R)
Fork(parent, r) == [Step("create", {r}) EXCEPT !.from = parent]
ForkPaused(parent, r) == [Fork(parent, r) EXCEPT !.births = "pausing"]
Call(r)         == Step("call", {r})      \* commands, files, endpoints
CallAll(R)      == Step("call", R)
Serve(r)        == Step("serve", {r})     \* a detached server is started
AwaitPort(r)    == Step("awaitPort", {r}) \* waitForPortReady
Fetch(r)        == Step("fetch", {r})     \* a request to the preview URL
Pause(r)        == Step("pause", {r})
Resume(r)       == Step("resume", {r})
AwaitPaused(r)  == Step("awaitPaused", {r})
AwaitRunning(r) == Step("awaitRunning", {r})
Recover(r)      == Step("recover", {r})   \* refresh and resume until it runs
Probe(r)        == Step("probe", {r})     \* refresh until it is found gone
SelfPause(r)    == Step("selfPause", {r}) \* a workload that pauses its sandbox
SelfDelete(r)   == Step("selfDelete", {r})
Destroy(r)      == Step("delete", {r})    \* destroy(), or a catalog delete

(* Steps that make no call: work on the host or at a third party, which may *)
(* throw; a throw statement; the assignment of a created set; a decision to *)
(* leave r behind.                                                          *)
Host    == Step("host", {})
Raise   == Step("raise", {})
Hold(R) == Step("hold", R)
Keep(r) == Step("keep", {r})

-----------------------------------------------------------------------------
(* What the program does around a call *)

Tolerated(s)   == [s EXCEPT !.fail = {1}]         \* .catch(() => {}), allSettled
OrSkip(s, n)   == [s EXCEPT !.fail = {n + 1}]     \* on failure, n steps are left out
MayThrow(s)    == [s EXCEPT !.fail = @ \cup {0}]  \* one kind of error is caught only
ThenSkip(s, n) == [s EXCEPT !.ok = n + 1]
Retried(s, n)  == [s EXCEPT !.tries = n]
Unheld(s)      == [s EXCEPT !.hold = FALSE]

(* Work on the host that may throw, or find that the next n steps are not    *)
(* called for.                                                               *)
Maybe(n) == MayThrow(OrSkip(Host, n))

DestroyQuietly(r) == Tolerated(Destroy(r))
DestroyAll(R)     == Tolerated(Step("delete", R)) \* Promise.allSettled
Sweep(R)          == Tolerated(Step("sweep", R))  \* listSandboxes() and destroy

TryFinally(body, cleanup) == [body |-> body, cleanup |-> cleanup]
Unguarded(body)           == TryFinally(body, <<>>)

-----------------------------------------------------------------------------
Created(steps) == UNION {steps[j].on : j \in {k \in DOMAIN steps : steps[k].do = "create"}}
Deleted(steps) == UNION {steps[j].on : j \in {k \in DOMAIN steps : steps[k].do = "delete"}}

(* A block cleans up after itself: what its body creates is created one at  *)
(* a time and assigned at once, and its cleanup deletes each of them, no     *)
(* failure keeping the cleanup from the steps that follow.                   *)
Disciplined(b) ==
  /\ Created(b.body) \subseteq Deleted(b.cleanup)
  /\ \A j \in DOMAIN b.body :
        b.body[j].do = "create" => b.body[j].hold /\ \E r \in b.body[j].on : b.body[j].on = {r}
  /\ \A j \in DOMAIN b.cleanup :
        /\ b.cleanup[j].do \in {"delete", "call", "sweep", "host"}
        /\ b.cleanup[j].ok = 1
        /\ b.cleanup[j].fail = {1} \/ (j = Len(b.cleanup) /\ b.cleanup[j].fail = {0})
=============================================================================
