# A TLA+ model of the CreateOS Sandbox SDK

This directory holds a formal model of the TypeScript SDK in `src/`: TLA+ modules
translated from its source, TLC configurations that model-check them on small
instances, and proofs that the TLA+ proof system checks. Paths and line numbers are
those of the SDK's own sources (`src/http.ts:213` is `requestRaw`) or of the
repository (`examples/`, `docs/`). Read `HttpRequest.tla` first: everything the SDK does
goes through it; then `ResourcePrograms.tla`, what programs do with the SDK.

    tlc -config HttpRequest.cfg MCHttpRequest.tla     # a run
    tlapm HttpRequestProofs.tla                       # the proofs

## 1. The system

The SDK is a client library for a sandbox control plane. A `CreateosSandboxClient`
builds requests, `CreateosSandboxHttp` sends them, a `Sandbox` is a handle with a
cached view of one sandbox. JavaScript runs one callback at a time, so what is
concurrent are asynchronous functions suspended at an `await`, the network, the
control plane, timers, and the caller's `AbortSignal`.

| Component | State it keeps | Operations | What is hard |
|---|---|---|---|
| HTTP request (`http.ts` 130-136, 204-498) | per call: attempt, reply, timer, signal | `request`, `requestRaw`, `stream`, hooks, backoff | retries against late effects, abort and timeout in every suspension point |
| Node transport (`http.ts` 565-687) | per origin: `session`, `sessionReady`, `prewarmReady` | `fetch`, `streamFetch`, `prewarm` | sharing a connection attempt, sessions that die, the fallback to undici |
| Polling (`poll.ts`) | per wait: interval, deadline | `pollUntil`, `sleep` | readiness at the deadline, late timers, aborts |
| Sandbox handle (`sandbox.ts` 810-1390) | `#data`, the cached view | lifecycle methods, `refresh`, `waitUntil*` | replies out of order, requests that arrive after the method threw |
| Pagination (`http.ts` 137-202, 772-798) | per walk: offset, rows yielded | `iteratePages`, `fetchAllPages` | the list changes between two pages |
| NDJSON streams (`ndjson.ts`) | per stream: buffer, decoder | `readNdjson` | chunk boundaries anywhere, every way out closes the body |
| Command and process streams (`sandbox.ts` 265-301, 1031-1097) | none of their own | `streamCommand`, `processes.connect` | two generators, one over the other: the outer one is left in the middle of a frame |
| Creation (`client.ts` 648-700) | none | `createSandbox`, `getSandbox` | a creation whose reply is lost |
| Credentials, configuration (`config.ts`, `runtime.ts`, `http.ts` 83-98, 500-530) | resolved configuration | `resolveConfig`, `withApiKey` | which key goes to which origin |
| Retry timing (`http.ts` 706-711, `errors.ts` 158-171) | none | `backoffDelay`, `parseRetryAfterSeconds` | bounds of the delay |
| REST wrappers (`client.ts`, `sandbox.ts`: 106 operations) | none | one request or page walk each | which of them may be sent twice is settled by the HTTP method each wrapper chose |
| Example programs (`examples/`, 57 of them) | what they created and still hold | create, run, fork, pause, delete, in `try`/`finally` blocks | any call fails; what was created before it must not be left behind, in any order, nor under a pending `Promise.all` |
| Redaction, runtime detection, `self.ts`, types, docs | none | pure functions, text | nothing concurrent |

How they interact: every method of a handle or of a client API is one call of
`http.request`, `http.stream` or `http.iteratePages`. `request` is `requestRaw` plus
the unwrapping of the envelope; `requestRaw` calls `#dispatch` once per attempt;
`#dispatch` calls the configured `fetch` or, under Node, the `fetch` of the shared
transport. `stream` calls `#dispatch` once and hands the body to `readNdjson`.
`streamCommand` and `processes.connect` iterate over it and yield events of their own.
`waitUntil*` is `pollUntil` around `refresh`, which writes the `#data` that every
other method of the handle writes too. A program calls all of these from one top-level
`async` function, in sequence or through `Promise.all`. Hooks run inside `requestRaw`, between two
steps of it.

For each component, the properties that make it correct:

- *HTTP request.* A call that is not idempotent takes effect at most once; a body
  that was consumed is not sent again; the budget is kept; the answer reported is the
  one to the last transmission; the caller's abort stops the call and is what
  surfaces; a timeout ends it; the call settles.
- *Node transport.* One session at a time; the cached promise is never that of a dead
  session; nobody waits for a session that will not come; the fallback does not
  repeat what was processed (it does).
- *Polling.* Readiness seen by the last poll wins over the deadline; a wait ends
  close to its deadline; polls are spaced; an abort stops it.
- *Sandbox handle.* The handle keeps addressing its sandbox; it never reports a
  sandbox gone that is not; what a method acknowledged is in the view; a wait judges a
  state that is not older than the calls it overlaps with, and ends when the sandbox is gone.
- *Pagination.* A row missed costs a deletion, a row repeated a creation; the cap is
  kept; the walk ends.
- *Streams.* The events are those of the body however it is cut, handed out as soon as
  they are whole; however the program leaves, the body is not left open.
- *REST wrappers.* No operation whose second execution shows is executed twice.
- *Example programs.* What a program knows to have created is deleted, what depends on a
  resource before the resource; a sandbox is called while it runs, a server once it
  listens; the program ends.

## 2. The modules

| Module | Models | Correspondence |
|---|---|---|
| `RetryPolicy` | the retryable statuses, the idempotent methods, the error classes | pure operators, named as in the source |
| `RemoteCall` | the abstract specification: what the caller of one API call is promised | `Effect` (the server acts), `Settle` (the promise settles) |
| `HttpRequest` | `requestRaw`, `request`, `stream` up to its body, `#dispatch` | `pc[c]` names the `await` a call is suspended at, one action per stretch of code from one `await` to the next; `wire[c][k]` is the fate of the request of attempt `k`; the signal, the timer, the server and the network are actions of their own |
| `NodeTransport` | `createNodeTransportFromModules` | `session`, `sessionReady` and `prewarmReady` are the variables of the factory, a promise being named by the connection it stands for; each event listener is an action; listeners and the microtasks they resume are one step, as in Node |
| `PollUntil` | `pollUntil`, `sleep` | `phase` is the suspension point, `now` the clock in milliseconds; time passes only while a poll is under way or the loop sleeps |
| `SandboxHandle` | `Sandbox`, its `#data`, and the row on the control plane | `data` is `#data`; `Call`, `Serve`, `Apply` are a method's request, its processing, and the assignment after the `await`; `stray` holds requests whose method threw while they were under way; `Resolve`, `GiveUp`, `PollAgain`, `WaitTimesOut` are `#waitFor` judging the view |
| `Pagination` | `iteratePages`, `fetchAllPages`, `extractPage` | one `Take` per `yield`; rows are created and deleted by anyone in between |
| `Ndjson` | `readNdjson`, `parseLine` | `buffer` and `drained` are its variables, `carry` is the state of the `TextDecoder`; one action per round of either loop |
| `CommandStream` | `streamCommand`, `processes.connect`, and the program that takes their events | extends `Ndjson`: `at` and `field` say where the outer generator is, the inner one being at the `yield` of the frame; `NextFrame` and `Leave` are `next()` and `return()` of the inner one |
| `ClientOperations` | every method of the SDK that sends a request | extends `HttpRequest`: one entry per method with its HTTP method, what a second execution of it does, whether it is sent with `retry: false`, takes a stream as its body, or is streamed; `OptionsOf` is what a caller may make of it |
| `ExampleSteps`, `Examples` | the 57 programs of `examples/` | a program is a sequence of `try`/`finally` blocks, a block two sequences of steps, a step an `await`; one definition per program, helpers named as there |
| `ResourcePrograms` | a program of `Examples` run against a control plane | `block`, `phase`, `step` are where the program is, `awaiting` and `targets` the calls it awaits, `held` what its variables hold for the `finally` block; `call[k][r]` is the fate of each call, `box[r]` the sandbox on the control plane, `strays` what was created without the program's knowledge |
| `ProgramText` | what can be read off a program before it is run | extends `ResourcePrograms`: `BasesLast` is the order in which a text deletes, `Outlines` says that a table of which sandboxes are up, paused or serving before each step is one the text bears out (`After` a success, `KeptBy` a failure) and that each step has what it needs (`Supported`) |
| `HttpRequestProofs`, `NodeTransportProofs`, `PollUntilProofs`, `SandboxHandleProofs`, `PaginationProofs`, `CommandStreamProofs`, `ResourceProgramsProofs`, `ProgramTextProofs` | proofs about the module they are named for, the first with `ClientOperations`, the last with `ResourcePrograms` | section 6 |

`MCHttpRequest`, `MCNodeTransport`, `MCSandboxHandle`, `MCCommandStream` and `MCExamples`
only define the values of constants; `MCExamples` also computes the outline of every program
and assumes, so that TLC checks it, what `ProgramText` asks of it. Definitions without a counterpart in the SDK (the control plane,
the network, undici, the caller) are modelled from how the SDK uses them: they may do
anything a peer may do, except where a comment says otherwise.

`ExampleSteps` says what a step abstracts: a run of calls of one kind on a sandbox is
one step, since every prefix of it leaves the same resources behind; what commands compute
and print is left out; a check of a result that throws is a failure of the step. A
nested `finally` is written twice, where it is reached and in the cleanup of the block,
which skips what is not held any more.

In each module the operators whose comment describes something the code does *not* do
(`RetriesStreamedBody`, `LeaveAlone`, `SucceedUnawaited`, ...) are the plausible
mistakes the properties were tried against: put one in the place of the definition
that follows it and the run finds the property violated. They are in no next-state
relation.

## 3. The runs

| Run | Question | Instance |
|---|---|---|
| `HttpRequest` | Are retries safe, does the abort win, does the call keep its promise and settle? | one call (calls share nothing), budgets 0 to 2, every operation of `ClientOperations` with every choice its caller has, one status per class (200, 404, 429, 500) |
| `NodeTransport` | Does the session cache survive connections that fail, die or close under concurrent users? | two dispatches of four sorts, `prewarm`, two connections |
| `PollUntil` | Does the wait end at the right time with the right verdict? | budget 17 s: the fast first 5 s, the whole ramp and the 2 s ceiling; latencies 0 and 300 ms, timers 5 ms late |
| `SandboxHandle` | What stays true of the view whatever the order of replies, and on what does a wait end? | up to two calls at a time out of ten methods, two waits among them, two changes of the row, one late request |
| `Pagination` | What does a walk over a changing list deliver? | pages of two rows, four rows ever, caps 0, 1, 3 and none; an envelope with a total, one without, and the whole list |
| `CommandStream` | Is the program handed the events of the body, at once, and is the body closed however it leaves? | all bodies of up to three lines out of the kinds in `MCCommandStream`, cut off anywhere, all chunkings into up to four symbols, both APIs, a program that may leave at any event |
| `Examples` | Do the programs clean up, in order, and call what is there to be called? | all 57 programs, `VideoTranscode` in both modes; each call refused, accepted, or accepted without a reply |
| `HttpRequestStall` | Does the timeout bound a call? | as `HttpRequest`, nothing assumed of the network: violated |
| `HttpRequestDelete` | Is the 404 of a repeated `DELETE` handled? | deletions with the default policy: violated |
| `HttpRequestCommand` | Is `runCommand` retried on network errors and server failures? | `runCommand` with every choice its caller has: violated |
| `NodeTransportResend` | Is a processed request never sent again? | one `POST`: violated |
| `NodeTransportSignal` | Does a signal end a dispatch? | one `POST`: violated |

What the passing runs show, and where a property stops:

- `AtMostOnce` holds of `requestRaw` over a `fetch` that sends what it is given once.
  Under Node that is not the case (`NodeTransportResend`), so the promise of
  `RemoteCall` does not extend to the composition of the two.
- `RepeatHarmless` says the same of every operation of the SDK: what is marked "add" in
  `ClientOperations` would be noticed if it was executed twice, and it is not, because
  each such wrapper chose `POST`. That is a judgement about the control plane made
  operation by operation in that table, not something the code says. `runCommand` is an "add":
  a command executed twice shows. `docs/how-to/streaming.md:165` calls it idempotent and
  retried, which the code does not bear out (`HttpRequestCommand`).
- `TimedCallSettles` needs a body that arrives or breaks off. `AbortedCallSettles`
  needs nothing of the network.
- `SandboxHandle` shows how little survives concurrency: the id, that a sandbox reported
  destroyed is (because that is final on the server, whatever view is applied last), and the
  merged fields against each other. `IngressAsAcked` stops holding when a `setIngress` overlaps
  another call that replaces the view, or threw, as its request may still land. A wait does not
  always resolve on a state read after it began: another call applies an older reply between
  the refresh of the wait and its look at `#data`. What is left is that the state is no older
  than the busy spell of the handle, the time since a call was last made with no other in
  progress (`quiet`); a wait by itself is a spell of its own. `GoneEndsWait` uses the same
  spell: a sandbox gone before it began ends every wait in it at the first poll.
- `EachDeletionCostsOneRow` and `EachCreationRepeatsOneRow` assume that the control plane
  reads a page and its total in one state of the list, in an order that only creation
  and deletion change. A consumer that destroys the sandboxes it iterates over
  loses up to half of them this way; the code gives no warning. A walk that stops at its cap
  has not seen the whole list, and of its rows only `CapKept` says how many they are; one whose envelope lacks a numeric total
  ends after its first page, and `EachDeletionCostsOneRow` excludes it.
- `EventsOfBody` lets the events end before the body does when the program leaves, a line
  does not parse or a read fails, and says that nothing is lost otherwise. It also shows that
  a stream whose body ends cleanly without an exit frame ends without an `exit` event, though
  `docs/how-to/streaming.md:68` calls that the last event before the generator returns: the
  client has no way to tell.
- `NothingLeft` and `DependentsFirst` are about the programs whose blocks are `Disciplined`:
  what the body creates, one at a time and assigned at once, the cleanup deletes, each
  deletion tolerating the failure of the one before. 41 of the 57 are, and of these the
  property holds whichever of the modelled steps fail. Ten others differ from them in one step: they call
  `previewUrl()` between the creation and the `try`, and it throws when the sandbox
  came up without an ingress (08, 18, 21, 22, 25, 27, 28, 30, 34, 35; the list below has the rest).
  What `NothingLeft` cannot cover is a creation whose reply is
  lost: the program has no id to delete, and nobody has.
- `CallsOnRunning` and `FetchAfterListening` are about all programs. The one exception
  `CallsOnRunning` makes is real: in example 13 a `pause()` that took effect without a
  reply leaves a handle that says running, and the loop of `index.ts:221` believes it when
  its refresh fails (`misled`).
- `RunEnds` needs every call to be answered or to time out. It fails for a program whose retry
  wrapper does not count.

### The five disagreements

Each is between a sentence of the docs and the code, in `PROJECT.json` with the line:

1. `HttpRequestStall`: "Every request carries a timeout" - up to the headers only
   (`http.ts:495` clears the timer when `fetch` resolves).
2. `HttpRequestDelete`: "(or a 404, which is handled)" - it is thrown as a
   `CreateosSandboxNotFoundError`.
3. `HttpRequestCommand`: "`runCommand` (buffered, idempotent) is retried automatically on
   network errors and transient server failures (`500`/`502`/`503`/`504`)"
   (`docs/how-to/streaming.md:165`) - it is a `POST`, which `requestRaw` repeats after 429
   and 503 only (`http.ts:59`, `245`), as `docs/explanation/reliability.md:28` says, too.
4. `NodeTransportResend`: "it never silently re-sends a request the server may have
   already processed" - `http.ts:680` falls back to undici on every rejection. In the trace
   the stream fails on the client while the `POST` is under way, the fallback sends it
   again, and the server executes both.
5. `NodeTransportSignal`: "the underlying `fetch` rejects" - `h2Fetch` never looks at
   `init.signal`. A dispatch that starts with its signal fired is even sent.

What the models show beside these, without a run of its own:

- "by the time `waitUntilRunning()` resolves, the handle reflects the state the server
  confirmed" (`docs/explanation/handle-model.md:63`) fails for two concurrent calls, as said
  above.
- "if the server already processed this request, will retrying it cause harm?": "the answer
  is no" for idempotent methods (`docs/explanation/reliability.md:15`) holds of one call by itself. An attempt that timed out may be executed after the call
  was answered (`HttpRequest` has it late on the wire), hence after a later call of the same caller,
  and undo it.
- Programs that are not `Disciplined`: 48 promises that "a run that fails midway still
  reaps what it created" (`README.md:62` there), but `Promise.all` rejects with the first of
  two creations (`index.ts:215`) while the second is still backing off; the `finally`
  block runs, and the sandbox is created after it. 12 (`index.ts:178`) and 19 create several
  sandboxes the same way and assign the list at the end, so that one failure leaves the others
  behind. 50 makes a directory between the creation and the `try`, and
  ten programs call `previewUrl()` there: "fails fast" says the comment of 21 (`index.ts:52`), and leaves the
  sandbox running. The second
  sandbox of 52 has no `finally`, and any error of `refresh` is taken for its deletion
  (`index.ts:97`). 58 awaits its deletions bare: one that fails
  leaves the rest.
- `processes.connect` decodes each base64 frame by itself: a character whose bytes are cut
  over two frames becomes U+FFFD, though `sandbox.ts:262` says "decoded into UTF-8 strings".

Seen while reading and not modelled: `docs/explanation/handle-model.md:45` describes a
follow-up `GET` that `createSandbox` no longer makes; `handle-model.md:62` lists `fork()`
among the calls that replace `#data`, which it rightly does not, and `setEgress()` does not
either; `errors.ts:151` says of a connection error that the request never reached the
server, when only its reply may be lost; the reason "rate-limit" of `onRetry` is given for
any status with a `Retry-After`; with `cap` 0 and a server that ignores `limit=0` one row is
yielded, where `http.ts:150` says "at most `cap` rows" (`CapKept` allows for that one).

## 4. Bounds

- `HttpRequest`: `MaxRetries` 2 is the default policy and lets a retry follow a
  retry. `Calls` has one member since calls share no variable; the proofs cover any
  number. `PUT` stands for every idempotent method and `POST` for the others, since
  the code only asks for membership in `IDEMPOTENT`.
- `NodeTransport`: two connections are the current and the next; a third would only
  repeat the second. `OneSession` needs two connections, `WaitersOnLiveAttempt` two
  waiters. Dispatches are one-shot; a repeated one is another dispatch.
- `PollUntil`: the clock is bounded by the deadline plus one poll. Intervals are whole
  milliseconds, where the code keeps fractions.
- `SandboxHandle`: `MaxVersion` bounds the changes of the row, `MaxStray` the late
  requests. Two changes let a reply be one or two states behind; the violations of
  the stronger properties need one. Two calls at a time are one to be overtaken and one to
  overtake it; a call that has returned may be made again. The proofs cover any number.
- `Pagination`: `PageLimit` stands for 500, `MaxRows` bounds the rows that ever exist;
  four rows are two full pages and more short ones, with room for creations.
- `CommandStream`: three lines let a chunk end in one, hold the next and begin a third. "hi"
  and "lo" are the two bytes of one character; every other symbol stands for all the
  bytes of a token, which the code looks at only once a line is complete.
- `Examples`: `MaxTries` 2 stands for the four to 45 attempts of the retry wrappers: one
  that fails and is repeated, and one that gives up. A loop over a collection is
  unrolled to two rounds with a sandbox each, a fan-out has three members: the
  first to fail, one that was created and one still under way. The proof of `NothingLeft`
  needs none of these bounds.

`CHECK_DEADLOCK FALSE` everywhere: calls, waits, walks and streams end, and a client
that has nothing to do stops.

## 5. Fairness

- `HttpRequest`: the JavaScript runtime runs what is runnable, timers elapse, hooks
  return (the code awaits them without a bound), and a fetch whose signal fired
  rejects, as the Fetch standard says. `LiveSpec` adds that a body whose headers
  arrived arrives or breaks off; `FairSpec` does not. Neither assumes that the
  network or the server does anything.
- `NodeTransport`: an attempt to connect ends, a session that died emits `close`, its
  requests fail, a reply that arrived is delivered, undici honours its signal.
- `PollUntil`: timers fire and `poll()` settles, its requests being timed.
- `Pagination`: requests settle and the consumer keeps asking for rows. Creations are
  bounded by `MaxRows`; nothing in the code bounds a walk over a list that grows as
  fast as it is read.
- `Examples`: `WF_vars(Next)`: the program goes on, a request is answered or times out, a backoff
  ends. Every behaviour without stuttering is finite, since calls, attempts and steps
  only go forward; so this is no more than that nothing stops for good.
- `SandboxHandle` states none: that a wait on a sandbox that is gone ends is the action
  property `GoneEndsWait`, that any wait ends is `WaitEnds` of `PollUntil`.
- `CommandStream` states none: a stream may be silent for ever, and a program may
  never ask for the next event.

## 6. Proofs

`HttpRequestProofs` proves, for any set of calls, any retry budget, any set of
options and of statuses, that `HttpRequest` satisfies its type invariant, its four
other invariants, its three action properties, that no operation of `ClientOperations`
whose second execution shows is executed twice, and that `HttpRequest` implements `RemoteCall`
(`KeepsPromiseCorrect`, the refinement mapping being the one in `HttpRequest`). The
only assumption is `ConstantsAssumption` of `HttpRequest`. `RepeatHarmless` follows from
`AtMostOnce` and `AdditionsPosted`: the table sends every addition as a `POST`. `BudgetKept`,
`TimeoutEndsCall` and, for the transport, `StreamsOffH2` are proved and no part of a run.

The invariants are not inductive: at `onRetry` nothing in `AtMostOnce` says that the
request about to be repeated was turned down. `IInv` adds, per call:

- `BudgetInv`: whoever is between the decision to retry and the next attempt was granted it
  by the policy, with budget left. It keeps `attempt` in range.
- `WireInv`: nothing is on the wire of an attempt not made yet, and the attempts sent
  have no gap, unless the caller aborted.
- `ReplyInv`: the reply in hand answers the current attempt and tells its fate: 429
  and 503 mean "refused", 2xx means "executed". That 429 and 503 are sent before the
  request is processed is what `isRetryableStatus` takes for granted when it repeats a
  `POST`; it is the contract of the server, built into `Refuse`, and nothing here checks it.
- `RepeatInv`: a call that is not idempotent goes on only from a request turned down,
  and every earlier attempt of it was turned down.
- `OutcomeInv`: what a settled call settled on, and that the timer runs only in `fetch`.

TLC checks `IInv` before the proof does. `Invariance` is `Init => IInv` and one lemma
per action (`SendKeeps`, `WakeKeeps`, ...), with `OthersStill` and `StillKeeps` taking care of
the calls that do not move. `AtMostOnce` follows from `RepeatInv` and `WireInv`: of two
attempts executed the earlier would have been refused. For the refinement,
`ExecuteMaps` uses the same argument to show that the effect set of a call that is
not repeatable was empty, `SettleMaps` that a call reported "ok" has an effect;
everything else is a stutter (`QuietStutters`).

`NodeTransportProofs` proves the four safety invariants of `NodeTransport`, its action
property and its type invariant for any number of dispatches and of connections, from
`ConstantsAssumption` of that module. `SessionCacheFresh` is not inductive: it lets a dying
session leave the cache early, and the close listener of that session would then
clear the promise of its successor. `CacheInv` says that the cache names exactly the
connections that have neither failed nor closed, hence one at most: `OneSession` follows.
`WaitInv` adds to `WaitersOnLiveAttempt` that only dispatches the session can carry wait for
it, which `StreamsOffH2` needs when the session opens. `GetSessionKeeps` and `ProceedKeeps` say
once what `getSession` and the resumed dispatches do; one lemma per event uses them.

`ResourceProgramsProofs` proves, for any programs over any resources, with any number of
attempts, that the variables of `ResourcePrograms` stay in their ranges and that
`NothingLeft` holds, from `ProgramsAssumption` alone. The programs of `Examples` are one instance;
a new example that is `Disciplined` is covered without another run.
`NothingLeft` speaks of the end of a run, and `AllTended` of every state before it: a
creation under way is awaited by the step the program is at (`Creating`), and what was
created is asked to be deleted, or is about to be assigned, or is held with its deletion
ahead (`ToBeDeleted`): in the body that is any deletion of the cleanup, in the cleanup one
at an index not reached yet. That needs `AwaitInv` (an `await` is for calls of
the present step, a creation for all of them), and the type invariant `BackoffInv` (a call is
repeated only with attempts left). At the end neither of the last two is possible, so
the first is true.

`ProgramTextProofs` proves the three properties of `ResourcePrograms` that are true of these programs
and not of every one, from what they have in common. `DependentsFirst` follows from `OrderedPrograms`:
in every program that cleans up after itself, bases are deleted in cleanups only, no deletion of a
sandbox after them and no creation of one in a later block. `BasesInv` carries that into the
run: once the deletion of a base was asked for, no creation is ahead (`NoneToCome`) and whatever
was created was asked to be deleted (`Settled`), which takes `AllTended` to see. `CallsOnRunning` and
`FetchAfterListening` follow from an outline of each program, a table of what is known before each step.
`KnownInv` says that the outline tells the truth, and during a step that what the step leaves alone stays true
while what it waits for becomes true call by call. It needs `QuietInv`: without an error on
its way up every call under way belongs to the present step, so that no pause or deletion left behind
by a `Promise.all` moves a sandbox the outline speaks of. A cleanup may be entered by a throw, from
anywhere; nothing is known there, and the properties ask for nothing there either. The hypotheses are statements
about texts, without a state: TLC evaluates them for all 57 programs (`ExamplesAssumption`
of `MCExamples`) with the outlines that `ProgramOutline` computes, and a new example
that has an outline is covered without another run.

`PollUntilProofs` proves all four safety properties of `PollUntil` for any budget, from
`ConstantsAssumption` there: requests and timers have a bound, whatever it is. A property about
the end of a wait needs to know where the clock can be at each place of the loop, `ClockInv`: a
sleep is cut to the deadline, so only the lateness of its timer and one poll come on top.
`SpacingInv` follows a poll around the loop to the next one, through the interval of its
time (`Ramp`) and the cut (`PauseBounds`); `SeenInv` says that a resource which became ready after it was
read did so no earlier than the poll began.

`SandboxHandleProofs` proves all properties of `SandboxHandle` for any number
of calls of any methods and any number of changes of the row. `TerminalIsTrue` is inductive only with
`TruthInv`: not the view alone, but every reply on its way to it tells the truth about
destruction, and stays true since the control plane never leaves those states (`EffectTyped`
looks at every method for that). `GrowthInv` bounds the disk by the version.
`CurrentInv` says that every reply under way, and the view once a wait has polled, is no older than the busy
spell (`Fresh`), and that in a spell that began with the sandbox gone they all show it gone: `WaitSeesCurrentState`
and `GoneEndsWait` follow. `IngressInv` relates the row, the replies under way and the view
to the setting last acknowledged: while it is known, a `setIngress` under way is alone among the calls that replace the
view (`Alone`), row and setting differ only while its reply is under way (`Pending`), and no request
of one that threw lingers.

`PaginationProofs` proves the four safety properties of `Pagination` for lists, pages
and caps of any size, from `ConstantsAssumption` there. A walk remembers an offset, not a row, so the inductive invariant
compares two places: the offset and the rows of the list in front of it. `SkipInv` counts, at every moment, the old
rows in front of the offset that were not yielded, and allows one per deletion so far; `RepeatInv`
counts the rows repeated so far together with the rows at or behind the offset that have been
yielded and so will come again, and allows one per creation. `PageInv` relates the page in hand to what the list was when
it was read, `RowsInv` says that the list holds no row twice; a deletion moves what is behind it one place
towards the walk's past, a creation one place towards its future. `EachDeletionCostsOneRow` and
`EachCreationRepeatsOneRow` are what remains of them at the end of a walk. `CapInv` says that
a walk not over has yielded nothing or is below its cap, from which `CapKept` follows.

`CommandStreamProofs` proves all properties of `CommandStream`, for any lines of UTF-8, however many,
bodies cut off anywhere, chunks of any size and a program that may leave at any event. For
`BodyNeverLeftOpen`, `PlacesInv` says where one generator can be while the other is somewhere, `BodyInv`
that only a body read to its end is released without `cancel()`. For `EventsOfBody` and `PromptWhileReading` the state
forgets what was taken off the buffer, so the invariant says that there are lines, `taken`, such that

- they begin the lines of the body and their events are what was yielded (`LinesInv`);
- the lines of what was read are `taken` and then those held, which is the buffer and the character
  in the decoder (`Follows`): this survives a chunk that ends within a line or a character;
- at the end of the body what is held is its last line, except that a character cut off
  became U+FFFD, which makes no difference as such a line is skipped or does not parse (`AtEnd`, `CutLine`);
- the program was handed the events of the frames yielded, of the last one as far as the
  outer generator got (`HandedInv`, `Partly`).

While the next chunk is awaited the buffer holds no newline, so nothing but `taken` has arrived whole.
Text is cut, filtered and joined by recursive functions (`Picked`, and `FlattenSeq` of the community modules), so the
module begins with what they compute: that a recursive definition over a sequence has a value
at every place (`Recursion`), and an induction over sequences (`SequenceInduction`). Both
are stated with a set in place of a predicate, which the provers can instantiate, and follow from the
least element that a set of naturals has. For these proofs filtering is written with `Picked`,
and the frames' operators take the generator as a parameter, so that they are constants.

Only model-checked: the liveness properties, as fairness is out of the prover's reach; and the
operators that the model takes from outside `src/`, such as the JSON grammar of `IsJson`, which are
definitions and not claims. That `Text` and `Lines` are what a server sends is assumed.

## 7. Not modelled, and why

- Credentials and configuration: strings computed once, when the client is built. Which
  transport is shared by which origin follows from the key of one map.
- The delay of a retry (`backoffDelay`, `parseRetryAfterSeconds`): arithmetic on a clock and
  on a header. `HttpRequest` lets a backoff last any time, so nothing it shows
  depends on them, and no document promises a bound.
- Redaction, runtime detection, `self.ts`, types, exports, docs, scripts: pure or text,
  nothing to interleave. `runCommand`, `sh` and `waitForPortReady` are one `POST` each; the
  shell text they build is left out.
- In `ResourcePrograms`, a call that timed out and is carried out later: a lost reply there
  is one to a request already executed. `SandboxHandle` and `HttpRequest` have late requests.
- Within the modelled parts: URL, header and body construction (`#prepare` succeeds or
  throws), the contents of errors and hook payloads, the delay of a backoff, the
  loading of `undici` and `node:http2` and the warm-up request of the pool, response
  streams reset halfway (`http.ts:649`), the wall clock of `Date.now()` stepping; of the
  wrappers, paths, queries and bodies; of the examples, what they compute, print and ask
  third parties for.

## 8. Plan

Done, in this order of importance: `RetryPolicy`, `RemoteCall`, `HttpRequest`,
`NodeTransport`, `PollUntil`, `SandboxHandle`, `Pagination`, `Ndjson`, `CommandStream`,
`ClientOperations`, `Examples`, `ResourcePrograms`, and proofs about all of them.

Next, models:

1. `HttpOverNode`: `HttpRequest` composed with `NodeTransport`, so that the two
   disagreements of the transport are seen from the caller of `request`. It would replace the
   runs `NodeTransportResend` and `NodeTransportSignal`.
2. The late duplicate of a repeated `PUT`, against a row: two calls of one caller, one after
   the other, over `HttpRequest`.
