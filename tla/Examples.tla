------------------------------- MODULE Examples -------------------------------
(***************************************************************************)
(* The programs of examples/, one definition each, in the vocabulary of    *)
(* ExampleSteps.  A run of calls of one kind on a sandbox is one step, and *)
(* a loop over a collection is unrolled to two rounds, each with a sandbox *)
(* of its own.  The checks of the environment that come before the first   *)
(* call are left out: there is nothing to clean up yet.                    *)
(***************************************************************************)
EXTENDS ExampleSteps

(* const sandbox = await create; try { ... } finally { destroy().catch() } *)
OneSandbox(body) == <<TryFinally(<<Create("box")>> \o body, <<DestroyQuietly("box")>>)>>

(* What is read or asked for before there is a sandbox. *)
Prepared == <<Unguarded(<<Host>>)>>

(* createWithRetry() of examples 13 to 19 waits out the account's limits,    *)
(* createSandbox() of 36, 37, 49, 50 and 51 any error at all.                *)
createWithRetry(r) == Retried(Create(r), 6)
createSandbox(r) == Retried(Create(r), 5)
DestroyWithRetry(r) == Retried(DestroyQuietly(r), 4)

(* Starts a detached server and waits for its port. *)
Server(r) == <<Serve(r), AwaitPort(r)>>

(* When s fails, the log of the server is read and the error goes on. *)
OrDiagnose(s, r) == <<ThenSkip(MayThrow(Tolerated(s)), 2), Call(r), Raise>>

(* The preview URL is asked for between the creation and the try block.  It   *)
(* throws when the sandbox came up without an ingress, and then nothing       *)
(* deletes the sandbox.                                                      *)
WithPreview(create, body, destroy) ==
  <<Unguarded(<<create, Host>>), TryFinally(body, <<destroy>>)>>

OnePreview(body) == WithPreview(Create("box"), body, DestroyQuietly("box"))

-----------------------------------------------------------------------------
(* One sandbox: commands and files *)

HelloWorld == OneSandbox(<<Call("box")>>)

CodeInterpreter == Prepared \o OneSandbox(<<Call("box")>>)

(* The model is asked, the code it wants run is run, until it wants none.    *)
AiCodeAgent == OneSandbox(<<Maybe(2), Call("box"), Host>>)

(* An error of a tool is up to the agent framework. *)
OpenAiAgents ==
  Prepared \o OneSandbox(<<Call("box"), Maybe(1), MayThrow(Tolerated(Call("box")))>>)

McpClaudeCode == OneSandbox(<<Call("box"), Retried(Call("box"), 3)>>)

(* The mount is undone on the way out, by a call of its own. *)
TigerFs ==
  <<TryFinally(<<Create("box"), Call("box")>>,
               <<Tolerated(Call("box")), DestroyQuietly("box")>>)>>

AcpHelloWorld == OneSandbox(<<Host, Call("box")>>)

(* The agent runs on the host and drives the sandbox through the SDK. *)
GoogleAdk == Prepared \o OneSandbox(<<Host>>)

S3BucketMount == OneSandbox(<<Call("box")>>)

PlaywrightBrowser == OneSandbox(<<Call("box")>>)

GitCloneLsp == OneSandbox(<<Call("box"), Host, Call("box")>>)

CodexCli == OneSandbox(<<Call("box")>>)

BandwidthRecharge == OneSandbox(<<Call("box")>>)

IdleAutoPause == OneSandbox(<<Call("box")>>)

PdfExtractor == OneSandbox(<<Host, Call("box"), Host>>)

DocToMarkdown == OneSandbox(<<Host, Call("box")>>)

Crawler == OneSandbox(<<Call("box"), Host>>)

ChangelogGenerator == OneSandbox(<<Call("box")>>)

(* A tool call that fails is reported to the model, not thrown. *)
GithubWiki == OneSandbox(<<Call("box"), Maybe(2), Tolerated(Call("box")), Host>>)

MastraAgent == OneSandbox(<<Call("box")>>)

EffectiveAgents == OneSandbox(<<Call("box")>>)

(* An agent that has not used the browser is an error. *)
runOpenAIToolAgent == <<Maybe(2), Call("box"), ThenSkip(Host, 1), Raise>>

AnchorBrowser == Prepared \o OneSandbox(<<Call("box")>> \o runOpenAIToolAgent)

ManagedProcess == OneSandbox(<<Call("box")>>)

(* The desktop may need time to come up: the first call is made again. *)
DesktopVnc == OneSandbox(<<Retried(Call("box"), 2), Call("box")>>)

RemoteCodeExecution == OneSandbox(<<Call("box"), Host>>)

(* destroy() is awaited bare in the finally block: its error ends the run.   *)
AccessToken == <<TryFinally(<<Create("box"), Call("box")>>, <<Destroy("box")>>)>>

Checkpoints == <<TryFinally(<<Create("box"), Call("box")>>, <<Destroy("box")>>)>>

-----------------------------------------------------------------------------
(* One sandbox: a server behind a preview URL *)

DevServerPreview == OneSandbox(Server("box") \o <<Fetch("box")>>)

DevServerGitPreview == OnePreview(<<Call("box")>> \o Server("box"))

(* The preview URL is requested by the third party that runs the agent. *)
McpBrowserbase ==
  OneSandbox(<<Call("box"), Serve("box")>> \o OrDiagnose(AwaitPort("box"), "box")
             \o <<Fetch("box")>>)

(* The command that starts the server may report a spurious error. *)
TextEmbeddings ==
  Prepared \o
  WithPreview(createWithRetry("box"),
              <<Call("box"), MayThrow(Tolerated(Serve("box"))), AwaitPort("box")>>
                \o OrDiagnose(Fetch("box"), "box") \o <<Fetch("box")>>,
              DestroyWithRetry("box"))

AstroSandbox ==
  Prepared \o
  OnePreview(<<Call("box")>> \o Server("box") \o OrDiagnose(Fetch("box"), "box"))

OpencodeServer ==
  OnePreview(<<Call("box")>> \o Server("box") \o OrDiagnose(Fetch("box"), "box")
             \o <<Fetch("box")>>)

Pushgateway ==
  OnePreview(<<Call("box")>> \o Server("box") \o <<Call("box")>>
             \o OrDiagnose(Fetch("box"), "box"))

FastApi ==
  Prepared \o
  OnePreview(<<Call("box")>> \o Server("box") \o OrDiagnose(Fetch("box"), "box")
             \o <<Fetch("box")>>)

CodeServer ==
  OnePreview(<<Call("box")>> \o Server("box") \o OrDiagnose(Fetch("box"), "box"))

HeadlessChromium ==
  OnePreview(<<Call("box")>> \o Server("box") \o OrDiagnose(Fetch("box"), "box")
             \o <<Fetch("box")>>)

(* The last requests are a probe: the run ends well without an answer. *)
OpenclawGateway ==
  OnePreview(<<Call("box")>> \o Server("box") \o <<Call("box"), Tolerated(Fetch("box"))>>)

AioSandbox ==
  Prepared \o
  OnePreview(<<Call("box")>> \o Server("box") \o <<Fetch("box"), Call("box")>>)

-----------------------------------------------------------------------------
(* One sandbox: creation and destruction retried by the program *)

(* The pause is a demonstration: when any part of it fails, the sandbox is   *)
(* brought back before it is queried.                                        *)
pauseAndResume ==
  <<OrSkip(Pause("box"), 3), OrSkip(AwaitPaused("box"), 2), OrSkip(Resume("box"), 1),
    ThenSkip(Tolerated(AwaitRunning("box")), 1), Recover("box")>>

queryIndex == <<Retried(Call("box"), 3), Host, Tolerated(Call("box"))>>

LlamaIndexRag ==
  <<TryFinally(<<createWithRetry("box"), Call("box")>> \o pauseAndResume \o queryIndex,
               <<DestroyWithRetry("box")>>)>>

FirecrawlAnalyze ==
  Prepared \o
  <<TryFinally(<<createWithRetry("box"), Call("box"), Host>>, <<DestroyWithRetry("box")>>)>>

AnalyzeData ==
  <<TryFinally(<<createWithRetry("box"), Host, Call("box"), Host, Call("box"), Host>>,
               <<DestroyWithRetry("box")>>)>>

(* The worker inside the sandbox runs the session's tools; its report is     *)
(* downloaded once it is there.                                              *)
SelfHostedWorker ==
  <<TryFinally(<<createSandbox("box"), Call("box"), Host, Retried(Call("box"), 8)>>,
               <<DestroyQuietly("box")>>)>>

EgressLockedWorker ==
  <<TryFinally(<<createSandbox("box"), Call("box"), Host,
                 Retried(Call("box"), 8), Call("box")>>,
               <<DestroyQuietly("box")>>)>>

(* The working directory is made before the try block. *)
SandboxTool ==
  <<Unguarded(<<createSandbox("box"), Call("box")>>),
    TryFinally(<<Host, Maybe(2), Call("box"), Host, Call("box")>>,
               <<DestroyQuietly("box"), Tolerated(Host)>>)>>

-----------------------------------------------------------------------------
(* A graph of nodes around one sandbox: a node that returns an error routes  *)
(* to the end.                                                               *)

generateCode == MayThrow(OrSkip(Host, 2))
runInSandbox == MayThrow(OrSkip(Call("box"), 1))

LangGraph == OneSandbox(<<Call("box"), generateCode, runInSandbox, Host>>)

-----------------------------------------------------------------------------
(* Several sandboxes, one after the other *)

handleSession(r) ==
  TryFinally(<<createSandbox(r), Call(r)>> \o OrDiagnose(Retried(Call(r), 45), r),
             <<DestroyQuietly(r)>>)

SandboxPerSession == Prepared \o <<handleSession("a"), handleSession("b")>>

runInFreshSandbox(r) == TryFinally(<<createSandbox(r), Call(r)>>, <<DestroyQuietly(r)>>)

SandboxPerCall ==
  Prepared \o <<runInFreshSandbox("a"), Unguarded(<<Host>>), runInFreshSandbox("b"),
                Unguarded(<<Host>>)>>

(* The second sandbox is to delete itself; whatever error the poll meets is  *)
(* taken for its absence.                                                    *)
SelfSignal ==
  <<TryFinally(<<Create("a"), Call("a"), SelfPause("a"), AwaitPaused("a"), Resume("a"),
                 AwaitRunning("a"), Call("a")>>,
               <<DestroyQuietly("a")>>),
    Unguarded(<<Create("b"), Call("b"), SelfDelete("b"), OrSkip(Probe("b"), 1),
                DestroyQuietly("b")>>)>>

-----------------------------------------------------------------------------
(* Forks *)

(* A resume that is slow ends the demonstration without an error. *)
FilesystemSnapshots ==
  <<TryFinally(<<Create("box"), Call("box"), Pause("box"), AwaitPaused("box"),
                 ForkPaused("box", "a"), AwaitPaused("a"), Resume("a"),
                 MayThrow(OrSkip(AwaitRunning("a"), 4)), Call("a"),
                 Resume("box"), MayThrow(OrSkip(AwaitRunning("box"), 1)), CallAll({"a", "box"})>>,
               <<DestroyQuietly("a"), DestroyQuietly("box")>>)>>

(* A fork whose snapshot takes too long is given up. *)
runOnFork(r) ==
  <<Retried(ForkPaused("box", r), 2), MayThrow(OrSkip(AwaitPaused(r), 3)),
    Resume(r), AwaitRunning(r), Call(r), DestroyQuietly(r)>>

JupyterSingleton ==
  Prepared \o
  <<TryFinally(<<createWithRetry("box"), Call("box"), Pause("box"), AwaitPaused("box")>>
                 \o runOnFork("a") \o runOnFork("b"),
               <<DestroyQuietly("a"), DestroyQuietly("b"), DestroyQuietly("box")>>)>>

-----------------------------------------------------------------------------
(* Sandboxes on a template, a disk or a snapshot *)

(* The log stream may break off; the poll decides whether the build is done. *)
DockerTemplate ==
  <<TryFinally(<<Create("template"), Tolerated(Call("template")), Call("template"),
                 Create("box"), Call("box")>>,
               <<DestroyQuietly("box"), DestroyQuietly("template")>>)>>

destroyAfter(r) == <<Destroy(r)>>
pauseAfter(r) == <<Pause(r), Keep(r)>>

(* The mode is that of CLEANUP_MODE. *)
transcodeOne(r, mode) ==
  <<Create(r), Call(r), Host>> \o (IF mode = "pause" THEN pauseAfter(r) ELSE destroyAfter(r))

(* The disk is created unless one of its name exists, which then stays.      *)
VideoTranscode(mode) ==
  Prepared \o
  <<TryFinally(<<Maybe(1), Create("disk"), Host>>
                 \o transcodeOne("a", mode)
                 \o <<Maybe(Len(transcodeOne("b", mode)))>>
                 \o transcodeOne("b", mode),
               <<Tolerated(Call("a")), DestroyQuietly("a"), Tolerated(Call("b")),
                 DestroyQuietly("b"), DestroyQuietly("disk")>>)>>

(* The deletions are awaited bare: one that fails keeps the next from being  *)
(* made.  A snapshot still being taken is not deleted.                       *)
ReusableSnapshots ==
  <<TryFinally(<<Create("box"), Create("snapshot"), Call("snapshot"), Create("a")>>,
               <<Destroy("a"), Destroy("box"), OrSkip(Host, 1), Destroy("snapshot")>>)>>

-----------------------------------------------------------------------------
(* Sandboxes created together *)

Shards == {"a", "b", "c"}

prepareAndRunShards == <<CallAll(Shards)>>

(* The list of what to destroy is filled when all creations are answered.    *)
BatchInference ==
  Prepared \o
  <<TryFinally(<<Retried(CreateAll(Shards), 6)>> \o prepareAndRunShards \o <<Host>>,
               <<DestroyAll(Shards), Tolerated(Host)>>)>>

Peers == {"a", "b", "c"}

createNetwork == Retried(Create("network"), 10)

(* The list is filled only after the overlay addresses are known. *)
meshPeers ==
  <<Unheld(CreateAll(Peers)), Call("network"), Hold(Peers), CallAll(Peers), Host>>

leaveMesh == <<DestroyAll(Peers), Retried(DestroyQuietly("network"), 5)>>

(* Without a network the program ends quietly. *)
RadicleMesh ==
  <<TryFinally(<<OrSkip(createNetwork, Len(meshPeers))>> \o meshPeers, leaveMesh)>>

provisionMesh ==
  <<Create("template"), Tolerated(Call("template")), Call("template"),
    Retried(Create("network"), 6), Create("disk"),
    Retried(Create("box"), 6), Call("box"), Call("network")>>

(* The second agent is killed when its trust has fallen below the floor, the *)
(* first is cloned.                                                          *)
runMesh ==
  <<Retried(CreateAll({"a", "b"}), 6), Call("a"), CallAll({"a", "b"}), Call("box"),
    Maybe(2), Tolerated(Pause("b")), DestroyQuietly("b"),
    OrSkip(Pause("a"), 3), OrSkip(AwaitPaused("a"), 2), OrSkip(Fork("a", "clone"), 1),
    DestroyQuietly("clone"), Call("box"), Host, Tolerated(Call("box")), Host>>

tearDownMesh ==
  <<DestroyAll({"box", "a", "b"}), Sweep({"box", "a", "b"}),
    Retried(DestroyQuietly("disk"), 6), Retried(DestroyQuietly("network"), 6),
    DestroyQuietly("template")>>

GovernanceMesh == <<TryFinally(provisionMesh \o runMesh, tearDownMesh)>>
=============================================================================
