------------------------------ MODULE MCExamples ------------------------------
(* The programs of Examples as constants of ResourcePrograms. *)
EXTENDS ProgramText, Examples, SequencesExt

AllPrograms ==
  [HelloWorld |-> HelloWorld,
   CodeInterpreter |-> CodeInterpreter,
   AiCodeAgent |-> AiCodeAgent,
   OpenAiAgents |-> OpenAiAgents,
   McpClaudeCode |-> McpClaudeCode,
   TigerFs |-> TigerFs,
   AcpHelloWorld |-> AcpHelloWorld,
   GoogleAdk |-> GoogleAdk,
   S3BucketMount |-> S3BucketMount,
   PlaywrightBrowser |-> PlaywrightBrowser,
   GitCloneLsp |-> GitCloneLsp,
   CodexCli |-> CodexCli,
   BandwidthRecharge |-> BandwidthRecharge,
   IdleAutoPause |-> IdleAutoPause,
   PdfExtractor |-> PdfExtractor,
   DocToMarkdown |-> DocToMarkdown,
   Crawler |-> Crawler,
   ChangelogGenerator |-> ChangelogGenerator,
   GithubWiki |-> GithubWiki,
   MastraAgent |-> MastraAgent,
   EffectiveAgents |-> EffectiveAgents,
   AnchorBrowser |-> AnchorBrowser,
   ManagedProcess |-> ManagedProcess,
   DesktopVnc |-> DesktopVnc,
   RemoteCodeExecution |-> RemoteCodeExecution,
   AccessToken |-> AccessToken,
   Checkpoints |-> Checkpoints,
   DevServerPreview |-> DevServerPreview,
   DevServerGitPreview |-> DevServerGitPreview,
   McpBrowserbase |-> McpBrowserbase,
   TextEmbeddings |-> TextEmbeddings,
   AstroSandbox |-> AstroSandbox,
   OpencodeServer |-> OpencodeServer,
   Pushgateway |-> Pushgateway,
   FastApi |-> FastApi,
   CodeServer |-> CodeServer,
   HeadlessChromium |-> HeadlessChromium,
   OpenclawGateway |-> OpenclawGateway,
   AioSandbox |-> AioSandbox,
   LlamaIndexRag |-> LlamaIndexRag,
   FirecrawlAnalyze |-> FirecrawlAnalyze,
   AnalyzeData |-> AnalyzeData,
   SelfHostedWorker |-> SelfHostedWorker,
   EgressLockedWorker |-> EgressLockedWorker,
   SandboxTool |-> SandboxTool,
   LangGraph |-> LangGraph,
   SandboxPerSession |-> SandboxPerSession,
   SandboxPerCall |-> SandboxPerCall,
   SelfSignal |-> SelfSignal,
   FilesystemSnapshots |-> FilesystemSnapshots,
   JupyterSingleton |-> JupyterSingleton,
   DockerTemplate |-> DockerTemplate,
   ReusableSnapshots |-> ReusableSnapshots,
   BatchInference |-> BatchInference,
   RadicleMesh |-> RadicleMesh,
   GovernanceMesh |-> GovernanceMesh,
   VideoTranscode |-> VideoTranscode("destroy"),
   VideoTranscodePause |-> VideoTranscode("pause")]

-----------------------------------------------------------------------------
(* The best outline of a program, from its first step to its last: what is    *)
(* known at a place is what all the steps that lead there agree on.          *)
Agreed(F) ==
  [up |-> {r \in Resources : \A f \in F : r \in f.up},
   paused |-> {r \in Resources : \A f \in F : r \in f.paused},
   listening |-> {r \in Resources : \A f \in F : r \in f.listening}]

OutlineOf(steps, entry) ==
  LET Into(known, j) ==
        {After(steps[i], known[i]) :
           i \in {i \in 1 .. j - 1 : steps[i].do # "raise" /\ i + steps[i].ok = j}}
        \cup {KeptBy(steps[i], known[i]) :
                i \in {i \in 1 .. j - 1 : j - i \in steps[i].fail}}
  IN FoldLeft(LAMBDA known, j : Append(known, Agreed(Into(known, j + 1))),
              <<entry>>, [i \in 1 .. Len(steps) |-> i])

ProgramOutline(text) ==
  FoldLeft(LAMBDA done, b :
             LET entry == IF done = <<>> THEN NoFacts ELSE Last(Last(done).cleanup)
                 body == OutlineOf(b.body, entry)
             IN Append(done, [body |-> body, cleanup |-> OutlineOf(b.cleanup, Last(body))]),
           <<>>, text)

(* What ProgramTextProofs asks of the text of the programs. *)
ASSUME ExamplesAssumption ==
  /\ OrderedPrograms
  /\ \A p \in DOMAIN Programs : Outlines(ProgramOutline(Programs[p]), Programs[p])
=============================================================================
