---------------------------- MODULE ClientOperations ----------------------------
(***************************************************************************)
(* The operations of the SDK (src/client.ts, src/sandbox.ts), most of them  *)
(* one request of HttpRequest each: by which method it is sent, how it      *)
(* narrows what the caller may choose, and what a second execution of it    *)
(* would do on the control plane:                                           *)
(*   read    nothing                                                        *)
(*   set     leave what the first one has set                               *)
(*   remove  find what it removes gone                                      *)
(*   add     create, count, run or deliver something once more              *)
(* list() and iterate() stand for the request of each page.                 *)
(***************************************************************************)
EXTENDS HttpRequest

(* once: sent with retry: false; upload: the caller may pass a stream as the *)
(* body; streaming: made through stream().                                   *)
Op(method, effect) ==
  [method |-> method, effect |-> effect, once |-> FALSE, upload |-> FALSE, streaming |-> FALSE]

Get     == Op("GET", "read")
Put     == Op("PUT", "set")
Remove  == Op("DELETE", "remove")
Add     == Op("POST", "add")
Set     == Op("POST", "set")
Patch   == Op("PATCH", "set")
Stream(op) == [op EXCEPT !.streaming = TRUE]

-----------------------------------------------------------------------------
(* CreateosSandboxClient and its catalogs *)

ServiceOperations ==
  [healthz |-> Get, readyz |-> [Get EXCEPT !.once = TRUE], whoami |-> Get,
   listShapes |-> Get, listRootfs |-> Get, listHosts |-> Get, iterateHosts |-> Get]

SandboxesOperations ==
  [createSandbox |-> Add, getSandbox |-> Get, getSandboxByIP |-> Get,
   listSandboxes |-> Get, iterateSandboxes |-> Get]

TemplatesApi ==
  [list |-> Get, iterate |-> Get, create |-> Add, get |-> Get, delete |-> Remove,
   logs |-> Get, followLogs |-> Stream(Get)]

NetworksApi == [list |-> Get, iterate |-> Get, create |-> Add, get |-> Get, delete |-> Remove]

DisksApi ==
  [list |-> Get, iterate |-> Get, create |-> Add, get |-> Get, delete |-> Remove,
   rotateCredentials |-> Patch]

SnapshotsApi == [list |-> Get, iterate |-> Get, get |-> Get, delete |-> Remove]

-----------------------------------------------------------------------------
(* Sandbox *)

SandboxCheckpoints == [create |-> Add, list |-> Get, restore |-> Set, delete |-> Remove]

SandboxFiles == [upload |-> [Put EXCEPT !.upload = TRUE], download |-> Get]

SandboxProcesses ==
  [create |-> Add, list |-> Get, get |-> Get, connect |-> Stream(Get), inputBytes |-> Add,
   closeStdin |-> Set, resize |-> Set, signal |-> Add, wait |-> Get, delete |-> Remove]

SandboxComputerMouse ==
  [move |-> Set, click |-> Add, scroll |-> Add, drag |-> Add, down |-> Set, up |-> Set]

SandboxComputerKeyboard == [type |-> Add, press |-> Add, down |-> Set, up |-> Set]

SandboxComputerWindows ==
  [list |-> Get, current |-> Get, get |-> Get, geometry |-> Get, windowAction |-> Set,
   close |-> Remove]

SandboxComputerScreens ==
  [list |-> Get, create |-> Add, get |-> Get, connect |-> Get, resize |-> Set,
   delete |-> Remove]

SandboxComputer ==
  [screenshot |-> Get, screen |-> Get, cursor |-> Get, clipboard |-> Get,
   setClipboard |-> Put, open |-> Add, launch |-> Add]

AccessTokenOperations ==
  [create |-> Add, get |-> Get, rotate |-> Add, disable |-> Remove]

(* sh() and waitForPortReady() are runs of a command, too.  A second POST     *)
(* /exec runs the command a second time, whatever the command does then.     *)
CommandOperations == [runCommand |-> Add, streamCommand |-> Stream(Add)]

LifecycleOperations ==
  [refresh |-> Get, pause |-> Set, resume |-> Set, createSnapshot |-> Add, fork |-> Add,
   destroy |-> Remove, resize |-> Set]

ConfigurationOperations ==
  [setIngress |-> Patch, setLabels |-> Patch, setAutoPause |-> Patch, addSSHPubkeys |-> Add,
   getEgress |-> Get, setEgress |-> Put]

(* A recharge by PUT, as if it set the quota. *)
BandwidthByPut == [getBandwidth |-> Get, rechargeBandwidth |-> Op("PUT", "add")]

BandwidthOperations == [getBandwidth |-> Get, rechargeBandwidth |-> Add]

AttachmentOperations ==
  [attachNetwork |-> Add, detachNetwork |-> Remove, listDisks |-> Get, iterateDisks |-> Get,
   attachDisk |-> Add, detachDisk |-> Remove]

-----------------------------------------------------------------------------
Classes ==
  {ServiceOperations, SandboxesOperations, TemplatesApi, NetworksApi, DisksApi, SnapshotsApi,
   SandboxCheckpoints, SandboxFiles, SandboxProcesses, SandboxComputerMouse,
   SandboxComputerKeyboard, SandboxComputerWindows, SandboxComputerScreens, SandboxComputer,
   AccessTokenOperations, CommandOperations, LifecycleOperations, ConfigurationOperations,
   BandwidthOperations, AttachmentOperations}

Operations == UNION {{class[name] : name \in DOMAIN class} : class \in Classes}

(* What a call of op may be made with: the caller chooses the budget, whether *)
(* to retry at all, and the timeout.                                         *)
OptionsOf(op) ==
  {o \in CallOptions :
     /\ o.method = op.method
     /\ o.streaming = op.streaming
     /\ op.once => ~o.retry
     /\ ~op.upload => o.replayable}

(* The options of operations of which a second execution shows. *)
Additions == UNION {OptionsOf(op) : op \in {x \in Operations : x.effect = "add"}}

(* "it never silently re-sends a request the server may have already         *)
(* processed, because doing so could double-create a sandbox or double-charge *)
(* bandwidth" (docs/explanation/reliability.md:5): no operation whose second *)
(* execution would show is executed twice, whichever method its wrapper has  *)
(* chosen and whatever the network does.  A run of a command is one of them: *)
(* the code sends it as a POST and repeats it as little as a creation.       *)
(* docs/how-to/streaming.md takes it for idempotent, see RunCommandRetried.  *)
RepeatHarmless ==
  \A c \in Calls : opts[c] \in Additions => \A j, k \in Executed(c) : j = k
-----------------------------------------------------------------------------
(* A claim of the repository that this code does not keep *)

(* "`runCommand` (buffered, idempotent) is retried automatically on network   *)
(* errors and transient server failures (`500`/`502`/`503`/`504`)"           *)
(* (docs/how-to/streaming.md:165): a run of a command with retries on fails   *)
(* for one of these reasons only when its budget is used up.                 *)
RunCommandRetried ==
  \A c \in Calls :
    /\ opts[c] \in OptionsOf(CommandOperations.runCommand) /\ opts[c].retry
    /\ outcome[c] = "connection" \/ (outcome[c] = "api" /\ reply[c] \in {500, 502, 503, 504})
    => attempt[c] = opts[c].maxRetries
=============================================================================
