----------------------------- MODULE SandboxHandle -----------------------------
(***************************************************************************)
(* One Sandbox handle (src/sandbox.ts), the method calls in progress on it  *)
(* and the row of its sandbox on the control plane.  A method sends one     *)
(* request, awaits the reply and then writes the cached view #data; a       *)
(* waitUntil* call does so over and over and judges #data after each poll.  *)
(* Replies are applied in whatever order they arrive, and a request whose    *)
(* method threw may still reach the control plane.                          *)
(***************************************************************************)
EXTENDS Integers, FiniteSets

CONSTANTS Calls,       \* method calls in progress on the handle
          Methods,     \* the methods called
          None,        \* no method, no reply
          MaxVersion,  \* bound on the changes of the row
          MaxStray     \* bound on the requests under way whose method threw

Status == {"creating", "running", "pausing", "paused", "resuming", "forking",
           "error", "failed", "destroying", "destroyed"}

WaitMethods == {"waitUntilRunning", "waitUntilPaused", "waitUntilDestroyed"}
PatchMethods == {"ingressOn", "ingressOff"}
MutatingMethods == PatchMethods \cup
  {"pause", "resume", "destroy", "resize", "setLabels", "setAutoPause"}
AllMethods == WaitMethods \cup MutatingMethods \cup {"refresh", "fork"}

(* destroy() and resize() merge one field into the view, fork() leaves it     *)
(* alone; the others replace it by the view in their reply.                  *)
ReplacingMethods == AllMethods \ {"destroy", "resize", "fork"}

(* Sent as GET or DELETE: repeated by requestRaw. *)
RetriedMethods == WaitMethods \cup {"refresh", "destroy"}

ASSUME ConstantsAssumption ==
  /\ Methods \subseteq AllMethods
  /\ MaxVersion \in Nat /\ MaxStray \in Nat

(* A view: the fields of a SandboxView that methods read or write.           *)
Views == [id      : {"self", "child"},
          status  : Status,
          disk    : 0 .. MaxVersion,
          ingress : BOOLEAN]

Terminal == {"destroyed", "failed"}

VARIABLES row,      \* the row on the control plane
          version,  \* counts the changes of the row
          stray,    \* methods that threw while their request was under way
          data,     \* #data, the cached view of the handle
          asOf,     \* the version of the row data.status was read from
          disk,     \* the disk size last acknowledged to the handle, -1 once
                    \* the whole view was replaced
          ingress,  \* the ingress setting last acknowledged, "unknown" once a
                    \* setIngress threw or overlapped a replacing call
          method,   \* method[c]: the method call c runs
          stage,    \* stage[c]: where call c is
          reply,    \* reply[c]: the reply under way to c, the view in it and
                    \* the version of the row it shows
          quiet     \* the version of the row, and whether the sandbox was gone,
                    \* when a call was last made on the handle with no other
                    \* in progress

serverVars == <<row, version>>
viewVars == <<data, asOf>>
ackVars == <<disk, ingress>>
callVars == <<method, stage, reply>>
vars == <<serverVars, stray, viewVars, ackVars, callVars, quiet>>

Born(status) == [id |-> "self", status |-> status, disk |-> 0, ingress |-> TRUE]

(* A handle from createSandbox, or from getSandbox at any later time.        *)
Init ==
  /\ \E s \in Status : row = Born(s)
  /\ version = 0
  /\ data = row /\ asOf = 0
  /\ disk = 0 /\ ingress = "on"
  /\ stray = {}
  /\ method = [c \in Calls |-> None]
  /\ stage = [c \in Calls |-> "idle"]
  /\ reply = [c \in Calls |-> None]
  /\ quiet = [version |-> 0, gone |-> row.status \in Terminal]
-----------------------------------------------------------------------------
(* The control plane *)

(* Transitions the control plane makes by itself. *)
Progress ==
  {<<"creating", "running">>, <<"creating", "failed">>, <<"forking", "running">>,
   <<"running", "pausing">>, <<"running", "error">>, <<"running", "failed">>,
   <<"pausing", "paused">>, <<"resuming", "running">>,
   <<"destroying", "destroyed">>}

Change(newRow) ==
  /\ version < MaxVersion
  /\ row' = newRow
  /\ version' = version + 1

ServerMoves ==
  /\ \E move \in Progress :
       /\ row.status = move[1]
       /\ Change([row EXCEPT !.status = move[2]])
  /\ UNCHANGED <<stray, viewVars, ackVars, callVars, quiet>>

(* The effect of method m on the row, where the control plane allows it.     *)
Effect(m) ==
  \/ /\ m = "pause" /\ row.status = "running"
     /\ Change([row EXCEPT !.status = "pausing"])
  \/ /\ m = "resume" /\ row.status = "paused"
     /\ Change([row EXCEPT !.status = "resuming"])
  \/ /\ m = "destroy" /\ row.status \notin Terminal \cup {"destroying"}
     /\ \E s \in {"destroying", "destroyed"} : Change([row EXCEPT !.status = s])
  \/ /\ m = "destroy" /\ row.status = "failed"
     /\ Change([row EXCEPT !.status = "destroyed"])
  \/ /\ m = "destroy" /\ row.status \in {"destroying", "destroyed"}
     /\ UNCHANGED serverVars
  \/ /\ m = "resize" /\ row.status = "running"
     /\ Change([row EXCEPT !.disk = @ + 1])
  \/ /\ m \in PatchMethods /\ row.ingress # (m = "ingressOn")
     /\ Change([row EXCEPT !.ingress = (m = "ingressOn")])
  \/ /\ m \in PatchMethods /\ row.ingress = (m = "ingressOn")
     /\ UNCHANGED serverVars
  \/ /\ m = "fork" /\ row.status \in {"pausing", "paused"}
     /\ UNCHANGED serverVars
  \/ /\ m \in WaitMethods \cup {"refresh", "setLabels", "setAutoPause"}
     /\ UNCHANGED serverVars

(* The view in the reply: fork answers with the view of the child.           *)
Answer(m) == IF m = "fork" THEN [row' EXCEPT !.id = "child"] ELSE row'

Serve(c) ==
  /\ stage[c] = "request"
  /\ Effect(method[c])
  /\ stage' = [stage EXCEPT ![c] = "reply"]
  /\ reply' = [reply EXCEPT ![c] = [view |-> Answer(method[c]), of |-> version']]
  /\ UNCHANGED <<stray, viewVars, ackVars, method, quiet>>
-----------------------------------------------------------------------------
(* The methods *)

(* The method returns or throws. *)
Return(c) ==
  /\ method' = [method EXCEPT ![c] = None]
  /\ stage' = [stage EXCEPT ![c] = "idle"]
  /\ reply' = [reply EXCEPT ![c] = None]
  /\ UNCHANGED quiet

(* The method goes on, its reply consumed. *)
GoOn(c, where) ==
  /\ stage' = [stage EXCEPT ![c] = where]
  /\ reply' = [reply EXCEPT ![c] = None]
  /\ UNCHANGED <<method, quiet>>

Busy == \E c \in Calls : stage[c] # "idle"

(* The call made when nothing else was in progress begins a busy spell of the *)
(* handle.  Of a setIngress and another call that replaces the view, the     *)
(* reply applied last wins.                                                  *)
Overlap(m) ==
  /\ quiet' = IF Busy THEN quiet
              ELSE [version |-> version, gone |-> row.status \in Terminal]
  /\ ingress' = IF \E c \in Calls :
                     /\ stage[c] # "idle" /\ {m, method[c]} \subseteq ReplacingMethods
                     /\ {m, method[c]} \cap PatchMethods # {}
                THEN "unknown" ELSE ingress

(* A wait that looks at the cached view before its first poll. *)
CallJudgingFirst(c, m) ==
  /\ stage[c] = "idle"
  /\ method' = [method EXCEPT ![c] = m]
  /\ stage' = [stage EXCEPT ![c] = IF m \in WaitMethods THEN "judge" ELSE "request"]
  /\ Overlap(m)
  /\ UNCHANGED <<serverVars, stray, viewVars, disk, reply>>

Call(c, m) ==
  /\ stage[c] = "idle"
  /\ method' = [method EXCEPT ![c] = m]
  /\ stage' = [stage EXCEPT ![c] = "request"]
  /\ Overlap(m)
  /\ UNCHANGED <<serverVars, stray, viewVars, disk, reply>>

(* The attempt in progress is given up; a request still under way can reach   *)
(* the control plane later.                                                  *)
Abandon(c) ==
  \/ UNCHANGED stray
  \/ /\ stage[c] = "request" /\ method[c] \in MutatingMethods
     /\ Cardinality(stray) < MaxStray
     /\ stray' = stray \cup {method[c]}

(* http.request throws - the request or its reply was lost, came too late or *)
(* was turned down - and so does the method; the view stays as it is.        *)
Throw(c) ==
  /\ stage[c] \in {"request", "reply"}
  /\ Abandon(c) /\ Return(c)
  /\ ingress' = IF method[c] \in PatchMethods THEN "unknown" ELSE ingress
  /\ UNCHANGED <<serverVars, viewVars, disk>>

(* requestRaw repeats an idempotent request that failed. *)
Retry(c) ==
  /\ stage[c] \in {"request", "reply"} /\ method[c] \in RetriedMethods
  /\ Abandon(c) /\ GoOn(c, "request")
  /\ UNCHANGED <<serverVars, viewVars, ackVars>>

(* A request whose method gave it up reaches the control plane after all.    *)
ServeStray(m) ==
  /\ m \in stray
  /\ Effect(m)
  /\ stray' = stray \ {m}
  /\ UNCHANGED <<viewVars, ackVars, callVars, quiet>>

(* A destroy() that takes the sandbox to be gone. *)
MergedOptimistic(c) ==
  CASE method[c] = "destroy" -> [data EXCEPT !.status = "destroyed"]
    [] method[c] = "resize"  -> [data EXCEPT !.disk = reply[c].view.disk]
    [] method[c] = "fork"    -> data
    [] OTHER                 -> reply[c].view

(* A setIngress that leaves the cached view alone. *)
MergedWithoutPatch(c) ==
  CASE method[c] = "destroy" -> [data EXCEPT !.status = reply[c].view.status]
    [] method[c] = "resize"  -> [data EXCEPT !.disk = reply[c].view.disk]
    [] method[c] \in PatchMethods \cup {"fork"} -> data
    [] OTHER                 -> reply[c].view

(* A destroy() that replaces the view the way pause() does. *)
MergedReplacing(c) ==
  CASE method[c] = "resize"  -> [data EXCEPT !.disk = reply[c].view.disk]
    [] method[c] = "fork"    -> data
    [] OTHER                 -> reply[c].view

(* Stores the envelope of the reply in place of the view. *)
MergedEnvelope(c) == IF method[c] = "refresh" THEN reply[c] ELSE data

(* #data after the reply: fork() hands the view of the child to a new handle. *)
Merged(c) ==
  IF method[c] = "destroy" THEN [data EXCEPT !.status = reply[c].view.status]
  ELSE IF method[c] = "resize" THEN [data EXCEPT !.disk = reply[c].view.disk]
  ELSE IF method[c] = "fork" THEN data
  ELSE reply[c].view

Apply(c) ==
  /\ stage[c] = "reply"
  /\ data' = Merged(c)
  /\ asOf' = IF method[c] \in {"resize", "fork"} THEN asOf
             ELSE reply[c].of
  /\ disk' = IF method[c] = "resize" THEN reply[c].view.disk
             ELSE IF method[c] \in {"destroy", "fork"} THEN disk ELSE -1
  /\ ingress' = IF ingress = "unknown" \/ method[c] \notin PatchMethods THEN ingress
                ELSE IF method[c] = "ingressOn" THEN "on" ELSE "off"
  /\ IF method[c] \in WaitMethods THEN GoOn(c, "judge") ELSE Return(c)
  /\ UNCHANGED <<serverVars, stray>>

Awaited(m) == CASE m = "waitUntilRunning"   -> "running"
                [] m = "waitUntilPaused"    -> "paused"
                [] m = "waitUntilDestroyed" -> "destroyed"

(* A wait for running or paused that does not give up on destruction. *)
BadStatesSameForAll(m) == {"error", "failed"}

BadStates(m) ==
  IF m = "waitUntilDestroyed" THEN {"error", "failed"}
  ELSE {"error", "failed", "destroying", "destroyed"}

(* pollUntil looks at the view that poll() returned: not the reply, but what  *)
(* #data is once the caller of refresh() goes on.  The wait resolves, throws *)
(* on a bad state, or sleeps and polls again.                                *)
Resolve(c) ==
  /\ stage[c] = "judge" /\ data.status = Awaited(method[c])
  /\ Return(c)
  /\ UNCHANGED <<serverVars, stray, viewVars, ackVars>>

GiveUp(c) ==
  /\ stage[c] = "judge" /\ data.status \in BadStates(method[c])
  /\ Return(c)
  /\ UNCHANGED <<serverVars, stray, viewVars, ackVars>>

PollAgain(c) ==
  /\ stage[c] = "judge"
  /\ data.status \notin BadStates(method[c]) \cup {Awaited(method[c])}
  /\ GoOn(c, "request")
  /\ UNCHANGED <<serverVars, stray, viewVars, ackVars>>

(* The budget of the wait is used up. *)
WaitTimesOut(c) ==
  /\ stage[c] = "judge"
  /\ data.status \notin BadStates(method[c]) \cup {Awaited(method[c])}
  /\ Return(c)
  /\ UNCHANGED <<serverVars, stray, viewVars, ackVars>>

Next ==
  \/ ServerMoves \/ \E m \in stray : ServeStray(m)
  \/ \E c \in Calls :
       \/ \E m \in Methods : Call(c, m)
       \/ Serve(c) \/ Throw(c) \/ Retry(c) \/ Apply(c)
       \/ Resolve(c) \/ GiveUp(c) \/ PollAgain(c) \/ WaitTimesOut(c)

Spec == Init /\ [][Next]_vars
-----------------------------------------------------------------------------
(* Properties *)

(* Every variable stays in its range.                                        *)
TypeOK ==
  /\ row \in Views /\ data \in Views
  /\ version \in 0 .. MaxVersion /\ asOf \in 0 .. MaxVersion
  /\ ingress \in {"on", "off", "unknown"}
  /\ disk \in -1 .. MaxVersion
  /\ stray \subseteq Methods
  /\ method \in [Calls -> Methods \cup {None}]
  /\ stage \in [Calls -> {"idle", "request", "reply", "judge"}]
  /\ reply \in [Calls -> [view : Views, of : 0 .. MaxVersion] \cup {None}]
  /\ quiet \in [version : 0 .. MaxVersion, gone : BOOLEAN]

(* The handle never reports a sandbox destroyed that is not, in whatever      *)
(* order concurrent replies are applied: so waitUntilDestroyed never         *)
(* resolves early.  Nor does it report one failed that has not, although a   *)
(* failed sandbox may have been destroyed since.                             *)
TerminalIsTrue ==
  /\ data.status = "destroyed" => row.status = "destroyed"
  /\ data.status = "failed" => row.status \in Terminal

(* A resize() or destroy() that lands while the other is in progress keeps    *)
(* the field the other merged: the cached disk size is the one last          *)
(* acknowledged.  A method that replaces the whole view can undo it, with a  *)
(* reply read before the resize and applied after it.                        *)
DiskAsAcked == disk = -1 \/ data.disk = disk

(* After setIngress succeeded the cached view shows that setting, so that     *)
(* previewUrl does not hand out the URL of an ingress that is off ("a handle *)
(* whose ingress was disabled must not hand back a dead URL",                *)
(* src/sandbox.ts:1670), whatever destroy(), resize() and fork() are under    *)
(* way beside it.  Not so once a setIngress threw, or overlapped a call that *)
(* replaces the view: a reply read before the change and applied after it    *)
(* undoes it.                                                                *)
IngressAsAcked ==
  /\ ingress = "on" => data.ingress
  /\ ingress = "off" => ~data.ingress

(* "by the time waitUntilRunning() resolves, the handle reflects the state    *)
(* the server confirmed" (docs/explanation/handle-model.md:63).  Another call *)
(* can put its own reply into #data between the poll of a wait and its look  *)
(* at the view, and that reply may be older than the wait; but however many  *)
(* calls overlap, a wait resolves on nothing older than the busy spell it is *)
(* part of, and a wait that is alone on nothing older than itself.           *)
WaitSeesCurrentState ==
  [][\A c \in Calls : Resolve(c) => asOf >= quiet.version]_vars

(* A wait on a sandbox that was destroyed or had failed before the busy spell *)
(* began ends with its first poll, by resolving or by throwing, and never    *)
(* sleeps or times out, whatever the other calls of the spell write into the *)
(* view between that poll and the look at it.                                *)
GoneEndsWait ==
  [][\A c \in Calls : quiet.gone => ~PollAgain(c) /\ ~WaitTimesOut(c)]_vars
=============================================================================
