------------------------------- MODULE PollUntil -------------------------------
(***************************************************************************)
(* pollUntil and sleep (src/poll.ts) in real time, in milliseconds, for one *)
(* wait that starts at time 0.  Time passes while poll() is under way and   *)
(* while the loop sleeps, and nowhere else.                                 *)
(***************************************************************************)
EXTENDS Integers, FiniteSetsExt

CONSTANTS Timeout,    \* timeoutMs, the budget of the wait
          Latencies,  \* how long a request, or its reply, may be under way
          Lateness    \* how late a timer may fire

ASSUME ConstantsAssumption ==
  /\ Timeout \in Nat
  /\ Latencies \subseteq Nat /\ Lateness \subseteq Nat
  /\ \E m \in Latencies : \A d \in Latencies : d <= m  \* requests are timed
  /\ \E m \in Lateness : \A l \in Lateness : l <= m

VARIABLES now,       \* Date.now(), counted from the start of the wait
          phase,     \* where the loop is suspended
          interval,  \* the local variable of pollUntil
          wakeAt,    \* when the timer of sleep() is due
          resource,  \* what is polled: "pending" until "ready" or "broken"
          seen,      \* what the last poll() read
          readyAt,   \* when the resource became ready, -1 if it is not
          polledAt,  \* when the last poll() began, -1 if none did
          aborted,   \* the signal of the wait has fired
          result     \* how the promise settled, "none" if it did not

vars == <<now, phase, interval, wakeAt, resource, seen, readyAt, polledAt,
          aborted, result>>

deadline == Timeout
FirstInterval == 250
LongestInterval == 2000

Init ==
  /\ now = 0 /\ phase = "check" /\ interval = FirstInterval /\ wakeAt = 0
  /\ resource = "pending" /\ seen = "pending" /\ readyAt = -1
  /\ polledAt = -1 /\ aborted = FALSE /\ result = "none"

Settle(r) == phase' = "settled" /\ result' = r

(* An aborted loop that goes round instead of giving up. *)
CheckContinuing ==
  /\ phase = "check" /\ ~aborted
  /\ phase' = "request" /\ polledAt' = now /\ UNCHANGED result
  /\ UNCHANGED <<now, interval, wakeAt, resource, seen, readyAt, aborted>>

(* The head of the loop: give up when aborted, else call poll().             *)
Check ==
  /\ phase = "check"
  /\ IF aborted THEN Settle("aborted") /\ UNCHANGED polledAt
     ELSE phase' = "request" /\ polledAt' = now /\ UNCHANGED result
  /\ UNCHANGED <<now, interval, wakeAt, resource, seen, readyAt, aborted>>

(* The server reads the resource. *)
Observe(d) ==
  /\ phase = "request"
  /\ phase' = "reply" /\ now' = now + d /\ seen' = resource
  /\ UNCHANGED <<interval, wakeAt, resource, readyAt, polledAt, aborted, result>>

(* The ramp without its ceiling. *)
UncappedInterval(t) == IF t > 5000 THEN (interval * 5) \div 4 ELSE interval

(* The interval after a poll that ended at time t, in whole milliseconds: the *)
(* code keeps fractions, up to the same 2000.                                *)
NextInterval(t) ==
  IF t > 5000 THEN Min({(interval * 5) \div 4, LongestInterval}) ELSE interval

(* A pause that ignores what is left of the budget. *)
WholeInterval(t) == NextInterval(t)

(* The pause after a poll that ended at time t.                              *)
Pause(t) == Min({NextInterval(t), Max({0, deadline - t})})

(* Looks at the clock before it looks at what the poll read. *)
TimeoutFirst(t) ==
  IF t >= deadline THEN "timeout"
  ELSE CASE seen = "ready" -> "done"
         [] seen = "broken" -> "failed"
         [] OTHER -> "none"

(* What the loop makes of a poll that ended at time t.                       *)
Verdict(t) ==
  IF seen = "ready" THEN "done"
  ELSE IF seen = "broken" THEN "failed"
  ELSE IF t >= deadline THEN "timeout" ELSE "none"

(* poll() resolves.                                                          *)
Decide(d) ==
  /\ phase = "reply"
  /\ now' = now + d
  /\ IF Verdict(now + d) # "none"
     THEN Settle(Verdict(now + d)) /\ UNCHANGED <<interval, wakeAt>>
     ELSE /\ phase' = "sleep"
          /\ interval' = NextInterval(now + d)
          /\ wakeAt' = now + d + Pause(now + d)
          /\ UNCHANGED result
  /\ UNCHANGED <<resource, seen, readyAt, polledAt, aborted>>

(* poll() rejects, and so does the wait.                                     *)
PollRejects(d) ==
  /\ phase \in {"request", "reply"}
  /\ now' = now + d /\ Settle("pollError")
  /\ UNCHANGED <<interval, wakeAt, resource, seen, readyAt, polledAt, aborted>>

(* The timer of sleep() fires. *)
Wake(late) ==
  /\ phase = "sleep"
  /\ phase' = "check" /\ now' = wakeAt + late
  /\ UNCHANGED <<interval, wakeAt, resource, seen, readyAt, polledAt, aborted, result>>

(* The signal cuts the sleep short. *)
WakeAborted ==
  /\ phase = "sleep" /\ aborted
  /\ phase' = "check"
  /\ UNCHANGED <<now, interval, wakeAt, resource, seen, readyAt, polledAt, aborted, result>>

Abort ==
  /\ ~aborted /\ phase # "settled"
  /\ aborted' = TRUE
  /\ UNCHANGED <<now, phase, interval, wakeAt, resource, seen, readyAt, polledAt, result>>

(* The resource reaches the awaited state, or one it cannot leave. *)
ResourceChanges ==
  /\ resource = "pending" /\ phase # "settled"
  /\ \/ resource' = "ready" /\ readyAt' = now
     \/ resource' = "broken" /\ UNCHANGED readyAt
  /\ UNCHANGED <<now, phase, interval, wakeAt, seen, polledAt, aborted, result>>

Loop == \/ Check \/ WakeAborted
        \/ \E d \in Latencies : Observe(d) \/ Decide(d) \/ PollRejects(d)
        \/ \E l \in Lateness : Wake(l)

Next == Loop \/ Abort \/ ResourceChanges

Spec == Init /\ [][Next]_vars

(* Timers fire and every poll() settles: its requests are timed.             *)
FairSpec == Spec /\ WF_vars(Loop)
-----------------------------------------------------------------------------
(* Properties *)

MaxLatency == Max(Latencies)
MaxLateness == Max(Lateness)

(* Every variable stays in its range, the interval within 250 ms and 2 s.    *)
TypeOK ==
  /\ now \in Nat /\ wakeAt \in Nat
  /\ phase \in {"check", "request", "reply", "sleep", "settled"}
  /\ interval \in FirstInterval .. LongestInterval
  /\ {resource, seen} \subseteq {"pending", "ready", "broken"}
  /\ readyAt \in Nat \cup {-1} /\ polledAt \in Nat \cup {-1}
  /\ aborted \in BOOLEAN
  /\ result \in {"none", "done", "failed", "timeout", "aborted", "pollError"}

(* A wait times out no sooner than its deadline, and never when the resource  *)
(* was ready before its last poll began: readiness in the last interval *)
(* before the deadline, or while the last poll runs late, is not missed.     *)
ReadyNotMissed ==
  result = "timeout" =>
    /\ now >= deadline
    /\ readyAt = -1 \/ readyAt >= polledAt

(* A wait is over soon after its deadline: the last sleep is cut to what is   *)
(* left of the budget, so only a late timer and one poll can exceed it.      *)
EndsNearDeadline ==
  now <= deadline + MaxLateness + 2 * MaxLatency

(* Between two polls the loop neither hammers the server - they are 250 ms    *)
(* apart but for the one at the deadline - nor loses touch with it: 250 ms   *)
(* of sleep in the first 5 s, 2 s at most later.                             *)
PollSpacing ==
  [][(polledAt' # polledAt /\ polledAt # -1) =>
       /\ polledAt' - polledAt >= FirstInterval \/ polledAt' >= deadline
       /\ polledAt' - polledAt <= 2 * MaxLatency + MaxLateness
                                  + (IF polledAt' <= 5000 THEN FirstInterval ELSE LongestInterval)]_vars

(* Every wait ends. *)
WaitEnds == <>(phase = "settled")
=============================================================================
