---------------------------- MODULE PollUntilProofs ----------------------------
(***************************************************************************)
(* pollUntil for every budget, however long a request takes and however    *)
(* late a timer fires, as long as there is a bound on both.                *)
(***************************************************************************)
EXTENDS PollUntil, TLAPS

(* What has settled is over, and nothing has before.                         *)
SettledInv == phase # "settled" => result = "none"

(* How far the clock can be at each place of the loop.                       *)
ClockInv ==
  /\ polledAt <= now
  /\ phase \in {"check", "request"} => now <= deadline + MaxLateness
  /\ phase = "reply" => now <= deadline + MaxLateness + MaxLatency
  /\ phase = "settled" => now <= deadline + MaxLateness + 2 * MaxLatency
  /\ phase = "sleep" => now <= wakeAt /\ wakeAt <= deadline

(* What is known of the resource is not older than the poll that read it.    *)
SeenInv ==
  /\ resource # "ready" => readyAt = -1
  /\ readyAt <= now
  /\ phase = "reply" /\ seen = "pending" => readyAt = -1 \/ readyAt >= polledAt

(* How far the last poll is behind.                                          *)
SpacingInv ==
  /\ now <= 5000 => interval = FirstInterval
  /\ phase = "request" => now = polledAt
  /\ phase = "reply" => now <= polledAt + MaxLatency
  /\ phase \in {"reply", "sleep"} => polledAt # -1
  /\ phase = "sleep" =>
       /\ now <= polledAt + 2 * MaxLatency
       /\ wakeAt - now <= interval
       /\ wakeAt - now >= FirstInterval \/ wakeAt = deadline
  /\ phase = "check" /\ polledAt # -1 /\ ~aborted =>
       /\ now - polledAt >= FirstInterval \/ now >= deadline
       /\ now - polledAt <= 2 * MaxLatency + MaxLateness
                            + (IF now <= 5000 THEN FirstInterval ELSE LongestInterval)

IInv == TypeOK /\ SettledInv /\ ClockInv /\ SeenInv /\ SpacingInv /\ ReadyNotMissed

-----------------------------------------------------------------------------
(* Arithmetic *)

(* The maximum of a set that has one. *)
LEMMA MaxOfBounded ==
  ASSUME NEW S, S \subseteq Nat, \E m \in S : \A d \in S : d <= m
  PROVE  Max(S) \in S /\ \A d \in S : d <= Max(S)
BY DEF Max

LEMMA MaxOfTwo ==
  ASSUME NEW a \in Int, NEW b \in Int
  PROVE  /\ Max({a, b}) \in {a, b}
         /\ a <= Max({a, b}) /\ b <= Max({a, b})
<1>1. \E x \in {a, b} : \A y \in {a, b} : x >= y
  OBVIOUS
<1>2. QED
  BY <1>1 DEF Max

LEMMA MinOfTwo ==
  ASSUME NEW a \in Int, NEW b \in Int
  PROVE  /\ Min({a, b}) \in {a, b}
         /\ Min({a, b}) <= a /\ Min({a, b}) <= b
<1>1. \E x \in {a, b} : \A y \in {a, b} : x <= y
  OBVIOUS
<1>2. QED
  BY <1>1 DEF Min

LEMMA Bounds ==
  /\ MaxLatency \in Nat /\ \A d \in Latencies : d \in Nat /\ d <= MaxLatency
  /\ MaxLateness \in Nat /\ \A l \in Lateness : l \in Nat /\ l <= MaxLateness
  /\ deadline \in Nat
<1>1. Max(Latencies) \in Latencies /\ \A d \in Latencies : d <= Max(Latencies)
  BY MaxOfBounded, ConstantsAssumption
<1>2. Max(Lateness) \in Lateness /\ \A l \in Lateness : l <= Max(Lateness)
  BY MaxOfBounded, ConstantsAssumption
<1>3. QED
  BY <1>1, <1>2, ConstantsAssumption DEF MaxLatency, MaxLateness, deadline

LEMMA Intervals ==
  /\ FirstInterval = 250 /\ LongestInterval = 2000
  /\ FirstInterval \in Nat /\ LongestInterval \in Nat
BY DEF FirstInterval, LongestInterval

(* The ramp stays between its start and its ceiling.                         *)
LEMMA Ramp ==
  ASSUME interval \in FirstInterval .. LongestInterval, NEW t \in Nat
  PROVE  /\ NextInterval(t) \in FirstInterval .. LongestInterval
         /\ t <= 5000 => NextInterval(t) = interval
<1> DEFINE ramped == (interval * 5) \div 4
<1>1. interval \in Int /\ interval >= 250
  BY Intervals
<1>2. ramped \in Int /\ ramped >= 250
  BY <1>1, Z3
<1>3. CASE t > 5000
  <2>1. NextInterval(t) = Min({ramped, LongestInterval})
    BY <1>3 DEF NextInterval
  <2> HIDE DEF ramped
  <2> DEFINE next == Min({ramped, LongestInterval})
  <2>2. next \in {ramped, LongestInterval} /\ next <= LongestInterval
    BY <1>2, Intervals, MinOfTwo
  <2> HIDE DEF next
  <2>3. next \in FirstInterval .. LongestInterval
    BY <1>2, <2>2, Intervals
  <2>4. QED
    BY <1>3, <2>1, <2>3 DEF next
<1>4. CASE ~(t > 5000)
  BY <1>4 DEF NextInterval
<1>5. QED
  BY <1>3, <1>4

LEMMA PauseBounds ==
  ASSUME interval \in FirstInterval .. LongestInterval, NEW t \in Nat, t < deadline
  PROVE  /\ Pause(t) \in Nat
         /\ Pause(t) <= NextInterval(t)
         /\ t + Pause(t) <= deadline
         /\ Pause(t) >= FirstInterval \/ t + Pause(t) = deadline
<1> DEFINE gap == deadline - t
           next == NextInterval(t)
           cut == Min({next, gap})
<1>1. gap \in Nat \ {0} /\ t + gap = deadline
  BY Bounds
<1>2. next \in FirstInterval .. LongestInterval
  BY Ramp
<1>3. Pause(t) = Min({next, Max({0, gap})})
  BY DEF Pause
<1> HIDE DEF gap, next
<1>4. Max({0, gap}) = gap
  <2>1. 0 \in Int /\ gap \in Int
    BY <1>1
  <2>2. Max({0, gap}) \in {0, gap} /\ gap <= Max({0, gap})
    BY <2>1, MaxOfTwo, Zenon
  <2>3. QED
    BY <1>1, <2>2
<1>5. cut \in {next, gap} /\ cut <= next /\ cut <= gap
  <2>1. next \in Int /\ gap \in Int
    BY <1>1, <1>2, Intervals
  <2>2. QED
    BY <2>1, MinOfTwo
<1>6. Pause(t) = cut
  BY <1>3, <1>4
<1> HIDE DEF cut
<1>7. /\ cut \in Nat /\ cut <= next /\ t + cut <= deadline
      /\ cut >= FirstInterval \/ t + cut = deadline
  <2>1. next \in Nat /\ gap \in Nat /\ next >= FirstInterval
    BY <1>1, <1>2, Intervals
  <2>2. cut \in Nat
    BY <1>5, <2>1
  <2>3. t + cut <= t + gap
    BY <1>5, <2>1, <2>2
  <2>4. cut = gap => t + cut = deadline
    BY <1>1
  <2>5. QED
    BY <1>1, <1>5, <2>1, <2>2, <2>3, <2>4
<1>8. QED
  BY <1>6, <1>7 DEF next

-----------------------------------------------------------------------------
(* The steps of the loop *)

LEMMA InitHolds == Init => IInv
<1> SUFFICES ASSUME Init PROVE IInv
  OBVIOUS
<1> USE DEF Init
<1>1. interval \in FirstInterval .. LongestInterval
  BY Intervals
<1>2. TypeOK
  BY <1>1 DEF TypeOK
<1>3. ClockInv
  BY Bounds DEF ClockInv
<1>4. SpacingInv
  BY DEF SpacingInv
<1>5. QED
  BY <1>2, <1>3, <1>4 DEF IInv, SettledInv, SeenInv, ReadyNotMissed

LEMMA CheckKeeps == IInv /\ Check => IInv'
<1> SUFFICES ASSUME IInv, Check PROVE IInv'
  OBVIOUS
<1> USE Intervals, Bounds DEF IInv, Check, Settle
<1>1. TypeOK'
  BY DEF TypeOK
<1>2. ClockInv' /\ SettledInv'
  BY DEF TypeOK, ClockInv, SettledInv
<1>3. SeenInv' /\ SpacingInv' /\ ReadyNotMissed'
  BY DEF TypeOK, SeenInv, SpacingInv, ReadyNotMissed, SettledInv
<1>4. QED
  BY <1>1, <1>2, <1>3

LEMMA ObserveKeeps ==
  ASSUME IInv, NEW d \in Latencies, Observe(d)
  PROVE  IInv'
<1> USE Intervals, Bounds DEF IInv, Observe
<1>1. TypeOK'
  BY DEF TypeOK
<1>2. ClockInv' /\ SettledInv'
  BY DEF TypeOK, ClockInv, SettledInv
<1>3. SeenInv'
  BY DEF TypeOK, SeenInv
<1>4. polledAt # -1 /\ now = polledAt
  BY DEF TypeOK, SpacingInv
<1>5. SpacingInv'
  BY <1>4 DEF TypeOK, SpacingInv
<1>6. QED
  BY <1>1, <1>2, <1>3, <1>5 DEF ReadyNotMissed, SettledInv

LEMMA DecideKeeps ==
  ASSUME IInv, NEW d \in Latencies, Decide(d)
  PROVE  IInv'
<1> USE DEF IInv
<1>1. now + d \in Nat /\ now' = now + d /\ d <= MaxLatency /\ phase = "reply"
  BY Bounds DEF TypeOK, Decide
<1>2. UNCHANGED <<resource, seen, readyAt, polledAt, aborted>>
  BY DEF Decide
<1>3. CASE Verdict(now + d) # "none"
  <2>1. /\ phase' = "settled" /\ result' = Verdict(now + d)
        /\ UNCHANGED <<interval, wakeAt>>
    BY <1>3 DEF Decide, Settle
  <2>2. /\ result' \in {"done", "failed", "timeout"}
        /\ result' = "timeout" => seen = "pending" /\ now' >= deadline
    BY <1>1, <1>3, <2>1 DEF Verdict, TypeOK
  <2>3. TypeOK' /\ SettledInv'
    BY <1>1, <1>2, <2>1, <2>2 DEF TypeOK, SettledInv
  <2>4. ClockInv' /\ SeenInv'
    BY <1>1, <1>2, <2>1, Bounds DEF TypeOK, ClockInv, SeenInv
  <2>5. SpacingInv'
    BY <1>1, <1>2, <2>1, Bounds DEF TypeOK, SpacingInv
  <2>6. ReadyNotMissed'
    BY <1>1, <1>2, <2>1, <2>2 DEF TypeOK, SeenInv, ReadyNotMissed, deadline
  <2>7. QED
    BY <2>3, <2>4, <2>5, <2>6
<1>4. CASE Verdict(now + d) = "none"
  <2>1. /\ phase' = "sleep" /\ UNCHANGED result
        /\ interval' = NextInterval(now + d)
        /\ wakeAt' = now + d + Pause(now + d)
    BY <1>4 DEF Decide
  <2>2. now + d < deadline
    BY <1>1, <1>4, Bounds DEF Verdict
  <2>3. interval \in FirstInterval .. LongestInterval
    BY DEF TypeOK
  <2>4. /\ NextInterval(now + d) \in FirstInterval .. LongestInterval
        /\ now + d <= 5000 => NextInterval(now + d) = interval
    BY <1>1, <2>3, Ramp
  <2>5. /\ Pause(now + d) \in Nat
        /\ Pause(now + d) <= NextInterval(now + d)
        /\ now + d + Pause(now + d) <= deadline
        /\ Pause(now + d) >= FirstInterval \/ now + d + Pause(now + d) = deadline
    BY <1>1, <2>2, <2>3, PauseBounds
  <2>6. /\ wakeAt' \in Nat /\ now' <= wakeAt' /\ wakeAt' <= deadline
        /\ wakeAt' - now' <= interval'
        /\ wakeAt' - now' >= FirstInterval \/ wakeAt' = deadline
    BY <1>1, <2>1, <2>4, <2>5, Bounds, Intervals
  <2>7. TypeOK' /\ SettledInv' /\ ReadyNotMissed'
    BY <1>1, <1>2, <2>1, <2>4, <2>6 DEF TypeOK, SettledInv, ReadyNotMissed
  <2>8. ClockInv' /\ SeenInv'
    <3>1. polledAt <= now' /\ readyAt <= now'
      BY <1>1, Bounds DEF TypeOK, ClockInv, SeenInv
    <3>2. QED
      BY <1>2, <2>1, <2>6, <3>1 DEF ClockInv, SeenInv
  <2>9. /\ now' <= polledAt' + 2 * MaxLatency
        /\ polledAt' # -1
    BY <1>1, <1>2, Bounds DEF TypeOK, SpacingInv
  <2>10. now' <= 5000 => interval' = FirstInterval
    BY <1>1, <2>1, <2>4, Bounds, Intervals DEF TypeOK, SpacingInv
  <2>11. SpacingInv'
    BY <2>1, <2>6, <2>9, <2>10 DEF SpacingInv
  <2>12. QED
    BY <2>7, <2>8, <2>11
<1>5. QED
  BY <1>3, <1>4

LEMMA PollRejectsKeeps ==
  ASSUME IInv, NEW d \in Latencies, PollRejects(d)
  PROVE  IInv'
<1> USE Intervals, Bounds DEF IInv, PollRejects, Settle
<1>1. TypeOK' /\ SettledInv' /\ ReadyNotMissed'
  BY DEF TypeOK, SettledInv, ReadyNotMissed
<1>2. ClockInv' /\ SeenInv'
  BY DEF TypeOK, ClockInv, SeenInv
<1>3. SpacingInv'
  BY DEF TypeOK, SpacingInv
<1>4. QED
  BY <1>1, <1>2, <1>3

LEMMA WakeKeeps ==
  ASSUME IInv, NEW l \in Lateness, Wake(l)
  PROVE  IInv'
<1> USE DEF IInv, Wake
<1>1. l \in Nat /\ l <= MaxLateness /\ now' = wakeAt + l /\ phase = "sleep"
  BY Bounds
<1>2. TypeOK' /\ SettledInv' /\ ReadyNotMissed'
  BY <1>1 DEF TypeOK, SettledInv, ReadyNotMissed
<1>3. ClockInv' /\ SeenInv'
  BY <1>1, Bounds DEF TypeOK, ClockInv, SeenInv
<1>4. /\ now - polledAt <= 2 * MaxLatency /\ polledAt <= now
      /\ wakeAt - now <= interval
      /\ wakeAt - now >= FirstInterval \/ wakeAt = deadline
      /\ interval <= LongestInterval
      /\ now <= 5000 => interval = FirstInterval
  BY <1>1, Bounds, Intervals DEF SpacingInv, ClockInv, TypeOK
<1>5. now' <= 5000 => interval = FirstInterval
  BY <1>1, <1>4, Bounds DEF TypeOK, ClockInv
<1>6. /\ now' - polledAt >= FirstInterval \/ now' >= deadline
      /\ now' - polledAt <= 2 * MaxLatency + MaxLateness + interval
  BY <1>1, <1>4, Bounds, Intervals DEF TypeOK
<1>7. now' - polledAt <= 2 * MaxLatency + MaxLateness
                         + (IF now' <= 5000 THEN FirstInterval ELSE LongestInterval)
  BY <1>1, <1>4, <1>5, <1>6, Bounds, Intervals DEF TypeOK
<1>8. SpacingInv'
  BY <1>5, <1>6, <1>7 DEF SpacingInv
<1>9. QED
  BY <1>2, <1>3, <1>8

LEMMA WakeAbortedKeeps == IInv /\ WakeAborted => IInv'
<1> SUFFICES ASSUME IInv, WakeAborted PROVE IInv'
  OBVIOUS
<1> USE DEF IInv, WakeAborted
<1>1. TypeOK' /\ SettledInv' /\ ReadyNotMissed' /\ SeenInv'
  BY DEF TypeOK, SettledInv, ReadyNotMissed, SeenInv
<1>2. ClockInv'
  BY Bounds DEF TypeOK, ClockInv
<1>3. SpacingInv'
  BY DEF SpacingInv
<1>4. QED
  BY <1>1, <1>2, <1>3

LEMMA AbortKeeps == IInv /\ Abort => IInv'
BY DEF IInv, Abort, TypeOK, SettledInv, ClockInv, SeenInv, SpacingInv, ReadyNotMissed

LEMMA ResourceKeeps == IInv /\ ResourceChanges => IInv'
<1> SUFFICES ASSUME IInv, ResourceChanges PROVE IInv'
  OBVIOUS
<1> USE DEF IInv, ResourceChanges
<1>1. TypeOK' /\ SettledInv'
  BY DEF TypeOK, SettledInv
<1>2. ClockInv' /\ SpacingInv'
  BY DEF ClockInv, SpacingInv
<1>3. SeenInv'
  BY DEF TypeOK, SeenInv, ClockInv
<1>4. ReadyNotMissed'
  BY DEF ReadyNotMissed, SettledInv
<1>5. QED
  BY <1>1, <1>2, <1>3, <1>4

LEMMA StepKeeps == IInv /\ [Next]_vars => IInv'
<1> SUFFICES ASSUME IInv, [Next]_vars PROVE IInv'
  OBVIOUS
<1>1. CASE UNCHANGED vars
  BY <1>1
  DEF vars, IInv, TypeOK, SettledInv, ClockInv, SeenInv, SpacingInv, ReadyNotMissed
<1>2. CASE Loop
  BY <1>2, CheckKeeps, WakeAbortedKeeps, ObserveKeeps, DecideKeeps, PollRejectsKeeps, WakeKeeps
  DEF Loop
<1>3. QED
  BY <1>1, <1>2, AbortKeeps, ResourceKeeps DEF Next

-----------------------------------------------------------------------------
(* What follows *)

(* The inductive invariant, for every budget, latency and lateness.          *)
THEOREM Invariance == Spec => []IInv
BY InitHolds, StepKeeps, PTL DEF Spec

(* Every variable stays in its range, the interval between 250 ms and 2 s.   *)
THEOREM TypeCorrect == Spec => []TypeOK
<1>1. IInv => TypeOK
  BY DEF IInv
<1>2. QED
  BY <1>1, Invariance, PTL

(* No budget is so small, and no poll so slow, that a resource that was ready *)
(* before the last poll began is reported as a timeout.                      *)
THEOREM ReadyNotMissedCorrect == Spec => []ReadyNotMissed
<1>1. IInv => ReadyNotMissed
  BY DEF IInv
<1>2. QED
  BY <1>1, Invariance, PTL

(* Whatever its budget, a wait is over within one poll and one late timer of  *)
(* its deadline.                                                             *)
THEOREM EndsNearDeadlineCorrect == Spec => []EndsNearDeadline
<1>1. IInv => EndsNearDeadline
  <2> SUFFICES ASSUME IInv PROVE EndsNearDeadline
    OBVIOUS
  <2>1. phase \in {"check", "request", "reply", "sleep", "settled"} /\ now \in Nat
    BY DEF IInv, TypeOK
  <2>2. wakeAt \in Nat
    BY DEF IInv, TypeOK
  <2>3. QED
    BY <2>1, <2>2, Bounds DEF IInv, ClockInv, EndsNearDeadline
<1>2. QED
  BY <1>1, Invariance, PTL

(* Two polls are 250 ms apart or more, but for the one at the deadline, and   *)
(* never further than the pause of that time and what the network and the    *)
(* timers add to it.                                                         *)
THEOREM PollSpacingCorrect == Spec => PollSpacing
<1> DEFINE Apart ==
      polledAt' # polledAt /\ polledAt # -1 =>
        /\ polledAt' - polledAt >= FirstInterval \/ polledAt' >= deadline
        /\ polledAt' - polledAt <= 2 * MaxLatency + MaxLateness
             + (IF polledAt' <= 5000 THEN FirstInterval ELSE LongestInterval)
<1>1. IInv /\ [Next]_vars => [Apart]_vars
  <2> SUFFICES ASSUME IInv, Next, polledAt' # polledAt, polledAt # -1
               PROVE  Apart
    OBVIOUS
  <2>1. phase = "check" /\ ~aborted /\ polledAt' = now
    BY DEF Next, Loop, Check, WakeAborted, Observe, Decide, PollRejects, Wake, Abort,
           ResourceChanges
  <2>2. QED
    BY <2>1 DEF IInv, SpacingInv
<1>2. QED
  BY <1>1, Invariance, PTL DEF Spec, PollSpacing
=============================================================================
