-------------------------- MODULE CommandStreamProofs --------------------------
(***************************************************************************)
(* For any lines, chunks of any size, a body cut off anywhere and a program  *)
(* that may leave at any event: what a program is handed is what the body    *)
(* holds, no event waits while more is read, and however a stream ends its   *)
(* body is not left open.  What the recursive operators compute for every    *)
(* text is proved by an induction over sequences, stated with sets.          *)
(***************************************************************************)
EXTENDS CommandStream, TLAPS, WellFoundedInduction, SequenceTheorems

(* The places of the two generators fit together: a program is at an event   *)
(* only while the frames are at a yield, and leaving takes them along.       *)
PlacesInv ==
  /\ at \in {"frame", "yield", "over"}
  /\ at = "yield" => HasFrame
  /\ at = "over" => phase \in {"finally", "ended"}

(* The frames end without cancel() only when the body has been read to its    *)
(* end.                                                                      *)
BodyInv ==
  /\ drained \in BOOLEAN
  /\ drained => phase \in {"finally", "ended"}
  /\ drained \/ phase \in {"final", "finalYield", "drained"} => stream = "closed"
  /\ phase = "ended" => stream # "open"

IInv == PlacesInv /\ BodyInv

-----------------------------------------------------------------------------
LEMMA InitHolds == CommandInit => IInv
BY DEF CommandInit, Init, IInv, PlacesInv, BodyInv

(* Where Emit leads, the body has been read to its end if it had been.       *)
LEMMA EmitBody ==
  ASSUME NEW payload, NEW here, NEW next, Emit(payload, here, next)
  PROVE  phase' \in {here, next, "finally"}
BY DEF Emit

LEMMA NextLineKeeps == IInv /\ NextLine /\ UNCHANGED commandVars => IInv'
<1> SUFFICES ASSUME IInv, NextLine, UNCHANGED commandVars PROVE IInv'
  OBVIOUS
<1>1. phase' \in {"read", "yield", "lines", "finally"} /\ phase = "lines"
  BY EmitBody DEF NextLine
<1>2. UNCHANGED <<drained, stream, at>>
  BY DEF NextLine, commandVars
<1>3. QED
  BY <1>1, <1>2 DEF IInv, PlacesInv, BodyInv, HasFrame

LEMMA FinalLineKeeps == IInv /\ FinalLine /\ UNCHANGED commandVars => IInv'
<1> SUFFICES ASSUME IInv, FinalLine, UNCHANGED commandVars PROVE IInv'
  OBVIOUS
<1>1. phase' \in {"finalYield", "drained", "finally"} /\ phase = "final"
  BY EmitBody DEF FinalLine
<1>2. UNCHANGED <<drained, stream, at>>
  BY DEF FinalLine, commandVars
<1>3. QED
  BY <1>1, <1>2 DEF IInv, PlacesInv, BodyInv, HasFrame

LEMMA FramesKeep == IInv /\ Frames => IInv'
<1> SUFFICES ASSUME IInv, Frames PROVE IInv'
  OBVIOUS
<1> USE DEF IInv, PlacesInv, BodyInv, HasFrame, commandVars
<1>1. UNCHANGED commandVars
  BY DEF Frames
<1>2. CASE ReadChunk
  BY <1>1, <1>2 DEF ReadChunk
<1>3. CASE ReadDone
  BY <1>1, <1>3 DEF ReadDone
<1>4. CASE ReadFails
  BY <1>1, <1>4 DEF ReadFails
<1>5. CASE Drain
  BY <1>1, <1>5 DEF Drain
<1>6. CASE Finally
  BY <1>1, <1>6 DEF Finally
<1>7. QED
  BY <1>1, <1>2, <1>3, <1>4, <1>5, <1>6, NextLineKeeps, FinalLineKeeps DEF Frames

LEMMA StepKeeps == IInv /\ [CommandNext]_<<vars, commandVars>> => IInv'
<1> SUFFICES ASSUME IInv, [CommandNext]_<<vars, commandVars>> PROVE IInv'
  OBVIOUS
<1> USE DEF IInv, PlacesInv, BodyInv, HasFrame, vars
<1>1. CASE HandOut
  BY <1>1 DEF HandOut
<1>2. CASE NextFrame
  BY <1>2 DEF NextFrame, Resume
<1>3. CASE Ask
  BY <1>3 DEF Ask
<1>4. CASE Leave
  BY <1>4 DEF Leave, Stop
<1>5. CASE End
  BY <1>5 DEF End
<1>6. CASE Frames
  BY <1>6, FramesKeep
<1>7. CASE UNCHANGED <<vars, commandVars>>
  BY <1>7 DEF commandVars
<1>8. QED
  BY <1>1, <1>2, <1>3, <1>4, <1>5, <1>6, <1>7 DEF CommandNext

(* No way out of a stream leaves the generator of its frames suspended or its *)
(* body open: the command behind it is torn down, whatever its output.       *)
THEOREM BodyNeverLeftOpenCorrect == CommandSpec => []BodyNeverLeftOpen
<1>1. IInv => BodyNeverLeftOpen
  BY DEF IInv, PlacesInv, BodyInv, BodyNeverLeftOpen
<1>2. QED
  BY <1>1, InitHolds, StepKeeps, PTL DEF CommandSpec

-----------------------------------------------------------------------------
(* Induction *)

(* Of the natural numbers outside S the least is a successor of one in S.    *)
LEMMA SetInduction ==
  ASSUME NEW S \in SUBSET Nat, 0 \in S, \A n \in S : n + 1 \in S
  PROVE  S = Nat
<1> SUFFICES ASSUME Nat \ S # {} PROVE FALSE
  OBVIOUS
<1>1. PICK m \in Nat \ S : \A y \in Nat \ S : ~ (y < m)
  <2> DEFINE R == {ss \in Nat \X Nat : ss[1] < ss[2]}
  <2>1. IsWellFoundedOn(R, Nat)
    BY NatLessThanWellFounded DEF OpToRel
  <2> HIDE DEF R
  <2>2. PICK m \in Nat \ S : \A y \in Nat \ S : ~ (<<y, m>> \in R)
    BY <2>1, WFMin
  <2>3. QED
    BY <2>2 DEF R
<1>2. m # 0 /\ m - 1 \in Nat
  OBVIOUS
<1>3. m - 1 \in S
  BY <1>1, <1>2
<1>4. QED
  BY <1>3, <1>2

(* What holds of <<>> and is kept by Append holds of every sequence. *)
LEMMA SequenceInduction ==
  ASSUME NEW D, NEW P \in SUBSET Seq(D), <<>> \in P,
         \A s \in P, x \in D : Append(s, x) \in P
  PROVE  P = Seq(D)
<1> DEFINE S == {n \in Nat : \A s \in Seq(D) : Len(s) = n => s \in P}
<1>1. 0 \in S
  OBVIOUS
<1>2. ASSUME NEW n \in S
      PROVE  n + 1 \in S
  <2> SUFFICES ASSUME NEW s \in Seq(D), Len(s) = n + 1
               PROVE  s \in P
    OBVIOUS
  <2> DEFINE u == [i \in 1 .. n |-> s[i]]
  <2>1. u \in Seq(D) /\ Len(u) = n /\ s[n + 1] \in D
    OBVIOUS
  <2>2. s = Append(u, s[n + 1])
    OBVIOUS
  <2> HIDE DEF u
  <2>3. u \in P
    BY <2>1
  <2>4. QED
    BY <2>1, <2>2, <2>3
<1> HIDE DEF S
<1>3. S = Nat
  <2>1. S \in SUBSET Nat
    BY DEF S
  <2>2. QED
    BY <1>1, <1>2, <2>1, SetInduction
<1>4. ASSUME NEW s \in Seq(D)
      PROVE  s \in P
  <2>1. Len(s) \in S
    BY <1>3
  <2>2. QED
    BY <2>1 DEF S
<1>5. QED
  BY <1>4

(* Sequences in a row may be joined in any order. *)
Together(D) == \A a \in Seq(D), b \in Seq(D), c \in Seq(D) : (a \o b) \o c = a \o (b \o c)

LEMMA Associates ==
  ASSUME NEW D
  PROVE  Together(D)
<1> SUFFICES ASSUME NEW a \in Seq(D), NEW b \in Seq(D), NEW c \in Seq(D)
             PROVE  (a \o b) \o c = a \o (b \o c)
  BY DEF Together
<1>1. QED
  OBVIOUS

(* Of sequences in a row, an element is added to the last. *)
Joins(D) == \A p \in Seq(D), v \in Seq(D), x \in D : Append(p \o v, x) = p \o Append(v, x)

LEMMA AppendConcat ==
  ASSUME NEW D
  PROVE  Joins(D)
<1> SUFFICES ASSUME NEW p \in Seq(D), NEW v \in Seq(D), NEW x \in D
             PROVE  Append(p \o v, x) = p \o Append(v, x)
  BY DEF Joins
<1>1. QED
  OBVIOUS

(* A function on 0 .. N is defined by its first value and the step to the next. *)
Recursive(D, b, N, h) ==
  \E f \in [0 .. N -> D] : f[0] = b /\ \A n \in 1 .. N : f[n] = h[n][f[n - 1]]

LEMMA Recursion ==
  ASSUME NEW D, NEW b \in D, NEW N \in Nat, NEW h \in [1 .. N -> [D -> D]]
  PROVE  Recursive(D, b, N, h)
<1> DEFINE S == {m \in Nat : m <= N => Recursive(D, b, m, h)}
<1>1. 0 \in S
  <2> DEFINE f == [n \in 0 .. 0 |-> b]
  <2>1. f \in [0 .. 0 -> D] /\ f[0] = b
    OBVIOUS
  <2> HIDE DEF f
  <2>2. QED
    BY <2>1 DEF Recursive
<1>2. ASSUME NEW m \in S
      PROVE  m + 1 \in S
  <2> SUFFICES ASSUME m + 1 <= N
               PROVE  Recursive(D, b, m + 1, h)
    OBVIOUS
  <2>1. PICK f \in [0 .. m -> D] : f[0] = b /\ \A n \in 1 .. m : f[n] = h[n][f[n - 1]]
    BY DEF Recursive
  <2> DEFINE g == [n \in 0 .. m + 1 |-> IF n = m + 1 THEN h[m + 1][f[m]] ELSE f[n]]
  <2>2. h[m + 1][f[m]] \in D
    BY <2>1
  <2>3. g \in [0 .. m + 1 -> D] /\ g[0] = b /\ g[m + 1] = h[m + 1][f[m]]
        /\ \A n \in 0 .. m : g[n] = f[n]
    BY <2>1, <2>2
  <2> HIDE DEF g
  <2>4. ASSUME NEW n \in 1 .. m + 1
        PROVE  g[n] = h[n][g[n - 1]]
    <3>1. n - 1 \in 0 .. m /\ (n = m + 1 \/ n \in 1 .. m)
      OBVIOUS
    <3>2. QED
      BY <2>1, <2>3, <3>1
  <2>5. QED
    BY <2>3, <2>4 DEF Recursive
<1> HIDE DEF S
<1>3. S = Nat
  <2>1. S \in SUBSET Nat
    BY DEF S
  <2>2. QED
    BY <1>1, <1>2, <2>1, SetInduction
<1>4. N \in S
  BY <1>3
<1>5. QED
  BY <1>4 DEF S

-----------------------------------------------------------------------------
(* Picked *)

(* The function Picked is the last value of. *)
Picks(s, I) ==
  LET picked[n \in 0 .. Len(s)] ==
        IF n = 0 THEN <<>>
        ELSE IF n \in I THEN Append(picked[n - 1], s[n]) ELSE picked[n - 1]
  IN  picked

(* What a recursive definition over a sequence computes. *)
LEMMA PicksDef ==
  ASSUME NEW D, NEW s \in Seq(D), NEW I
  PROVE  /\ Picks(s, I) \in [0 .. Len(s) -> Seq(D)]
         /\ Picks(s, I)[0] = <<>>
         /\ \A n \in 1 .. Len(s) :
              Picks(s, I)[n] = IF n \in I THEN Append(Picks(s, I)[n - 1], s[n])
                               ELSE Picks(s, I)[n - 1]
         /\ Picked(s, I) = Picks(s, I)[Len(s)]
<1> DEFINE N == Len(s)
           h == [n \in 1 .. N |-> [p \in Seq(D) |-> IF n \in I THEN Append(p, s[n]) ELSE p]]
           Next1(f) == [n \in 0 .. N |->
                          IF n = 0 THEN <<>>
                          ELSE IF n \in I THEN Append(f[n - 1], s[n]) ELSE f[n - 1]]
<1>1. N \in Nat /\ <<>> \in Seq(D)
  OBVIOUS
<1>2. h \in [1 .. N -> [Seq(D) -> Seq(D)]]
  BY AppendProperties
<1>3. PICK f \in [0 .. N -> Seq(D)] : f[0] = <<>> /\ \A n \in 1 .. N : f[n] = h[n][f[n - 1]]
  <2> HIDE DEF h, N
  <2>1. Recursive(Seq(D), <<>>, N, h)
    BY <1>1, <1>2, Recursion
  <2>2. QED
    BY <2>1 DEF Recursive
<1> HIDE DEF h
<1>4. f = Next1(f)
  <2>1. ASSUME NEW n \in 1 .. N
        PROVE  f[n] = IF n \in I THEN Append(f[n - 1], s[n]) ELSE f[n - 1]
    <3>1. n - 1 \in 0 .. N
      BY <1>1
    <3>2. h[n][f[n - 1]] = IF n \in I THEN Append(f[n - 1], s[n]) ELSE f[n - 1]
      BY <3>1 DEF h
    <3>3. QED
      BY <1>3, <3>2
  <2> HIDE DEF N
  <2>2. \A n \in 0 .. N : n = 0 \/ n \in 1 .. N
    BY <1>1
  <2>3. \A n \in 0 .. N : f[n] = Next1(f)[n]
    BY <1>3, <2>1, <2>2
  <2>4. f = [n \in 0 .. N |-> f[n]]
    OBVIOUS
  <2>5. QED
    BY <2>3, <2>4
<1>5. Picks(s, I) = Next1(Picks(s, I))
  BY <1>4 DEF Picks
<1> DEFINE g == Picks(s, I)
<1>6. /\ DOMAIN g = 0 .. N /\ g = [n \in 0 .. N |-> g[n]] /\ g[0] = <<>>
      /\ \A n \in 1 .. N : g[n] = IF n \in I THEN Append(g[n - 1], s[n]) ELSE g[n - 1]
  <2> HIDE DEF g
  <2>1. g = Next1(g)
    BY <1>5 DEF g
  <2>2. N \in Nat
    OBVIOUS
  <2> HIDE DEF N
  <2>3. DOMAIN g = 0 .. N
    BY <2>1
  <2>4. \A n \in 0 .. N : g[n] = Next1(g)[n]
    BY <2>1
  <2>5. g[0] = <<>>
    BY <2>2, <2>4
  <2>6. ASSUME NEW n \in 1 .. N
        PROVE  g[n] = IF n \in I THEN Append(g[n - 1], s[n]) ELSE g[n - 1]
    <3>1. n \in 0 .. N /\ n # 0
      BY <2>2
    <3>2. QED
      BY <2>4, <3>1
  <2>7. g = [n \in 0 .. N |-> g[n]]
    <3> DEFINE next == Next1(g)
    <3>1. next = [n \in 0 .. N |-> next[n]]
      OBVIOUS
    <3> HIDE DEF next
    <3>2. QED
      BY <2>1, <3>1 DEF next
  <2>8. QED
    BY <2>3, <2>5, <2>6, <2>7
<1> HIDE DEF g
<1> DEFINE S == {n \in Nat : n <= N => g[n] \in Seq(D)}
<1>7. S = Nat
  <2>1. 0 \in S
    <3>1. g[0] \in Seq(D)
      BY <1>1, <1>6
    <3>2. QED
      BY <3>1
  <2>2. ASSUME NEW n \in S
        PROVE  n + 1 \in S
    <3> SUFFICES ASSUME n + 1 <= N
                 PROVE  g[n + 1] \in Seq(D)
      OBVIOUS
    <3>1. n + 1 \in 1 .. N /\ (n + 1) - 1 = n /\ g[n] \in Seq(D) /\ s[n + 1] \in D
      OBVIOUS
    <3>2. g[n + 1] = IF n + 1 \in I THEN Append(g[n], s[n + 1]) ELSE g[n]
      BY <1>6, <3>1
    <3>3. Append(g[n], s[n + 1]) \in Seq(D)
      BY <3>1, AppendProperties
    <3>4. QED
      BY <3>1, <3>2, <3>3
  <2> HIDE DEF S
  <2>3. S \in SUBSET Nat
    BY DEF S
  <2>4. QED
    BY <2>1, <2>2, <2>3, SetInduction
<1>8. \A n \in 0 .. N : n \in S
  BY <1>7
<1>9. g \in [0 .. N -> Seq(D)]
  BY <1>6, <1>8
<1>10. Picked(s, I) = g[N]
  BY DEF Picked, Picks, g
<1>11. QED
  BY <1>6, <1>9, <1>10 DEF g

(* Up to m, s and t have the same elements at the same positions to pick.    *)
Alike(s, I, t, J, m) ==
  /\ m <= Len(s) /\ m <= Len(t)
  /\ \A i \in 1 .. m : s[i] = t[i] /\ (i \in I <=> i \in J)

LEMMA PicksSame ==
  ASSUME NEW D, NEW s \in Seq(D), NEW t \in Seq(D), NEW I, NEW J,
         NEW m \in Nat, Alike(s, I, t, J, m)
  PROVE  Picks(s, I)[m] = Picks(t, J)[m]
<1> DEFINE f == Picks(s, I)
           g == Picks(t, J)
           S == {n \in Nat : n <= m => f[n] = g[n]}
<1>1. /\ f[0] = <<>> /\ g[0] = <<>>
      /\ \A n \in 1 .. m : f[n] = IF n \in I THEN Append(f[n - 1], s[n]) ELSE f[n - 1]
      /\ \A n \in 1 .. m : g[n] = IF n \in J THEN Append(g[n - 1], t[n]) ELSE g[n - 1]
  BY PicksDef DEF Alike
<1>0. \A n \in 1 .. m : s[n] = t[n] /\ (n \in I <=> n \in J)
  BY DEF Alike
<1> HIDE DEF f, g
<1>2. 0 \in S
  BY <1>1
<1>3. ASSUME NEW n \in S
      PROVE  n + 1 \in S
  <2> SUFFICES ASSUME n + 1 <= m
               PROVE  f[n + 1] = g[n + 1]
    OBVIOUS
  <2>1. n + 1 \in 1 .. m /\ (n + 1) - 1 = n /\ f[n] = g[n]
    OBVIOUS
  <2>2. QED
    BY <1>0, <1>1, <2>1
<1> HIDE DEF S
<1>4. S = Nat
  <2>1. S \in SUBSET Nat
    BY DEF S
  <2>2. QED
    BY <1>2, <1>3, <2>1, SetInduction
<1>5. m \in S
  BY <1>4
<1>6. QED
  BY <1>5 DEF S, f, g

(* The elements picked are of the sequence they are picked from. *)
LEMMA PickedTyped ==
  ASSUME NEW D, NEW s \in Seq(D), NEW I
  PROVE  Picked(s, I) \in Seq(D)
BY PicksDef

LEMMA PickedEmpty ==
  ASSUME NEW I
  PROVE  Picked(<<>>, I) = <<>>
<1>1. ASSUME NEW D, NEW s \in Seq(D)
      PROVE  Picked(s, I) = Picks(s, I)[Len(s)] /\ Picks(s, I)[0] = <<>>
  BY PicksDef
<1>2. <<>> \in Seq({}) /\ Len(<<>>) = 0
  OBVIOUS
<1>3. Picked(<<>>, I) = Picks(<<>>, I)[Len(<<>>)] /\ Picks(<<>>, I)[0] = <<>>
  BY <1>1, <1>2
<1>4. QED
  BY <1>2, <1>3

(* What an element at the end adds. *)
LEMMA PickedAppend ==
  ASSUME NEW D, NEW s \in Seq(D), NEW x \in D, NEW I, NEW J,
         \A i \in 1 .. Len(s) : i \in I <=> i \in J
  PROVE  Picked(Append(s, x), I) =
           IF Len(s) + 1 \in I THEN Append(Picked(s, J), x) ELSE Picked(s, J)
<1> DEFINE t == Append(s, x)
           n == Len(s)
<1>1. /\ t \in Seq(D) /\ n \in Nat /\ Len(t) = n + 1 /\ t[n + 1] = x
      /\ \A i \in 1 .. n : t[i] = s[i]
  BY AppendProperties
<1> HIDE DEF t
<1>2. Picks(t, I)[n] = Picks(s, J)[n]
  <2>1. Alike(t, I, s, J, n)
    BY <1>1 DEF Alike
  <2> HIDE DEF n
  <2>2. QED
    BY <1>1, <2>1, PicksSame
<1>3. Picked(t, I) = Picks(t, I)[n + 1] /\ Picked(s, J) = Picks(s, J)[n]
  BY <1>1, PicksDef
<1>4. Picks(t, I)[n + 1] = IF n + 1 \in I THEN Append(Picks(t, I)[n], x) ELSE Picks(t, I)[n]
  <2>1. n + 1 \in 1 .. Len(t) /\ (n + 1) - 1 = n
    BY <1>1
  <2> HIDE DEF n
  <2>2. Picks(t, I)[n + 1] =
          IF n + 1 \in I THEN Append(Picks(t, I)[(n + 1) - 1], t[n + 1])
          ELSE Picks(t, I)[(n + 1) - 1]
    BY <1>1, <2>1, PicksDef
  <2>3. QED
    BY <1>1, <2>1, <2>2
<1>5. QED
  BY <1>2, <1>3, <1>4 DEF t

(* Where nothing is to be picked nothing is. *)
LEMMA PickedNone ==
  ASSUME NEW D, NEW s \in Seq(D), NEW I, 1 .. Len(s) \cap I = {}
  PROVE  Picked(s, I) = <<>>
<1> DEFINE P == {u \in Seq(D) : 1 .. Len(u) \cap I = {} => Picked(u, I) = <<>>}
<1>1. <<>> \in P
  BY PickedEmpty
<1>2. ASSUME NEW u \in P, NEW x \in D
      PROVE  Append(u, x) \in P
  <2>1. Append(u, x) \in Seq(D) /\ Len(Append(u, x)) = Len(u) + 1 /\ Len(u) \in Nat
    BY AppendProperties
  <2>2. Picked(Append(u, x), I) = IF Len(u) + 1 \in I THEN Append(Picked(u, I), x) ELSE Picked(u, I)
    BY PickedAppend
  <2>3. QED
    BY <2>1, <2>2
<1> HIDE DEF P
<1>3. P = Seq(D)
  <2>1. P \in SUBSET Seq(D)
    BY DEF P
  <2>2. QED
    BY <1>1, <1>2, <2>1, SequenceInduction
<1>4. s \in P
  BY <1>3
<1>5. QED
  BY <1>4 DEF P

(* Where nothing is picked nothing is added. *)
LEMMA PicksRest ==
  ASSUME NEW D, NEW s \in Seq(D), NEW I, NEW m \in 0 .. Len(s), NEW n \in m .. Len(s),
         \A k \in m + 1 .. n : k \notin I
  PROVE  Picks(s, I)[n] = Picks(s, I)[m]
<1> DEFINE f == Picks(s, I)
           S == {d \in Nat : m + d <= n => f[m + d] = f[m]}
<1>1. \A k \in 1 .. Len(s) : f[k] = IF k \in I THEN Append(f[k - 1], s[k]) ELSE f[k - 1]
  BY PicksDef
<1>2. Len(s) \in Nat /\ m \in Nat /\ n \in Nat /\ n - m \in Nat /\ n <= Len(s)
  OBVIOUS
<1> HIDE DEF f
<1>3. 0 \in S
  BY <1>2
<1>4. ASSUME NEW d \in S
      PROVE  d + 1 \in S
  <2> SUFFICES ASSUME m + (d + 1) <= n
               PROVE  f[m + (d + 1)] = f[m]
    OBVIOUS
  <2>1. /\ m + (d + 1) \in 1 .. Len(s) /\ m + (d + 1) \in m + 1 .. n
        /\ (m + (d + 1)) - 1 = m + d /\ f[m + d] = f[m]
    BY <1>2
  <2>2. QED
    BY <1>1, <2>1
<1> HIDE DEF S
<1>5. S = Nat
  <2>1. S \in SUBSET Nat
    BY DEF S
  <2>2. QED
    BY <1>3, <1>4, <2>1, SetInduction
<1>6. n - m \in S /\ m + (n - m) = n
  BY <1>2, <1>5
<1>7. QED
  BY <1>6, <1>2 DEF S, f

(* The next element picked is added at the end. *)
LEMMA PicksNext ==
  ASSUME NEW D, NEW s \in Seq(D), NEW I, NEW m \in 0 .. Len(s), NEW n \in m + 1 .. Len(s),
         n \in I, \A k \in m + 1 .. n - 1 : k \notin I
  PROVE  Picks(s, I)[n] = Append(Picks(s, I)[m], s[n])
<1>1. n \in 1 .. Len(s) /\ n - 1 \in m .. Len(s)
  OBVIOUS
<1>2. Picks(s, I)[n - 1] = Picks(s, I)[m]
  <2> DEFINE o == n - 1
  <2>1. o \in m .. Len(s) /\ \A k \in m + 1 .. o : k \notin I
    BY <1>1
  <2> HIDE DEF o
  <2>2. Picks(s, I)[o] = Picks(s, I)[m]
    BY <2>1, PicksRest
  <2>3. QED
    BY <2>2 DEF o
<1>3. Picks(s, I)[n] = IF n \in I THEN Append(Picks(s, I)[n - 1], s[n]) ELSE Picks(s, I)[n - 1]
  BY <1>1, PicksDef
<1>4. QED
  BY <1>2, <1>3

(* s goes on where p ends. *)
Begins(D, p, s) == \E w \in Seq(D) : s = p \o w

LEMMA BeginsIsPrefix ==
  ASSUME NEW D, NEW p \in Seq(D), NEW s, Begins(D, p, s)
  PROVE  IsPrefix(p, s)
<1>1. PICK w \in Seq(D) : s = p \o w
  BY DEF Begins
<1>2. SubSeq(p \o w, 1, Len(p)) = SubSeq(p, 1, Len(p)) /\ Len(p) <= Len(p \o w)
  OBVIOUS
<1>3. QED
  BY <1>1, <1>2 DEF IsPrefix

(* What has been picked up to a position begins what is picked in the end. *)
LEMMA PicksBegin ==
  ASSUME NEW D, NEW s \in Seq(D), NEW I, NEW m \in 0 .. Len(s)
  PROVE  Begins(D, Picks(s, I)[m], Picked(s, I))
<1> DEFINE f == Picks(s, I)
           S == {d \in Nat : m + d <= Len(s) => Begins(D, f[m], f[m + d])}
<1>0. ASSUME NEW p \in Seq(D), NEW v \in Seq(D), NEW x \in D
      PROVE  Append(p \o v, x) = p \o Append(v, x)
  <2>1. Joins(D)
    BY AppendConcat
  <2>2. QED
    BY <2>1 DEF Joins
<1>1. /\ \A k \in 1 .. Len(s) : f[k] = IF k \in I THEN Append(f[k - 1], s[k]) ELSE f[k - 1]
      /\ \A k \in 0 .. Len(s) : f[k] \in Seq(D)
      /\ Picked(s, I) = f[Len(s)]
  <2>1. /\ f \in [0 .. Len(s) -> Seq(D)] /\ Picked(s, I) = f[Len(s)]
        /\ \A k \in 1 .. Len(s) : f[k] = IF k \in I THEN Append(f[k - 1], s[k]) ELSE f[k - 1]
    BY PicksDef
  <2> HIDE DEF f
  <2>2. QED
    BY <2>1
<1>2. Len(s) \in Nat /\ m \in Nat /\ Len(s) - m \in Nat
  OBVIOUS
<1> HIDE DEF f
<1>3. 0 \in S
  <2>1. f[m] = f[m] \o <<>> /\ <<>> \in Seq(D)
    BY <1>1, ConcatEmptySeq
  <2>2. m + 0 = m
    BY <1>2
  <2>3. QED
    BY <2>1, <2>2 DEF Begins
<1>4. ASSUME NEW d \in S
      PROVE  d + 1 \in S
  <2> SUFFICES ASSUME m + (d + 1) <= Len(s)
               PROVE  Begins(D, f[m], f[m + (d + 1)])
    OBVIOUS
  <2>1. m + (d + 1) \in 1 .. Len(s) /\ (m + (d + 1)) - 1 = m + d /\ Begins(D, f[m], f[m + d])
    BY <1>2
  <2>2. PICK w \in Seq(D) : f[m + d] = f[m] \o w
    BY <2>1 DEF Begins
  <2>3. f[m + (d + 1)] = f[m + d] \/ f[m + (d + 1)] = Append(f[m + d], s[m + (d + 1)])
    BY <1>1, <2>1
  <2>4. f[m] \in Seq(D) /\ s[m + (d + 1)] \in D
    BY <1>1, <2>1
  <2>5. Append(f[m] \o w, s[m + (d + 1)]) = f[m] \o Append(w, s[m + (d + 1)])
    BY <1>0, <2>2, <2>4
  <2>6. Append(w, s[m + (d + 1)]) \in Seq(D)
    BY <2>4
  <2>7. QED
    BY <2>2, <2>3, <2>5, <2>6 DEF Begins
<1> HIDE DEF S
<1>5. S = Nat
  <2>1. S \in SUBSET Nat
    BY DEF S
  <2>2. QED
    BY <1>3, <1>4, <2>1, SetInduction
<1>6. Len(s) - m \in S /\ m + (Len(s) - m) = Len(s)
  BY <1>2, <1>5
<1>7. QED
  BY <1>1, <1>2, <1>6 DEF S, f

-----------------------------------------------------------------------------
(* Characters *)

(* What stands for a byte in a text: of a character its first one. *)
Char(x) == IF x = "hi" THEN "eacute" ELSE x

LEMMA DecodedEmpty == Decoded(<<>>) = <<>>
BY PickedEmpty DEF Decoded

(* Each byte is decoded by itself. *)
LEMMA DecodedAppend ==
  ASSUME NEW b \in Seq(Symbols), NEW x \in Symbols
  PROVE  Decoded(Append(b, x)) =
           IF x = "lo" THEN Decoded(b) ELSE Append(Decoded(b), Char(x))
<1> DEFINE D == Symbols
           M(c) == [i \in DOMAIN c |-> Char(c[i])]
           W(c) == {i \in DOMAIN c : c[i] # "lo"}
           a == Append(b, x)
<1>1. \A c : Decoded(c) = Picked(M(c), W(c))
  BY DEF Decoded, Char
<1>2. \A y \in D : Char(y) \in D
  BY DEF Char, Symbols, Chars, Members
<1>3. M(b) \in Seq(D) /\ Char(x) \in D /\ Len(M(b)) = Len(b)
  BY <1>2
<1>4. M(a) = Append(M(b), Char(x))
  OBVIOUS
<1>5. \A i \in 1 .. Len(M(b)) : i \in W(a) <=> i \in W(b)
  BY <1>3
<1>6. Len(b) + 1 \in W(a) <=> x # "lo"
  OBVIOUS
<1> HIDE DEF M, W, D
<1>7. Picked(Append(M(b), Char(x)), W(a)) =
        IF Len(M(b)) + 1 \in W(a) THEN Append(Picked(M(b), W(b)), Char(x)) ELSE Picked(M(b), W(b))
  <2>1. ASSUME NEW c \in Seq(D), NEW y \in D, NEW I, NEW J, \A i \in 1 .. Len(c) : i \in I <=> i \in J
        PROVE  Picked(Append(c, y), I) =
                 IF Len(c) + 1 \in I THEN Append(Picked(c, J), y) ELSE Picked(c, J)
    BY <2>1, PickedAppend
  <2>2. QED
    BY <1>3, <1>5, <2>1
<1>8. QED
  BY <1>1, <1>3, <1>4, <1>6, <1>7

LEMMA DecodedTyped ==
  ASSUME NEW b \in Seq(Symbols)
  PROVE  Decoded(b) \in Seq(Chars)
<1> DEFINE P == {c \in Seq(Symbols) : Decoded(c) \in Seq(Chars)}
<1>1. <<>> \in P
  <2>1. <<>> \in Seq(Symbols) /\ <<>> \in Seq(Chars)
    OBVIOUS
  <2>2. QED
    BY <2>1, DecodedEmpty
<1>2. ASSUME NEW c \in P, NEW x \in Symbols
      PROVE  Append(c, x) \in P
  <2>1. x = "lo" \/ Char(x) \in Chars
    BY DEF Char, Symbols, Chars, Members
  <2>2. Append(c, x) \in Seq(Symbols)
    OBVIOUS
  <2>3. Decoded(Append(c, x)) \in Seq(Chars)
    <3>1. Decoded(Append(c, x)) =
            IF x = "lo" THEN Decoded(c) ELSE Append(Decoded(c), Char(x))
      BY DecodedAppend
    <3>2. Decoded(c) \in Seq(Chars)
      OBVIOUS
    <3> HIDE DEF P
    <3>3. x # "lo" => Append(Decoded(c), Char(x)) \in Seq(Chars)
      BY <2>1, <3>2, AppendProperties
    <3>4. QED
      BY <3>1, <3>2, <3>3
  <2>4. QED
    BY <2>2, <2>3
<1> HIDE DEF P
<1>3. P = Seq(Symbols)
  <2>1. P \in SUBSET Seq(Symbols)
    BY DEF P
  <2>2. QED
    BY <1>1, <1>2, <2>1, SequenceInduction
<1>4. QED
  BY <1>3 DEF P

(* Bytes are decoded the same in one piece and in two. *)
LEMMA DecodedConcat ==
  ASSUME NEW b \in Seq(Symbols), NEW c \in Seq(Symbols)
  PROVE  Decoded(b \o c) = Decoded(b) \o Decoded(c)
<1> DEFINE P == {d \in Seq(Symbols) : Decoded(b \o d) = Decoded(b) \o Decoded(d)}
<1>1. <<>> \in P
  <2>1. b \o <<>> = b /\ Decoded(b) \o <<>> = Decoded(b) /\ <<>> \in Seq(Symbols)
    BY DecodedTyped, ConcatEmptySeq
  <2>2. QED
    BY <2>1, DecodedEmpty
<1>2. ASSUME NEW d \in P, NEW x \in Symbols
      PROVE  Append(d, x) \in P
  <2>1. b \o Append(d, x) = Append(b \o d, x) /\ b \o d \in Seq(Symbols)
        /\ d \in Seq(Symbols) /\ Append(d, x) \in Seq(Symbols)
    OBVIOUS
  <2>2. ASSUME NEW e \in Seq(Symbols)
        PROVE  Decoded(Append(e, x)) =
                 IF x = "lo" THEN Decoded(e) ELSE Append(Decoded(e), Char(x))
    BY DecodedAppend
  <2>3. Decoded(Append(b \o d, x)) =
          IF x = "lo" THEN Decoded(b \o d) ELSE Append(Decoded(b \o d), Char(x))
    BY <2>1, <2>2
  <2>4. Decoded(Append(d, x)) = IF x = "lo" THEN Decoded(d) ELSE Append(Decoded(d), Char(x))
    BY <2>1, <2>2
  <2>5. Decoded(b) \in Seq(Chars) /\ Decoded(d) \in Seq(Chars)
    BY <2>1, DecodedTyped
  <2>6. Decoded(b) \o Append(Decoded(d), Char(x)) = Append(Decoded(b) \o Decoded(d), Char(x))
    BY <2>5
  <2>7. Decoded(b \o d) = Decoded(b) \o Decoded(d)
    OBVIOUS
  <2> HIDE DEF P
  <2>8. Decoded(b \o Append(d, x)) = Decoded(b) \o Decoded(Append(d, x))
    BY <2>1, <2>3, <2>4, <2>6, <2>7
  <2>9. QED
    BY <2>1, <2>8 DEF P
<1> HIDE DEF P
<1>3. P = Seq(Symbols)
  <2>1. P \in SUBSET Seq(Symbols)
    BY DEF P
  <2>2. QED
    BY <1>1, <1>2, <2>1, SequenceInduction
<1>4. QED
  BY <1>3 DEF P

LEMMA MaxIs ==
  ASSUME NEW S \in SUBSET Int, NEW m \in S, \A y \in S : y <= m
  PROVE  Max(S) = m
<1>1. m \in S /\ \A y \in S : m >= y
  OBVIOUS
<1>2. \A x \in S : (\A y \in S : x >= y) => x = m
  OBVIOUS
<1>3. QED
  BY <1>1, <1>2 DEF Max

LEMMA MinIs ==
  ASSUME NEW S \in SUBSET Int, NEW m \in S, \A y \in S : m <= y
  PROVE  Min(S) = m
<1>1. m \in S /\ \A y \in S : m <= y
  OBVIOUS
<1>2. \A x \in S : (\A y \in S : x <= y) => x = m
  OBVIOUS
<1>3. QED
  BY <1>1, <1>2 DEF Min

(* Sets of naturals have a least element, and bounded ones a greatest. *)
LEMMA LeastExists ==
  ASSUME NEW S \in SUBSET Nat, S # {}
  PROVE  \E m \in S : \A y \in S : m <= y
<1> DEFINE B == {n \in Nat : \A y \in S : n <= y}
<1> SUFFICES ASSUME ~ \E m \in S : \A y \in S : m <= y
             PROVE  FALSE
  OBVIOUS
<1>1. 0 \in B
  OBVIOUS
<1>2. \A n \in B : n + 1 \in B
  OBVIOUS
<1> HIDE DEF B
<1>3. B = Nat
  <2>1. B \in SUBSET Nat
    BY DEF B
  <2>2. QED
    BY <1>1, <1>2, <2>1, SetInduction
<1>4. PICK y \in S : TRUE
  OBVIOUS
<1>5. y + 1 \in B
  BY <1>3, <1>4
<1>6. QED
  BY <1>4, <1>5 DEF B

LEMMA GreatestExists ==
  ASSUME NEW S \in SUBSET Nat, S # {}, NEW b \in Nat, \A y \in S : y <= b
  PROVE  \E m \in S : \A y \in S : y <= m
<1> DEFINE R == {b - y : y \in S}
<1>1. R \in SUBSET Nat /\ R # {}
  <2>1. \A y \in S : b - y \in Nat
    OBVIOUS
  <2>2. QED
    BY <2>1
<1>2. PICK r \in R : \A y \in R : r <= y
  <2> HIDE DEF R
  <2>1. QED
    BY <1>1, LeastExists
<1>3. PICK m \in S : r = b - m
  BY <1>2
<1>4. \A y \in S : b - m <= b - y
  BY <1>2, <1>3
<1>5. \A y \in S : y <= m
  BY <1>4
<1>6. QED
  BY <1>5

LEMMA SubSeqAppend ==
  ASSUME NEW D, NEW s \in Seq(D), NEW x \in D, NEW a \in Nat \ {0}, NEW b \in Int, b <= Len(s)
  PROVE  SubSeq(Append(s, x), a, b) = SubSeq(s, a, b)
<1>1. \A i \in 1 .. (b - a) + 1 : i + a - 1 \in 1 .. Len(s)
  OBVIOUS
<1>2. \A i \in 1 .. Len(s) : Append(s, x)[i] = s[i]
  OBVIOUS
<1>3. QED
  BY <1>1, <1>2

LEMMA SubSeqGrows ==
  ASSUME NEW D, NEW s \in Seq(D), NEW x \in D, NEW m \in 0 .. Len(s)
  PROVE  SubSeq(Append(s, x), m + 1, Len(s) + 1) = Append(SubSeq(s, m + 1, Len(s)), x)
<1> DEFINE n == Len(s)
           a == Append(s, x)
           u == SubSeq(s, m + 1, n)
           v == SubSeq(a, m + 1, n + 1)
<1>1. n \in Nat /\ m \in Nat /\ m <= n /\ n - m \in Nat
  OBVIOUS
<1>2. u \in Seq(D) /\ Len(u) = n - m /\ \A i \in 1 .. n - m : u[i] = s[i + m]
  BY <1>1
<1>3. a \in Seq(D) /\ Len(a) = n + 1 /\ a[n + 1] = x /\ \A i \in 1 .. n : a[i] = s[i]
  OBVIOUS
<1> HIDE DEF a
<1>4. v \in Seq(D) /\ Len(v) = (n - m) + 1 /\ \A i \in 1 .. (n - m) + 1 : v[i] = a[i + m]
  BY <1>1, <1>3
<1> HIDE DEF u, v, n
<1>5. \A i \in 1 .. n - m : i + m \in 1 .. n /\ i \in 1 .. (n - m) + 1
  BY <1>1
<1>6. (n - m) + 1 \in 1 .. (n - m) + 1 /\ ((n - m) + 1) + m = n + 1
  BY <1>1
<1>7. v[(n - m) + 1] = x
  BY <1>3, <1>4, <1>6
<1>8. \A i \in 1 .. n - m : v[i] = u[i]
  BY <1>2, <1>3, <1>4, <1>5
<1>9. v = Append(u, x)
  <2> DEFINE w == Append(u, x)
  <2>1. w \in Seq(D) /\ Len(w) = (n - m) + 1 /\ w[(n - m) + 1] = x
        /\ \A i \in 1 .. n - m : w[i] = u[i]
    BY <1>2, AppendProperties
  <2> HIDE DEF w
  <2>2. \A i \in 1 .. (n - m) + 1 : i \in 1 .. n - m \/ i = (n - m) + 1
    BY <1>1
  <2>3. \A i \in 1 .. Len(v) : v[i] = w[i]
    BY <1>4, <1>7, <1>8, <2>1, <2>2
  <2>4. v = w
    BY <1>4, <2>1, <2>3, SeqEqual
  <2>5. QED
    BY <2>4 DEF w
<1>10. QED
  BY <1>9 DEF u, v, n, a

-----------------------------------------------------------------------------
(* Lines *)

(* The k-th line of s when e holds the places of its newlines. *)
LineAt(s, e, k) == SubSeq(s, IF k = 1 THEN 1 ELSE e[k - 1] + 1, e[k] - 1)

(* The places of the newlines. *)
Ends(text) == Picked([i \in DOMAIN text |-> i], Newlines(text))

LEMMA EndsEmpty == Ends(<<>>) = <<>>
BY PickedEmpty DEF Ends

LEMMA EndsAppend ==
  ASSUME NEW t \in Seq(Chars), NEW x \in Chars
  PROVE  Ends(Append(t, x)) = IF x = "nl" THEN Append(Ends(t), Len(t) + 1) ELSE Ends(t)
<1> DEFINE M(c) == [i \in DOMAIN c |-> i]
           W(c) == Newlines(c)
           a == Append(t, x)
           n == Len(t) + 1
<1>1. \A c : Ends(c) = Picked(M(c), W(c))
  BY DEF Ends
<1>2. M(t) \in Seq(Nat) /\ n \in Nat /\ Len(M(t)) = Len(t)
  OBVIOUS
<1>3. M(a) = Append(M(t), n)
  OBVIOUS
<1>4. \A i \in 1 .. Len(M(t)) : i \in W(a) <=> i \in W(t)
  BY <1>2 DEF Newlines
<1>5. n \in W(a) <=> x = "nl"
  BY DEF Newlines
<1> HIDE DEF M, W, n
<1>6. Picked(Append(M(t), n), W(a)) =
        IF Len(M(t)) + 1 \in W(a) THEN Append(Picked(M(t), W(t)), n) ELSE Picked(M(t), W(t))
  <2>1. ASSUME NEW c \in Seq(Nat), NEW y \in Nat, NEW I, NEW J, \A i \in 1 .. Len(c) : i \in I <=> i \in J
        PROVE  Picked(Append(c, y), I) =
                 IF Len(c) + 1 \in I THEN Append(Picked(c, J), y) ELSE Picked(c, J)
    BY <2>1, PickedAppend
  <2>2. QED
    BY <1>2, <1>4, <2>1
<1>7. QED
  BY <1>1, <1>2, <1>3, <1>5, <1>6 DEF n

LEMMA EndsTyped ==
  ASSUME NEW t \in Seq(Chars)
  PROVE  Ends(t) \in Seq(1 .. Len(t))
<1>1. [i \in DOMAIN t |-> i] \in Seq(1 .. Len(t))
  OBVIOUS
<1>2. QED
  BY <1>1, PickedTyped DEF Ends

(* The last of them, or 0. *)
LastEnd(t) == IF Ends(t) = <<>> THEN 0 ELSE Ends(t)[Len(Ends(t))]

LEMMA LastEndIsLast ==
  ASSUME NEW t \in Seq(Chars)
  PROVE  LastEnd(t) \in Newlines(t) \cup {0} /\ \A i \in Newlines(t) : i <= LastEnd(t)
<1> DEFINE T(u) == LastEnd(u) \in Newlines(u) \cup {0} /\ \A i \in Newlines(u) : i <= LastEnd(u)
           P == {u \in Seq(Chars) : T(u)}
<1>1. <<>> \in P
  BY EndsEmpty DEF LastEnd, Newlines
<1>2. ASSUME NEW u \in P, NEW x \in Chars
      PROVE  Append(u, x) \in P
  <2>1. u \in Seq(Chars) /\ Append(u, x) \in Seq(Chars) /\ T(u)
    OBVIOUS
  <2>2. Newlines(Append(u, x)) = IF x = "nl" THEN Newlines(u) \cup {Len(u) + 1} ELSE Newlines(u)
    BY <2>1 DEF Newlines
  <2>3. LastEnd(Append(u, x)) = IF x = "nl" THEN Len(u) + 1 ELSE LastEnd(u)
    <3>1. Ends(u) \in Seq(Nat)
      BY <2>1, EndsTyped
    <3>2. Ends(Append(u, x)) = IF x = "nl" THEN Append(Ends(u), Len(u) + 1) ELSE Ends(u)
      BY <2>1, EndsAppend
    <3>3. /\ Append(Ends(u), Len(u) + 1) # <<>>
          /\ Append(Ends(u), Len(u) + 1)[Len(Append(Ends(u), Len(u) + 1))] = Len(u) + 1
      <4>1. ASSUME NEW e \in Seq(Nat), NEW y \in Nat
            PROVE  Append(e, y) # <<>> /\ Append(e, y)[Len(Append(e, y))] = y
        OBVIOUS
      <4>2. Len(u) + 1 \in Nat
        BY <2>1
      <4>3. QED
        BY <3>1, <4>1, <4>2
    <3>4. QED
      BY <3>2, <3>3 DEF LastEnd
  <2>4. \A i \in Newlines(u) : i \in Nat /\ i <= Len(u)
    BY <2>1 DEF Newlines
  <2>5. T(Append(u, x))
    BY <2>1, <2>2, <2>3, <2>4
  <2>6. QED
    BY <2>1, <2>5
<1> HIDE DEF P
<1>3. P = Seq(Chars)
  <2>1. P \in SUBSET Seq(Chars)
    BY DEF P
  <2>2. QED
    BY <1>1, <1>2, <2>1, SequenceInduction
<1>4. QED
  BY <1>3 DEF P

(* What follows the last newline. *)
LEMMA RestOfIs ==
  ASSUME NEW t \in Seq(Chars)
  PROVE  /\ LastEnd(t) \in 0 .. Len(t)
         /\ RestOf(t) = SubSeq(t, LastEnd(t) + 1, Len(t))
         /\ RestOf(t) \in Seq(Chars)
<1>1. Newlines(t) \cup {0} \in SUBSET Int /\ \A i \in Newlines(t) \cup {0} : i \in 0 .. Len(t)
  BY DEF Newlines
<1>2. LastEnd(t) \in Newlines(t) \cup {0} /\ \A i \in Newlines(t) \cup {0} : i <= LastEnd(t)
  BY <1>1, LastEndIsLast
<1>3. Max(Newlines(t) \cup {0}) = LastEnd(t)
  <2>1. ASSUME NEW S \in SUBSET Int, NEW m \in S, \A y \in S : y <= m
        PROVE  Max(S) = m
    BY <2>1, MaxIs
  <2>2. QED
    BY <1>1, <1>2, <2>1
<1>4. LastEnd(t) \in 0 .. Len(t)
  BY <1>1, <1>2
<1>5. RestOf(t) = SubSeq(t, LastEnd(t) + 1, Len(t))
  BY <1>3 DEF RestOf
<1>6. SubSeq(t, LastEnd(t) + 1, Len(t)) \in Seq(Chars)
  BY <1>4
<1>7. QED
  BY <1>4, <1>5, <1>6

(* A character ends a line or is added to the rest. *)
LEMMA LinesAppend ==
  ASSUME NEW t \in Seq(Chars), NEW x \in Chars
  PROVE  /\ LinesOf(Append(t, x)) =
              IF x = "nl" THEN Append(LinesOf(t), RestOf(t)) ELSE LinesOf(t)
         /\ RestOf(Append(t, x)) = IF x = "nl" THEN <<>> ELSE Append(RestOf(t), x)
<1> DEFINE a == Append(t, x)
           e == Ends(t)
           f == Ends(a)
           n == Len(t)
<1>1. e \in Seq(1 .. n) /\ n \in Nat /\ a \in Seq(Chars) /\ Len(a) = n + 1
  BY EndsTyped
<1>2. f = IF x = "nl" THEN Append(e, n + 1) ELSE e
  BY EndsAppend
<1>3. /\ LinesOf(t) = [k \in DOMAIN e |-> LineAt(t, e, k)]
      /\ LinesOf(a) = [k \in DOMAIN f |-> LineAt(a, f, k)]
  BY DEF LinesOf, Ends, LineAt
<1>4. ASSUME NEW k \in 1 .. Len(e)
      PROVE  LineAt(a, e, k) = LineAt(t, e, k)
  <2> DEFINE from == IF k = 1 THEN 1 ELSE e[k - 1] + 1
             to == e[k] - 1
  <2>1. from \in Nat \ {0} /\ to \in Int /\ to <= Len(t)
    BY <1>1
  <2> HIDE DEF from, to
  <2>2. SubSeq(Append(t, x), from, to) = SubSeq(t, from, to)
    BY <2>1, SubSeqAppend
  <2>3. QED
    BY <2>2 DEF LineAt, from, to
<1>5. /\ LastEnd(t) \in 0 .. n /\ RestOf(t) = SubSeq(t, LastEnd(t) + 1, n)
      /\ RestOf(a) = SubSeq(a, LastEnd(a) + 1, n + 1)
  BY <1>1, RestOfIs
<1>6. CASE x # "nl"
  <2>1. f = e
    BY <1>2, <1>6
  <2>2. LinesOf(a) = LinesOf(t)
    BY <1>1, <1>3, <1>4, <2>1
  <2>3. LastEnd(a) = LastEnd(t)
    BY <2>1 DEF LastEnd
  <2>4. SubSeq(a, LastEnd(t) + 1, n + 1) = Append(SubSeq(t, LastEnd(t) + 1, n), x)
    BY <1>5, SubSeqGrows
  <2>5. QED
    BY <1>5, <1>6, <2>2, <2>3, <2>4
<1>7. CASE x = "nl"
  <2>1. f = Append(e, n + 1) /\ Len(f) = Len(e) + 1 /\ f[Len(e) + 1] = n + 1
        /\ f # <<>> /\ \A k \in 1 .. Len(e) : f[k] = e[k]
    BY <1>1, <1>2, <1>7
  <2>2. LastEnd(a) = n + 1
    BY <2>1 DEF LastEnd
  <2>3. RestOf(a) = <<>>
    BY <1>1, <1>5, <2>2
  <2>4. LineAt(a, f, Len(e) + 1) = RestOf(t)
    <3>1. (IF Len(e) + 1 = 1 THEN 1 ELSE f[(Len(e) + 1) - 1] + 1) = LastEnd(t) + 1
      BY <1>1, <2>1 DEF LastEnd
    <3>2. f[Len(e) + 1] - 1 = n
      BY <1>1, <2>1
    <3>3. SubSeq(Append(t, x), LastEnd(t) + 1, n) = SubSeq(t, LastEnd(t) + 1, n)
      <4>1. ASSUME NEW from \in Nat \ {0}, NEW to \in Int, to <= Len(t)
            PROVE  SubSeq(Append(t, x), from, to) = SubSeq(t, from, to)
        BY <4>1, SubSeqAppend
      <4>2. LastEnd(t) + 1 \in Nat \ {0} /\ n \in Int /\ n <= Len(t)
        BY <1>1, <1>5
      <4>3. QED
        BY <4>1, <4>2
    <3>4. QED
      BY <1>5, <3>1, <3>2, <3>3 DEF LineAt
  <2>5. \A k \in 1 .. Len(e) : LineAt(a, f, k) = LineAt(t, e, k)
    <3>1. \A k \in 1 .. Len(e) : LineAt(a, f, k) = LineAt(a, e, k)
      <4> SUFFICES ASSUME NEW k \in 1 .. Len(e)
                   PROVE  LineAt(a, f, k) = LineAt(a, e, k)
        OBVIOUS
      <4>1. k = 1 \/ k - 1 \in 1 .. Len(e)
        BY <1>1
      <4>2. f[k] = e[k] /\ (k # 1 => f[k - 1] = e[k - 1])
        BY <2>1, <4>1
      <4> HIDE DEF a, e, f
      <4>3. QED
        BY <4>2 DEF LineAt
    <3>2. QED
      BY <1>4, <3>1
  <2>6. DOMAIN f = 1 .. Len(e) + 1 /\ DOMAIN e = 1 .. Len(e)
    BY <1>1, <2>1
  <2>7. LinesOf(a) = Append(LinesOf(t), RestOf(t))
    <3>1. ASSUME NEW m \in Nat, NEW K, NEW L, NEW y,
                 L = [k \in 1 .. m |-> LineAt(t, e, k)],
                 K = [k \in 1 .. m + 1 |-> LineAt(a, f, k)],
                 LineAt(a, f, m + 1) = y,
                 \A k \in 1 .. m : LineAt(a, f, k) = LineAt(t, e, k)
          PROVE  K = Append(L, y)
      <4>1. Append(L, y) = [k \in 1 .. m + 1 |-> IF k = m + 1 THEN y ELSE L[k]]
        BY <3>1
      <4>2. \A k \in 1 .. m + 1 : LineAt(a, f, k) = IF k = m + 1 THEN y ELSE L[k]
        BY <3>1
      <4>3. QED
        BY <3>1, <4>1, <4>2
    <3>2. Len(e) \in Nat
      BY <1>1
    <3> HIDE DEF a, e, f
    <3>3. QED
      BY <1>3, <2>4, <2>5, <2>6, <3>1, <3>2
  <2>8. QED
    BY <1>7, <2>3, <2>7
<1>8. QED
  BY <1>6, <1>7

(* Without a newline the text is all rest. *)
LEMMA NoNewline ==
  ASSUME NEW w \in Seq(Chars), Newlines(w) = {}
  PROVE  LinesOf(w) = <<>> /\ RestOf(w) = w
<1>1. Ends(w) = <<>>
  <2> DEFINE I == [i \in DOMAIN w |-> i]
             N == Newlines(w)
  <2>1. I \in Seq(Nat) /\ 1 .. Len(I) \cap N = {}
    OBVIOUS
  <2> HIDE DEF I, N
  <2>2. Picked(I, N) = <<>>
    BY <2>1, PickedNone
  <2>3. QED
    BY <2>2 DEF I, N, Ends
<1>2. LinesOf(w) = [k \in DOMAIN Ends(w) |-> LineAt(w, Ends(w), k)]
  BY DEF LinesOf, Ends, LineAt
<1>3. LinesOf(w) = <<>>
  BY <1>1, <1>2
<1>4. LastEnd(w) = 0
  BY <1>1 DEF LastEnd
<1>5. RestOf(w) = SubSeq(w, 1, Len(w))
  <2>1. RestOf(w) = SubSeq(w, LastEnd(w) + 1, Len(w))
    BY RestOfIs
  <2>2. QED
    BY <1>4, <2>1
<1>6. QED
  BY <1>3, <1>5

LEMMA LinesEmpty == LinesOf(<<>>) = <<>> /\ RestOf(<<>>) = <<>>
<1>1. <<>> \in Seq(Chars) /\ Newlines(<<>>) = {}
  BY DEF Newlines
<1>2. \A w \in Seq(Chars) : Newlines(w) = {} => LinesOf(w) = <<>> /\ RestOf(w) = w
  BY NoNewline
<1>3. QED
  BY <1>1, <1>2

LEMMA LinesTyped ==
  ASSUME NEW t \in Seq(Chars)
  PROVE  LinesOf(t) \in Seq(Seq(Chars)) /\ RestOf(t) \in Seq(Chars)
<1> DEFINE P == {u \in Seq(Chars) : LinesOf(u) \in Seq(Seq(Chars))}
<1>1. <<>> \in P
  <2>1. <<>> \in Seq(Chars) /\ <<>> \in Seq(Seq(Chars))
    OBVIOUS
  <2>2. QED
    BY <2>1, LinesEmpty
<1>2. ASSUME NEW u \in P, NEW x \in Chars
      PROVE  Append(u, x) \in P
  <2>1. u \in Seq(Chars) /\ LinesOf(u) \in Seq(Seq(Chars)) /\ Append(u, x) \in Seq(Chars)
    OBVIOUS
  <2> HIDE DEF P
  <2>2. LinesOf(Append(u, x)) = LinesOf(u) \/ LinesOf(Append(u, x)) = Append(LinesOf(u), RestOf(u))
    BY <2>1, LinesAppend
  <2>3. RestOf(u) \in Seq(Chars)
    BY <2>1, RestOfIs
  <2>4. Append(LinesOf(u), RestOf(u)) \in Seq(Seq(Chars))
    BY <2>1, <2>3, AppendProperties
  <2>5. QED
    BY <2>1, <2>2, <2>4 DEF P
<1> HIDE DEF P
<1>3. P = Seq(Chars)
  <2>1. P \in SUBSET Seq(Chars)
    BY DEF P
  <2>2. QED
    BY <1>1, <1>2, <2>1, SequenceInduction
<1>4. QED
  BY <1>3, RestOfIs DEF P

(* The lines of u are those in `taken', and then those of v.                 *)
Follows(taken, u, v) == LinesOf(u) = taken \o LinesOf(v) /\ RestOf(u) = RestOf(v)

LEMMA FollowsAppend ==
  ASSUME NEW taken \in Seq(Seq(Chars)), NEW u \in Seq(Chars), NEW v \in Seq(Chars),
         Follows(taken, u, v), NEW x \in Chars
  PROVE  Follows(taken, Append(u, x), Append(v, x))
<1>1. ASSUME NEW t \in Seq(Chars)
      PROVE  /\ LinesOf(Append(t, x)) = IF x = "nl" THEN Append(LinesOf(t), RestOf(t)) ELSE LinesOf(t)
             /\ RestOf(Append(t, x)) = IF x = "nl" THEN <<>> ELSE Append(RestOf(t), x)
  BY LinesAppend
<1>2. /\ LinesOf(Append(u, x)) = IF x = "nl" THEN Append(LinesOf(u), RestOf(u)) ELSE LinesOf(u)
      /\ RestOf(Append(u, x)) = IF x = "nl" THEN <<>> ELSE Append(RestOf(u), x)
  BY <1>1
<1>3. /\ LinesOf(Append(v, x)) = IF x = "nl" THEN Append(LinesOf(v), RestOf(v)) ELSE LinesOf(v)
      /\ RestOf(Append(v, x)) = IF x = "nl" THEN <<>> ELSE Append(RestOf(v), x)
  BY <1>1
<1>4. LinesOf(u) = taken \o LinesOf(v) /\ RestOf(u) = RestOf(v)
  BY DEF Follows
<1>5. LinesOf(v) \in Seq(Seq(Chars)) /\ RestOf(v) \in Seq(Chars)
  BY LinesTyped
<1>6. Append(taken \o LinesOf(v), RestOf(v)) = taken \o Append(LinesOf(v), RestOf(v))
  <2>1. ASSUME NEW K \in Seq(Seq(Chars)), NEW l \in Seq(Chars)
        PROVE  Append(taken \o K, l) = taken \o Append(K, l)
    OBVIOUS
  <2>2. QED
    BY <1>5, <2>1
<1>7. QED
  BY <1>2, <1>3, <1>4, <1>6 DEF Follows

(* What arrives next is added to both. *)
LEMMA FollowsConcat ==
  ASSUME NEW taken \in Seq(Seq(Chars)), NEW u \in Seq(Chars), NEW v \in Seq(Chars),
         Follows(taken, u, v), NEW d \in Seq(Chars)
  PROVE  Follows(taken, u \o d, v \o d)
<1> DEFINE P == {e \in Seq(Chars) : Follows(taken, u \o e, v \o e)}
<1>1. <<>> \in P
  <2>1. <<>> \in Seq(Chars) /\ u \o <<>> = u /\ v \o <<>> = v
    OBVIOUS
  <2>2. QED
    BY <2>1
<1>2. ASSUME NEW e \in P, NEW x \in Chars
      PROVE  Append(e, x) \in P
  <2>1. /\ e \in Seq(Chars) /\ Append(e, x) \in Seq(Chars)
        /\ u \o e \in Seq(Chars) /\ v \o e \in Seq(Chars)
        /\ u \o Append(e, x) = Append(u \o e, x) /\ v \o Append(e, x) = Append(v \o e, x)
    <3>1. e \in Seq(Chars)
      OBVIOUS
    <3>2. Append(e, x) \in Seq(Chars) /\ u \o e \in Seq(Chars) /\ v \o e \in Seq(Chars)
      BY <3>1, AppendProperties, ConcatProperties
    <3>3. Joins(Chars)
      BY AppendConcat
    <3>4. u \o Append(e, x) = Append(u \o e, x) /\ v \o Append(e, x) = Append(v \o e, x)
      BY <3>1, <3>3 DEF Joins
    <3>5. QED
      BY <3>1, <3>2, <3>4
  <2>2. Follows(taken, u \o e, v \o e)
    OBVIOUS
  <2> HIDE DEF P
  <2>3. ASSUME NEW a \in Seq(Chars), NEW b \in Seq(Chars), Follows(taken, a, b)
        PROVE  Follows(taken, Append(a, x), Append(b, x))
    BY <2>3, FollowsAppend
  <2>4. Follows(taken, Append(u \o e, x), Append(v \o e, x))
    BY <2>1, <2>2, <2>3
  <2>5. QED
    BY <2>1, <2>4 DEF P
<1> HIDE DEF P
<1>3. P = Seq(Chars)
  <2>1. P \in SUBSET Seq(Chars)
    BY DEF P
  <2>2. QED
    BY <1>1, <1>2, <2>1, SequenceInduction
<1>4. QED
  BY <1>3 DEF P

(* The first line of what is buffered is taken off. *)
LEMMA FirstLine ==
  ASSUME NEW b \in Seq(Chars), NEW i \in Newlines(b), \A j \in Newlines(b) : i <= j,
         NEW d \in Seq(Chars)
  PROVE  Follows(<<SubSeq(b, 1, i - 1)>>, b \o d, SubSeq(b, i + 1, Len(b)) \o d)
<1> DEFINE w == SubSeq(b, 1, i - 1)
           z == SubSeq(b, i + 1, Len(b))
           h == Append(w, "nl")
<1>1. i \in 1 .. Len(b) /\ b[i] = "nl" /\ \A j \in 1 .. i - 1 : b[j] # "nl"
  BY DEF Newlines
<1>2. "nl" \in Chars /\ <<>> \in Seq(Chars)
  <2>1. "nl" \in Chars
    BY DEF Chars
  <2>2. QED
    BY <2>1
<1>3. /\ w \in Seq(Chars) /\ z \in Seq(Chars) /\ Len(w) = i - 1 /\ Len(z) = Len(b) - i
      /\ (\A j \in 1 .. i - 1 : w[j] = b[j]) /\ \A j \in 1 .. Len(b) - i : z[j] = b[j + i]
  BY <1>1
<1> HIDE DEF w, z
<1>4. Newlines(w) = {}
  <2>1. DOMAIN w = 1 .. i - 1
    BY <1>1, <1>3
  <2>2. \A j \in 1 .. i - 1 : w[j] # "nl"
    BY <1>1, <1>3
  <2>3. QED
    BY <2>1, <2>2 DEF Newlines
<1>5. h \in Seq(Chars) /\ Len(h) = i /\ h[i] = "nl" /\ \A j \in 1 .. i - 1 : h[j] = b[j]
  BY <1>1, <1>2, <1>3
<1>6. Follows(<<w>>, h, <<>>)
  <2>1. LinesOf(w) = <<>> /\ RestOf(w) = w
    BY <1>3, <1>4, NoNewline
  <2>2. LinesOf(h) = Append(<<>>, w) /\ RestOf(h) = <<>>
    <3>1. ASSUME NEW t \in Seq(Chars)
          PROVE  /\ LinesOf(Append(t, "nl")) = Append(LinesOf(t), RestOf(t))
                 /\ RestOf(Append(t, "nl")) = <<>>
      BY <1>2, LinesAppend
    <3>2. QED
      BY <1>3, <2>1, <3>1
  <2>3. Append(<<>>, w) = <<w>> \o <<>>
    OBVIOUS
  <2>4. QED
    BY <2>2, <2>3, LinesEmpty DEF Follows
<1> HIDE DEF h
<1>7. b = h \o z
  <2>1. /\ h \o z \in Seq(Chars) /\ Len(h \o z) = Len(h) + Len(z)
        /\ \A j \in 1 .. Len(h) + Len(z) : (h \o z)[j] = IF j <= Len(h) THEN h[j] ELSE z[j - Len(h)]
    <3>1. ASSUME NEW x \in Seq(Chars), NEW y \in Seq(Chars)
          PROVE  /\ x \o y \in Seq(Chars) /\ Len(x \o y) = Len(x) + Len(y)
                 /\ \A j \in 1 .. Len(x) + Len(y) :
                      (x \o y)[j] = IF j <= Len(x) THEN x[j] ELSE y[j - Len(x)]
      BY ConcatProperties
    <3>2. QED
      BY <1>3, <1>5, <3>1
  <2>0. Len(h) + Len(z) = Len(b) /\ Len(b) \in Nat
    BY <1>1, <1>3, <1>5
  <2>2. ASSUME NEW j \in 1 .. Len(b)
        PROVE  b[j] = (h \o z)[j]
    <3>1. (h \o z)[j] = IF j <= i THEN h[j] ELSE z[j - i]
      BY <1>5, <2>0, <2>1
    <3>2. CASE j <= i
      BY <1>1, <1>5, <3>1, <3>2
    <3>3. CASE j > i
      <4>1. j - i \in 1 .. Len(b) - i /\ (j - i) + i = j
        BY <1>1, <3>3
      <4>2. ~(j <= i)
        BY <1>1, <3>3
      <4>3. ASSUME NEW k \in 1 .. Len(b) - i
            PROVE  z[k] = b[k + i]
        BY <1>3
      <4>4. z[j - i] = b[j]
        BY <4>1, <4>3
      <4>5. QED
        BY <3>1, <4>2, <4>4
    <3>4. j <= i \/ j > i
      BY <1>1, <2>0
    <3>5. QED
      BY <3>2, <3>3, <3>4
  <2>3. QED
    BY <2>0, <2>1, <2>2, SeqEqual
<1>8. z \o d \in Seq(Chars) /\ <<w>> \in Seq(Seq(Chars))
  BY <1>3
<1>9. Follows(<<w>>, h \o (z \o d), <<>> \o (z \o d))
  <2>1. ASSUME NEW taken \in Seq(Seq(Chars)), NEW u \in Seq(Chars), NEW v \in Seq(Chars),
               NEW e \in Seq(Chars), Follows(taken, u, v)
        PROVE  Follows(taken, u \o e, v \o e)
    BY <2>1, FollowsConcat
  <2>2. QED
    BY <1>2, <1>5, <1>6, <1>8, <2>1
<1>10. h \o (z \o d) = b \o d /\ <<>> \o (z \o d) = z \o d
  <2>1. h \o (z \o d) = (h \o z) \o d
    <3>1. Together(Chars)
      BY Associates
    <3>2. h \in Seq(Chars) /\ z \in Seq(Chars) /\ d \in Seq(Chars)
      BY <1>3, <1>5
    <3>3. QED
      BY <3>1, <3>2 DEF Together
  <2>2. <<>> \o (z \o d) = z \o d
    BY <1>8
  <2>3. QED
    BY <1>7, <2>1, <2>2
<1>11. QED
  BY <1>9, <1>10 DEF w, z

-----------------------------------------------------------------------------
(* Filtering *)

(* The elements of s in G. *)
Kept(s, G) == Picked(s, {i \in DOMAIN s : s[i] \in G})

LEMMA KeptEmpty ==
  ASSUME NEW G
  PROVE  Kept(<<>>, G) = <<>>
BY PickedEmpty DEF Kept

(* What an element at the end adds. *)
LEMMA KeptAppend ==
  ASSUME NEW D, NEW s \in Seq(D), NEW x \in D, NEW G
  PROVE  Kept(Append(s, x), G) = IF x \in G THEN Append(Kept(s, G), x) ELSE Kept(s, G)
<1> DEFINE a == Append(s, x)
           I == {i \in DOMAIN a : a[i] \in G}
           J == {i \in DOMAIN s : s[i] \in G}
<1>1. (\A i \in 1 .. Len(s) : i \in I <=> i \in J) /\ (Len(s) + 1 \in I <=> x \in G)
  OBVIOUS
<1> HIDE DEF I, J
<1>2. Picked(Append(s, x), I) = IF Len(s) + 1 \in I THEN Append(Picked(s, J), x) ELSE Picked(s, J)
  BY <1>1, PickedAppend
<1>3. QED
  BY <1>1, <1>2 DEF Kept, I, J

LEMMA KeptTyped ==
  ASSUME NEW D, NEW s \in Seq(D), NEW G
  PROVE  Kept(s, G) \in Seq(D)
BY PickedTyped DEF Kept

(* Of two sequences in a row each is filtered by itself. *)
KeptApart(D, G) == \A s \in Seq(D), t \in Seq(D) : Kept(s \o t, G) = Kept(s, G) \o Kept(t, G)

LEMMA KeptConcat ==
  ASSUME NEW D, NEW G
  PROVE  KeptApart(D, G)
<1> SUFFICES ASSUME NEW s \in Seq(D), NEW t \in Seq(D)
             PROVE  Kept(s \o t, G) = Kept(s, G) \o Kept(t, G)
  BY DEF KeptApart
<1> DEFINE P == {u \in Seq(D) : Kept(s \o u, G) = Kept(s, G) \o Kept(u, G)}
<1>0. ASSUME NEW p \in Seq(D), NEW v \in Seq(D), NEW x \in D
      PROVE  Append(p \o v, x) = p \o Append(v, x)
  <2>1. Joins(D)
    BY AppendConcat
  <2>2. QED
    BY <2>1 DEF Joins
<1>1. <<>> \in P
  <2>1. <<>> \in Seq(D) /\ s \o <<>> = s /\ Kept(s, G) \o <<>> = Kept(s, G)
    BY KeptTyped, ConcatEmptySeq
  <2>2. QED
    BY <2>1, KeptEmpty
<1>2. ASSUME NEW u \in P, NEW x \in D
      PROVE  Append(u, x) \in P
  <2>1. u \in Seq(D) /\ Append(u, x) \in Seq(D) /\ s \o u \in Seq(D)
    OBVIOUS
  <2>2. Kept(s \o u, G) = Kept(s, G) \o Kept(u, G)
    OBVIOUS
  <2> HIDE DEF P
  <2>3. ASSUME NEW v \in Seq(D)
        PROVE  Kept(Append(v, x), G) = IF x \in G THEN Append(Kept(v, G), x) ELSE Kept(v, G)
    BY KeptAppend
  <2>4. /\ Kept(Append(u, x), G) = IF x \in G THEN Append(Kept(u, G), x) ELSE Kept(u, G)
        /\ Kept(Append(s \o u, x), G) =
             IF x \in G THEN Append(Kept(s \o u, G), x) ELSE Kept(s \o u, G)
    BY <2>1, <2>3
  <2>5. Kept(s, G) \in Seq(D) /\ Kept(u, G) \in Seq(D)
    BY <2>1, KeptTyped
  <2>6. s \o Append(u, x) = Append(s \o u, x)
        /\ Append(Kept(s, G) \o Kept(u, G), x) = Kept(s, G) \o Append(Kept(u, G), x)
    <3>1. s \in Seq(D) /\ u \in Seq(D) /\ x \in D /\ Joins(D)
      BY <2>1, AppendConcat
    <3>2. QED
      BY <2>5, <3>1, Zenon DEF Joins
  <2>7. QED
    BY <2>1, <2>2, <2>4, <2>6 DEF P
<1> HIDE DEF P
<1>3. P = Seq(D)
  <2>1. P \in SUBSET Seq(D)
    BY DEF P
  <2>2. QED
    BY <1>1, <1>2, <2>1, SequenceInduction
<1>4. QED
  BY <1>3 DEF P

-----------------------------------------------------------------------------
(* Flattening *)

(* The function FlattenSeq is the last value of. *)
Flat(ss) ==
  LET flatten[i \in 1 .. Len(ss)] == IF i = 1 THEN ss[i] ELSE flatten[i - 1] \o ss[i]
  IN  flatten

(* What FlattenSeq computes. *)
LEMMA FlatDef ==
  ASSUME NEW D, NEW ss \in Seq(Seq(D)), ss # <<>>
  PROVE  /\ Flat(ss)[1] = ss[1]
         /\ \A n \in 2 .. Len(ss) : Flat(ss)[n] = Flat(ss)[n - 1] \o ss[n]
         /\ FlattenSeq(ss) = Flat(ss)[Len(ss)]
<1> DEFINE N == Len(ss)
           h == [n \in 1 .. N |-> [p \in Seq(D) |-> p \o ss[n]]]
           Next1(f) == [i \in 1 .. N |-> IF i = 1 THEN ss[i] ELSE f[i - 1] \o ss[i]]
<1>1. N \in Nat /\ N # 0 /\ <<>> \in Seq(D) /\ \A n \in 1 .. N : ss[n] \in Seq(D)
  OBVIOUS
<1>2. h \in [1 .. N -> [Seq(D) -> Seq(D)]]
  BY <1>1, ConcatProperties
<1>3. PICK f \in [0 .. N -> Seq(D)] : f[0] = <<>> /\ \A n \in 1 .. N : f[n] = h[n][f[n - 1]]
  <2> HIDE DEF h, N
  <2>1. Recursive(Seq(D), <<>>, N, h)
    BY <1>1, <1>2, Recursion
  <2>2. QED
    BY <2>1 DEF Recursive
<1>4. ASSUME NEW n \in 1 .. N
      PROVE  f[n] = f[n - 1] \o ss[n]
  <2>1. f[n - 1] \in Seq(D)
    <3>1. n - 1 \in 0 .. N
      BY <1>1
    <3>2. QED
      BY <1>3, <3>1
  <2>2. h[n][f[n - 1]] = f[n - 1] \o ss[n]
    BY <2>1
  <2>3. QED
    BY <1>3, <2>2
<1> HIDE DEF h
<1>5. f[1] = ss[1]
  <2>1. 1 \in 1 .. N
    BY <1>1
  <2>2. f[1] = f[1 - 1] \o ss[1]
    BY <1>4, <2>1
  <2>3. f[1 - 1] = <<>>
    BY <1>3
  <2>4. <<>> \o ss[1] = ss[1]
    BY <1>1, <2>1
  <2>5. QED
    BY <2>2, <2>3, <2>4
<1> DEFINE g == [i \in 1 .. N |-> f[i]]
<1>6. g = Next1(g)
  <2>1. ASSUME NEW i \in 1 .. N
        PROVE  f[i] = IF i = 1 THEN ss[i] ELSE g[i - 1] \o ss[i]
    <3>1. CASE i = 1
      BY <1>5, <3>1
    <3>2. CASE i # 1
      <4>1. i - 1 \in 1 .. N
        BY <1>1, <3>2
      <4>2. g[i - 1] = f[i - 1]
        BY <4>1
      <4>3. QED
        BY <1>4, <3>2, <4>2
    <3>3. QED
      BY <3>1, <3>2
  <2>2. QED
    BY <2>1
<1>7. Flat(ss) = Next1(Flat(ss))
  <2> HIDE DEF g
  <2>1. QED
    BY <1>6 DEF Flat
<1> DEFINE k == Flat(ss)
<1>8. k[1] = ss[1] /\ \A n \in 2 .. N : k[n] = k[n - 1] \o ss[n]
  <2> HIDE DEF k
  <2>1. k = Next1(k)
    BY <1>7 DEF k
  <2>2. 1 \in 1 .. N
    BY <1>1
  <2> HIDE DEF N
  <2>3. \A n \in 1 .. N : k[n] = Next1(k)[n]
    BY <2>1
  <2>4. k[1] = ss[1]
    BY <2>2, <2>3
  <2>5. ASSUME NEW n \in 2 .. N
        PROVE  k[n] = k[n - 1] \o ss[n]
    <3>1. n \in 1 .. N /\ n # 1
      BY <1>1
    <3>2. QED
      BY <2>3, <3>1
  <2>6. QED
    BY <2>4, <2>5
<1>9. FlattenSeq(ss) = Flat(ss)[N]
  BY <1>1 DEF FlattenSeq, Flat
<1>10. QED
  BY <1>8, <1>9

LEMMA FlattenEmpty == FlattenSeq(<<>>) = <<>>
BY DEF FlattenSeq

(* A sequence at the end is added to the end. *)
LEMMA FlattenAppend ==
  ASSUME NEW D, NEW ss \in Seq(Seq(D)), NEW x \in Seq(D)
  PROVE  FlattenSeq(Append(ss, x)) = FlattenSeq(ss) \o x
<1> DEFINE a == Append(ss, x)
           n == Len(ss)
           f == Flat(ss)
           g == Flat(a)
<1>1. /\ a \in Seq(Seq(D)) /\ a # <<>> /\ Len(a) = n + 1 /\ a[n + 1] = x /\ n \in Nat
      /\ \A i \in 1 .. n : a[i] = ss[i]
  BY AppendProperties
<1> HIDE DEF a
<1>2. /\ g[1] = a[1] /\ \A i \in 2 .. n + 1 : g[i] = g[i - 1] \o a[i]
      /\ FlattenSeq(a) = g[n + 1]
  <2>1. ASSUME NEW tt \in Seq(Seq(D)), tt # <<>>
        PROVE  /\ Flat(tt)[1] = tt[1]
               /\ \A i \in 2 .. Len(tt) : Flat(tt)[i] = Flat(tt)[i - 1] \o tt[i]
               /\ FlattenSeq(tt) = Flat(tt)[Len(tt)]
    BY <2>1, FlatDef
  <2> HIDE DEF n
  <2>2. QED
    BY <1>1, <2>1
<1>3. CASE n = 0
  <2>1. ss = <<>>
    BY <1>3
  <2>2. FlattenSeq(ss) = <<>>
    BY <2>1, FlattenEmpty
  <2>3. g[n + 1] = x
    BY <1>1, <1>2, <1>3
  <2>4. <<>> \o x = x
    OBVIOUS
  <2>5. QED
    BY <1>2, <2>2, <2>3, <2>4 DEF a
<1>4. CASE n # 0
  <2>1. ss # <<>>
    BY <1>4
  <2>2. /\ f[1] = ss[1] /\ \A i \in 2 .. n : f[i] = f[i - 1] \o ss[i]
        /\ FlattenSeq(ss) = f[n]
    BY <2>1, FlatDef
  <2> DEFINE S == {i \in Nat : i + 1 <= n => f[i + 1] = g[i + 1]}
  <2> HIDE DEF f, g, n
  <2>3. 0 \in S
    <3>1. 1 \in 1 .. n
      BY <1>1, <1>4
    <3>2. f[1] = g[1]
      BY <1>1, <1>2, <2>2, <3>1
    <3>3. QED
      BY <3>2
  <2>4. ASSUME NEW i \in S
        PROVE  i + 1 \in S
    <3> SUFFICES ASSUME (i + 1) + 1 <= n
                 PROVE  f[(i + 1) + 1] = g[(i + 1) + 1]
      OBVIOUS
    <3>1. /\ (i + 1) + 1 \in 2 .. n /\ (i + 1) + 1 \in 2 .. n + 1 /\ (i + 1) + 1 \in 1 .. n
          /\ ((i + 1) + 1) - 1 = i + 1 /\ f[i + 1] = g[i + 1]
      BY <1>1
    <3>2. /\ f[(i + 1) + 1] = f[i + 1] \o ss[(i + 1) + 1]
          /\ g[(i + 1) + 1] = g[i + 1] \o a[(i + 1) + 1]
      <4>1. /\ f[(i + 1) + 1] = f[((i + 1) + 1) - 1] \o ss[(i + 1) + 1]
            /\ g[(i + 1) + 1] = g[((i + 1) + 1) - 1] \o a[(i + 1) + 1]
        BY <1>2, <2>2, <3>1, Zenon
      <4>2. QED
        BY <3>1, <4>1, Zenon
    <3>3. a[(i + 1) + 1] = ss[(i + 1) + 1]
      BY <1>1, <3>1, Zenon
    <3>4. QED
      BY <3>1, <3>2, <3>3, Zenon
  <2> HIDE DEF S
  <2>5. S = Nat
    <3>1. S \in SUBSET Nat
      BY DEF S
    <3>2. QED
      BY <2>3, <2>4, <3>1, SetInduction
  <2>6. f[n] = g[n]
    <3>1. n - 1 \in S /\ (n - 1) + 1 = n
      BY <1>1, <1>4, <2>5
    <3>2. QED
      BY <1>1, <3>1 DEF S
  <2>7. g[n + 1] = g[n] \o x
    <3>1. n + 1 \in 2 .. n + 1 /\ (n + 1) - 1 = n
      BY <1>1, <1>4
    <3>2. QED
      BY <1>1, <1>2, <3>1
  <2>8. QED
    BY <1>2, <2>2, <2>6, <2>7 DEF a
<1>5. QED
  BY <1>3, <1>4

LEMMA FlattenTyped ==
  ASSUME NEW D, NEW ss \in Seq(Seq(D))
  PROVE  FlattenSeq(ss) \in Seq(D)
<1> DEFINE P == {tt \in Seq(Seq(D)) : FlattenSeq(tt) \in Seq(D)}
<1>1. <<>> \in P
  <2>1. <<>> \in Seq(Seq(D)) /\ <<>> \in Seq(D)
    OBVIOUS
  <2>2. QED
    BY <2>1, FlattenEmpty
<1>2. ASSUME NEW tt \in P, NEW x \in Seq(D)
      PROVE  Append(tt, x) \in P
  <2>1. tt \in Seq(Seq(D)) /\ Append(tt, x) \in Seq(Seq(D)) /\ FlattenSeq(tt) \in Seq(D)
    BY AppendProperties
  <2> HIDE DEF P
  <2>2. FlattenSeq(Append(tt, x)) = FlattenSeq(tt) \o x
    BY <2>1, FlattenAppend
  <2>3. FlattenSeq(tt) \o x \in Seq(D)
    BY <2>1, ConcatProperties
  <2>4. QED
    BY <2>1, <2>2, <2>3 DEF P
<1> HIDE DEF P
<1>3. P = Seq(Seq(D))
  <2>1. P \in SUBSET Seq(Seq(D))
    BY DEF P
  <2>2. QED
    BY <1>1, <1>2, <2>1, SequenceInduction
<1>4. QED
  BY <1>3 DEF P

-----------------------------------------------------------------------------
(* Trimming *)

(* From k on there are only blanks, and k is none itself.                    *)
BlankAfter(s, k) ==
  /\ k \in 0 .. Len(s)
  /\ k # 0 => s[k] # "sp"
  /\ \A i \in k + 1 .. Len(s) : s[i] = "sp"

LEMMA BlankAfterSome ==
  ASSUME NEW s \in Seq(Chars)
  PROVE  \E k \in Nat : BlankAfter(s, k)
<1> DEFINE S == {i \in DOMAIN s : s[i] # "sp"}
<1>1. CASE S = {}
  <2>1. BlankAfter(s, 0)
    BY <1>1 DEF BlankAfter
  <2>2. QED
    BY <2>1
<1>2. CASE S # {}
  <2>1. S \in SUBSET Nat /\ Len(s) \in Nat /\ \A y \in S : y <= Len(s)
    OBVIOUS
  <2> HIDE DEF S
  <2>2. PICK m \in S : \A y \in S : y <= m
    BY <1>2, <2>1, GreatestExists
  <2>3. m \in 1 .. Len(s) /\ s[m] # "sp"
    BY <2>2 DEF S
  <2>4. ASSUME NEW i \in m + 1 .. Len(s)
        PROVE  s[i] = "sp"
    <3>1. i \in 1 .. Len(s) /\ ~(i <= m)
      BY <2>3
    <3>2. i \notin S
      BY <2>2, <3>1
    <3>3. QED
      BY <3>1, <3>2 DEF S
  <2>5. BlankAfter(s, m)
    BY <2>3, <2>4 DEF BlankAfter
  <2>6. QED
    BY <2>3, <2>5
<1>3. QED
  BY <1>1, <1>2

(* trimEnd cuts after the last character that is not blank. *)
LEMMA TrimEndIs ==
  ASSUME NEW s \in Seq(Chars), NEW k, BlankAfter(s, k)
  PROVE  trimEnd(s) = SubSeq(s, 1, k)
<1> DEFINE S == {i \in DOMAIN s : s[i] # "sp"}
<1>1. trimEnd(s) = IF S = {} THEN <<>> ELSE SubSeq(s, 1, Max(S))
  BY DEF trimEnd
<1>2. /\ k \in 0 .. Len(s) /\ Len(s) \in Nat /\ (k # 0 => s[k] # "sp")
      /\ \A i \in k + 1 .. Len(s) : s[i] = "sp"
  BY DEF BlankAfter
<1>3. CASE k = 0
  <2>1. S = {} /\ SubSeq(s, 1, k) = <<>>
    BY <1>2, <1>3
  <2>2. QED
    BY <1>1, <2>1
<1>4. CASE k # 0
  <2>1. k \in S /\ S \in SUBSET Int
    BY <1>2, <1>4
  <2>2. \A y \in S : y <= k
    BY <1>2
  <2> HIDE DEF S
  <2>3. Max(S) = k
    BY <2>1, <2>2, MaxIs
  <2>4. QED
    BY <1>1, <2>1, <2>3
<1>5. QED
  BY <1>3, <1>4

LEMMA ReverseIs ==
  ASSUME NEW D, NEW s \in Seq(D)
  PROVE  /\ Reverse(s) \in Seq(D) /\ Len(Reverse(s)) = Len(s)
         /\ \A i \in 1 .. Len(s) : Reverse(s)[i] = s[(Len(s) - i) + 1]
BY DEF Reverse

LEMMA TrimTyped ==
  ASSUME NEW s \in Seq(Chars)
  PROVE  trimEnd(s) \in Seq(Chars) /\ trimStart(s) \in Seq(Chars) /\ trim(s) \in Seq(Chars)
<1>1. ASSUME NEW t \in Seq(Chars)
      PROVE  trimEnd(t) \in Seq(Chars)
  <2>1. PICK k \in Nat : BlankAfter(t, k)
    BY BlankAfterSome
  <2>2. trimEnd(t) = SubSeq(t, 1, k) /\ k \in 0 .. Len(t)
    BY <2>1, TrimEndIs DEF BlankAfter
  <2>3. QED
    BY <2>2
<1>2. ASSUME NEW t \in Seq(Chars)
      PROVE  trimStart(t) \in Seq(Chars)
  <2>1. Reverse(t) \in Seq(Chars)
    BY ReverseIs
  <2>2. trimEnd(Reverse(t)) \in Seq(Chars)
    BY <1>1, <2>1
  <2>3. Reverse(trimEnd(Reverse(t))) \in Seq(Chars)
    BY <2>2, ReverseIs
  <2>4. QED
    BY <2>3 DEF trimStart
<1>3. QED
  BY <1>1, <1>2 DEF trim

(* A character that is not blank is kept, and what is before it. *)
LEMMA TrimEndKeeps ==
  ASSUME NEW x \in Seq(Chars), NEW c \in Chars, c # "sp"
  PROVE  trimEnd(Append(x, c)) = Append(x, c)
<1> DEFINE a == Append(x, c)
<1>1. a \in Seq(Chars) /\ Len(a) = Len(x) + 1 /\ a[Len(x) + 1] = c /\ Len(x) \in Nat
  OBVIOUS
<1> HIDE DEF a
<1>2. BlankAfter(a, Len(a))
  BY <1>1 DEF BlankAfter
<1>3. trimEnd(a) = SubSeq(a, 1, Len(a))
  BY <1>1, <1>2, TrimEndIs
<1>4. SubSeq(a, 1, Len(a)) = a
  BY <1>1
<1>5. QED
  BY <1>3, <1>4 DEF a

(* Blanks in front are taken off whatever ends the line.                     *)
LEMMA TrimStartKeeps ==
  ASSUME NEW x \in Seq(Chars), NEW c \in Chars, c # "sp"
  PROVE  trimStart(Append(x, c)) = Append(trimStart(x), c)
<1> DEFINE a == Append(x, c)
           n == Len(x)
           R == Reverse(x)
           Q == Reverse(a)
<1>1. a \in Seq(Chars) /\ Len(a) = n + 1 /\ a[n + 1] = c /\ n \in Nat
      /\ \A i \in 1 .. n : a[i] = x[i]
  OBVIOUS
<1> HIDE DEF a
<1>2. R \in Seq(Chars) /\ Len(R) = n /\ \A i \in 1 .. n : R[i] = x[(n - i) + 1]
  BY ReverseIs
<1>3. Q \in Seq(Chars) /\ Len(Q) = n + 1 /\ \A i \in 1 .. n + 1 : Q[i] = a[((n + 1) - i) + 1]
  <2>1. \A s \in Seq(Chars) : /\ Reverse(s) \in Seq(Chars) /\ Len(Reverse(s)) = Len(s)
                              /\ \A i \in 1 .. Len(s) : Reverse(s)[i] = s[(Len(s) - i) + 1]
    BY ReverseIs
  <2> HIDE DEF n
  <2>2. /\ Q \in Seq(Chars) /\ Len(Q) = Len(a)
        /\ \A i \in 1 .. Len(a) : Q[i] = a[(Len(a) - i) + 1]
    BY <1>1, <2>1
  <2> HIDE DEF Q
  <2>3. QED
    BY <1>1, <2>2
<1> HIDE DEF R, Q, n
<1>4. Q[1] = c
  <2>1. 1 \in 1 .. n + 1 /\ ((n + 1) - 1) + 1 = n + 1
    BY <1>1
  <2>2. QED
    BY <1>1, <1>3, <2>1
<1>5. ASSUME NEW i \in 1 .. n
      PROVE  Q[i + 1] = R[i]
  <2>1. /\ i + 1 \in 1 .. n + 1 /\ ((n + 1) - (i + 1)) + 1 = (n - i) + 1
        /\ (n - i) + 1 \in 1 .. n
    BY <1>1
  <2>2. QED
    BY <1>1, <1>2, <1>3, <2>1
<1>6. PICK k \in Nat : BlankAfter(R, k)
  BY <1>2, BlankAfterSome
<1>7. /\ k \in 0 .. n /\ (k # 0 => R[k] # "sp")
      /\ \A i \in k + 1 .. n : R[i] = "sp"
  BY <1>2, <1>6 DEF BlankAfter
<1>8. BlankAfter(Q, k + 1)
  <2>1. Q[k + 1] # "sp"
    <3>1. CASE k = 0
      BY <1>4, <3>1
    <3>2. CASE k # 0
      BY <1>1, <1>5, <1>7, <3>2
    <3>3. QED
      BY <3>1, <3>2
  <2>2. ASSUME NEW i \in (k + 1) + 1 .. n + 1
        PROVE  Q[i] = "sp"
    <3>1. i - 1 \in 1 .. n /\ i - 1 \in k + 1 .. n /\ (i - 1) + 1 = i
      BY <1>1, <1>7
    <3>2. Q[(i - 1) + 1] = R[i - 1]
      BY <1>5, <3>1
    <3>3. QED
      BY <1>7, <3>1, <3>2
  <2>3. QED
    BY <1>1, <1>3, <1>7, <2>1, <2>2 DEF BlankAfter
<1> DEFINE v == SubSeq(R, 1, k)
           w == SubSeq(Q, 1, k + 1)
           vr == Reverse(v)
           wr == Reverse(w)
<1>9. trimStart(x) = vr
  BY <1>2, <1>6, TrimEndIs DEF trimStart, R
<1>10. trimStart(a) = wr
  BY <1>3, <1>8, TrimEndIs DEF trimStart, Q
<1>11. v \in Seq(Chars) /\ Len(v) = k /\ \A i \in 1 .. k : v[i] = R[i]
  BY <1>2, <1>7
<1>12. w \in Seq(Chars) /\ Len(w) = k + 1 /\ \A i \in 1 .. k + 1 : w[i] = Q[i]
  BY <1>1, <1>3, <1>7
<1> HIDE DEF v, w
<1>13. /\ \A i \in 1 .. k : vr[i] = v[(k - i) + 1]
       /\ vr \in Seq(Chars) /\ Len(vr) = k
  BY <1>11, ReverseIs
<1>14. /\ \A i \in 1 .. k + 1 : wr[i] = w[((k + 1) - i) + 1]
       /\ wr \in Seq(Chars) /\ Len(wr) = k + 1
  BY <1>12, ReverseIs
<1> HIDE DEF vr, wr
<1>15. wr[k + 1] = c
  <2>1. k + 1 \in 1 .. k + 1 /\ ((k + 1) - (k + 1)) + 1 = 1 /\ 1 \in 1 .. k + 1
    OBVIOUS
  <2>2. QED
    BY <1>4, <1>12, <1>14, <2>1
<1>16. ASSUME NEW i \in 1 .. k
       PROVE  wr[i] = vr[i]
  <2>1. /\ i \in 1 .. k + 1 /\ ((k + 1) - i) + 1 = ((k - i) + 1) + 1
        /\ (k - i) + 1 \in 1 .. k /\ (k - i) + 1 \in 1 .. n /\ ((k - i) + 1) + 1 \in 1 .. k + 1
    BY <1>1, <1>7
  <2>2. wr[i] = Q[((k - i) + 1) + 1]
    BY <1>12, <1>14, <2>1
  <2>3. vr[i] = R[(k - i) + 1]
    BY <1>11, <1>13, <2>1
  <2>4. QED
    BY <1>5, <2>1, <2>2, <2>3
<1>17. wr = Append(vr, c)
  <2> DEFINE y == Append(vr, c)
  <2>1. y \in Seq(Chars) /\ Len(y) = k + 1 /\ y[k + 1] = c /\ \A i \in 1 .. k : y[i] = vr[i]
    BY <1>13, AppendProperties
  <2> HIDE DEF y
  <2>2. \A i \in 1 .. k + 1 : i \in 1 .. k \/ i = k + 1
    OBVIOUS
  <2>3. \A i \in 1 .. Len(wr) : wr[i] = y[i]
    BY <1>14, <1>15, <1>16, <2>1, <2>2
  <2>4. wr = y
    BY <1>14, <2>1, <2>3, SeqEqual
  <2>5. QED
    BY <2>4 DEF y
<1>18. QED
  BY <1>9, <1>10, <1>17 DEF a

-----------------------------------------------------------------------------
(* Payloads *)

(* The payload of a line as it comes. *)
Payload(line) == parseLine(trim(line))

LEMMA PayloadTyped ==
  ASSUME NEW l \in Seq(Chars)
  PROVE  Payload(l) \in Seq(Chars)
<1> DEFINE t == trim(l)
<1>1. t \in Seq(Chars)
  BY TrimTyped
<1> HIDE DEF t
<1>2. CASE t = <<>>
  <2>1. parseLine(t) = <<>>
    BY <1>2 DEF parseLine
  <2>2. <<>> \in Seq(Chars)
    OBVIOUS
  <2>3. QED
    BY <2>1, <2>2 DEF Payload, t
<1>3. CASE t # <<>>
  <2>1. Tail(t) \in Seq(Chars)
    BY <1>1, <1>3
  <2>2. trimStart(Tail(t)) \in Seq(Chars) /\ <<>> \in Seq(Chars)
    <3>1. ASSUME NEW u \in Seq(Chars)
          PROVE  trimStart(u) \in Seq(Chars)
      BY TrimTyped
    <3>2. <<>> \in Seq(Chars)
      OBVIOUS
    <3>3. QED
      BY <2>1, <3>1, <3>2
  <2>3. parseLine(t) = <<>> \/ parseLine(t) = trimStart(Tail(t)) \/ parseLine(t) = t
    BY <1>3 DEF parseLine
  <2>4. QED
    BY <1>1, <2>2, <2>3 DEF Payload, t
<1>4. QED
  BY <1>2, <1>3

(* A line that ends with a character cut off is skipped or does not parse,    *)
(* and it makes no difference what stands for that character.                *)
LEMMA PayloadOfCut ==
  ASSUME NEW x \in Seq(Chars), NEW c \in {"?", "eacute"}, NEW y \in Seq(Chars), y = trimStart(x)
  PROVE  /\ Payload(Append(x, c)) = <<>> <=> y # <<>> /\ y[1] \in {":", "event:"}
         /\ ~ IsJson(Payload(Append(x, c)))
<1> DEFINE a == Append(y, c)
<1>1. c \in Chars /\ c # "sp" /\ c \notin {":", "event:", "data:", "}"}
  BY DEF Chars, Members
<1>2. trim(Append(x, c)) = a
  <2>1. trimEnd(Append(x, c)) = Append(x, c)
    BY <1>1, TrimEndKeeps
  <2>2. trimStart(Append(x, c)) = Append(trimStart(x), c)
    BY <1>1, TrimStartKeeps
  <2>3. QED
    BY <2>1, <2>2 DEF trim
<1>3. /\ a \in Seq(Chars) /\ a # <<>> /\ Len(a) = Len(y) + 1 /\ a[Len(y) + 1] = c
      /\ (y # <<>> => a[1] = y[1] /\ Len(y) \in Nat \ {0}) /\ (y = <<>> => a[1] = c)
  <2>1. /\ a \in Seq(Chars) /\ a # <<>> /\ Len(a) = Len(y) + 1 /\ a[Len(y) + 1] = c
        /\ \A i \in 1 .. Len(y) : a[i] = y[i]
    <3>1. ASSUME NEW u \in Seq(Chars), NEW d \in Chars
          PROVE  /\ Append(u, d) \in Seq(Chars) /\ Append(u, d) # <<>>
                 /\ Len(Append(u, d)) = Len(u) + 1 /\ Append(u, d)[Len(u) + 1] = d
                 /\ \A i \in 1 .. Len(u) : Append(u, d)[i] = u[i]
      BY AppendProperties
    <3>2. QED
      BY <1>1, <3>1
  <2> HIDE DEF a
  <2>2. y # <<>> => Len(y) \in Nat \ {0}
    OBVIOUS
  <2>3. y = <<>> => Len(y) = 0
    OBVIOUS
  <2>4. QED
    BY <2>1, <2>2, <2>3
<1>4. Payload(Append(x, c)) = parseLine(a)
  BY <1>2 DEF Payload
<1>5. Last(a) = c
  BY <1>3 DEF Last
<1>6. CASE a[1] = "data:"
  <2>1. y # <<>> /\ y[1] = "data:"
    BY <1>1, <1>3, <1>6
  <2>2. Tail(a) = Append(Tail(y), c) /\ Tail(y) \in Seq(Chars)
    BY <2>1
  <2>3. trimStart(Tail(a)) = Append(trimStart(Tail(y)), c)
    BY <1>1, <2>2, TrimStartKeeps
  <2>4. trimStart(Tail(y)) \in Seq(Chars)
    BY <2>2, TrimTyped
  <2>5. Append(trimStart(Tail(y)), c) # <<>> /\ Last(Append(trimStart(Tail(y)), c)) = c
    <3>1. ASSUME NEW u \in Seq(Chars)
          PROVE  Append(u, c) # <<>> /\ Last(Append(u, c)) = c
      BY DEF Last
    <3>2. QED
      BY <2>4, <3>1
  <2> HIDE DEF a
  <2>6. parseLine(a) = trimStart(Tail(a))
    BY <1>3, <1>6 DEF parseLine
  <2>7. ~ IsJson(parseLine(a))
    BY <1>1, <2>3, <2>5, <2>6 DEF IsJson
  <2>8. QED
    BY <1>4, <2>1, <2>3, <2>5, <2>6, <2>7
<1>7. CASE a[1] \in {":", "event:"}
  <2>1. y # <<>> /\ y[1] \in {":", "event:"}
    BY <1>1, <1>3, <1>7
  <2> HIDE DEF a
  <2>2. parseLine(a) = <<>>
    BY <1>3, <1>7 DEF parseLine
  <2>3. ~ IsJson(<<>>)
    BY DEF IsJson
  <2>4. QED
    BY <1>4, <2>1, <2>2, <2>3
<1>8. CASE a[1] \notin {":", "event:", "data:"}
  <2> HIDE DEF a
  <2>1. parseLine(a) = a
    BY <1>3, <1>8 DEF parseLine
  <2>2. ~ IsJson(a)
    BY <1>1, <1>5 DEF IsJson
  <2>3. QED
    BY <1>3, <1>4, <1>8, <2>1, <2>2
<1>9. QED
  BY <1>6, <1>7, <1>8

(* So it is for the lines a body ends with, whatever is left out by trim. *)
LEMMA CutLine ==
  ASSUME NEW x \in Seq(Chars)
  PROVE  /\ Payload(Append(x, "?")) = <<>> <=> Payload(Append(x, "eacute")) = <<>>
         /\ ~ IsJson(Payload(Append(x, "?"))) /\ ~ IsJson(Payload(Append(x, "eacute")))
<1>1. trimStart(x) \in Seq(Chars)
  BY TrimTyped
<1>2. ASSUME NEW y \in Seq(Chars), y = trimStart(x), NEW c \in {"?", "eacute"}
      PROVE  /\ Payload(Append(x, c)) = <<>> <=> y # <<>> /\ y[1] \in {":", "event:"}
             /\ ~ IsJson(Payload(Append(x, c)))
  BY <1>2, PayloadOfCut
<1>3. PICK y \in Seq(Chars) : y = trimStart(x)
  BY <1>1
<1>4. "?" \in {"?", "eacute"} /\ "eacute" \in {"?", "eacute"}
  OBVIOUS
<1>5. QED
  BY <1>2, <1>3, <1>4

-----------------------------------------------------------------------------
(* Events *)

(* The payloads that are handed out, and those JSON.parse takes. *)
NotSkipped == {p \in Seq(Chars) : p # <<>>}
Json == {p \in Seq(Chars) : IsJson(p)}

LEMMA PayloadsTyped ==
  ASSUME NEW T \in Seq(Seq(Chars))
  PROVE  Payloads(T) \in Seq(Seq(Chars)) /\ Len(Payloads(T)) = Len(T)
         /\ \A k \in 1 .. Len(T) : Payloads(T)[k] = Payload(T[k])
<1>1. Payloads(T) = [k \in DOMAIN T |-> Payload(T[k])]
  BY DEF Payloads, Payload
<1>2. \A k \in DOMAIN T : Payload(T[k]) \in Seq(Chars)
  BY PayloadTyped
<1>3. ASSUME NEW n \in Nat, NEW p, p = [k \in 1 .. n |-> Payload(T[k])],
             \A k \in 1 .. n : Payload(T[k]) \in Seq(Chars)
      PROVE  p \in Seq(Seq(Chars)) /\ Len(p) = n /\ \A k \in 1 .. n : p[k] = Payload(T[k])
  BY <1>3
<1>4. DOMAIN T = 1 .. Len(T) /\ Len(T) \in Nat
  OBVIOUS
<1>5. QED
  BY <1>1, <1>2, <1>3, <1>4

(* The events of lines are their payloads that are not empty. *)
LEMMA EventsOfIs ==
  ASSUME NEW T \in Seq(Seq(Chars))
  PROVE  EventsOf(T) = Kept(Payloads(T), NotSkipped)
<1> DEFINE p == Payloads(T)
<1>1. p \in Seq(Seq(Chars)) /\ Len(p) = Len(T)
  BY PayloadsTyped
<1>2. EventsOf(T) = Picked(p, {k \in DOMAIN T : p[k] # <<>>})
  BY DEF EventsOf
<1> HIDE DEF p
<1>3. {k \in DOMAIN T : p[k] # <<>>} = {k \in DOMAIN p : p[k] \in NotSkipped}
  BY <1>1 DEF NotSkipped
<1>4. QED
  BY <1>2, <1>3 DEF Kept, p

LEMMA EventsOfEmpty == EventsOf(<<>>) = <<>>
<1>1. Payloads(<<>>) = <<>>
  BY DEF Payloads
<1>2. <<>> \in Seq(Seq(Chars))
  OBVIOUS
<1>3. \A T \in Seq(Seq(Chars)) : EventsOf(T) = Kept(Payloads(T), NotSkipped)
  BY EventsOfIs
<1>4. QED
  BY <1>1, <1>2, <1>3, KeptEmpty

LEMMA EventsOfTyped ==
  ASSUME NEW T \in Seq(Seq(Chars))
  PROVE  EventsOf(T) \in Seq(Seq(Chars))
BY EventsOfIs, PayloadsTyped, KeptTyped

(* Of lines in a row each has the events it has by itself. *)
LEMMA EventsOfConcat ==
  ASSUME NEW T \in Seq(Seq(Chars)), NEW U \in Seq(Seq(Chars))
  PROVE  EventsOf(T \o U) = EventsOf(T) \o EventsOf(U)
<1> DEFINE p == Payloads(T)
           q == Payloads(U)
           V == T \o U
           r == Payloads(V)
<1>1. /\ V \in Seq(Seq(Chars)) /\ Len(V) = Len(T) + Len(U)
      /\ \A k \in 1 .. Len(T) + Len(U) : V[k] = IF k <= Len(T) THEN T[k] ELSE U[k - Len(T)]
  BY ConcatProperties
<1> HIDE DEF V
<1>2. /\ p \in Seq(Seq(Chars)) /\ Len(p) = Len(T)
      /\ \A k \in 1 .. Len(T) : p[k] = Payload(T[k])
  BY PayloadsTyped
<1>3. /\ q \in Seq(Seq(Chars)) /\ Len(q) = Len(U)
      /\ \A k \in 1 .. Len(U) : q[k] = Payload(U[k])
  BY PayloadsTyped
<1>4. /\ r \in Seq(Seq(Chars)) /\ Len(r) = Len(T) + Len(U)
      /\ \A k \in 1 .. Len(T) + Len(U) : r[k] = Payload(V[k])
  <2>1. r \in Seq(Seq(Chars)) /\ Len(r) = Len(V) /\ \A k \in 1 .. Len(V) : r[k] = Payload(V[k])
    BY <1>1, PayloadsTyped
  <2>2. QED
    BY <1>1, <2>1
<1> HIDE DEF p, q, r
<1>5. r = p \o q
  <2> DEFINE y == p \o q
  <2>1. /\ y \in Seq(Seq(Chars)) /\ Len(y) = Len(T) + Len(U)
        /\ \A k \in 1 .. Len(T) + Len(U) : y[k] = IF k <= Len(T) THEN p[k] ELSE q[k - Len(T)]
    <3>1. /\ y \in Seq(Seq(Chars)) /\ Len(y) = Len(p) + Len(q)
          /\ \A k \in 1 .. Len(p) + Len(q) : y[k] = IF k <= Len(p) THEN p[k] ELSE q[k - Len(p)]
      <4>1. ASSUME NEW a \in Seq(Seq(Chars)), NEW b \in Seq(Seq(Chars))
            PROVE  /\ a \o b \in Seq(Seq(Chars)) /\ Len(a \o b) = Len(a) + Len(b)
                   /\ \A k \in 1 .. Len(a) + Len(b) :
                        (a \o b)[k] = IF k <= Len(a) THEN a[k] ELSE b[k - Len(a)]
        BY ConcatProperties
      <4>2. QED
        BY <1>2, <1>3, <4>1
    <3> HIDE DEF y
    <3>2. QED
      BY <1>2, <1>3, <3>1
  <2> HIDE DEF y
  <2>2. ASSUME NEW k \in 1 .. Len(T) + Len(U)
        PROVE  r[k] = y[k]
    <3>1. CASE k <= Len(T)
      <4>1. k \in 1 .. Len(T)
        BY <3>1
      <4>2. QED
        BY <1>1, <1>2, <1>4, <2>1, <3>1, <4>1
    <3>2. CASE ~ (k <= Len(T))
      <4>1. k - Len(T) \in 1 .. Len(U)
        BY <3>2
      <4>2. QED
        BY <1>1, <1>3, <1>4, <2>1, <3>2, <4>1
    <3>3. QED
      BY <3>1, <3>2
  <2>3. r = y
    BY <1>4, <2>1, <2>2, SeqEqual
  <2>4. QED
    BY <2>3 DEF y
<1>6. Kept(p \o q, NotSkipped) = Kept(p, NotSkipped) \o Kept(q, NotSkipped)
  <2>1. KeptApart(Seq(Chars), NotSkipped)
    BY KeptConcat
  <2>2. p \in Seq(Seq(Chars)) /\ q \in Seq(Seq(Chars))
    BY <1>2, <1>3
  <2> HIDE DEF p, q
  <2>3. QED
    BY <2>1, <2>2, Zenon DEF KeptApart
<1>7. EventsOf(V) = Kept(r, NotSkipped)
  BY <1>1, EventsOfIs DEF r
<1>8. EventsOf(T) = Kept(p, NotSkipped) /\ EventsOf(U) = Kept(q, NotSkipped)
  BY EventsOfIs DEF p, q
<1>9. QED
  BY <1>5, <1>6, <1>7, <1>8 DEF V

(* A line has one event, or is skipped. *)
LEMMA EventsOfLine ==
  ASSUME NEW l \in Seq(Chars)
  PROVE  EventsOf(<<l>>) = IF Payload(l) = <<>> THEN <<>> ELSE <<Payload(l)>>
<1>1. <<l>> \in Seq(Seq(Chars)) /\ Payloads(<<l>>) = <<Payload(l)>>
  BY DEF Payloads, Payload
<1>2. EventsOf(<<l>>) = Kept(<<Payload(l)>>, NotSkipped)
  BY <1>1, EventsOfIs
<1>3. <<>> \in Seq(Seq(Chars)) /\ Payload(l) \in Seq(Chars)
  BY PayloadTyped
<1>4. Kept(Append(<<>>, Payload(l)), NotSkipped) =
        IF Payload(l) \in NotSkipped THEN Append(Kept(<<>>, NotSkipped), Payload(l))
        ELSE Kept(<<>>, NotSkipped)
  BY <1>3, KeptAppend
<1>5. Append(<<>>, Payload(l)) = <<Payload(l)>>
  OBVIOUS
<1>6. QED
  BY <1>2, <1>3, <1>4, <1>5, KeptEmpty DEF NotSkipped

LEMMA JsonOfIs ==
  ASSUME NEW F \in Seq(Seq(Chars))
  PROVE  JsonOf(F) = Kept(F, Json)
<1>1. {i \in DOMAIN F : IsJson(F[i])} = {i \in DOMAIN F : F[i] \in Json}
  BY DEF Json
<1>2. QED
  BY <1>1 DEF JsonOf, Kept

(* Of frames in a row each parses, or does not, by itself. *)
LEMMA JsonOfConcat ==
  ASSUME NEW F \in Seq(Seq(Chars)), NEW G \in Seq(Seq(Chars))
  PROVE  JsonOf(F \o G) = JsonOf(F) \o JsonOf(G)
<1>1. F \o G \in Seq(Seq(Chars))
  BY ConcatProperties
<1>2. JsonOf(F) = Kept(F, Json) /\ JsonOf(G) = Kept(G, Json) /\ JsonOf(F \o G) = Kept(F \o G, Json)
  BY <1>1, JsonOfIs
<1>3. Kept(F \o G, Json) = Kept(F, Json) \o Kept(G, Json)
  <2>1. KeptApart(Seq(Chars), Json)
    BY KeptConcat
  <2>2. QED
    BY <2>1, Zenon DEF KeptApart
<1>4. QED
  BY <1>2, <1>3

LEMMA JsonOfTyped ==
  ASSUME NEW F \in Seq(Seq(Chars))
  PROVE  JsonOf(F) \in Seq(Seq(Chars))
BY JsonOfIs, KeptTyped

LEMMA JsonOfFrame ==
  ASSUME NEW f \in Seq(Chars), IsJson(f)
  PROVE  JsonOf(<<f>>) = <<f>>
<1>1. <<f>> \in Seq(Seq(Chars)) /\ <<>> \in Seq(Seq(Chars)) /\ f \in Json
  BY DEF Json
<1>2. Kept(Append(<<>>, f), Json) = IF f \in Json THEN Append(Kept(<<>>, Json), f) ELSE Kept(<<>>, Json)
  <2>1. ASSUME NEW F \in Seq(Seq(Chars))
        PROVE  Kept(Append(F, f), Json) = IF f \in Json THEN Append(Kept(F, Json), f) ELSE Kept(F, Json)
    BY KeptAppend
  <2>2. QED
    BY <1>1, <2>1
<1>3. Append(<<>>, f) = <<f>>
  OBVIOUS
<1>4. QED
  BY <1>1, <1>2, <1>3, JsonOfIs, KeptEmpty

-----------------------------------------------------------------------------
(* What a program is handed *)

(* What a program can be handed, and from which of the generators. *)
Events == [type : Range(Fields), data : Seq(Members)]
Apis == {"exec", "connect"}

LEMMA FieldsAre ==
  /\ Fields \in Seq(Range(Fields)) /\ Len(Fields) = 5 /\ DOMAIN Fields = 1 .. 5
  /\ \A k \in 1 .. 5 : Fields[k] \in Range(Fields)
BY DEF Fields, Range

(* An event carries the output of its frame, decoded. *)
LEMMA DataTyped ==
  ASSUME NEW g \in Apis, NEW f \in Seq(Chars)
  PROVE  Data(g, f) \in Seq(Members)
<1> DEFINE C == {"eacute", "?", "hi64", "lo64"}
           E == {"hi64", "lo64"}
           Among(G) == Picked(f, {i \in DOMAIN f : f[i] \in G})
<1>1. ASSUME NEW G \in SUBSET Members
      PROVE  Among(G) \in Seq(Members)
  <2> DEFINE P == {u \in Seq(Chars) : Kept(u, G) \in Seq(Members)}
  <2>1. <<>> \in P
    <3>1. <<>> \in Seq(Chars) /\ <<>> \in Seq(Members)
      OBVIOUS
    <3>2. QED
      BY <3>1, KeptEmpty
  <2>2. ASSUME NEW u \in P, NEW x \in Chars
        PROVE  Append(u, x) \in P
    <3>1. u \in Seq(Chars) /\ Append(u, x) \in Seq(Chars) /\ Kept(u, G) \in Seq(Members)
      BY AppendProperties
    <3> HIDE DEF P
    <3>2. Kept(Append(u, x), G) = IF x \in G THEN Append(Kept(u, G), x) ELSE Kept(u, G)
      BY <3>1, KeptAppend
    <3>3. x \in G => Append(Kept(u, G), x) \in Seq(Members)
      <4>1. x \in G => x \in Members
        BY <1>1
      <4>2. QED
        BY <3>1, <4>1, AppendProperties
    <3>4. QED
      BY <3>1, <3>2, <3>3 DEF P
  <2> HIDE DEF P
  <2>3. P = Seq(Chars)
    <3>1. P \in SUBSET Seq(Chars)
      BY DEF P
    <3>2. QED
      BY <2>1, <2>2, <3>1, SequenceInduction
  <2>4. QED
    BY <2>3 DEF P, Kept
<1>2. C \in SUBSET Members /\ E \in SUBSET Members
  BY DEF Members
<1>3. Data(g, f) = IF g = "exec" THEN Among(C) ELSE decodeBase64Utf8(Among(E))
  BY DEF Data
<1> HIDE DEF Among, C, E
<1>4. Among(C) \in Seq(Members) /\ Among(E) \in Seq(Members)
  BY <1>1, <1>2
<1>5. ASSUME NEW b \in Seq(Members)
      PROVE  decodeBase64Utf8(b) \in Seq(Members)
  <2>1. "eacute" \in Members /\ "?" \in Members
    BY DEF Members
  <2>2. <<"eacute">> \in Seq(Members) /\ [i \in DOMAIN b |-> "?"] \in Seq(Members)
    BY <2>1
  <2>3. QED
    BY <2>2 DEF decodeBase64Utf8
<1>6. QED
  BY <1>3, <1>4, <1>5

LEMMA EventTyped ==
  ASSUME NEW g \in Apis, NEW f \in Seq(Chars), NEW k \in 1 .. 5
  PROVE  EventOf(g, k, f) \in Events
<1>1. Fields[k] \in Range(Fields)
  BY FieldsAre
<1>2. Data(g, f) \in Seq(Members) /\ <<>> \in Seq(Members)
  BY DataTyped
<1>3. QED
  BY <1>1, <1>2 DEF EventOf, Events

(* A frame has at most the five members. *)
LEMMA FieldsOfRange ==
  ASSUME NEW g \in Apis, NEW f
  PROVE  FieldsOf(g, f) \in SUBSET (1 .. 5)
<1>1. {k \in 2 .. 5 : Fields[k] \in Range(f)} \in SUBSET (1 .. 5)
  OBVIOUS
<1>2. {k \in {1, 2, 5} : Fields[k] = f[2]} \in SUBSET (1 .. 5)
  OBVIOUS
<1>3. {1} \in SUBSET (1 .. 5) /\ {4} \in SUBSET (1 .. 5)
  OBVIOUS
<1>4. QED
  BY <1>1, <1>2, <1>3 DEF FieldsOf

(* The events of a frame, whether it has the member or not.                  *)
AllOf(g, f) == [k \in DOMAIN Fields |-> EventOf(g, k, f)]

LEMMA AllOfTyped ==
  ASSUME NEW g \in Apis, NEW f \in Seq(Chars)
  PROVE  /\ AllOf(g, f) \in Seq(Events) /\ Len(AllOf(g, f)) = 5
         /\ \A k \in 1 .. 5 : AllOf(g, f)[k] = EventOf(g, k, f)
<1>1. \A k \in 1 .. 5 : EventOf(g, k, f) \in Events
  BY EventTyped
<1>2. AllOf(g, f) = [k \in 1 .. 5 |-> EventOf(g, k, f)]
  BY FieldsAre DEF AllOf
<1>3. QED
  BY <1>1, <1>2

LEMMA EventsOfFrameTyped ==
  ASSUME NEW g \in Apis, NEW f \in Seq(Chars)
  PROVE  EventsOfFrame(g, f) \in Seq(Events)
<1>1. EventsOfFrame(g, f) = Picked(AllOf(g, f), FieldsOf(g, f))
  BY DEF EventsOfFrame, AllOf
<1>2. AllOf(g, f) \in Seq(Events)
  BY AllOfTyped
<1>3. ASSUME NEW s \in Seq(Events), NEW I
      PROVE  Picked(s, I) \in Seq(Events)
  BY PickedTyped
<1>4. QED
  BY <1>1, <1>2, <1>3

LEMMA EventsOfFramesEmpty ==
  ASSUME NEW g
  PROVE  EventsOfFrames(g, <<>>) = <<>>
<1>1. [i \in DOMAIN <<>> |-> EventsOfFrame(g, <<>>[i])] = <<>>
  OBVIOUS
<1>2. QED
  BY <1>1, FlattenEmpty DEF EventsOfFrames

(* A frame at the end adds its events. *)
LEMMA EventsOfFramesAppend ==
  ASSUME NEW g \in Apis, NEW F \in Seq(Seq(Chars)), NEW f \in Seq(Chars)
  PROVE  EventsOfFrames(g, Append(F, f)) = EventsOfFrames(g, F) \o EventsOfFrame(g, f)
<1> DEFINE M(H) == [i \in DOMAIN H |-> EventsOfFrame(g, H[i])]
           A == Append(F, f)
<1>1. \A u \in Seq(Chars) : EventsOfFrame(g, u) \in Seq(Events)
  BY EventsOfFrameTyped
<1>2. M(F) \in Seq(Seq(Events))
  <2>1. \A i \in 1 .. Len(F) : EventsOfFrame(g, F[i]) \in Seq(Events)
    BY <1>1
  <2>2. DOMAIN F = 1 .. Len(F) /\ Len(F) \in Nat
    OBVIOUS
  <2>3. QED
    BY <2>1, <2>2
<1>3. M(A) = Append(M(F), EventsOfFrame(g, f))
  OBVIOUS
<1>4. EventsOfFrames(g, A) = FlattenSeq(M(A)) /\ EventsOfFrames(g, F) = FlattenSeq(M(F))
  BY DEF EventsOfFrames
<1> HIDE DEF M, A
<1>5. ASSUME NEW ss \in Seq(Seq(Events)), NEW x \in Seq(Events)
      PROVE  FlattenSeq(Append(ss, x)) = FlattenSeq(ss) \o x
  BY FlattenAppend
<1>6. QED
  BY <1>1, <1>2, <1>3, <1>4, <1>5 DEF A

LEMMA EventsOfFramesTyped ==
  ASSUME NEW g \in Apis, NEW F \in Seq(Seq(Chars))
  PROVE  EventsOfFrames(g, F) \in Seq(Events)
<1> DEFINE M == [i \in DOMAIN F |-> EventsOfFrame(g, F[i])]
<1>1. \A u \in Seq(Chars) : EventsOfFrame(g, u) \in Seq(Events)
  BY EventsOfFrameTyped
<1>2. M \in Seq(Seq(Events))
  <2>1. \A i \in 1 .. Len(F) : EventsOfFrame(g, F[i]) \in Seq(Events)
    BY <1>1
  <2>2. DOMAIN F = 1 .. Len(F) /\ Len(F) \in Nat
    OBVIOUS
  <2>3. QED
    BY <2>1, <2>2
<1> HIDE DEF M
<1>3. FlattenSeq(M) \in Seq(Events)
  BY <1>2, FlattenTyped
<1>4. QED
  BY <1>3 DEF EventsOfFrames, M

(* Of frames in a row each has the events it has by itself. *)
LEMMA EventsOfFramesConcat ==
  ASSUME NEW g \in Apis, NEW F \in Seq(Seq(Chars)), NEW H \in Seq(Seq(Chars))
  PROVE  EventsOfFrames(g, F \o H) = EventsOfFrames(g, F) \o EventsOfFrames(g, H)
<1> DEFINE D == Seq(Chars)
           E(K) == EventsOfFrames(g, K)
           P == {K \in Seq(D) : E(F \o K) = E(F) \o E(K)}
<1>0. /\ \A K \in Seq(D) : E(K) \in Seq(Events)
      /\ \A K \in Seq(D), x \in D : E(Append(K, x)) = E(K) \o EventsOfFrame(g, x)
      /\ \A x \in D : EventsOfFrame(g, x) \in Seq(Events)
  BY EventsOfFramesTyped, EventsOfFramesAppend, EventsOfFrameTyped
<1>1. F \in Seq(D) /\ H \in Seq(D) /\ E(<<>>) = <<>>
  BY EventsOfFramesEmpty
<1> HIDE DEF D, E
<1>2. <<>> \in P
  <2>1. <<>> \in Seq(D) /\ F \o <<>> = F /\ E(F) \o <<>> = E(F)
    BY <1>0, <1>1, ConcatEmptySeq
  <2>2. QED
    BY <1>1, <2>1
<1>3. ASSUME NEW K \in P, NEW x \in D
      PROVE  Append(K, x) \in P
  <2>1. K \in Seq(D) /\ E(F \o K) = E(F) \o E(K)
    OBVIOUS
  <2> HIDE DEF P
  <2>2. F \o K \in Seq(D) /\ Append(K, x) \in Seq(D)
    BY <1>1, <2>1
  <2>3. F \o Append(K, x) = Append(F \o K, x)
    BY <1>1, <2>1
  <2>4. E(Append(F \o K, x)) = E(F \o K) \o EventsOfFrame(g, x)
        /\ E(Append(K, x)) = E(K) \o EventsOfFrame(g, x)
    BY <1>0, <2>1, <2>2
  <2>5. E(F) \in Seq(Events) /\ E(K) \in Seq(Events) /\ EventsOfFrame(g, x) \in Seq(Events)
    BY <1>0, <1>1, <2>1
  <2>6. ASSUME NEW a \in Seq(Events), NEW b \in Seq(Events), NEW c \in Seq(Events)
        PROVE  (a \o b) \o c = a \o (b \o c)
    OBVIOUS
  <2>7. (E(F) \o E(K)) \o EventsOfFrame(g, x) = E(F) \o (E(K) \o EventsOfFrame(g, x))
    BY <2>5, <2>6
  <2>8. QED
    BY <2>1, <2>2, <2>3, <2>4, <2>7 DEF P
<1> HIDE DEF P
<1>4. P = Seq(D)
  <2>1. P \in SUBSET Seq(D)
    BY DEF P
  <2>2. QED
    BY <1>2, <1>3, <2>1, SequenceInduction
<1>5. QED
  BY <1>1, <1>4 DEF P, E

-----------------------------------------------------------------------------
(* Taking lines *)

(* The lines of a text, its last one without newline included. *)
AllLines(t) == Append(LinesOf(t), RestOf(t))

(* Lines may be taken one after the other. *)
LEMMA FollowsFollows ==
  ASSUME NEW T \in Seq(Seq(Chars)), NEW U \in Seq(Seq(Chars)),
         NEW u \in Seq(Chars), NEW v \in Seq(Chars), NEW w \in Seq(Chars),
         Follows(T, u, v), Follows(U, v, w)
  PROVE  Follows(T \o U, u, w)
<1>1. LinesOf(u) = T \o (U \o LinesOf(w)) /\ RestOf(u) = RestOf(w)
  BY DEF Follows
<1>2. LinesOf(w) \in Seq(Seq(Chars))
  BY LinesTyped
<1>3. ASSUME NEW K \in Seq(Seq(Chars))
      PROVE  T \o (U \o K) = (T \o U) \o K
  <2>1. Together(Seq(Chars))
    BY Associates
  <2>2. QED
    BY <2>1, Zenon DEF Together
<1>4. QED
  BY <1>1, <1>2, <1>3 DEF Follows

(* A sequence is its beginning and what follows. *)
LEMMA Split ==
  ASSUME NEW D, NEW s \in Seq(D), NEW m \in 0 .. Len(s), NEW n \in m .. Len(s)
  PROVE  /\ SubSeq(s, 1, m) \in Seq(D) /\ SubSeq(s, m + 1, n) \in Seq(D)
         /\ SubSeq(s, 1, n) = SubSeq(s, 1, m) \o SubSeq(s, m + 1, n)
<1> DEFINE a == SubSeq(s, 1, m)
           b == SubSeq(s, m + 1, n)
           c == SubSeq(s, 1, n)
<1>1. m \in Nat /\ n \in Nat /\ m <= n /\ n <= Len(s) /\ n - m \in Nat /\ m + (n - m) = n
  OBVIOUS
<1>2. a \in Seq(D) /\ Len(a) = m /\ \A i \in 1 .. m : a[i] = s[i]
  BY <1>1
<1>3. b \in Seq(D) /\ Len(b) = n - m /\ \A i \in 1 .. n - m : b[i] = s[i + m]
  BY <1>1
<1>4. c \in Seq(D) /\ Len(c) = n /\ \A i \in 1 .. n : c[i] = s[i]
  BY <1>1
<1> HIDE DEF a, b, c
<1> DEFINE y == a \o b
<1>5. /\ y \in Seq(D) /\ Len(y) = n
      /\ \A i \in 1 .. n : y[i] = IF i <= m THEN a[i] ELSE b[i - m]
  <2>1. /\ y \in Seq(D) /\ Len(y) = Len(a) + Len(b)
        /\ \A i \in 1 .. Len(a) + Len(b) : y[i] = IF i <= Len(a) THEN a[i] ELSE b[i - Len(a)]
    BY <1>2, <1>3, ConcatProperties
  <2> HIDE DEF y
  <2>2. QED
    BY <1>1, <1>2, <1>3, <2>1
<1> HIDE DEF y
<1>6. ASSUME NEW i \in 1 .. n
      PROVE  c[i] = y[i]
  <2>1. CASE i <= m
    <3>1. i \in 1 .. m
      BY <1>1, <2>1
    <3>2. QED
      BY <1>2, <1>4, <1>5, <2>1, <3>1
  <2>2. CASE ~ (i <= m)
    <3>1. i - m \in 1 .. n - m /\ (i - m) + m = i
      BY <1>1, <2>2
    <3>2. b[i - m] = s[i]
      <4>1. ASSUME NEW j \in 1 .. n - m
            PROVE  b[j] = s[j + m]
        BY <1>3
      <4>2. QED
        BY <3>1, <4>1
    <3>3. QED
      BY <1>4, <1>5, <2>2, <3>2
  <2>3. QED
    BY <2>1, <2>2
<1>7. c = y
  BY <1>4, <1>5, <1>6, SeqEqual
<1>8. QED
  BY <1>2, <1>3, <1>7 DEF a, b, c, y

(* The lines taken so far begin the lines of the body, whatever is still to *)
(* come.                                                                    *)
LEMMA FollowsBegins ==
  ASSUME NEW b \in Seq(Symbols), NEW n \in 0 .. Len(b), NEW v \in Seq(Chars),
         NEW T \in Seq(Seq(Chars)), Follows(T, Decoded(SubSeq(b, 1, n)), v)
  PROVE  Begins(Seq(Chars), T, AllLines(Decoded(b)))
<1> DEFINE p == SubSeq(b, 1, n)
           q == SubSeq(b, n + 1, Len(b))
           d == Decoded(q)
<1>1. p \in Seq(Symbols) /\ q \in Seq(Symbols) /\ b = p \o q
  <2>1. Len(b) \in n .. Len(b) /\ SubSeq(b, 1, Len(b)) = b
    OBVIOUS
  <2> DEFINE m == Len(b)
  <2>2. m \in n .. Len(b)
    BY <2>1
  <2> HIDE DEF m
  <2>3. /\ SubSeq(b, 1, n) \in Seq(Symbols) /\ SubSeq(b, n + 1, m) \in Seq(Symbols)
        /\ SubSeq(b, 1, m) = SubSeq(b, 1, n) \o SubSeq(b, n + 1, m)
    BY <2>2, Split
  <2>4. QED
    BY <2>1, <2>3 DEF m
<1> HIDE DEF p, q
<1>2. Decoded(b) = Decoded(p) \o d /\ Decoded(p) \in Seq(Chars) /\ d \in Seq(Chars)
  BY <1>1, DecodedConcat, DecodedTyped
<1>3. Follows(T, Decoded(p), v)
  BY DEF p
<1> HIDE DEF d
<1>4. Follows(T, Decoded(p) \o d, v \o d)
  BY <1>2, <1>3, FollowsConcat
<1> DEFINE K == LinesOf(v \o d)
           r == RestOf(v \o d)
<1>5. K \in Seq(Seq(Chars)) /\ r \in Seq(Chars)
  <2>1. v \o d \in Seq(Chars)
    BY <1>2
  <2>2. QED
    BY <2>1, LinesTyped
<1>6. AllLines(Decoded(b)) = Append(T \o K, r)
  BY <1>2, <1>4 DEF AllLines, Follows
<1> HIDE DEF K, r
<1>7. Append(T \o K, r) = T \o Append(K, r) /\ Append(K, r) \in Seq(Seq(Chars))
  <2>1. Joins(Seq(Chars))
    BY AppendConcat
  <2>2. ASSUME NEW D, NEW U \in Seq(D), NEW x \in D
        PROVE  Append(U, x) \in Seq(D)
    OBVIOUS
  <2>3. Append(K, r) \in Seq(Seq(Chars))
    BY <1>5, <2>2
  <2>4. Append(T \o K, r) = T \o Append(K, r)
    <3>1. \A U \in Seq(Seq(Chars)), x \in Seq(Chars) : Append(T \o U, x) = T \o Append(U, x)
      BY <2>1 DEF Joins
    <3>2. QED
      BY <1>5, <3>1
  <2>5. QED
    BY <2>3, <2>4
<1>8. QED
  BY <1>6, <1>7 DEF Begins

(* A sequence is its front and its last element. *)
LEMMA FrontAndLast ==
  ASSUME NEW D, NEW s \in Seq(D), s # <<>>
  PROVE  /\ SubSeq(s, 1, Len(s) - 1) \in Seq(D)
         /\ s = SubSeq(s, 1, Len(s) - 1) \o <<s[Len(s)]>>
<1>1. Len(s) \in Nat \ {0}
  OBVIOUS
<1>2. SubSeq(s, 1, Len(s) - 1) \in Seq(D)
  BY <1>1
<1>3. s = SubSeq(s, 1, Len(s) - 1) \o <<s[Len(s)]>>
  BY <1>1
<1>4. QED
  BY <1>2, <1>3

(* A chunk adds its characters to what is held, wherever it is cut.          *)
Decodes(b, c, chunk) ==
  LET s == c \o chunk
      w == SubSeq(s, 1, Len(s) - Len(Incomplete(s)))
  IN  /\ Incomplete(s) \in {<<>>, <<"hi">>}
      /\ b \o Decoded(w) \in Seq(Chars)
      /\ (b \o Decoded(w)) \o Decoded(Incomplete(s)) = (b \o Decoded(c)) \o Decoded(chunk)

(* Every chunk does, one that ends within a character too. *)
LEMMA DecodeStep ==
  ASSUME NEW c \in {<<>>, <<"hi">>}, NEW chunk \in Seq(Symbols), chunk # <<>>,
         NEW b \in Seq(Chars)
  PROVE  Decodes(b, c, chunk)
<1> DEFINE s == c \o chunk
           w == SubSeq(s, 1, Len(s) - Len(Incomplete(s)))
           e == Incomplete(s)
<1>1. "hi" \in Symbols
  BY DEF Symbols
<1>2. c \in Seq(Symbols)
  <2>1. <<>> \in Seq(Symbols) /\ <<"hi">> \in Seq(Symbols)
    BY <1>1
  <2>2. QED
    BY <2>1
<1>3. s \in Seq(Symbols) /\ s # <<>> /\ Len(s) \in Nat \ {0}
  BY <1>2, ConcatProperties
<1>4. Decoded(s) = Decoded(c) \o Decoded(chunk)
  BY <1>2, DecodedConcat
<1> HIDE DEF s
<1>5. e \in {<<>>, <<"hi">>}
  BY DEF Incomplete
<1>0. w = SubSeq(s, 1, Len(s) - Len(e))
  OBVIOUS
<1> HIDE DEF w
<1>6. w \in Seq(Symbols) /\ s = w \o e
  <2>1. CASE e = <<>>
    <3>1. w = SubSeq(s, 1, Len(s))
      BY <1>0, <1>3, <2>1
    <3>2. QED
      BY <1>3, <2>1, <3>1
  <2>2. CASE e = <<"hi">>
    <3>1. s[Len(s)] = "hi"
      BY <2>2 DEF Incomplete, Last
    <3>2. w = SubSeq(s, 1, Len(s) - 1)
      BY <1>0, <1>3, <2>2
    <3>3. w \in Seq(Symbols) /\ s = w \o <<"hi">>
      <4>1. ASSUME NEW t \in Seq(Symbols), t # <<>>
            PROVE  /\ SubSeq(t, 1, Len(t) - 1) \in Seq(Symbols)
                   /\ t = SubSeq(t, 1, Len(t) - 1) \o <<t[Len(t)]>>
        BY <4>1, FrontAndLast
      <4>2. QED
        BY <1>3, <3>1, <3>2, <4>1
    <3>4. QED
      BY <2>2, <3>3
  <2>3. QED
    BY <1>5, <2>1, <2>2
<1>7. e \in Seq(Symbols)
  <2>1. <<>> \in Seq(Symbols) /\ <<"hi">> \in Seq(Symbols)
    BY <1>1
  <2> HIDE DEF e
  <2>2. QED
    BY <1>5, <2>1
<1> HIDE DEF e
<1>8. Decoded(s) = Decoded(w) \o Decoded(e)
  BY <1>6, <1>7, DecodedConcat
<1>9. Decoded(w) \in Seq(Chars) /\ Decoded(e) \in Seq(Chars) /\ Decoded(c) \in Seq(Chars)
      /\ Decoded(chunk) \in Seq(Chars)
  BY <1>2, <1>6, <1>7, DecodedTyped
<1>10. /\ (b \o Decoded(w)) \o Decoded(e) = b \o (Decoded(w) \o Decoded(e))
       /\ (b \o Decoded(c)) \o Decoded(chunk) = b \o (Decoded(c) \o Decoded(chunk))
  <2>1. ASSUME NEW x \in Seq(Chars), NEW y \in Seq(Chars)
        PROVE  (b \o x) \o y = b \o (x \o y)
    <3>1. Together(Chars)
      BY Associates
    <3>2. QED
      BY <3>1, Zenon DEF Together
  <2>2. QED
    BY <1>9, <2>1
<1>11. b \o Decoded(w) \in Seq(Chars)
  BY <1>9, ConcatProperties
<1>12. QED
  BY <1>4, <1>5, <1>8, <1>10, <1>11 DEF e, s, w, Decodes

(* A line that is taken is skipped, or adds its event. *)
LEMMA TakeLine ==
  ASSUME NEW T \in Seq(Seq(Chars)), NEW l \in Seq(Chars), JsonOf(EventsOf(T)) = EventsOf(T)
  PROVE  /\ Payload(l) = <<>> => EventsOf(T \o <<l>>) = EventsOf(T)
         /\ Payload(l) # <<>> => EventsOf(T \o <<l>>) = Append(EventsOf(T), Payload(l))
         /\ IsJson(Payload(l)) => JsonOf(Append(EventsOf(T), Payload(l))) = Append(EventsOf(T), Payload(l))
<1> DEFINE F == EventsOf(T)
           p == Payload(l)
<1>1. <<l>> \in Seq(Seq(Chars))
  OBVIOUS
<1>2. EventsOf(T \o <<l>>) = F \o EventsOf(<<l>>)
  BY <1>1, EventsOfConcat
<1>3. EventsOf(<<l>>) = IF p = <<>> THEN <<>> ELSE <<p>>
  BY EventsOfLine
<1>4. F \in Seq(Seq(Chars)) /\ p \in Seq(Chars)
  BY EventsOfTyped, PayloadTyped
<1>5. JsonOf(F) = F
  OBVIOUS
<1> HIDE DEF F, p
<1>6. F \o <<>> = F /\ F \o <<p>> = Append(F, p) /\ <<p>> \in Seq(Seq(Chars))
  BY <1>4
<1>7. IsJson(p) => JsonOf(Append(F, p)) = Append(F, p)
  <2>1. JsonOf(F \o <<p>>) = JsonOf(F) \o JsonOf(<<p>>)
    BY <1>4, <1>6, JsonOfConcat
  <2>2. IsJson(p) => JsonOf(<<p>>) = <<p>>
    BY <1>4, JsonOfFrame
  <2>3. QED
    BY <1>5, <1>6, <2>1, <2>2
<1>8. QED
  BY <1>2, <1>3, <1>6, <1>7 DEF F, p

-----------------------------------------------------------------------------
(* Handing out *)

(* The program was handed the events of all frames but the last of Y, and of  *)
(* that one those up to member n.                                            *)
Partly(h, n, g, Y) ==
  \E F \in Seq(Seq(Chars)), f \in Seq(Chars) :
    /\ Y = Append(F, f)
    /\ h = EventsOfFrames(g, F) \o Picks(AllOf(g, f), FieldsOf(g, f))[n]

LEMMA PicksAt ==
  ASSUME NEW g \in Apis, NEW f \in Seq(Chars)
  PROVE  /\ Picks(AllOf(g, f), FieldsOf(g, f)) \in [0 .. 5 -> Seq(Events)]
         /\ Picks(AllOf(g, f), FieldsOf(g, f))[0] = <<>>
         /\ EventsOfFrame(g, f) = Picks(AllOf(g, f), FieldsOf(g, f))[5]
<1>1. AllOf(g, f) \in Seq(Events) /\ Len(AllOf(g, f)) = 5
  BY AllOfTyped
<1>2. ASSUME NEW s \in Seq(Events), NEW I
      PROVE  /\ Picks(s, I) \in [0 .. Len(s) -> Seq(Events)] /\ Picks(s, I)[0] = <<>>
             /\ Picked(s, I) = Picks(s, I)[Len(s)]
  BY PicksDef
<1>3. /\ Picks(AllOf(g, f), FieldsOf(g, f)) \in [0 .. Len(AllOf(g, f)) -> Seq(Events)]
      /\ Picks(AllOf(g, f), FieldsOf(g, f))[0] = <<>>
      /\ Picked(AllOf(g, f), FieldsOf(g, f)) = Picks(AllOf(g, f), FieldsOf(g, f))[Len(AllOf(g, f))]
  BY <1>1, <1>2
<1>4. EventsOfFrame(g, f) = Picked(AllOf(g, f), FieldsOf(g, f))
  BY DEF EventsOfFrame, AllOf
<1>5. QED
  BY <1>1, <1>3, <1>4

(* A frame just yielded adds nothing yet. *)
LEMMA PartlyNone ==
  ASSUME NEW g \in Apis, NEW F \in Seq(Seq(Chars)), NEW f \in Seq(Chars)
  PROVE  Partly(EventsOfFrames(g, F), 0, g, Append(F, f))
<1>1. EventsOfFrames(g, F) \in Seq(Events)
  BY EventsOfFramesTyped
<1>2. EventsOfFrames(g, F) \o <<>> = EventsOfFrames(g, F)
  BY <1>1, ConcatEmptySeq
<1>3. Picks(AllOf(g, f), FieldsOf(g, f))[0] = <<>>
  BY PicksAt
<1>4. QED
  BY <1>2, <1>3 DEF Partly

(* The events of a frame handed out so far begin those of the frame. *)
LEMMA PartlyBegins ==
  ASSUME NEW h, NEW n \in 0 .. 5, NEW g \in Apis, NEW Y, Partly(h, n, g, Y)
  PROVE  Begins(Events, h, EventsOfFrames(g, Y))
<1>1. PICK F \in Seq(Seq(Chars)), f \in Seq(Chars) :
        /\ Y = Append(F, f)
        /\ h = EventsOfFrames(g, F) \o Picks(AllOf(g, f), FieldsOf(g, f))[n]
  BY DEF Partly
<1> DEFINE a == EventsOfFrames(g, F)
           p == Picks(AllOf(g, f), FieldsOf(g, f))
           e == EventsOfFrame(g, f)
<1>2. a \in Seq(Events) /\ p[n] \in Seq(Events)
  <2>1. p \in [0 .. 5 -> Seq(Events)]
    BY <1>1, PicksAt
  <2> HIDE DEF p
  <2>2. QED
    BY <1>1, <2>1, EventsOfFramesTyped
<1>3. EventsOfFrames(g, Y) = a \o e
  BY <1>1, EventsOfFramesAppend
<1>4. Begins(Events, p[n], e)
  <2>1. e = Picked(AllOf(g, f), FieldsOf(g, f))
    BY DEF EventsOfFrame, AllOf
  <2>2. AllOf(g, f) \in Seq(Events) /\ n \in 0 .. Len(AllOf(g, f))
    BY <1>1, AllOfTyped
  <2>3. ASSUME NEW s \in Seq(Events), NEW I, n \in 0 .. Len(s)
        PROVE  Begins(Events, Picks(s, I)[n], Picked(s, I))
    BY <2>3, PicksBegin
  <2>4. QED
    BY <2>1, <2>2, <2>3
<1>5. PICK w \in Seq(Events) : e = p[n] \o w
  BY <1>4 DEF Begins
<1>6. h = a \o p[n]
  BY <1>1
<1> HIDE DEF a, p, e
<1>7. a \o (p[n] \o w) = (a \o p[n]) \o w
  <2>1. Together(Events)
    BY Associates
  <2>2. QED
    BY <1>2, <1>5, <2>1, Zenon DEF Together
<1>8. QED
  BY <1>3, <1>5, <1>6, <1>7 DEF Begins

LEMMA LastOfAppend ==
  ASSUME NEW D, NEW s \in Seq(D), NEW x \in D
  PROVE  Last(Append(s, x)) = x
BY DEF Last

(* Nothing is ahead in the frame: its events have all been handed out. *)
LEMMA PartlyAll ==
  ASSUME NEW h, NEW n \in 0 .. 5, NEW g \in Apis, NEW Y, Partly(h, n, g, Y),
         {k \in FieldsOf(g, Last(Y)) : k > n} = {}
  PROVE  h = EventsOfFrames(g, Y)
<1>1. PICK F \in Seq(Seq(Chars)), f \in Seq(Chars) :
        /\ Y = Append(F, f)
        /\ h = EventsOfFrames(g, F) \o Picks(AllOf(g, f), FieldsOf(g, f))[n]
  BY DEF Partly
<1>2. Last(Y) = f
  BY <1>1, LastOfAppend
<1>3. \A k \in n + 1 .. 5 : k \notin FieldsOf(g, f)
  BY <1>2
<1>4. Picks(AllOf(g, f), FieldsOf(g, f))[5] = Picks(AllOf(g, f), FieldsOf(g, f))[n]
  <2>1. ASSUME NEW s \in Seq(Events), NEW I, NEW m \in 0 .. Len(s), NEW o \in m .. Len(s),
               \A k \in m + 1 .. o : k \notin I
        PROVE  Picks(s, I)[o] = Picks(s, I)[m]
    BY <2>1, PicksRest
  <2> DEFINE A == AllOf(g, f)
             J == FieldsOf(g, f)
  <2>2. A \in Seq(Events) /\ n \in 0 .. Len(A) /\ 5 \in n .. Len(A)
    BY <1>1, AllOfTyped
  <2>3. \A k \in n + 1 .. 5 : k \notin J
    BY <1>3
  <2> HIDE DEF A, J
  <2>4. Picks(A, J)[5] = Picks(A, J)[n]
    BY <2>1, <2>2, <2>3
  <2>5. QED
    BY <2>4 DEF A, J
<1>5. EventsOfFrame(g, f) = Picks(AllOf(g, f), FieldsOf(g, f))[5]
  BY <1>1, PicksAt
<1>6. EventsOfFrames(g, Y) = EventsOfFrames(g, F) \o EventsOfFrame(g, f)
  BY <1>1, EventsOfFramesAppend
<1>7. QED
  BY <1>1, <1>4, <1>5, <1>6

(* The next member ahead is the next event. *)
LEMMA PartlyNext ==
  ASSUME NEW h, NEW n \in 0 .. 5, NEW g \in Apis, NEW Y, Partly(h, n, g, Y),
         NEW m \in FieldsOf(g, Last(Y)), m > n,
         \A k \in FieldsOf(g, Last(Y)) : k > n => m <= k
  PROVE  Partly(Append(h, EventOf(g, m, Last(Y))), m, g, Y)
<1>1. PICK F \in Seq(Seq(Chars)), f \in Seq(Chars) :
        /\ Y = Append(F, f)
        /\ h = EventsOfFrames(g, F) \o Picks(AllOf(g, f), FieldsOf(g, f))[n]
  BY DEF Partly
<1> DEFINE a == EventsOfFrames(g, F)
           p == Picks(AllOf(g, f), FieldsOf(g, f))
           e == EventOf(g, m, f)
<1>2. Last(Y) = f
  BY <1>1, LastOfAppend
<1>3. m \in n + 1 .. 5 /\ m \in 1 .. 5 /\ FieldsOf(g, f) \in SUBSET (1 .. 5)
  <2>1. FieldsOf(g, f) \in SUBSET (1 .. 5)
    BY FieldsOfRange
  <2>2. QED
    BY <1>2, <2>1
<1>4. \A k \in n + 1 .. m - 1 : k \notin FieldsOf(g, f)
  BY <1>2, <1>3
<1>5. p[m] = Append(p[n], AllOf(g, f)[m])
  <2>1. ASSUME NEW s \in Seq(Events), NEW I, NEW i \in 0 .. Len(s), NEW o \in i + 1 .. Len(s),
               o \in I, \A k \in i + 1 .. o - 1 : k \notin I
        PROVE  Picks(s, I)[o] = Append(Picks(s, I)[i], s[o])
    BY <2>1, PicksNext
  <2> DEFINE A == AllOf(g, f)
             J == FieldsOf(g, f)
  <2>2. A \in Seq(Events) /\ n \in 0 .. Len(A) /\ m \in n + 1 .. Len(A)
    BY <1>1, <1>3, AllOfTyped
  <2>3. m \in J /\ \A k \in n + 1 .. m - 1 : k \notin J
    BY <1>2, <1>4
  <2>4. p = Picks(A, J)
    OBVIOUS
  <2> HIDE DEF A, J, p
  <2>5. Picks(A, J)[m] = Append(Picks(A, J)[n], A[m])
    BY <2>1, <2>2, <2>3
  <2>6. QED
    BY <2>4, <2>5 DEF A
<1>6. AllOf(g, f)[m] = e
  BY <1>1, <1>3, AllOfTyped
<1>7. a \in Seq(Events) /\ p[n] \in Seq(Events) /\ e \in Events
  <2>1. p \in [0 .. 5 -> Seq(Events)]
    BY <1>1, PicksAt
  <2> HIDE DEF p
  <2>2. QED
    BY <1>1, <1>3, <2>1, EventsOfFramesTyped, EventTyped
<1>8. h = a \o p[n]
  BY <1>1
<1> HIDE DEF a, p, e
<1>9. Append(a \o p[n], e) = a \o Append(p[n], e)
  <2>1. \A x \in Seq(Events), y \in Seq(Events), z \in Events : Append(x \o y, z) = x \o Append(y, z)
    <3>1. Joins(Events)
      BY AppendConcat
    <3>2. QED
      BY <3>1 DEF Joins
  <2>2. QED
    BY <1>7, <2>1
<1>10. Append(h, e) = a \o p[m]
  BY <1>5, <1>6, <1>8, <1>9
<1>11. QED
  BY <1>1, <1>2, <1>10 DEF Partly, a, p, e

-----------------------------------------------------------------------------
(* The stream *)

(* What the generator of the frames holds of the body.                       *)
ByteInv ==
  /\ body \in Seq(Symbols) /\ read \in 0 .. Len(body)
  /\ carry \in {<<>>, <<"hi">>} /\ buffer \in Seq(Chars)
  /\ phase = "read" => Newlines(buffer) = {}
  /\ phase \in {"read", "lines", "yield", "final", "finalYield", "drained", "finally", "ended"}
  /\ stream \in {"open", "closed", "errored", "cancelled"}

(* What is buffered when the body has ended is what follows its last line,     *)
(* but for a character the body was cut off in.                              *)
AtEnd(b, r) ==
  b = r \/ \E x \in Seq(Chars) : b = Append(x, "?") /\ r = Append(x, "eacute")

(* The lines taken off the buffer begin those of the body, and the events      *)
(* yielded are theirs.  The lines that have arrived are those taken and those *)
(* in the buffer: of the bytes read, those in the decoder included.          *)
LinesInv(taken) ==
  /\ taken \in Seq(Seq(Chars)) /\ Begins(Seq(Chars), taken, AllLines(Decoded(body)))
  /\ yielded = EventsOf(taken) /\ JsonOf(yielded) = yielded
  /\ phase \in {"read", "lines", "yield"} =>
       Follows(taken, Decoded(SubSeq(body, 1, read)), buffer \o Decoded(carry))
  /\ phase = "final" =>
       taken = LinesOf(Decoded(body)) /\ AtEnd(buffer, RestOf(Decoded(body)))
  /\ drained \/ phase \in {"finalYield", "drained"} => taken = AllLines(Decoded(body))

TakenInv == \E taken : LinesInv(taken)

(* The program was handed the events of the frames yielded, of the last of     *)
(* them up to the member the generator is at.                                *)
HandedInv ==
  /\ api \in Apis /\ field \in 0 .. 5 /\ handed \in Seq(Events)
  /\ yielded \in Seq(Seq(Chars)) /\ \A i \in DOMAIN yielded : yielded[i] # <<>>
  /\ Begins(Events, handed, EventsOfFrames(api, yielded))
  /\ drained \/ phase \in {"read", "lines", "final", "drained"} =>
       handed = EventsOfFrames(api, yielded)
  /\ phase \in {"read", "lines", "final", "drained"} => field = 0
  /\ HasFrame => Partly(handed, field, api, yielded)

StreamInv == ByteInv /\ TakenInv /\ HandedInv

(* Nothing has been read, taken or handed out. *)
LEMMA InitStream == CommandInit => StreamInv
<1> SUFFICES ASSUME CommandInit PROVE StreamInv
  OBVIOUS
<1>1. /\ read = 0 /\ carry = <<>> /\ buffer = <<>> /\ phase = "read" /\ yielded = <<>>
      /\ drained = FALSE /\ stream = "open" /\ api \in Apis /\ field = 0 /\ handed = <<>>
  BY DEF CommandInit, Init, Apis
<1>2. body \in Seq(Symbols)
  <2>0. PICK n \in 0 .. MaxLines :
          \E lines \in [1 .. n -> Lines] : \E k \in 0 .. Len(Text(lines)) : body = SubSeq(Text(lines), 1, k)
    BY DEF CommandInit, Init
  <2>1. PICK lines \in [1 .. n -> Lines] :
          \E k \in 0 .. Len(Text(lines)) : body = SubSeq(Text(lines), 1, k)
    BY <2>0
  <2> DEFINE ss == [i \in DOMAIN lines |-> Append(lines[i], "nl")]
  <2>2. "nl" \in Symbols
    BY DEF Symbols, Chars
  <2>3. \A l \in Lines : Append(l, "nl") \in Seq(Symbols)
    BY <2>2, ConstantsAssumption, AppendProperties
  <2>4. ss \in [1 .. n -> Seq(Symbols)]
    BY <2>1, <2>3
  <2> HIDE DEF ss
  <2>5. ss \in Seq(Seq(Symbols))
    <3>1. n \in Nat
      BY <2>0
    <3>2. QED
      BY <2>4, <3>1
  <2>6. Text(lines) \in Seq(Symbols)
    <3>1. FlattenSeq(ss) \in Seq(Symbols)
      BY <2>5, FlattenTyped
    <3>2. QED
      BY <3>1 DEF Text, ss
  <2>7. QED
    BY <2>1, <2>6
<1>3. ByteInv
  BY <1>1, <1>2 DEF ByteInv, Newlines
<1>4. LinesInv(<<>>)
  <2>1. Decoded(SubSeq(body, 1, read)) = <<>> /\ buffer \o Decoded(carry) = <<>>
    <3>1. SubSeq(body, 1, 0) = <<>> /\ <<>> \o <<>> = <<>>
      BY <1>2
    <3>2. QED
      BY <1>1, <3>1, DecodedEmpty
  <2>2. /\ <<>> \in Seq(Seq(Chars)) /\ \A D : \A s \in Seq(D) : <<>> \o s = s
    OBVIOUS
  <2>3. Follows(<<>>, <<>>, <<>>)
    BY LinesEmpty DEF Follows
  <2>4. EventsOf(<<>>) = <<>> /\ JsonOf(<<>>) = <<>>
    BY <2>2, EventsOfEmpty, JsonOfIs, KeptEmpty
  <2>5. Begins(Seq(Chars), <<>>, AllLines(Decoded(body)))
    <3>1. Decoded(body) \in Seq(Chars)
      BY <1>2, DecodedTyped
    <3>2. AllLines(Decoded(body)) \in Seq(Seq(Chars))
      BY <3>1, LinesTyped, AppendProperties DEF AllLines
    <3>3. QED
      BY <2>2, <3>2 DEF Begins
  <2>6. QED
    BY <1>1, <2>1, <2>2, <2>3, <2>4, <2>5 DEF LinesInv
<1>5. HandedInv
  <2>1. EventsOfFrames(api, <<>>) = <<>>
    BY EventsOfFramesEmpty
  <2>2. <<>> \in Seq(Events) /\ <<>> \in Seq(Seq(Chars)) /\ <<>> = <<>> \o <<>>
    OBVIOUS
  <2>3. Begins(Events, <<>>, <<>>)
    BY <2>2 DEF Begins
  <2>4. QED
    BY <1>1, <2>1, <2>2, <2>3 DEF HandedInv, HasFrame
<1>6. QED
  BY <1>3, <1>4, <1>5 DEF StreamInv, TakenInv

(* A chunk is added to what is held. *)
LEMMA ReadChunkKeeps == StreamInv /\ ReadChunk /\ UNCHANGED commandVars => StreamInv'
<1> SUFFICES ASSUME StreamInv, ReadChunk, UNCHANGED commandVars PROVE StreamInv'
  OBVIOUS
<1>1. PICK n \in 1 .. MaxChunk :
        /\ read + n <= Len(body)
        /\ Decode(SubSeq(body, read + 1, read + n))
        /\ read' = read + n
  BY DEF ReadChunk
<1>2. /\ phase = "read" /\ phase' = "lines" /\ UNCHANGED <<body, yielded, drained, stream>>
      /\ UNCHANGED <<api, at, field, handed>>
  BY DEF ReadChunk, commandVars
<1>3. /\ body \in Seq(Symbols) /\ read \in 0 .. Len(body)
      /\ carry \in {<<>>, <<"hi">>} /\ buffer \in Seq(Chars)
  BY DEF StreamInv, ByteInv
<1> DEFINE chunk == SubSeq(body, read + 1, read + n)
           p == SubSeq(body, 1, read)
           u == Decoded(p)
           v == buffer \o Decoded(carry)
<1>4. n \in Nat \ {0}
  BY <1>1, ConstantsAssumption
<1>5. /\ chunk \in Seq(Symbols) /\ chunk # <<>> /\ p \in Seq(Symbols)
      /\ SubSeq(body, 1, read') = p \o chunk
  <2>1. read \in 0 .. Len(body) /\ read + n \in read .. Len(body)
    BY <1>1, <1>3, <1>4
  <2>2. ASSUME NEW s \in Seq(Symbols), NEW i \in 0 .. Len(s), NEW j \in i .. Len(s)
        PROVE  /\ SubSeq(s, 1, i) \in Seq(Symbols) /\ SubSeq(s, i + 1, j) \in Seq(Symbols)
               /\ SubSeq(s, 1, j) = SubSeq(s, 1, i) \o SubSeq(s, i + 1, j)
    BY Split
  <2>3. /\ p \in Seq(Symbols) /\ chunk \in Seq(Symbols)
        /\ SubSeq(body, 1, read + n) = p \o chunk
    BY <1>3, <2>1, <2>2
  <2>4. Len(chunk) = n
    BY <1>1, <1>3, <1>4
  <2>5. chunk # <<>>
    BY <1>4, <2>4
  <2>6. QED
    BY <1>1, <2>3, <2>5
<1> HIDE DEF p, chunk
<1> DEFINE s == carry \o chunk
           w == SubSeq(s, 1, Len(s) - Len(Incomplete(s)))
<1>6. buffer' = buffer \o Decoded(w) /\ carry' = Incomplete(s)
  BY <1>1 DEF Decode, chunk
<1>7. /\ carry' \in {<<>>, <<"hi">>} /\ buffer' \in Seq(Chars)
      /\ buffer' \o Decoded(carry') = v \o Decoded(chunk)
  <2>1. Decodes(buffer, carry, chunk)
    BY <1>3, <1>5, DecodeStep
  <2>2. /\ Incomplete(s) \in {<<>>, <<"hi">>}
        /\ buffer \o Decoded(w) \in Seq(Chars)
        /\ (buffer \o Decoded(w)) \o Decoded(Incomplete(s)) = v \o Decoded(chunk)
    BY <2>1 DEF Decodes
  <2> HIDE DEF s, w
  <2>3. QED
    BY <1>6, <2>2
<1> HIDE DEF s, w
<1>8. PICK taken : LinesInv(taken)
  BY DEF StreamInv, TakenInv
<1>9. Follows(taken, Decoded(SubSeq(body, 1, read')), buffer' \o Decoded(carry'))
  <2>1. taken \in Seq(Seq(Chars)) /\ Follows(taken, u, v)
    BY <1>2, <1>8 DEF LinesInv, p
  <2>2. Decoded(SubSeq(body, 1, read')) = u \o Decoded(chunk)
    BY <1>5, DecodedConcat
  <2>3. u \in Seq(Chars) /\ Decoded(chunk) \in Seq(Chars) /\ Decoded(carry) \in Seq(Chars)
    <3>1. "hi" \in Symbols
      BY DEF Symbols
    <3>2. <<>> \in Seq(Symbols) /\ <<"hi">> \in Seq(Symbols)
      BY <3>1
    <3>3. carry \in Seq(Symbols)
      BY <1>3, <3>2
    <3>4. QED
      BY <1>5, <3>3, DecodedTyped
  <2>4. v \in Seq(Chars)
    BY <1>3, <2>3, ConcatProperties
  <2> HIDE DEF u, v
  <2>5. Follows(taken, u \o Decoded(chunk), v \o Decoded(chunk))
    BY <2>1, <2>3, <2>4, FollowsConcat
  <2>6. QED
    BY <1>7, <2>2, <2>5
<1>10. ByteInv'
  <2>1. read' \in 0 .. Len(body)
    BY <1>1, <1>3, <1>4
  <2>2. QED
    BY <1>2, <1>7, <2>1 DEF StreamInv, ByteInv
<1>11. LinesInv(taken)'
  BY <1>2, <1>8, <1>9 DEF LinesInv
<1>12. HandedInv'
  BY <1>2 DEF StreamInv, HandedInv, HasFrame
<1>13. QED
  BY <1>10, <1>11, <1>12 DEF StreamInv, TakenInv

(* What is held of the body: the buffer, and the character in the decoder. *)
LEMMA HeldTyped ==
  ASSUME ByteInv
  PROVE  Decoded(carry) \in Seq(Chars) /\ buffer \o Decoded(carry) \in Seq(Chars)
<1>1. "hi" \in Symbols
  BY DEF Symbols
<1>2. <<>> \in Seq(Symbols) /\ <<"hi">> \in Seq(Symbols)
  BY <1>1
<1>3. carry \in Seq(Symbols)
  BY <1>2 DEF ByteInv
<1>4. Decoded(carry) \in Seq(Chars)
  BY <1>3, DecodedTyped
<1>5. buffer \in Seq(Chars)
  BY DEF ByteInv
<1>6. QED
  BY <1>4, <1>5, ConcatProperties

LEMMA DecodedCut == Decoded(<<"hi">>) = <<"eacute">>
<1>1. "hi" \in Symbols /\ <<>> \in Seq(Symbols)
  BY DEF Symbols
<1>2. Decoded(Append(<<>>, "hi")) = Append(Decoded(<<>>), Char("hi"))
  BY <1>1, DecodedAppend
<1>3. Append(<<>>, "hi") = <<"hi">> /\ Append(<<>>, "eacute") = <<"eacute">>
  OBVIOUS
<1>4. QED
  BY <1>2, <1>3, DecodedEmpty DEF Char

LEMMA HeldIs ==
  ASSUME NEW b \in Seq(Chars)
  PROVE  b \o Decoded(<<>>) = b /\ b \o Decoded(<<"hi">>) = Append(b, "eacute")
<1>1. "eacute" \in Chars
  BY DEF Chars, Members
<1>2. ASSUME NEW D, NEW s \in Seq(D), NEW x \in D
      PROVE  s \o <<>> = s /\ s \o <<x>> = Append(s, x)
  OBVIOUS
<1>3. b \o <<>> = b /\ b \o <<"eacute">> = Append(b, "eacute")
  BY <1>1, <1>2
<1>4. QED
  BY <1>3, DecodedEmpty, DecodedCut

(* A byte in the decoder ends no line. *)
LEMMA NewlinesOfHeld ==
  ASSUME NEW b \in Seq(Chars), Newlines(b) = {}, NEW c \in {<<>>, <<"hi">>}
  PROVE  Newlines(b \o Decoded(c)) = {}
<1>1. CASE c = <<>>
  BY <1>1, HeldIs
<1>2. CASE c = <<"hi">>
  <2>1. b \o Decoded(c) = Append(b, "eacute")
    BY <1>2, HeldIs
  <2>2. QED
    BY <2>1 DEF Newlines
<1>3. QED
  BY <1>1, <1>2

(* With nothing left to read and no newline held, every line has been       *)
(* taken.                                                                   *)
LEMMA ReadDoneKeeps == StreamInv /\ ReadDone /\ UNCHANGED commandVars => StreamInv'
<1> SUFFICES ASSUME StreamInv, ReadDone, UNCHANGED commandVars PROVE StreamInv'
  OBVIOUS
<1>1. /\ phase = "read" /\ read = Len(body) /\ phase' = "final" /\ carry' = <<>>
      /\ buffer' = (IF carry = <<>> THEN buffer ELSE Append(buffer, "?")) /\ stream' = "closed"
      /\ UNCHANGED <<body, read, yielded, drained>> /\ UNCHANGED <<api, at, field, handed>>
  BY DEF ReadDone, commandVars
<1>2. /\ body \in Seq(Symbols) /\ carry \in {<<>>, <<"hi">>} /\ buffer \in Seq(Chars)
      /\ Newlines(buffer) = {}
  BY <1>1 DEF StreamInv, ByteInv
<1> DEFINE v == buffer \o Decoded(carry)
<1>3. v \in Seq(Chars) /\ Newlines(v) = {}
  BY <1>2, HeldTyped, NewlinesOfHeld DEF StreamInv
<1>4. LinesOf(v) = <<>> /\ RestOf(v) = v
  <2> HIDE DEF v
  <2>1. QED
    BY <1>3, NoNewline
<1>5. PICK taken : LinesInv(taken)
  BY DEF StreamInv, TakenInv
<1>6. taken = LinesOf(Decoded(body)) /\ RestOf(Decoded(body)) = v
  <2>1. SubSeq(body, 1, read) = body
    BY <1>1, <1>2
  <2>2. Follows(taken, Decoded(body), v) /\ taken \in Seq(Seq(Chars))
    BY <1>1, <1>5, <2>1 DEF LinesInv
  <2>3. taken \o <<>> = taken
    BY <2>2, ConcatEmptySeq
  <2> HIDE DEF v
  <2>4. QED
    BY <1>4, <2>2, <2>3 DEF Follows
<1>7. AtEnd(buffer', v)
  <2>1. CASE carry = <<>>
    <3>1. v = buffer
      BY <1>2, <2>1, HeldIs
    <3>2. QED
      BY <1>1, <2>1, <3>1 DEF AtEnd
  <2>2. CASE carry = <<"hi">>
    <3>1. v = Append(buffer, "eacute")
      BY <1>2, <2>2, HeldIs
    <3>2. buffer' = Append(buffer, "?")
      BY <1>1, <2>2
    <3>3. QED
      BY <1>2, <3>1, <3>2 DEF AtEnd
  <2>3. QED
    BY <1>2, <2>1, <2>2
<1> HIDE DEF v
<1>8. ByteInv'
  <2>1. Append(buffer, "?") \in Seq(Chars)
    <3>1. "?" \in Chars
      BY DEF Chars, Members
    <3>2. QED
      BY <1>2, <3>1, AppendProperties
  <2>2. QED
    BY <1>1, <1>2, <2>1 DEF StreamInv, ByteInv
<1>9. LinesInv(taken)'
  BY <1>1, <1>5, <1>6, <1>7 DEF LinesInv
<1>10. HandedInv'
  BY <1>1 DEF StreamInv, HandedInv, HasFrame
<1>11. QED
  BY <1>8, <1>9, <1>10 DEF StreamInv, TakenInv

LEMMA ReadFailsKeeps == StreamInv /\ ReadFails /\ UNCHANGED commandVars => StreamInv'
<1> SUFFICES ASSUME StreamInv, ReadFails, UNCHANGED commandVars PROVE StreamInv'
  OBVIOUS
<1>1. /\ phase = "read" /\ phase' = "finally" /\ stream' = "errored"
      /\ UNCHANGED <<body, read, carry, buffer, yielded, drained>>
      /\ UNCHANGED <<api, at, field, handed>>
  BY DEF ReadFails, commandVars
<1>2. ByteInv'
  BY <1>1 DEF StreamInv, ByteInv
<1>3. PICK taken : LinesInv(taken)
  BY DEF StreamInv, TakenInv
<1>4. LinesInv(taken)'
  BY <1>1, <1>3 DEF LinesInv
<1>5. HandedInv'
  BY <1>1 DEF StreamInv, HandedInv, HasFrame
<1>6. QED
  BY <1>2, <1>4, <1>5 DEF StreamInv, TakenInv

LEMMA DrainKeeps == StreamInv /\ Drain /\ UNCHANGED commandVars => StreamInv'
<1> SUFFICES ASSUME StreamInv, Drain, UNCHANGED commandVars PROVE StreamInv'
  OBVIOUS
<1>1. /\ phase = "drained" /\ phase' = "finally" /\ drained' = TRUE
      /\ UNCHANGED <<body, read, carry, buffer, yielded, stream>>
      /\ UNCHANGED <<api, at, field, handed>>
  BY DEF Drain, commandVars
<1>2. ByteInv'
  BY <1>1 DEF StreamInv, ByteInv
<1>3. PICK taken : LinesInv(taken)
  BY DEF StreamInv, TakenInv
<1>4. LinesInv(taken)'
  BY <1>1, <1>3 DEF LinesInv
<1>5. HandedInv'
  BY <1>1 DEF StreamInv, HandedInv, HasFrame
<1>6. QED
  BY <1>2, <1>4, <1>5 DEF StreamInv, TakenInv

LEMMA FinallyKeeps == StreamInv /\ Finally /\ UNCHANGED commandVars => StreamInv'
<1> SUFFICES ASSUME StreamInv, Finally, UNCHANGED commandVars PROVE StreamInv'
  OBVIOUS
<1>1. /\ phase = "finally" /\ phase' = "ended"
      /\ stream' = (IF ~drained /\ stream = "open" THEN "cancelled" ELSE stream)
      /\ UNCHANGED <<body, read, carry, buffer, yielded, drained>>
      /\ UNCHANGED <<api, at, field, handed>>
  BY DEF Finally, commandVars
<1>2. ByteInv'
  BY <1>1 DEF StreamInv, ByteInv
<1>3. PICK taken : LinesInv(taken)
  BY DEF StreamInv, TakenInv
<1>4. LinesInv(taken)'
  BY <1>1, <1>3 DEF LinesInv
<1>5. HandedInv'
  BY <1>1 DEF StreamInv, HandedInv, HasFrame
<1>6. QED
  BY <1>2, <1>4, <1>5 DEF StreamInv, TakenInv

(* A line that is skipped, one whose event is yielded, and one that throws.    *)
LEMMA EmitIs ==
  ASSUME NEW p, NEW here, NEW next, Emit(p, here, next)
  PROVE  \/ p = <<>> /\ phase' = next /\ yielded' = yielded
         \/ p # <<>> /\ IsJson(p) /\ phase' = here /\ yielded' = Append(yielded, p)
         \/ phase' = "finally" /\ yielded' = yielded /\ p # <<>> /\ ~ IsJson(p)
BY DEF Emit

(* A frame that is yielded leaves what was handed out as it is. *)
LEMMA YieldHands ==
  ASSUME HandedInv, NEW p \in Seq(Chars), p # <<>>, drained = FALSE,
         phase \in {"lines", "final"}, phase' \in {"yield", "finalYield"},
         yielded' = Append(yielded, p), UNCHANGED <<api, at, field, handed, drained>>
  PROVE  HandedInv'
<1>1. /\ api \in Apis /\ field = 0 /\ handed = EventsOfFrames(api, yielded)
      /\ yielded \in Seq(Seq(Chars)) /\ handed \in Seq(Events)
      /\ \A i \in DOMAIN yielded : yielded[i] # <<>>
  BY DEF HandedInv
<1>2. Partly(handed, 0, api, Append(yielded, p))
  BY <1>1, PartlyNone
<1>3. Begins(Events, handed, EventsOfFrames(api, Append(yielded, p)))
  <2>1. 0 \in 0 .. 5
    OBVIOUS
  <2>2. ASSUME NEW n \in 0 .. 5, NEW Y, Partly(handed, n, api, Y)
        PROVE  Begins(Events, handed, EventsOfFrames(api, Y))
    BY <1>1, <2>2, PartlyBegins
  <2>3. QED
    BY <1>2, <2>1, <2>2
<1>4. /\ Append(yielded, p) \in Seq(Seq(Chars))
      /\ \A i \in DOMAIN Append(yielded, p) : Append(yielded, p)[i] # <<>>
  <2>1. ASSUME NEW D, NEW s \in Seq(D), NEW x \in D, NEW bad, x # bad,
               \A i \in DOMAIN s : s[i] # bad
        PROVE  /\ Append(s, x) \in Seq(D)
               /\ \A i \in DOMAIN Append(s, x) : Append(s, x)[i] # bad
    BY <2>1
  <2>2. QED
    BY <1>1, <2>1
<1>5. QED
  BY <1>1, <1>2, <1>3, <1>4 DEF HandedInv, HasFrame

(* A line is taken off the buffer. *)
LEMMA NextLineTakes == IInv /\ StreamInv /\ NextLine /\ UNCHANGED commandVars => StreamInv'
<1> SUFFICES ASSUME IInv, StreamInv, NextLine, UNCHANGED commandVars PROVE StreamInv'
  OBVIOUS
<1>1. /\ phase = "lines" /\ UNCHANGED <<body, read, carry, drained, stream>>
      /\ UNCHANGED <<api, at, field, handed>> /\ drained = FALSE
  BY DEF NextLine, commandVars, IInv, BodyInv
<1>2. /\ body \in Seq(Symbols) /\ carry \in {<<>>, <<"hi">>} /\ buffer \in Seq(Chars)
      /\ read \in 0 .. Len(body)
  BY <1>1 DEF StreamInv, ByteInv
<1>3. PICK taken : LinesInv(taken)
  BY DEF StreamInv, TakenInv
<1>4. CASE Newlines(buffer) = {}
  <2>1. phase' = "read" /\ UNCHANGED <<buffer, yielded>>
    BY <1>4 DEF NextLine
  <2>2. ByteInv'
    BY <1>1, <1>4, <2>1 DEF StreamInv, ByteInv
  <2>3. LinesInv(taken)'
    BY <1>1, <1>3, <2>1 DEF LinesInv
  <2>4. HandedInv'
    BY <1>1, <2>1 DEF StreamInv, HandedInv, HasFrame
  <2>5. QED
    BY <2>2, <2>3, <2>4 DEF StreamInv, TakenInv
<1>5. CASE Newlines(buffer) # {}
  <2>1. PICK i \in Newlines(buffer) : \A j \in Newlines(buffer) : i <= j
    <3>1. Newlines(buffer) \in SUBSET Nat
      BY <1>2 DEF Newlines
    <3>2. QED
      BY <1>5, <3>1, LeastExists
  <2>2. Min(Newlines(buffer)) = i /\ i \in 1 .. Len(buffer)
    <3>1. Newlines(buffer) \in SUBSET Int /\ Newlines(buffer) \subseteq 1 .. Len(buffer)
      BY <1>2 DEF Newlines
    <3>2. QED
      BY <2>1, <3>1, MinIs
  <2> DEFINE l == SubSeq(buffer, 1, i - 1)
             z == SubSeq(buffer, i + 1, Len(buffer))
             d == Decoded(carry)
             p == Payload(l)
  <2>3. Emit(p, "yield", "lines") /\ buffer' = z
    BY <1>5, <2>2 DEF NextLine, Payload
  <2>4. l \in Seq(Chars) /\ z \in Seq(Chars)
    BY <1>2, <2>2
  <2>5. d \in Seq(Chars) /\ buffer \o d \in Seq(Chars)
    BY HeldTyped DEF StreamInv
  <2>6. Follows(<<l>>, buffer \o d, z \o d)
    BY <1>2, <2>1, <2>5, FirstLine
  <2> HIDE DEF l, z, d
  <2>7. z \o d \in Seq(Chars) /\ <<l>> \in Seq(Seq(Chars))
    BY <2>4, <2>5, ConcatProperties
  <2> DEFINE u == Decoded(SubSeq(body, 1, read))
             U == taken \o <<l>>
  <2>8. /\ taken \in Seq(Seq(Chars)) /\ Follows(taken, u, buffer \o d)
        /\ yielded = EventsOf(taken) /\ JsonOf(yielded) = yielded
    BY <1>1, <1>3 DEF LinesInv, d
  <2>9. u \in Seq(Chars)
    <3>1. SubSeq(body, 1, read) \in Seq(Symbols)
      BY <1>2
    <3>2. QED
      BY <3>1, DecodedTyped
  <2>10. U \in Seq(Seq(Chars)) /\ Follows(U, u, z \o d)
    <3> HIDE DEF u
    <3>1. U \in Seq(Seq(Chars))
      BY <2>7, <2>8, ConcatProperties
    <3>2. Follows(U, u, z \o d)
      BY <2>5, <2>6, <2>7, <2>8, <2>9, FollowsFollows
    <3>3. QED
      BY <3>1, <3>2
  <2>11. Begins(Seq(Chars), U, AllLines(Decoded(body)))
    <3> HIDE DEF U
    <3>1. QED
      BY <1>2, <2>7, <2>10, FollowsBegins
  <2>12. ByteInv' \/ phase' = "read"
    <3>1. phase' \in {"yield", "lines", "finally"}
      BY <2>3, EmitIs
    <3>2. QED
      BY <1>1, <1>2, <2>3, <2>4, <3>1 DEF StreamInv, ByteInv
  <2>13. /\ p = <<>> => EventsOf(U) = yielded
         /\ p # <<>> => EventsOf(U) = Append(yielded, p)
         /\ IsJson(p) => JsonOf(Append(yielded, p)) = Append(yielded, p)
         /\ p \in Seq(Chars)
    BY <2>4, <2>8, TakeLine, PayloadTyped
  <2>18. /\ Follows(U, Decoded(SubSeq(body', 1, read')), buffer' \o Decoded(carry'))
         /\ Begins(Seq(Chars), U, AllLines(Decoded(body'))) /\ U \in Seq(Seq(Chars))
         /\ drained' = FALSE
    <3>1. body' = body /\ read' = read /\ carry' = carry /\ drained' = FALSE /\ buffer' = z
      BY <1>1, <2>3
    <3>2. u = Decoded(SubSeq(body, 1, read)) /\ d = Decoded(carry)
      BY DEF d
    <3> HIDE DEF u, U
    <3>3. QED
      BY <2>10, <2>11, <3>1, <3>2
  <2> HIDE DEF p, U, u
  <2>19. PICK V : V = U
    OBVIOUS
  <2>14. CASE p = <<>> /\ phase' = "lines" /\ yielded' = yielded
    <3>1. LinesInv(V)'
      BY <2>8, <2>13, <2>18, <2>19, <2>14 DEF LinesInv
    <3>2. HandedInv'
      BY <1>1, <2>14 DEF StreamInv, HandedInv, HasFrame
    <3>3. QED
      BY <2>12, <2>14, <3>1, <3>2 DEF StreamInv, TakenInv
  <2>15. CASE p # <<>> /\ IsJson(p) /\ phase' = "yield" /\ yielded' = Append(yielded, p)
    <3>1. LinesInv(V)'
      BY <2>8, <2>13, <2>18, <2>19, <2>15 DEF LinesInv
    <3>2. HandedInv'
      BY <1>1, <2>13, <2>15, YieldHands DEF StreamInv
    <3>3. QED
      BY <2>12, <2>15, <3>1, <3>2 DEF StreamInv, TakenInv
  <2>16. CASE phase' = "finally" /\ yielded' = yielded
    <3>1. LinesInv(taken)'
      BY <1>1, <1>3, <2>16 DEF LinesInv
    <3>2. HandedInv'
      BY <1>1, <2>16 DEF StreamInv, HandedInv, HasFrame
    <3>3. QED
      BY <2>12, <2>16, <3>1, <3>2 DEF StreamInv, TakenInv
  <2>17. QED
    BY <2>3, <2>14, <2>15, <2>16, EmitIs
<1>6. QED
  BY <1>4, <1>5

(* What is left in the buffer fares as what follows the last line of the body. *)
LEMMA EndFares ==
  ASSUME NEW b \in Seq(Chars), NEW r \in Seq(Chars), AtEnd(b, r)
  PROVE  /\ Payload(b) = <<>> <=> Payload(r) = <<>>
         /\ IsJson(Payload(b)) => Payload(b) = Payload(r)
<1>1. CASE b = r
  BY <1>1
<1>2. CASE \E x \in Seq(Chars) : b = Append(x, "?") /\ r = Append(x, "eacute")
  <2>1. PICK x \in Seq(Chars) : b = Append(x, "?") /\ r = Append(x, "eacute")
    BY <1>2
  <2>2. /\ Payload(Append(x, "?")) = <<>> <=> Payload(Append(x, "eacute")) = <<>>
        /\ ~ IsJson(Payload(Append(x, "?")))
    BY <2>1, CutLine
  <2>3. QED
    BY <2>1, <2>2
<1>3. QED
  BY <1>1, <1>2 DEF AtEnd

(* What is left in the buffer is taken as the last line. *)
LEMMA FinalLineTakes == IInv /\ StreamInv /\ FinalLine /\ UNCHANGED commandVars => StreamInv'
<1> SUFFICES ASSUME IInv, StreamInv, FinalLine, UNCHANGED commandVars PROVE StreamInv'
  OBVIOUS
<1>1. /\ phase = "final" /\ UNCHANGED <<body, read, carry, buffer, drained, stream>>
      /\ UNCHANGED <<api, at, field, handed>> /\ drained = FALSE
      /\ Emit(Payload(buffer), "finalYield", "drained")
  BY DEF FinalLine, Payload, commandVars, IInv, BodyInv
<1>2. body \in Seq(Symbols) /\ buffer \in Seq(Chars)
  BY DEF StreamInv, ByteInv
<1>3. PICK taken : LinesInv(taken)
  BY DEF StreamInv, TakenInv
<1> DEFINE t == Decoded(body)
           r == RestOf(t)
           p == Payload(buffer)
           q == Payload(r)
<1>4. /\ taken \in Seq(Seq(Chars)) /\ taken = LinesOf(t) /\ AtEnd(buffer, r)
      /\ yielded = EventsOf(taken) /\ JsonOf(yielded) = yielded
  BY <1>1, <1>3 DEF LinesInv
<1>5. t \in Seq(Chars) /\ r \in Seq(Chars)
  <2>1. t \in Seq(Chars)
    BY <1>2, DecodedTyped
  <2> HIDE DEF t
  <2>2. QED
    BY <2>1, LinesTyped
<1>6. PICK V : V = AllLines(t)
  OBVIOUS
<1> HIDE DEF t
<1>7. V = taken \o <<r>> /\ V \in Seq(Seq(Chars)) /\ Begins(Seq(Chars), V, V)
  <2> HIDE DEF r
  <2>1. ASSUME NEW D, NEW s \in Seq(D), NEW x \in D
        PROVE  /\ Append(s, x) = s \o <<x>> /\ Append(s, x) \in Seq(D)
               /\ Append(s, x) \o <<>> = Append(s, x) /\ <<>> \in Seq(D)
    OBVIOUS
  <2>2. V = Append(taken, r)
    BY <1>4, <1>6 DEF AllLines, r
  <2>3. /\ Append(taken, r) = taken \o <<r>> /\ Append(taken, r) \in Seq(Seq(Chars))
        /\ Append(taken, r) \o <<>> = Append(taken, r) /\ <<>> \in Seq(Seq(Chars))
    BY <1>4, <1>5, <2>1
  <2>4. QED
    BY <2>2, <2>3 DEF Begins
<1> HIDE DEF r
<1>8. /\ p = <<>> <=> q = <<>>
      /\ IsJson(p) => p = q
      /\ p \in Seq(Chars)
  BY <1>2, <1>4, <1>5, EndFares, PayloadTyped
<1>9. /\ q = <<>> => EventsOf(V) = yielded
      /\ q # <<>> => EventsOf(V) = Append(yielded, q)
      /\ IsJson(q) => JsonOf(Append(yielded, q)) = Append(yielded, q)
  BY <1>4, <1>5, <1>7, TakeLine
<1> HIDE DEF p, q
<1>10. Emit(p, "finalYield", "drained")
  BY <1>1 DEF p
<1>11. ByteInv'
  <2>1. phase' \in {"finalYield", "drained", "finally"}
    BY <1>10, EmitIs
  <2>2. QED
    BY <1>1, <2>1 DEF StreamInv, ByteInv
<1>12. V = AllLines(Decoded(body')) /\ drained' = FALSE
  BY <1>1, <1>6 DEF t
<1>13. CASE p = <<>> /\ phase' = "drained" /\ yielded' = yielded
  <2>1. LinesInv(V)'
    BY <1>4, <1>7, <1>8, <1>9, <1>12, <1>13 DEF LinesInv
  <2>2. HandedInv'
    BY <1>1, <1>13 DEF StreamInv, HandedInv, HasFrame
  <2>3. QED
    BY <1>11, <2>1, <2>2 DEF StreamInv, TakenInv
<1>14. CASE p # <<>> /\ IsJson(p) /\ phase' = "finalYield" /\ yielded' = Append(yielded, p)
  <2>1. LinesInv(V)'
    BY <1>4, <1>7, <1>8, <1>9, <1>12, <1>14 DEF LinesInv
  <2>2. HandedInv'
    BY <1>1, <1>8, <1>14, YieldHands DEF StreamInv
  <2>3. QED
    BY <1>11, <2>1, <2>2 DEF StreamInv, TakenInv
<1>15. CASE phase' = "finally" /\ yielded' = yielded
  <2>1. LinesInv(taken)'
    BY <1>1, <1>3, <1>15 DEF LinesInv
  <2>2. HandedInv'
    BY <1>1, <1>15 DEF StreamInv, HandedInv, HasFrame
  <2>3. QED
    BY <1>11, <2>1, <2>2 DEF StreamInv, TakenInv
<1>16. QED
  BY <1>10, <1>13, <1>14, <1>15, EmitIs

(* What the generator of the frames is left as when only the program moves.    *)
LEMMA BelowKeeps ==
  ASSUME ByteInv, TakenInv, UNCHANGED vars
  PROVE  ByteInv' /\ TakenInv'
<1>1. UNCHANGED <<body, read, carry, buffer, phase, yielded, drained, stream>>
  BY DEF vars
<1>2. ByteInv'
  BY <1>1 DEF ByteInv, Newlines
<1>3. PICK taken : LinesInv(taken)
  BY DEF TakenInv
<1>4. LinesInv(taken)'
  BY <1>1, <1>3 DEF LinesInv
<1>5. QED
  BY <1>2, <1>4 DEF TakenInv

LEMMA PartlyLast ==
  ASSUME NEW h, NEW n, NEW g, NEW Y, Partly(h, n, g, Y)
  PROVE  Last(Y) \in Seq(Chars)
BY LastOfAppend DEF Partly

(* The next event of the frame is handed out. *)
LEMMA HandOutKeeps == IInv /\ StreamInv /\ HandOut => StreamInv'
<1> SUFFICES ASSUME IInv, StreamInv, HandOut PROVE StreamInv'
  OBVIOUS
<1>1. /\ at = "frame" /\ HasFrame /\ Ahead # {} /\ field' = Min(Ahead)
      /\ handed' = Append(handed, EventOf(api, field', Last(yielded)))
      /\ UNCHANGED vars /\ api' = api
  BY DEF HandOut, Frame
<1>2. UNCHANGED <<phase, yielded, drained>>
  BY <1>1 DEF vars
<1>3. /\ Partly(handed, field, api, yielded) /\ api \in Apis /\ field \in 0 .. 5
      /\ handed \in Seq(Events) /\ ~ drained
      /\ yielded \in Seq(Seq(Chars)) /\ \A i \in DOMAIN yielded : yielded[i] # <<>>
  BY <1>1 DEF StreamInv, HandedInv, HasFrame, IInv, BodyInv
<1>4. FieldsOf(api, Last(yielded)) \in SUBSET (1 .. 5)
  BY <1>3, FieldsOfRange
<1>5. PICK m \in Ahead : \A k \in Ahead : m <= k
  <2>1. Ahead \in SUBSET Nat
    BY <1>4 DEF Ahead, Frame
  <2>2. QED
    BY <1>1, <2>1, LeastExists
<1>6. field' = m
  <2>1. Ahead \in SUBSET Int
    BY <1>4 DEF Ahead, Frame
  <2>2. QED
    BY <1>1, <1>5, <2>1, MinIs
<1>7. /\ m \in FieldsOf(api, Last(yielded)) /\ m > field /\ m \in 1 .. 5
      /\ \A k \in FieldsOf(api, Last(yielded)) : k > field => m <= k
  BY <1>4, <1>5 DEF Ahead, Frame
<1>8. Partly(handed', m, api, yielded)
  BY <1>1, <1>3, <1>6, <1>7, PartlyNext
<1>9. handed' \in Seq(Events)
  <2>1. EventOf(api, m, Last(yielded)) \in Events
    BY <1>3, <1>7, PartlyLast, EventTyped
  <2>2. QED
    BY <1>1, <1>3, <1>6, <2>1, AppendProperties
<1>10. Begins(Events, handed', EventsOfFrames(api, yielded))
  <2>1. m \in 0 .. 5
    BY <1>7
  <2>2. QED
    BY <1>3, <1>8, <2>1, PartlyBegins
<1>11. HandedInv'
  <2>1. phase \notin {"read", "lines", "final", "drained"}
    BY <1>1 DEF HasFrame
  <2>2. field' \in 0 .. 5
    BY <1>6, <1>7
  <2>3. QED
    BY <1>1, <1>2, <1>3, <1>6, <1>8, <1>9, <1>10, <2>1, <2>2 DEF HandedInv
<1>12. QED
  BY <1>1, <1>11, BelowKeeps DEF StreamInv

(* A frame is left when all its events have been handed out. *)
LEMMA NextFrameKeeps == IInv /\ StreamInv /\ NextFrame => StreamInv'
<1> SUFFICES ASSUME IInv, StreamInv, NextFrame PROVE StreamInv'
  OBVIOUS
<1>1. /\ HasFrame /\ Ahead = {} /\ phase \in {"yield", "finalYield"}
      /\ phase' = (IF phase = "yield" THEN "lines" ELSE "drained")
      /\ UNCHANGED <<body, read, carry, buffer, yielded, drained, stream>>
      /\ field' = 0 /\ UNCHANGED <<api, at, handed>>
  BY DEF NextFrame, Resume
<1>2. /\ Partly(handed, field, api, yielded) /\ api \in Apis /\ field \in 0 .. 5
      /\ handed \in Seq(Events) /\ ~ drained
      /\ yielded \in Seq(Seq(Chars)) /\ \A i \in DOMAIN yielded : yielded[i] # <<>>
      /\ Begins(Events, handed, EventsOfFrames(api, yielded))
  BY <1>1 DEF StreamInv, HandedInv, HasFrame, IInv, BodyInv
<1>3. handed = EventsOfFrames(api, yielded)
  <2>1. {k \in FieldsOf(api, Last(yielded)) : k > field} = {}
    BY <1>1 DEF Ahead, Frame
  <2>2. QED
    BY <1>2, <2>1, PartlyAll
<1>4. ByteInv'
  BY <1>1 DEF StreamInv, ByteInv
<1>5. PICK taken : LinesInv(taken)
  BY DEF StreamInv, TakenInv
<1>6. LinesInv(taken)'
  BY <1>1, <1>2, <1>5 DEF LinesInv
<1>7. HandedInv'
  BY <1>1, <1>2, <1>3 DEF HandedInv, HasFrame
<1>8. QED
  BY <1>4, <1>6, <1>7 DEF StreamInv, TakenInv

LEMMA LeaveKeeps == IInv /\ StreamInv /\ Leave => StreamInv'
<1> SUFFICES ASSUME IInv, StreamInv, Leave PROVE StreamInv'
  OBVIOUS
<1>1. /\ phase \in {"yield", "finalYield"} /\ phase' = "finally"
      /\ UNCHANGED <<body, read, carry, buffer, yielded, drained, stream>>
      /\ UNCHANGED <<api, field, handed>> /\ ~ drained
  BY DEF Leave, Stop, IInv, BodyInv
<1>2. ByteInv'
  BY <1>1 DEF StreamInv, ByteInv
<1>3. PICK taken : LinesInv(taken)
  BY DEF StreamInv, TakenInv
<1>4. LinesInv(taken)'
  BY <1>1, <1>3 DEF LinesInv
<1>5. HandedInv'
  BY <1>1 DEF StreamInv, HandedInv, HasFrame
<1>6. QED
  BY <1>2, <1>4, <1>5 DEF StreamInv, TakenInv

LEMMA StreamStepKeeps == IInv /\ StreamInv /\ [CommandNext]_<<vars, commandVars>> => StreamInv'
<1> SUFFICES ASSUME IInv, StreamInv, [CommandNext]_<<vars, commandVars>> PROVE StreamInv'
  OBVIOUS
<1>1. ASSUME UNCHANGED <<vars, api, field, handed>> PROVE StreamInv'
  <2>1. ByteInv' /\ TakenInv'
    BY <1>1, BelowKeeps DEF StreamInv
  <2>2. UNCHANGED <<phase, yielded, drained, api, field, handed>>
    BY <1>1 DEF vars
  <2>3. HandedInv'
    BY <2>2 DEF StreamInv, HandedInv, HasFrame
  <2>4. QED
    BY <2>1, <2>3 DEF StreamInv
<1>2. CASE HandOut
  BY <1>2, HandOutKeeps
<1>3. CASE NextFrame
  BY <1>3, NextFrameKeeps
<1>4. CASE Ask
  BY <1>1, <1>4 DEF Ask
<1>5. CASE Leave
  BY <1>5, LeaveKeeps
<1>6. CASE End
  BY <1>1, <1>6 DEF End
<1>7. CASE Frames
  BY <1>7, ReadChunkKeeps, ReadDoneKeeps, ReadFailsKeeps, NextLineTakes, FinalLineTakes,
     DrainKeeps, FinallyKeeps DEF Frames
<1>8. CASE UNCHANGED <<vars, commandVars>>
  BY <1>1, <1>8 DEF commandVars
<1>9. QED
  BY <1>2, <1>3, <1>4, <1>5, <1>6, <1>7, <1>8 DEF CommandNext

LEMMA TypeHolds == IInv /\ StreamInv => CommandTypeOK
<1> SUFFICES ASSUME IInv, StreamInv PROVE CommandTypeOK
  OBVIOUS
<1>1. TypeOK
  BY DEF TypeOK, IInv, BodyInv, StreamInv, ByteInv, HandedInv
<1>2. /\ api \in {"exec", "connect"} /\ field \in 0 .. 5
      /\ handed \in Seq([type : Range(Fields), data : Seq(Members)])
  BY DEF StreamInv, HandedInv, Apis, Events
<1>3. QED
  BY <1>1, <1>2 DEF IInv, PlacesInv, CommandTypeOK

LEMMA PromptHolds == IInv /\ StreamInv => PromptWhileReading
<1> SUFFICES ASSUME IInv, StreamInv, phase = "read" PROVE PromptWhileReading
  BY DEF PromptWhileReading
<1>1. PICK taken : LinesInv(taken)
  BY DEF StreamInv, TakenInv
<1> DEFINE u == Decoded(SubSeq(body, 1, read))
           v == buffer \o Decoded(carry)
<1>2. /\ taken \in Seq(Seq(Chars)) /\ Follows(taken, u, v)
      /\ yielded = EventsOf(taken) /\ JsonOf(yielded) = yielded
  BY <1>1 DEF LinesInv
<1>3. LinesOf(v) = <<>>
  <2>1. v \in Seq(Chars)
    BY HeldTyped DEF StreamInv
  <2>2. Newlines(v) = {}
    BY NewlinesOfHeld DEF StreamInv, ByteInv
  <2> HIDE DEF v
  <2>3. QED
    BY <2>1, <2>2, NoNewline
<1> HIDE DEF u, v
<1>4. LinesOf(u) = taken
  <2>1. taken \o <<>> = taken
    BY <1>2
  <2>2. QED
    BY <1>2, <1>3, <2>1 DEF Follows
<1>5. handed = EventsOfFrames(api, yielded)
  BY DEF StreamInv, HandedInv
<1>6. JsonOf(EventsOf(LinesOf(u))) = EventsOf(LinesOf(u))
      /\ handed = EventsOfFrames(api, EventsOf(LinesOf(u)))
  BY <1>2, <1>4, <1>5
<1>7. QED
  BY <1>6 DEF PromptWhileReading, u

LEMMA BodyHolds == IInv /\ StreamInv => EventsOfBody
<1> SUFFICES ASSUME IInv, StreamInv PROVE EventsOfBody
  OBVIOUS
<1>1. PICK taken : LinesInv(taken)
  BY DEF StreamInv, TakenInv
<1> DEFINE t == Decoded(body)
           all == AllLines(t)
           frames == EventsOf(all)
           whole == JsonOf(frames)
<1>2. /\ taken \in Seq(Seq(Chars)) /\ Begins(Seq(Chars), taken, all)
      /\ yielded = EventsOf(taken) /\ JsonOf(yielded) = yielded
      /\ drained => taken = all
  BY <1>1 DEF LinesInv
<1>3. /\ api \in Apis /\ handed \in Seq(Events)
      /\ Begins(Events, handed, EventsOfFrames(api, yielded))
      /\ drained => handed = EventsOfFrames(api, yielded)
  BY DEF StreamInv, HandedInv
<1> HIDE DEF t, all
<1>4. PICK more \in Seq(Seq(Chars)) : all = taken \o more
  BY <1>2 DEF Begins
<1> DEFINE F == EventsOf(more)
           G == JsonOf(F)
<1>5. F \in Seq(Seq(Chars)) /\ yielded \in Seq(Seq(Chars))
  BY <1>2, <1>4, EventsOfTyped
<1>6. frames = yielded \o F
  BY <1>2, <1>4, EventsOfConcat
<1> HIDE DEF F, frames
<1>7. whole = yielded \o G /\ G \in Seq(Seq(Chars))
  BY <1>2, <1>5, <1>6, JsonOfConcat, JsonOfTyped
<1> HIDE DEF G, whole
<1>8. EventsOfFrames(api, whole) = EventsOfFrames(api, yielded) \o EventsOfFrames(api, G)
  <2>1. ASSUME NEW g \in Apis, NEW X \in Seq(Seq(Chars)), NEW H \in Seq(Seq(Chars))
        PROVE  EventsOfFrames(g, X \o H) = EventsOfFrames(g, X) \o EventsOfFrames(g, H)
    BY EventsOfFramesConcat
  <2>2. QED
    BY <1>3, <1>5, <1>7, <2>1
<1>9. Begins(Events, handed, EventsOfFrames(api, whole))
  <2>1. PICK w \in Seq(Events) : EventsOfFrames(api, yielded) = handed \o w
    BY <1>3 DEF Begins
  <2>2. EventsOfFrames(api, G) \in Seq(Events)
    BY <1>3, <1>7, EventsOfFramesTyped
  <2> DEFINE y == EventsOfFrames(api, G)
  <2> HIDE DEF y
  <2>3. /\ (handed \o w) \o y = handed \o (w \o y) /\ w \o y \in Seq(Events)
    <3>1. ASSUME NEW D, NEW a \in Seq(D), NEW b \in Seq(D), NEW c \in Seq(D)
          PROVE  (a \o b) \o c = a \o (b \o c) /\ b \o c \in Seq(D)
      <4>1. (a \o b) \o c = a \o (b \o c)
        <5>1. Together(D)
          BY Associates
        <5>2. QED
          BY <5>1, Zenon DEF Together
      <4>2. b \o c \in Seq(D)
        BY ConcatProperties
      <4>3. QED
        BY <4>1, <4>2
    <3>2. y \in Seq(Events)
      BY <2>2 DEF y
    <3>3. QED
      BY <1>3, <2>1, <3>1, <3>2
  <2>4. EventsOfFrames(api, whole) = (handed \o w) \o y
    BY <1>8, <2>1 DEF y
  <2>5. QED
    BY <2>3, <2>4 DEF Begins
<1>10. IsPrefix(handed, EventsOfFrames(api, whole))
  BY <1>3, <1>9, BeginsIsPrefix
<1>11. ASSUME drained PROVE frames = whole /\ handed = EventsOfFrames(api, frames)
  BY <1>2, <1>3, <1>11 DEF frames, whole
<1>12. QED
  <2>1. /\ all = Append(LinesOf(t), RestOf(t)) /\ t = Decoded(body)
        /\ frames = EventsOf(all) /\ whole = JsonOf(frames)
    BY DEF all, AllLines, t, frames, whole
  <2>2. QED
    BY <1>10, <1>11, <2>1 DEF EventsOfBody

(* Every variable stays in its range, and a program holds an event only      *)
(* while the generator of the frames is at the yield of its frame.           *)
THEOREM CommandTypeOKCorrect == CommandSpec => []CommandTypeOK
BY InitHolds, InitStream, StepKeeps, StreamStepKeeps, TypeHolds, PTL DEF CommandSpec

(* reader.read() is awaited only when the program has been handed every event *)
(* of the lines that have arrived whole, and those alone: for any lines, and *)
(* chunks that end in a line, in a character, or after several lines.        *)
THEOREM PromptWhileReadingCorrect == CommandSpec => []PromptWhileReading
BY InitHolds, InitStream, StepKeeps, StreamStepKeeps, PromptHolds, PTL DEF CommandSpec

(* What a program was handed is a beginning of the events in the body, and     *)
(* all of them once the stream ended by itself: for any body, cut off         *)
(* anywhere and read in any chunks.                                          *)
THEOREM EventsOfBodyCorrect == CommandSpec => []EventsOfBody
BY InitHolds, InitStream, StepKeeps, StreamStepKeeps, BodyHolds, PTL DEF CommandSpec
=============================================================================
