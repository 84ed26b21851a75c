--------------------------- MODULE PaginationProofs ---------------------------
(***************************************************************************)
(* What a walk over a changing list can miss and repeat, for lists, pages  *)
(* and caps of any size.                                                   *)
(***************************************************************************)
EXTENDS Pagination, TLAPS, FiniteSetTheorems, SequenceTheorems

(* The elements of a sequence up to position k, and those behind it.         *)
Upto(s, k) == {s[i] : i \in {j \in DOMAIN s : j <= k}}
Behind(s, k) == {s[i] : i \in {j \in DOMAIN s : j > k}}

Injective(s) == \A i, j \in DOMAIN s : s[i] = s[j] => i = j

(* The rows there have been are numbered as they were created, and are in the *)
(* list, once, or deleted.                                                   *)
RowsInv ==
  /\ Cardinality(Ever) \in initial .. MaxRows /\ Ever = 1 .. Cardinality(Ever)
  /\ Injective(list) /\ ToSet(list) \cap deleted = {}

PageType == [items : Seq(1 .. MaxRows), size : 0 .. MaxRows,
             total : (0 .. MaxRows) \cup {None}]

InHand == ToSet(page.items)
Seen == ToSet(yielded)

(* A page repeats no row.  An endpoint that gives no total is asked once.     *)
PageInv ==
  /\ page \in PageType /\ Injective(page.items)
  /\ InHand \subseteq Ever /\ Seen \subseteq Ever
  /\ phase = "request" => page = NoPage
  /\ shape # "paged" /\ phase = "request" => offset = 0 /\ yielded = <<>>
  /\ shape # "paged" /\ phase = "page" => page.total = None

(* Where the next page begins. *)
Horizon == offset + page.size

(* The rows that the walk has passed and will not hand out: those at positions *)
(* it is beyond, and all the rest once it holds the last page.               *)
Passed ==
  IF phase = "page" /\ LastPage THEN Missed \ InHand
  ELSE (Missed \ InHand) \cap Upto(list, Horizon)

(* A deletion moves one row over to where the walk has been.                 *)
SkipInv ==
  ~Ended /\ cap # 0 /\ shape # "untotalled" => Cardinality(Passed) <= Cardinality(deleted)

(* The repeats there were, those in the page, and the rows that are to come    *)
(* again: a creation moves one row over to where the walk has yet to go.     *)
RepeatInv ==
  Repeats + Cardinality(InHand \cap Seen)
    + Cardinality((InHand \cup Seen) \cap Behind(list, Horizon)) <= Created

IInv == TypeOK /\ RowsInv /\ PageInv /\ SkipInv /\ RepeatInv /\ EachDeletionCostsOneRow

-----------------------------------------------------------------------------
(* Numbers and sets *)

LEMMA MinOfTwo ==
  ASSUME NEW a \in Int, NEW b \in Int
  PROVE  Min({a, b}) = IF a <= b THEN a ELSE b
<1> DEFINE m == IF a <= b THEN a ELSE b
<1>1. m \in {a, b} /\ \A y \in {a, b} : m <= y
  OBVIOUS
<1>2. \A x \in {a, b} : (\A y \in {a, b} : x <= y) => x = m
  OBVIOUS
<1>3. QED
  BY <1>1, <1>2 DEF Min

LEMMA MaxOfTwo ==
  ASSUME NEW a \in Int, NEW b \in Int
  PROVE  Max({a, b}) = IF a >= b THEN a ELSE b
<1> DEFINE m == IF a >= b THEN a ELSE b
<1>1. m \in {a, b} /\ \A y \in {a, b} : m >= y
  OBVIOUS
<1>2. \A x \in {a, b} : (\A y \in {a, b} : x >= y) => x = m
  OBVIOUS
<1>3. QED
  BY <1>1, <1>2 DEF Max

LEMMA OneMore ==
  ASSUME NEW S, IsFiniteSet(S), NEW x, NEW T, T \subseteq S \cup {x}
  PROVE  /\ IsFiniteSet(T) /\ Cardinality(T) \in Nat
         /\ Cardinality(T) <= Cardinality(S) + 1
<1>1. /\ IsFiniteSet(S \cup {x})
      /\ Cardinality(S \cup {x}) = IF x \in S THEN Cardinality(S) ELSE Cardinality(S) + 1
  BY FS_AddElement
<1>2. IsFiniteSet(T) /\ Cardinality(T) <= Cardinality(S \cup {x})
  BY <1>1, FS_Subset
<1>3. Cardinality(T) \in Nat /\ Cardinality(S) \in Nat
  BY <1>2, FS_CardinalityType
<1>4. QED
  BY <1>1, <1>2, <1>3

-----------------------------------------------------------------------------
(* Sequences *)

LEMMA SequenceTyped ==
  ASSUME NEW S, NEW s \in Seq(S)
  PROVE  /\ Len(s) \in Nat /\ DOMAIN s = 1 .. Len(s) /\ s \in [1 .. Len(s) -> S]
         /\ \A i \in DOMAIN s : s[i] \in S
BY LenProperties

LEMMA InsertMoves ==
  ASSUME NEW S, NEW s \in Seq(S), NEW e \in S, NEW i \in 1 .. Len(s) + 1, NEW t,
         t = InsertAt(s, i, e)
  PROVE  /\ t \in Seq(S) /\ Len(t) = Len(s) + 1
         /\ \A j \in 1 .. Len(t) :
              t[j] = IF j < i THEN s[j] ELSE IF j = i THEN e ELSE s[j - 1]
<1> DEFINE u == SubSeq(s, 1, i - 1) \o <<e>>
           v == SubSeq(s, i, Len(s))
<1>1. /\ SubSeq(s, 1, i - 1) \in Seq(S) /\ Len(SubSeq(s, 1, i - 1)) = i - 1
      /\ \A j \in 1 .. i - 1 : SubSeq(s, 1, i - 1)[j] = s[j]
  OBVIOUS
<1>2. /\ u \in Seq(S) /\ Len(u) = i
      /\ \A j \in 1 .. i : u[j] = IF j < i THEN s[j] ELSE e
  <2>1. <<e>> \in Seq(S) /\ Len(<<e>>) = 1 /\ <<e>>[1] = e
    OBVIOUS
  <2>2. /\ u \in Seq(S) /\ Len(u) = i - 1 + 1
        /\ \A j \in 1 .. i - 1 + 1 :
             u[j] = IF j <= i - 1 THEN SubSeq(s, 1, i - 1)[j] ELSE <<e>>[j - (i - 1)]
    BY <1>1, <2>1, ConcatProperties
  <2>3. QED
    BY <1>1, <2>1, <2>2
<1>3. /\ v \in Seq(S) /\ Len(v) = Len(s) - i + 1
      /\ \A j \in 1 .. Len(s) - i + 1 : v[j] = s[j + i - 1]
  OBVIOUS
<1>4. t = u \o v
  BY DEF InsertAt
<1> HIDE DEF u, v
<1>5. t \in Seq(S) /\ Len(t) = Len(s) + 1
  <2>1. t \in Seq(S) /\ Len(t) = Len(u) + Len(v)
    BY <1>2, <1>3, <1>4, ConcatProperties
  <2>2. Len(s) \in Nat /\ i \in Nat
    OBVIOUS
  <2>3. QED
    BY <1>2, <1>3, <2>1, <2>2
<1>6. ASSUME NEW j \in 1 .. Len(t)
      PROVE  t[j] = IF j < i THEN s[j] ELSE IF j = i THEN e ELSE s[j - 1]
  <2>1. CASE j <= i
    BY <1>2, <1>3, <1>4, <2>1
  <2>2. CASE j > i
    <3>1. t[j] = v[j - i]
      BY <1>2, <1>3, <1>4, <1>5, <2>2
    <3>2. j - i \in 1 .. Len(s) - i + 1
      BY <1>5, <2>2
    <3>3. QED
      BY <1>3, <2>2, <3>1, <3>2
  <2>3. QED
    BY <2>1, <2>2
<1>7. QED
  BY <1>5, <1>6

LEMMA RemoveMoves ==
  ASSUME NEW S, NEW s \in Seq(S), NEW i \in DOMAIN s, NEW t, t = RemoveAt(s, i)
  PROVE  /\ t \in Seq(S) /\ Len(t) = Len(s) - 1
         /\ \A j \in 1 .. Len(t) : t[j] = IF j < i THEN s[j] ELSE s[j + 1]
<1> DEFINE u == SubSeq(s, 1, i - 1)
           v == SubSeq(s, i + 1, Len(s))
<1>1. /\ u \in Seq(S) /\ Len(u) = i - 1
      /\ \A j \in 1 .. i - 1 : u[j] = s[j]
  OBVIOUS
<1>2. /\ v \in Seq(S) /\ Len(v) = Len(s) - i
      /\ \A j \in 1 .. Len(s) - i : v[j] = s[j + i]
  OBVIOUS
<1>3. t = u \o v
  BY DEF RemoveAt
<1> HIDE DEF u, v
<1>4. t \in Seq(S) /\ Len(t) = Len(s) - 1
  BY <1>1, <1>2, <1>3
<1>5. ASSUME NEW j \in 1 .. Len(t)
      PROVE  t[j] = IF j < i THEN s[j] ELSE s[j + 1]
  <2>1. CASE j < i
    BY <1>1, <1>2, <1>3, <2>1
  <2>2. CASE j >= i
    <3>1. t[j] = v[j - (i - 1)]
      BY <1>1, <1>2, <1>3, <1>4, <2>2, SMTT(30)
    <3>2. j - (i - 1) \in 1 .. Len(s) - i
      BY <1>4, <2>2
    <3>3. QED
      BY <1>2, <2>2, <3>1, <3>2
  <2>3. QED
    BY <2>1, <2>2
<1>6. QED
  BY <1>4, <1>5

(* What an insertion does to the elements up to a position and behind it.    *)
LEMMA InsertShifts ==
  ASSUME NEW S, NEW s \in Seq(S), NEW e \in S, NEW i \in 1 .. Len(s) + 1, NEW t,
         t = InsertAt(s, i, e), NEW k \in Nat
  PROVE  /\ t \in Seq(S) /\ ToSet(t) = ToSet(s) \cup {e}
         /\ Injective(s) /\ e \notin ToSet(s) => Injective(t)
         /\ Upto(t, k) \subseteq Upto(s, k) \cup {e}
         /\ Behind(t, k) \subseteq Behind(s, k) \cup {e, s[k]}
<1>1. /\ t \in Seq(S) /\ Len(t) = Len(s) + 1
      /\ \A j \in 1 .. Len(t) :
           t[j] = IF j < i THEN s[j] ELSE IF j = i THEN e ELSE s[j - 1]
  BY InsertMoves, SMTT(60)
<1>2. Len(s) \in Nat /\ i \in Nat /\ DOMAIN s = 1 .. Len(s) /\ DOMAIN t = 1 .. Len(t)
  BY <1>1
<1>3. ToSet(t) = ToSet(s) \cup {e}
  <2>1. ToSet(t) \subseteq ToSet(s) \cup {e}
    BY <1>1, <1>2 DEF ToSet
  <2>2. ASSUME NEW j \in 1 .. Len(s)
        PROVE  s[j] \in ToSet(t)
    <3>1. s[j] = IF j < i THEN t[j] ELSE t[j + 1]
      BY <1>1, <1>2
    <3>2. j \in DOMAIN t /\ j + 1 \in DOMAIN t
      BY <1>1, <1>2
    <3>3. QED
      BY <3>1, <3>2 DEF ToSet
  <2>3. t[i] = e /\ i \in DOMAIN t
    BY <1>1, <1>2
  <2>4. QED
    BY <1>2, <2>1, <2>2, <2>3 DEF ToSet
<1>4. ASSUME Injective(s), e \notin ToSet(s)
      PROVE  Injective(t)
  <2> SUFFICES ASSUME NEW a \in DOMAIN t, NEW b \in DOMAIN t, t[a] = t[b]
               PROVE  a = b
    BY DEF Injective
  <2>1. \A j \in 1 .. Len(s) : s[j] # e
    BY <1>2, <1>4 DEF ToSet
  <2> DEFINE from(j) == IF j < i THEN j ELSE j - 1
  <2>2. ASSUME NEW j \in DOMAIN t, j # i
        PROVE  from(j) \in DOMAIN s /\ t[j] = s[from(j)]
    BY <1>1, <1>2, <2>2
  <2>3. CASE a # i /\ b # i
    <3>1. from(a) = from(b)
      BY <2>2, <2>3, <1>4 DEF Injective
    <3>2. QED
      BY <1>1, <1>2, <2>3, <3>1
  <2>4. CASE a = i \/ b = i
    <3>1. t[i] = e
      BY <1>1, <1>2
    <3>2. \A j \in DOMAIN t : j # i => t[j] # e
      BY <1>2, <2>1, <2>2
    <3>3. QED
      BY <2>4, <3>1, <3>2
  <2>5. QED
    BY <2>3, <2>4
<1>5. Upto(t, k) \subseteq Upto(s, k) \cup {e}
  <2> SUFFICES ASSUME NEW j \in DOMAIN t, j <= k, t[j] # e
               PROVE  t[j] \in Upto(s, k)
    BY DEF Upto
  <2>1. CASE j < i
    BY <1>1, <1>2, <2>1 DEF Upto
  <2>2. CASE j > i
    <3>1. t[j] = s[j - 1] /\ j - 1 \in DOMAIN s /\ j - 1 <= k
      BY <1>1, <1>2, <2>2
    <3>2. QED
      BY <3>1 DEF Upto
  <2>3. QED
    BY <1>1, <1>2, <2>1, <2>2
<1>6. Behind(t, k) \subseteq Behind(s, k) \cup {e, s[k]}
  <2> SUFFICES ASSUME NEW j \in DOMAIN t, j > k, t[j] # e, t[j] # s[k]
               PROVE  t[j] \in Behind(s, k)
    BY DEF Behind
  <2>1. CASE j < i
    BY <1>1, <1>2, <2>1 DEF Behind
  <2>2. CASE j > i
    <3>1. t[j] = s[j - 1] /\ j - 1 \in DOMAIN s
      BY <1>1, <1>2, <2>2
    <3>2. j - 1 > k
      BY <1>1, <1>2, <3>1
    <3>3. QED
      BY <3>1, <3>2 DEF Behind
  <2>3. QED
    BY <1>1, <1>2, <2>1, <2>2
<1>7. QED
  BY <1>1, <1>3, <1>4, <1>5, <1>6

LEMMA RemoveShifts ==
  ASSUME NEW S, NEW s \in Seq(S), NEW i \in DOMAIN s, NEW t, t = RemoveAt(s, i),
         Injective(s), NEW k \in Nat
  PROVE  /\ t \in Seq(S) /\ ToSet(t) = ToSet(s) \ {s[i]} /\ Injective(t)
         /\ Upto(t, k) \subseteq Upto(s, k) \cup {s[k + 1]}
         /\ Behind(t, k) \subseteq Behind(s, k)
<1>1. /\ t \in Seq(S) /\ Len(t) = Len(s) - 1
      /\ \A j \in 1 .. Len(t) : t[j] = IF j < i THEN s[j] ELSE s[j + 1]
  BY RemoveMoves, SMTT(60)
<1>2. /\ Len(s) \in Nat /\ i \in 1 .. Len(s)
      /\ DOMAIN s = 1 .. Len(s) /\ DOMAIN t = 1 .. Len(t)
  BY <1>1
<1>3. ToSet(t) = ToSet(s) \ {s[i]}
  <2>1. ASSUME NEW j \in DOMAIN t
        PROVE  t[j] \in ToSet(s) /\ t[j] # s[i]
    <3>1. j \in DOMAIN s /\ j + 1 \in DOMAIN s
      BY <1>1, <1>2
    <3>2. t[j] = IF j < i THEN s[j] ELSE s[j + 1]
      BY <1>1, <1>2
    <3>3. QED
      BY <1>2, <3>1, <3>2 DEF ToSet, Injective
  <2>2. ASSUME NEW j \in DOMAIN s, j # i
        PROVE  s[j] \in ToSet(t)
    <3>1. s[j] = IF j < i THEN t[j] ELSE t[j - 1]
      BY <1>1, <1>2, <2>2
    <3>2. j < i => j \in DOMAIN t
      BY <1>1, <1>2
    <3>3. j > i => j - 1 \in DOMAIN t
      BY <1>1, <1>2
    <3>4. QED
      BY <1>2, <2>2, <3>1, <3>2, <3>3 DEF ToSet
  <2>3. QED
    BY <2>1, <2>2 DEF ToSet
<1>4. Injective(t)
  <2> SUFFICES ASSUME NEW a \in DOMAIN t, NEW b \in DOMAIN t, t[a] = t[b]
               PROVE  a = b
    BY DEF Injective
  <2> DEFINE from(j) == IF j < i THEN j ELSE j + 1
  <2>1. ASSUME NEW j \in DOMAIN t
        PROVE  from(j) \in DOMAIN s /\ t[j] = s[from(j)]
    BY <1>1, <1>2
  <2>2. from(a) = from(b)
    BY <2>1 DEF Injective
  <2>3. QED
    BY <1>1, <1>2, <2>2
<1>5. Upto(t, k) \subseteq Upto(s, k) \cup {s[k + 1]}
  <2> SUFFICES ASSUME NEW j \in DOMAIN t, j <= k, t[j] # s[k + 1]
               PROVE  t[j] \in Upto(s, k)
    BY DEF Upto
  <2>1. j \in DOMAIN s /\ j + 1 \in DOMAIN s
    BY <1>1, <1>2
  <2>2. t[j] = IF j < i THEN s[j] ELSE s[j + 1]
    BY <1>1, <1>2
  <2>3. j + 1 <= k \/ t[j] = s[j]
    BY <1>2, <2>1, <2>2
  <2>4. QED
    BY <2>1, <2>2, <2>3 DEF Upto
<1>6. Behind(t, k) \subseteq Behind(s, k)
  <2> SUFFICES ASSUME NEW j \in DOMAIN t, j > k
               PROVE  t[j] \in Behind(s, k)
    BY DEF Behind
  <2>1. j \in DOMAIN s /\ j + 1 \in DOMAIN s /\ j + 1 > k
    BY <1>1, <1>2
  <2>2. t[j] = IF j < i THEN s[j] ELSE s[j + 1]
    BY <1>1, <1>2
  <2>3. QED
    BY <2>1, <2>2 DEF Behind
<1>7. QED
  BY <1>1, <1>3, <1>4, <1>5, <1>6

-----------------------------------------------------------------------------
(* The collection *)

(* Everything the counts are of is finite. *)
LEMMA Finite ==
  ASSUME TypeOK, RowsInv, PageInv
  PROVE  /\ Cardinality(Ever) \in Nat /\ initial \in Nat
         /\ Len(yielded) \in Nat /\ Horizon \in Nat
         /\ deleted \subseteq Ever /\ Missed \subseteq Ever
         /\ ToSet(list) \subseteq Ever
         /\ \A S : S \subseteq Ever => IsFiniteSet(S) /\ Cardinality(S) \in Nat
<1>1. Cardinality(Ever) \in Nat /\ initial \in Nat /\ initial <= Cardinality(Ever)
  BY ConstantsAssumption DEF RowsInv, TypeOK
<1>2. Len(yielded) \in Nat /\ Horizon \in Nat
  BY ConstantsAssumption DEF TypeOK, Horizon
<1>3. Missed \subseteq Ever
  BY <1>1 DEF Missed, RowsInv
<1>4. IsFiniteSet(Ever)
  BY <1>1, FS_Interval DEF RowsInv
<1>5. ASSUME NEW S, S \subseteq Ever
      PROVE  IsFiniteSet(S) /\ Cardinality(S) \in Nat
  BY <1>4, <1>5, FS_Subset, FS_CardinalityType
<1>6. deleted \subseteq Ever /\ ToSet(list) \subseteq Ever
  BY DEF Ever
<1>7. QED
  BY <1>1, <1>2, <1>3, <1>5, <1>6

LEMMA Smaller ==
  ASSUME NEW S, IsFiniteSet(S), NEW T, T \subseteq S
  PROVE  IsFiniteSet(T) /\ Cardinality(T) <= Cardinality(S)
BY FS_Subset

Rows == 1 .. MaxRows

LEMMA ListTyped ==
  ASSUME TypeOK
  PROVE  /\ list \in Seq(Rows) /\ Len(list) \in Nat
         /\ DOMAIN list = 1 .. Len(list) /\ list \in [1 .. Len(list) -> Rows]
         /\ \A i \in DOMAIN list : list[i] \in Rows
<1>1. list \in Seq(Rows)
  BY DEF TypeOK, Rows
<1>2. QED
  BY <1>1, SequenceTyped

(* A list of different rows is no longer than there can be rows. *)
LEMMA ListShort ==
  ASSUME TypeOK, RowsInv
  PROVE  Len(list) \in 0 .. MaxRows
<1>1. IsFiniteSet(1 .. MaxRows) /\ Cardinality(1 .. MaxRows) = MaxRows
  BY FS_Interval, ConstantsAssumption
<1>2. Len(list) \in Nat /\ list \in [1 .. Len(list) -> 1 .. MaxRows]
  BY ListTyped DEF Rows
<1>3. IsFiniteSet(1 .. Len(list)) /\ Cardinality(1 .. Len(list)) = Len(list)
  <2>1. ASSUME NEW n \in Nat
        PROVE  IsFiniteSet(1 .. n) /\ Cardinality(1 .. n) = n
    BY FS_Interval
  <2>2. QED
    BY <1>2, <2>1, Zenon
<1>4. list \in Injection(1 .. Len(list), 1 .. MaxRows)
  BY <1>2 DEF RowsInv, Injective, Injection, IsInjective
<1>5. Len(list) <= MaxRows
  BY <1>1, <1>2, <1>3, <1>4, FS_Injection
<1>6. QED
  BY <1>2, <1>5, ConstantsAssumption

LEMMA PassedSmaller ==
  ASSUME TypeOK, RowsInv, PageInv, SkipInv, ~Ended, cap # 0, shape # "untotalled",
         NEW T, T \subseteq Passed
  PROVE  Cardinality(T) <= Cardinality(deleted)
<1>1. IsFiniteSet(Passed) /\ Cardinality(Passed) \in Nat /\ Cardinality(deleted) \in Nat
  BY Finite DEF Passed
<1>2. Cardinality(T) <= Cardinality(Passed) /\ Cardinality(T) \in Nat
  BY <1>1, Smaller, FS_CardinalityType
<1>3. Cardinality(Passed) <= Cardinality(deleted)
  BY DEF SkipInv
<1>4. QED
  BY <1>1, <1>2, <1>3

LEMMA CreateKeeps ==
  ASSUME IInv, Create
  PROVE  IInv'
<1> DEFINE n == Cardinality(Ever)
<1>0. TypeOK /\ RowsInv /\ PageInv /\ SkipInv /\ RepeatInv
  BY DEF IInv
<1>1. /\ n \in Nat /\ initial \in Nat /\ Len(yielded) \in Nat /\ Horizon \in Nat
      /\ ToSet(list) \subseteq Ever /\ Missed \subseteq Ever
      /\ \A S : S \subseteq Ever => IsFiniteSet(S) /\ Cardinality(S) \in Nat
  BY <1>0, Finite
<1>2. /\ n < MaxRows /\ n + 1 \in 1 .. MaxRows /\ n + 1 \notin Ever /\ initial <= n
      /\ ~Ended /\ UNCHANGED <<deleted, initial, shape, cap, phase, offset, page, yielded>>
  BY <1>0, <1>1, ConstantsAssumption DEF Create, RowsInv, fixedVars
<1>3. PICK i \in 1 .. Len(list) + 1 : list' = InsertAt(list, i, n + 1)
  BY DEF Create
<1>4. /\ list' \in Seq(1 .. MaxRows) /\ ToSet(list') = ToSet(list) \cup {n + 1}
      /\ Injective(list')
      /\ Upto(list', Horizon) \subseteq Upto(list, Horizon) \cup {n + 1}
      /\ Behind(list', Horizon) \subseteq Behind(list, Horizon) \cup {n + 1, list[Horizon]}
  <2> DEFINE e == n + 1
  <2>1. list \in Seq(Rows) /\ Injective(list) /\ e \notin ToSet(list) /\ e \in Rows
    BY <1>0, <1>1, <1>2 DEF TypeOK, RowsInv, Rows
  <2> HIDE DEF e
  <2>2. /\ list' \in Seq(Rows) /\ ToSet(list') = ToSet(list) \cup {e}
        /\ Injective(list')
        /\ Upto(list', Horizon) \subseteq Upto(list, Horizon) \cup {e}
        /\ Behind(list', Horizon) \subseteq Behind(list, Horizon) \cup {e, list[Horizon]}
    BY <1>1, <1>3, <2>1, InsertShifts DEF e
  <2>3. QED
    BY <2>2 DEF Rows, e
<1>5. Ever' = 1 .. n + 1 /\ Cardinality(Ever') = n + 1
  <2>1. Ever' = Ever \cup {n + 1}
    BY <1>2, <1>4 DEF Ever
  <2>2. Ever = 1 .. n
    BY <1>0 DEF RowsInv
  <2>3. Ever' = 1 .. n + 1
    BY <1>1, <2>1, <2>2
  <2>4. QED
    BY <1>1, <2>3, FS_Interval
<1> HIDE DEF n
<1>6. TypeOK'
  BY <1>0, <1>2, <1>4 DEF TypeOK
<1>7. RowsInv'
  <2>1. (ToSet(list) \cup {n + 1}) \cap deleted = {}
    BY <1>0, <1>2 DEF RowsInv, Ever
  <2>2. QED
    BY <1>1, <1>2, <1>4, <1>5, <2>1, ConstantsAssumption DEF RowsInv
<1>8. PageInv'
  <2>1. Ever \subseteq Ever'
    BY <1>2, <1>4 DEF Ever
  <2>2. QED
    BY <1>0, <1>2, <2>1 DEF PageInv, InHand, Seen
<1>9. UNCHANGED <<Missed, InHand, Seen, Horizon, LastPage>>
  BY <1>2 DEF Missed, InHand, Seen, Horizon, LastPage
<1>10. SkipInv'
  <2> SUFFICES ASSUME cap # 0, shape # "untotalled"
               PROVE  Cardinality(Passed') <= Cardinality(deleted)
    BY <1>2 DEF SkipInv
  <2>1. n + 1 \notin Missed
    BY <1>1, <1>2 DEF Missed
  <2>2. Passed' \subseteq Passed
    BY <1>2, <1>4, <1>9, <2>1 DEF Passed
  <2>3. IsFiniteSet(Passed) /\ Cardinality(Passed) \in Nat
    BY <1>1 DEF Passed
  <2>4. Cardinality(Passed') <= Cardinality(Passed) /\ Cardinality(Passed') \in Nat
    BY <2>2, <2>3, Smaller, FS_CardinalityType
  <2>5. Cardinality(Passed) <= Cardinality(deleted) /\ Cardinality(deleted) \in Nat
    BY <1>0, <1>1, <1>2 DEF SkipInv, Ever
  <2>6. QED
    BY <2>3, <2>4, <2>5
<1>11. RepeatInv'
  <2> DEFINE Again == (InHand \cup Seen) \cap Behind(list, Horizon)
             Again1 == (InHand \cup Seen) \cap Behind(list', Horizon)
  <2>1. Again1 \subseteq Again \cup {list[Horizon]}
    BY <1>0, <1>2, <1>4 DEF PageInv
  <2>2. IsFiniteSet(Again) /\ Cardinality(Again) \in Nat
    <3>1. Again \subseteq Ever
      BY <1>0 DEF PageInv
    <3>2. QED
      BY <1>1, <3>1
  <2>3. Cardinality(Again1) <= Cardinality(Again) + 1 /\ Cardinality(Again1) \in Nat
    <3> HIDE DEF Again, Again1
    <3>1. QED
      BY <2>1, <2>2, OneMore
  <2>4. Created' = Created + 1 /\ Created \in Int
    BY <1>1, <1>2, <1>5 DEF Created, n
  <2>5. Repeats' = Repeats /\ Repeats \in Int
    BY <1>0, <1>1, <1>2 DEF Repeats, PageInv, Seen
  <2>6. Cardinality(InHand \cap Seen) \in Nat
    BY <1>0, <1>1 DEF PageInv
  <2>7. Repeats + Cardinality(InHand \cap Seen) + Cardinality(Again) <= Created
    BY <1>0 DEF RepeatInv
  <2>8. Again1 = ((InHand \cup Seen) \cap Behind(list, Horizon))'
    BY <1>9
  <2> HIDE DEF Again, Again1
  <2>9. Repeats + Cardinality(InHand \cap Seen) + Cardinality(Again1) <= Created + 1
    BY <2>2, <2>3, <2>4, <2>5, <2>6, <2>7
  <2>10. QED
    BY <1>9, <2>4, <2>5, <2>8, <2>9 DEF RepeatInv
<1>12. EachDeletionCostsOneRow'
  BY <1>2 DEF EachDeletionCostsOneRow, Ended
<1>13. QED
  BY <1>6, <1>7, <1>8, <1>10, <1>11, <1>12 DEF IInv

LEMMA DeleteKeeps ==
  ASSUME IInv, Delete
  PROVE  IInv'
<1>0. TypeOK /\ RowsInv /\ PageInv /\ SkipInv /\ RepeatInv
  BY DEF IInv
<1>1. /\ Horizon \in Nat /\ ToSet(list) \subseteq Ever /\ deleted \subseteq Ever
      /\ Missed \subseteq Ever
      /\ \A S : S \subseteq Ever => IsFiniteSet(S) /\ Cardinality(S) \in Nat
  BY <1>0, Finite
<1>2. ~Ended /\ UNCHANGED <<initial, shape, cap, phase, offset, page, yielded>>
  BY DEF Delete, fixedVars
<1>3. PICK i \in DOMAIN list :
        list' = RemoveAt(list, i) /\ deleted' = deleted \cup {list[i]}
  BY DEF Delete
<1>4. /\ list' \in Seq(1 .. MaxRows) /\ ToSet(list') = ToSet(list) \ {list[i]}
      /\ Injective(list')
      /\ Upto(list', Horizon) \subseteq Upto(list, Horizon) \cup {list[Horizon + 1]}
      /\ Behind(list', Horizon) \subseteq Behind(list, Horizon)
  <2>1. list \in Seq(Rows) /\ Injective(list)
    BY <1>0, ListTyped DEF RowsInv
  <2>2. list' \in Seq(Rows)
    BY <1>1, <1>3, <2>1, RemoveShifts
  <2>3. /\ ToSet(list') = ToSet(list) \ {list[i]} /\ Injective(list')
        /\ Upto(list', Horizon) \subseteq Upto(list, Horizon) \cup {list[Horizon + 1]}
        /\ Behind(list', Horizon) \subseteq Behind(list, Horizon)
    BY <1>1, <1>3, <2>1, RemoveShifts
  <2>4. QED
    BY <2>2, <2>3 DEF Rows
<1>5. list[i] \in ToSet(list) /\ list[i] \notin deleted /\ list[i] \in 1 .. MaxRows
  <2>1. list[i] \in ToSet(list)
    BY DEF ToSet
  <2>2. list[i] \in Rows
    BY <1>0, ListTyped
  <2>3. list[i] \in 1 .. MaxRows
    BY <2>2 DEF Rows
  <2>4. QED
    BY <1>0, <2>1, <2>3 DEF RowsInv
<1>6. Ever' = Ever
  BY <1>3, <1>4, <1>5 DEF Ever
<1>7. TypeOK'
  BY <1>0, <1>2, <1>3, <1>4, <1>5 DEF TypeOK
<1>8. RowsInv'
  BY <1>0, <1>2, <1>3, <1>4, <1>6 DEF RowsInv
<1>9. PageInv'
  BY <1>0, <1>2, <1>6 DEF PageInv, InHand, Seen
<1>10. UNCHANGED <<InHand, Seen, Horizon, LastPage>> /\ Missed' \subseteq Missed
  BY <1>2, <1>3 DEF Missed, InHand, Seen, Horizon, LastPage
<1>11. SkipInv'
  <2> SUFFICES ASSUME cap # 0, shape # "untotalled"
               PROVE  Cardinality(Passed') <= Cardinality(deleted')
    BY <1>2 DEF SkipInv
  <2>1. Passed' \subseteq Passed \cup {list[Horizon + 1]}
    BY <1>2, <1>4, <1>10 DEF Passed
  <2>2. IsFiniteSet(Passed) /\ Cardinality(Passed) \in Nat
    BY <1>1 DEF Passed
  <2>3. Cardinality(Passed') <= Cardinality(Passed) + 1 /\ Cardinality(Passed') \in Nat
    BY <2>1, <2>2, OneMore
  <2>4. Cardinality(deleted') = Cardinality(deleted) + 1
    BY <1>1, <1>3, <1>5, FS_AddElement
  <2>5. Cardinality(Passed) <= Cardinality(deleted) /\ Cardinality(deleted) \in Nat
    BY <1>0, <1>1, <1>2 DEF SkipInv
  <2>6. QED
    BY <2>2, <2>3, <2>4, <2>5
<1>12. RepeatInv'
  <2> DEFINE Again == (InHand \cup Seen) \cap Behind(list, Horizon)
             Again1 == (InHand \cup Seen) \cap Behind(list', Horizon)
  <2>1. Again1 \subseteq Again
    BY <1>4
  <2>2. IsFiniteSet(Again) /\ Cardinality(Again) \in Nat
    <3>1. Again \subseteq Ever
      BY <1>0 DEF PageInv
    <3>2. QED
      BY <1>1, <3>1
  <2>3. Cardinality(Again1) <= Cardinality(Again) /\ Cardinality(Again1) \in Nat
    <3> HIDE DEF Again, Again1
    <3>1. QED
      BY <2>1, <2>2, Smaller, FS_CardinalityType
  <2>4. Created' = Created /\ Created \in Int
    BY <1>0, <1>2, <1>6, Finite DEF Created
  <2>5. Repeats' = Repeats /\ Repeats \in Int
    BY <1>0, <1>1, <1>2, Finite DEF Repeats, PageInv, Seen
  <2>6. Cardinality(InHand \cap Seen) \in Nat
    BY <1>0, <1>1 DEF PageInv
  <2>7. Repeats + Cardinality(InHand \cap Seen) + Cardinality(Again) <= Created
    BY <1>0 DEF RepeatInv
  <2>8. Again1 = ((InHand \cup Seen) \cap Behind(list, Horizon))'
    BY <1>10
  <2> HIDE DEF Again, Again1
  <2>9. Repeats + Cardinality(InHand \cap Seen) + Cardinality(Again1) <= Created
    BY <2>2, <2>3, <2>4, <2>5, <2>6, <2>7
  <2>10. QED
    BY <1>10, <2>4, <2>5, <2>8, <2>9 DEF RepeatInv
<1>13. EachDeletionCostsOneRow'
  BY <1>2 DEF EachDeletionCostsOneRow, Ended
<1>14. QED
  BY <1>7, <1>8, <1>9, <1>11, <1>12, <1>13 DEF IInv

-----------------------------------------------------------------------------
(* The walk *)

(* A page is empty only behind the last row, and never longer than the list.  *)
LEMMA PageLengthsBound ==
  ASSUME TypeOK, NEW n \in PageLengths
  PROVE  /\ n \in Nat /\ (n > 0 => offset + n <= Len(list))
         /\ n = 0 /\ cap # 0 => Len(list) <= offset
<1> DEFINE rest == Max({0, Len(list) - offset})
<1>1. Len(list) \in Nat /\ offset \in Nat
  BY DEF TypeOK
<1>2. rest = IF 0 >= Len(list) - offset THEN 0 ELSE Len(list) - offset
  BY <1>1, MaxOfTwo
<1>3. pageSize \in Nat /\ (cap # 0 => pageSize # 0)
  <2>1. CASE cap = None
    BY <2>1, ConstantsAssumption DEF pageSize
  <2>2. CASE cap # None
    <3>1. cap \in Nat /\ PageLimit \in Nat \ {0}
      BY <2>2, ConstantsAssumption DEF TypeOK
    <3>2. pageSize = IF cap <= PageLimit THEN cap ELSE PageLimit
      BY <2>2, <3>1, MinOfTwo DEF pageSize
    <3>3. QED
      BY <3>1, <3>2
  <2>3. QED
    BY <2>1, <2>2
<1>4. n \in IF rest = 0 THEN {0} ELSE IF pageSize = 0 THEN 0 .. rest
            ELSE 1 .. Min({pageSize, rest})
  BY DEF PageLengths
<1> HIDE DEF rest
<1>5. rest \in Nat
  BY <1>1, <1>2
<1>6. Min({pageSize, rest}) <= rest /\ Min({pageSize, rest}) \in Nat
  BY <1>3, <1>5, MinOfTwo
<1>7. QED
  BY <1>1, <1>2, <1>3, <1>4, <1>5, <1>6

Stretch(t, s, o, n) == t = SubSeq(s, o + 1, o + n)

(* A page is a stretch of the list: it takes the walk from o on to o + n.    *)
LEMMA PageRows ==
  ASSUME NEW S, NEW s \in Seq(S), Injective(s), NEW o \in Nat, NEW n \in Nat,
         n > 0 => o + n <= Len(s), NEW t, Stretch(t, s, o, n)
  PROVE  /\ t \in Seq(S) /\ Injective(t) /\ ToSet(t) \subseteq ToSet(s)
         /\ Upto(s, o + n) \subseteq Upto(s, o) \cup ToSet(t)
         /\ ToSet(t) \cap Behind(s, o + n) = {}
         /\ ToSet(t) \cup Behind(s, o + n) \subseteq Behind(s, o)
<1>1. /\ t \in Seq(S) /\ Len(t) = n /\ DOMAIN t = 1 .. n
      /\ \A j \in 1 .. n : t[j] = s[o + j]
  <2>1. (\A i \in o + 1 .. o + n : s[i] \in S) /\ t = SubSeq(s, o + 1, o + n)
    BY DEF Stretch
  <2>2. /\ t \in Seq(S) /\ Len(t) = IF o + 1 <= o + n THEN o + n - (o + 1) + 1 ELSE 0
        /\ \A j \in 1 .. o + n - (o + 1) + 1 : t[j] = s[o + 1 + j - 1]
    BY <2>1, SubSeqProperties
  <2>3. QED
    BY <2>2
<1>2. DOMAIN s = 1 .. Len(s) /\ Len(s) \in Nat
  OBVIOUS
<1>3. ASSUME NEW j \in 1 .. n
      PROVE  o + j \in DOMAIN s /\ t[j] = s[o + j] /\ o + j > o /\ o + j <= o + n
  BY <1>1, <1>2
<1>4. Injective(t)
  <2> SUFFICES ASSUME NEW a \in 1 .. n, NEW b \in 1 .. n, t[a] = t[b]
               PROVE  a = b
    BY <1>1 DEF Injective
  <2>1. o + a = o + b
    BY <1>3 DEF Injective
  <2>2. QED
    BY <2>1
<1>5. ToSet(t) \subseteq ToSet(s) /\ ToSet(t) \subseteq Behind(s, o)
  BY <1>1, <1>3 DEF ToSet, Behind
<1>6. Upto(s, o + n) \subseteq Upto(s, o) \cup ToSet(t)
  <2> SUFFICES ASSUME NEW i \in DOMAIN s, i <= o + n, ~ (i <= o)
               PROVE  s[i] \in ToSet(t)
    BY DEF Upto
  <2>1. i - o \in 1 .. n /\ o + (i - o) = i
    BY <1>2
  <2>2. QED
    BY <1>1, <2>1 DEF ToSet
<1>7. ToSet(t) \cap Behind(s, o + n) = {}
  <2>1. ASSUME NEW j \in 1 .. n, NEW i \in DOMAIN s, i > o + n
        PROVE  t[j] # s[i]
    <3>1. o + j \in DOMAIN s /\ t[j] = s[o + j] /\ o + j # i
      BY <1>2, <1>3, <2>1
    <3>2. QED
      BY <3>1 DEF Injective
  <2>2. QED
    BY <1>1, <2>1 DEF ToSet, Behind
<1>8. Behind(s, o + n) \subseteq Behind(s, o)
  BY <1>2 DEF Behind
<1>9. QED
  BY <1>1, <1>4, <1>5, <1>6, <1>7, <1>8

LEMMA Disjoint ==
  ASSUME NEW C, IsFiniteSet(C), NEW A, NEW B, A \cup B \subseteq C, A \cap B = {}
  PROVE  Cardinality(A) + Cardinality(B) <= Cardinality(C)
<1>1. IsFiniteSet(A) /\ IsFiniteSet(B) /\ IsFiniteSet(A \cup B)
  BY FS_Subset
<1>2. Cardinality(A \cup B) = Cardinality(A) + Cardinality(B) - Cardinality(A \cap B)
  BY <1>1, FS_Union
<1>3. Cardinality(A \cap B) = 0
  BY FS_EmptySet
<1>4. Cardinality(A \cup B) <= Cardinality(C)
  BY <1>1, FS_Subset
<1>5. Cardinality(A) \in Nat /\ Cardinality(B) \in Nat
  BY <1>1, FS_CardinalityType
<1>6. QED
  BY <1>2, <1>3, <1>4, <1>5

LEMMA EmptyPage ==
  /\ NoPage.items = <<>> /\ NoPage.size = 0 /\ NoPage.total = None
  /\ NoPage \in PageType /\ Injective(NoPage.items) /\ ToSet(NoPage.items) = {}
BY ConstantsAssumption DEF NoPage, PageType, Injective, ToSet

(* Rows that were there all along are in the list.                           *)
LEMMA MissedListed == RowsInv /\ initial \in Nat => Missed \subseteq ToSet(list)
<1> SUFFICES ASSUME RowsInv, initial \in Nat, NEW x \in Missed PROVE x \in ToSet(list)
  OBVIOUS
<1>1. x \in 1 .. initial /\ x \notin deleted
  BY DEF Missed
<1>2. 1 .. initial \subseteq Ever
  BY DEF RowsInv
<1>3. QED
  BY <1>1, <1>2 DEF Ever

(* The first page of an endpoint that has no pages is the list.              *)
LEMMA WholeKeeps ==
  ASSUME IInv, RequestPage, shape = "whole"
  PROVE  IInv'
<1>0. TypeOK /\ RowsInv /\ PageInv /\ SkipInv /\ RepeatInv
  BY DEF IInv
<1>1. /\ phase' = "page" /\ UNCHANGED <<list, deleted, initial, shape, cap, offset, yielded>>
      /\ page' = [items |-> list, size |-> Len(list), total |-> None]
      /\ offset = 0 /\ yielded = <<>>
  BY <1>0 DEF RequestPage, extractPage, listVars, fixedVars, PageInv
<1>2. /\ Cardinality(Ever) \in Nat /\ initial \in Nat
      /\ ToSet(list) \subseteq Ever /\ Missed \subseteq ToSet(list)
  BY <1>0, Finite, MissedListed
<1>3. Len(list) \in 0 .. MaxRows
  BY <1>0, ListShort
<1>4. TypeOK'
  BY <1>0, <1>1, <1>3 DEF TypeOK
<1>5. RowsInv'
  BY <1>0, <1>1 DEF RowsInv, Ever
<1>6. InHand' = ToSet(list) /\ Seen' = {} /\ Horizon' = Len(list) /\ LastPage'
  BY <1>1, <1>3 DEF InHand, Seen, Horizon, LastPage, ToSet
<1>7. PageInv'
  BY <1>0, <1>1, <1>2, <1>3, <1>6, EmptyPage DEF PageInv, PageType, RowsInv, Ever, TypeOK
<1>8. SkipInv'
  <2>1. Passed' = {}
    BY <1>1, <1>2, <1>6 DEF Passed, Missed
  <2>2. Cardinality(deleted) \in Nat
    BY <1>0, Finite
  <2>3. QED
    BY <1>1, <2>1, <2>2, FS_EmptySet DEF SkipInv
<1>9. RepeatInv'
  <2>1. Repeats' = 0
    <3>1. Len(yielded') = 0 /\ Cardinality(Seen') = 0
      BY <1>1, <1>6, FS_EmptySet
    <3>2. QED
      BY <3>1 DEF Repeats, Seen
  <2>2. Behind(list, Len(list)) = {}
    BY <1>0 DEF Behind, TypeOK
  <2>3. Created' >= 0
    BY <1>0, <1>1, <1>2 DEF Created, RowsInv, Ever
  <2>4. (InHand \cap Seen)' = {} /\ ((InHand \cup Seen) \cap Behind(list, Horizon))' = {}
    BY <1>1, <1>6, <2>2
  <2>5. QED
    BY <2>1, <2>3, <2>4, FS_EmptySet DEF RepeatInv
<1>10. EachDeletionCostsOneRow'
  BY <1>1 DEF EachDeletionCostsOneRow
<1>11. QED
  BY <1>4, <1>5, <1>7, <1>8, <1>9, <1>10 DEF IInv

(* The rows of a page come off the ones ahead; no row that the walk had not    *)
(* passed before is passed now, and the end is reached with the last row.    *)
LEMMA PagedKeeps ==
  ASSUME IInv, RequestPage, shape # "whole"
  PROVE  IInv'
<1>0. TypeOK /\ RowsInv /\ PageInv /\ SkipInv /\ RepeatInv
  BY DEF IInv
<1>1. PICK n \in PageLengths : page' = extractPage(n)
  BY DEF RequestPage
<1>2. /\ phase' = "page" /\ phase = "request"
      /\ UNCHANGED <<list, deleted, initial, shape, cap, offset, yielded>>
      /\ page' = [items |-> SubSeq(list, offset + 1, offset + n),
                  size |-> n, total |-> IF shape = "paged" THEN Len(list) ELSE None]
      /\ page = NoPage
  BY <1>0, <1>1 DEF RequestPage, extractPage, listVars, fixedVars, PageInv
<1>3. /\ Cardinality(Ever) \in Nat /\ initial \in Nat /\ Len(yielded) \in Nat
      /\ ToSet(list) \subseteq Ever /\ Missed \subseteq ToSet(list)
      /\ \A S : S \subseteq Ever => IsFiniteSet(S) /\ Cardinality(S) \in Nat
  BY <1>0, Finite, MissedListed
<1>4. /\ n \in Nat /\ (n > 0 => offset + n <= Len(list))
      /\ n = 0 /\ cap # 0 => Len(list) <= offset
  BY <1>0, PageLengthsBound
<1>5. /\ offset \in 0 .. MaxRows /\ offset \in Nat
      /\ Len(list) \in 0 .. MaxRows /\ n \in 0 .. MaxRows
  <2>1. offset \in 0 .. MaxRows /\ offset \in Nat
    BY <1>0, ConstantsAssumption DEF TypeOK
  <2>2. Len(list) \in 0 .. MaxRows
    BY <1>0, ListShort
  <2>3. n \in 0 .. MaxRows
    <3>1. MaxRows \in Nat /\ n \in Nat
      BY <1>4, ConstantsAssumption
    <3>2. n = 0 \/ offset + n <= Len(list)
      BY <1>4, <3>1
    <3>3. QED
      BY <2>1, <2>2, <3>1, <3>2
  <2>4. QED
    BY <2>1, <2>2, <2>3
<1>6. /\ page'.items \in Seq(Rows) /\ Injective(page'.items) /\ InHand' \subseteq ToSet(list)
      /\ Upto(list, offset + n) \subseteq Upto(list, offset) \cup InHand'
      /\ InHand' \cap Behind(list, offset + n) = {}
      /\ InHand' \cup Behind(list, offset + n) \subseteq Behind(list, offset)
  <2>1. list \in Seq(Rows) /\ Injective(list)
    BY <1>0, ListTyped DEF RowsInv
  <2>2. Stretch(page'.items, list, offset, n) /\ InHand' = ToSet(page'.items)
    BY <1>2 DEF InHand, Stretch
  <2>3. n \in Nat /\ offset \in Nat /\ (n > 0 => offset + n <= Len(list))
    BY <1>4, <1>5
  <2>4. QED
    BY <2>1, <2>2, <2>3, PageRows
<1>7. TypeOK'
  BY <1>0, <1>2, <1>5, <1>6 DEF TypeOK, Rows
<1>8. RowsInv'
  BY <1>0, <1>2 DEF RowsInv, Ever
<1>9. PageInv'
  <2>1. page' \in PageType
    BY <1>2, <1>5, <1>6 DEF PageType, Rows
  <2>2. Ever' = Ever /\ Seen' = Seen
    BY <1>2 DEF Ever, Seen
  <2>3. QED
    BY <1>0, <1>2, <1>3, <1>6, <2>1, <2>2 DEF PageInv
<1>10. /\ InHand = {} /\ Horizon = offset /\ Horizon' = offset + n /\ Missed' = Missed
       /\ Seen' = Seen
  BY <1>2, <1>5, EmptyPage DEF InHand, Horizon, Missed, Seen
<1>11. SkipInv'
  <2> SUFFICES ASSUME cap # 0, shape # "untotalled"
               PROVE  Cardinality(Passed') <= Cardinality(deleted)
    BY <1>2 DEF SkipInv
  <2>1. Passed = Missed \cap Upto(list, offset)
    BY <1>2, <1>10 DEF Passed
  <2>2. (Missed \ InHand') \cap Upto(list, offset + n) \subseteq Passed
    BY <1>6, <2>1
  <2>3. CASE LastPage'
    <3>1. Len(list) <= offset + n
      <4>1. Len(list) # None
        BY <1>5, ConstantsAssumption
      <4>2. n = 0 \/ offset + n >= Len(list)
        <5>1. shape = "paged"
          BY <1>0 DEF TypeOK, Shapes
        <5>2. QED
          BY <1>2, <2>3, <4>1, <5>1 DEF LastPage
      <4>3. QED
        BY <1>4, <1>5, <4>2
    <3>2. ToSet(list) \subseteq Upto(list, offset + n)
      BY <1>0, <1>5, <3>1, ListTyped DEF ToSet, Upto
    <3>3. Passed' = Missed \ InHand'
      BY <1>2, <1>10, <2>3 DEF Passed
    <3>4. QED
      BY <1>3, <2>2, <3>2, <3>3, PassedSmaller, <1>0, <1>2 DEF Ended
  <2>4. CASE ~ LastPage'
    <3>1. Passed' = (Missed \ InHand') \cap Upto(list, offset + n)
      BY <1>2, <1>10, <2>4 DEF Passed
    <3>2. QED
      BY <2>2, <3>1, PassedSmaller, <1>0, <1>2 DEF Ended
  <2>5. QED
    BY <2>3, <2>4
<1>12. RepeatInv'
  <2> DEFINE Again == Seen \cap Behind(list, offset)
             Now == InHand' \cap Seen
             Later == Seen \cap Behind(list, offset + n)
  <2>1. Now \cup Later \subseteq Again /\ Now \cap Later = {}
    BY <1>6
  <2>2. IsFiniteSet(Again) /\ Cardinality(Again) \in Nat
    BY <1>0, <1>3 DEF PageInv
  <2>3. Now \subseteq Ever /\ Later \subseteq Ever
    BY <1>0 DEF PageInv
  <2>4. Cardinality(Now) \in Nat /\ Cardinality(Later) \in Nat
    BY <1>3, <2>3
  <2>5. InHand \cap Seen = {} /\ (InHand \cup Seen) \cap Behind(list, Horizon) = Again
    BY <1>10
  <2>6. (InHand \cap Seen)' = Now /\ ((InHand \cup Seen) \cap Behind(list, Horizon))' = Later
    BY <1>2, <1>6, <1>10
  <2>7. Cardinality({}) = 0
    BY FS_EmptySet
  <2>8. Repeats' = Repeats /\ Repeats \in Int /\ Created' = Created /\ Created \in Int
    BY <1>0, <1>2, <1>3, Finite DEF Repeats, Created, PageInv, Seen, Ever
  <2> HIDE DEF Again, Now, Later
  <2>9. Cardinality(Now) + Cardinality(Later) <= Cardinality(Again)
    BY <2>1, <2>2, Disjoint
  <2>10. Repeats + 0 + Cardinality(Again) <= Created
    BY <1>0, <2>5, <2>7 DEF RepeatInv
  <2>11. Repeats + Cardinality(Now) + Cardinality(Later) <= Created
    BY <2>2, <2>4, <2>8, <2>9, <2>10
  <2>12. QED
    BY <2>6, <2>8, <2>11 DEF RepeatInv
<1>13. EachDeletionCostsOneRow'
  BY <1>2 DEF EachDeletionCostsOneRow
<1>14. QED
  BY <1>7, <1>8, <1>9, <1>11, <1>12, <1>13 DEF IInv

(* x was taken from the front of s, added behind s; t is left.               *)
Popped(s, x, t) == x = Head(s) /\ t = Tail(s)
Pushed(s, x, t) == t = Append(s, x)

LEMMA HeadAndTail ==
  ASSUME NEW S, NEW s \in Seq(S), s # <<>>, Injective(s), NEW t, NEW x, Popped(s, x, t)
  PROVE  /\ t \in Seq(S) /\ Injective(t) /\ x \in S
         /\ ToSet(s) = ToSet(t) \cup {x} /\ x \notin ToSet(t)
<1>1. /\ t \in Seq(S) /\ Len(t) = Len(s) - 1 /\ x = s[1] /\ x \in S
      /\ \A j \in 1 .. Len(t) : t[j] = s[j + 1]
  BY DEF Popped
<1>2. Len(s) \in Nat \ {0} /\ DOMAIN s = 1 .. Len(s) /\ DOMAIN t = 1 .. Len(t)
  BY <1>1
<1>3. ASSUME NEW j \in DOMAIN t
      PROVE  t[j] = s[j + 1] /\ j + 1 \in DOMAIN s /\ j + 1 # 1
  BY <1>1, <1>2
<1>4. Injective(t)
  <2> SUFFICES ASSUME NEW a \in DOMAIN t, NEW b \in DOMAIN t, t[a] = t[b]
               PROVE  a = b
    BY DEF Injective
  <2>1. a + 1 = b + 1
    BY <1>3 DEF Injective
  <2>2. QED
    BY <1>2, <2>1
<1>5. x \notin ToSet(t)
  BY <1>1, <1>2, <1>3 DEF ToSet, Injective
<1>6. ToSet(s) = ToSet(t) \cup {x}
  <2>1. ASSUME NEW i \in DOMAIN s, i # 1
        PROVE  s[i] \in ToSet(t)
    <3>1. i - 1 \in DOMAIN t /\ s[i] = t[i - 1]
      BY <1>1, <1>2, <2>1
    <3>2. QED
      BY <3>1 DEF ToSet
  <2>2. 1 \in DOMAIN s /\ s[1] = x
    BY <1>1, <1>2
  <2>3. ToSet(t) \subseteq ToSet(s) /\ x \in ToSet(s)
    BY <1>3, <2>2 DEF ToSet
  <2>4. \A i \in DOMAIN s : s[i] \in ToSet(t) \cup {x}
    BY <2>1, <2>2
  <2>5. ToSet(s) \subseteq ToSet(t) \cup {x}
    BY <2>4 DEF ToSet
  <2>6. QED
    BY <2>3, <2>5
<1>7. QED
  BY <1>1, <1>4, <1>5, <1>6

LEMMA AppendAdds ==
  ASSUME NEW S, NEW s \in Seq(S), NEW x \in S, NEW t, Pushed(s, x, t)
  PROVE  t \in Seq(S) /\ Len(t) = Len(s) + 1 /\ ToSet(t) = ToSet(s) \cup {x}
<1>1. /\ t \in Seq(S) /\ Len(t) = Len(s) + 1 /\ Len(s) \in Nat
      /\ DOMAIN s = 1 .. Len(s) /\ DOMAIN t = 1 .. Len(s) + 1
      /\ \A j \in 1 .. Len(s) : t[j] = s[j]
      /\ t[Len(s) + 1] = x
  BY AppendProperties DEF Pushed
<1>2. ASSUME NEW j \in DOMAIN t
      PROVE  t[j] \in ToSet(s) \cup {x}
  <2>1. j \in DOMAIN s \/ j = Len(s) + 1
    BY <1>1
  <2>2. QED
    BY <1>1, <2>1 DEF ToSet
<1>3. ToSet(s) \subseteq ToSet(t)
  <2>1. ASSUME NEW j \in DOMAIN s
        PROVE  j \in DOMAIN t /\ t[j] = s[j]
    BY <1>1
  <2>2. QED
    BY <2>1 DEF ToSet
<1>4. x \in ToSet(t)
  <2>1. Len(s) + 1 \in DOMAIN t
    BY <1>1
  <2>2. QED
    BY <1>1, <2>1 DEF ToSet
<1>5. QED
  BY <1>1, <1>2, <1>3, <1>4 DEF ToSet

(* A row handed out goes from the page to the rows yielded, and is a repeat if *)
(* it was one of the repeats in the page.                                    *)
LEMMA TakeKeeps ==
  ASSUME IInv, Take
  PROVE  IInv'
<1>0. TypeOK /\ RowsInv /\ PageInv /\ SkipInv /\ RepeatInv
  BY DEF IInv
<1> DEFINE x == Head(page.items)
<1>1. /\ phase = "page" /\ page.items # <<>>
      /\ UNCHANGED <<list, deleted, initial, shape, cap, offset>>
      /\ yielded' = Append(yielded, x)
      /\ phase' = IF CapReached THEN "done" ELSE "page"
  BY DEF Take, listVars, fixedVars
<1>2. /\ page' = [items |-> Tail(page.items), size |-> page.size, total |-> page.total]
      /\ page.items \in Seq(Rows) /\ page.size \in 0 .. MaxRows
      /\ page.total \in (0 .. MaxRows) \cup {None}
  BY <1>0 DEF Take, PageInv, PageType, Rows
<1> HIDE DEF x
<1>3. /\ page'.items \in Seq(Rows) /\ Injective(page'.items) /\ x \in Rows
      /\ InHand = InHand' \cup {x} /\ x \notin InHand'
  <2>1. Injective(page.items) /\ Popped(page.items, x, page'.items)
    BY <1>0, <1>2 DEF PageInv, x, Popped
  <2>2. QED
    BY <1>1, <1>2, <2>1, HeadAndTail DEF InHand
<1>4. yielded' \in Seq(Rows) /\ Len(yielded') = Len(yielded) + 1 /\ Seen' = Seen \cup {x}
  <2>1. yielded \in Seq(Rows) /\ Pushed(yielded, x, yielded')
    BY <1>0, <1>1 DEF TypeOK, Rows, Pushed
  <2>2. QED
    BY <1>3, <2>1, AppendAdds DEF Seen
<1>5. /\ Cardinality(Ever) \in Nat /\ initial \in Nat /\ Len(yielded) \in Nat
      /\ \A S : S \subseteq Ever => IsFiniteSet(S) /\ Cardinality(S) \in Nat
      /\ Ever' = Ever
  BY <1>0, <1>1, Finite DEF Ever
<1>6. TypeOK'
  BY <1>0, <1>1, <1>2, <1>3, <1>4 DEF TypeOK, Rows
<1>7. RowsInv'
  BY <1>0, <1>1, <1>5 DEF RowsInv
<1>8. PageInv'
  <2>1. page' \in PageType
    BY <1>2, <1>3 DEF PageType, Rows
  <2>2. InHand' \subseteq Ever /\ Seen' \subseteq Ever
    BY <1>0, <1>3, <1>4 DEF PageInv
  <2>3. phase' # "request" /\ page'.total = page.total
    BY <1>1, <1>2
  <2>4. QED
    BY <1>0, <1>1, <1>3, <1>5, <2>1, <2>2, <2>3 DEF PageInv
<1>9. UNCHANGED <<Horizon, LastPage>>
  BY <1>1, <1>2 DEF Horizon, LastPage
<1>10. SkipInv'
  <2> SUFFICES ASSUME phase' = "page", cap # 0, shape # "untotalled"
               PROVE  Cardinality(Passed') <= Cardinality(deleted)
    BY <1>1 DEF SkipInv, Ended
  <2>1. Missed' = Missed \ {x}
    BY <1>1, <1>4 DEF Missed, Seen
  <2>2. Missed' \ InHand' = Missed \ InHand
    BY <1>3, <2>1
  <2>3. Passed' = Passed
    BY <1>1, <1>9, <2>2 DEF Passed
  <2>4. QED
    BY <1>0, <1>1, <2>3 DEF SkipInv, Ended
<1>11. RepeatInv'
  <2> DEFINE Dup == InHand \cap Seen
             Dup1 == InHand' \cap Seen'
             Again == (InHand \cup Seen) \cap Behind(list, Horizon)
  <2>1. Dup1 = Dup \ {x} /\ (x \in Dup <=> x \in Seen)
    BY <1>3, <1>4
  <2>2. InHand' \cup Seen' = InHand \cup Seen
    BY <1>3, <1>4
  <2>3. ((InHand \cup Seen) \cap Behind(list, Horizon))' = Again
    BY <1>1, <1>9, <2>2
  <2>4. Dup \subseteq Ever /\ Again \subseteq Ever /\ Seen \subseteq Ever
    BY <1>0 DEF PageInv
  <2>5. /\ IsFiniteSet(Dup) /\ IsFiniteSet(Seen) /\ Cardinality(Dup) \in Nat
        /\ Cardinality(Again) \in Nat /\ Cardinality(Seen) \in Nat
    BY <1>5, <2>4
  <2>6. Repeats + Cardinality(Dup) + Cardinality(Again) <= Created
    BY <1>0 DEF RepeatInv
  <2>7. Created' = Created /\ Created \in Int
    BY <1>1, <1>5 DEF Created
  <2> HIDE DEF Dup, Dup1, Again
  <2>8. Cardinality(Dup1) = IF x \in Dup THEN Cardinality(Dup) - 1 ELSE Cardinality(Dup)
    BY <2>1, <2>5, FS_RemoveElement
  <2>9. Cardinality(Seen') = IF x \in Seen THEN Cardinality(Seen) ELSE Cardinality(Seen) + 1
    BY <1>4, <2>5, FS_AddElement
  <2> DEFINE old == Len(yielded)
             new == Len(yielded')
  <2>10. /\ Repeats = old - Cardinality(Seen) /\ Repeats' = new - Cardinality(Seen')
         /\ new = old + 1 /\ old \in Nat
    BY <1>4, <1>5 DEF Repeats, Seen
  <2> HIDE DEF old, new
  <2>11. Repeats' + Cardinality(Dup1) + Cardinality(Again) <= Created'
    <3>1. Cardinality(Seen') \in Nat /\ Cardinality(Dup1) \in Int
      BY <2>5, <2>8, <2>9
    <3>2. Cardinality(Dup1) - Cardinality(Seen') = Cardinality(Dup) - Cardinality(Seen) - 1
      BY <2>1, <2>5, <2>8, <2>9
    <3>3. QED
      BY <2>5, <2>6, <2>7, <2>10, <3>1, <3>2
  <2>12. QED
    BY <2>3, <2>11 DEF RepeatInv, Dup1
<1>12. EachDeletionCostsOneRow'
  <2> SUFFICES ASSUME phase' = "done", cap = None \/ Len(yielded') < cap
               PROVE  FALSE
    BY <1>1 DEF EachDeletionCostsOneRow
  <2>1. cap # None /\ Len(yielded) + 1 >= cap
    BY <1>1 DEF CapReached
  <2>2. cap \in Nat
    BY <1>0, <2>1, ConstantsAssumption DEF TypeOK
  <2>3. QED
    BY <1>4, <1>5, <2>1, <2>2
<1>13. QED
  BY <1>6, <1>7, <1>8, <1>10, <1>11, <1>12 DEF IInv

(* Of a page that is used up nothing is in hand.  The end finds the rows that  *)
(* the walk has passed to be all that were missed; the next page begins where *)
(* this one ended.                                                           *)
LEMMA NextPageKeeps ==
  ASSUME IInv, NextPage
  PROVE  IInv'
<1>0. TypeOK /\ RowsInv /\ PageInv /\ SkipInv /\ RepeatInv
  BY DEF IInv
<1>1. /\ phase = "page" /\ page.items = <<>>
      /\ UNCHANGED <<list, deleted, initial, shape, cap, yielded>>
      /\ IF LastPage THEN phase' = "done" /\ UNCHANGED <<offset, page>>
         ELSE phase' = "request" /\ offset' = Horizon /\ page' = NoPage
  BY DEF NextPage, listVars, fixedVars, Advance, Horizon
<1>2. InHand = {}
  BY <1>1 DEF InHand, ToSet
<1>3. /\ page.size \in 0 .. MaxRows /\ page.total \in (0 .. MaxRows) \cup {None}
      /\ offset \in 0 .. MaxRows
  BY <1>0 DEF PageInv, PageType, TypeOK
<1>4. UNCHANGED <<Ever, Missed, Seen, Repeats, Created>>
  BY <1>1 DEF Ever, Missed, Seen, Repeats, Created
<1>5. RowsInv'
  BY <1>0, <1>1, <1>4 DEF RowsInv
<1>6. CASE LastPage
  <2>1. phase' = "done" /\ UNCHANGED <<offset, page, InHand, Horizon>>
    BY <1>1, <1>6 DEF InHand, Horizon
  <2>2. TypeOK' /\ PageInv'
    BY <1>0, <1>1, <1>4, <2>1 DEF TypeOK, PageInv
  <2>3. SkipInv'
    BY <2>1 DEF SkipInv, Ended
  <2>4. RepeatInv'
    BY <1>0, <1>1, <1>4, <2>1 DEF RepeatInv
  <2>5. EachDeletionCostsOneRow'
    <3> SUFFICES ASSUME cap = None \/ Len(yielded) < cap, shape # "untotalled"
                 PROVE  Cardinality(Missed) <= Cardinality(deleted)
      BY <1>1, <1>4 DEF EachDeletionCostsOneRow
    <3>1. cap # 0
      BY <1>0, ConstantsAssumption, Finite
    <3>2. Passed = Missed
      BY <1>1, <1>2, <1>6 DEF Passed
    <3>3. QED
      BY <1>0, <1>1, <3>1, <3>2 DEF SkipInv, Ended
  <2>6. QED
    BY <1>5, <2>2, <2>3, <2>4, <2>5 DEF IInv
<1>7. CASE ~ LastPage
  <2>1. phase' = "request" /\ offset' = Horizon /\ page' = NoPage
    BY <1>1, <1>7
  <2>2. page.total # None /\ Horizon \in 0 .. MaxRows
    BY <1>3, <1>7, ConstantsAssumption DEF LastPage, Horizon
  <2>3. shape = "paged"
    BY <1>0, <1>1, <2>2 DEF PageInv
  <2>4. Horizon' = Horizon /\ InHand' = {}
    BY <2>1, <2>2, EmptyPage DEF Horizon, InHand
  <2>5. TypeOK'
    BY <1>0, <1>1, <2>1, <2>2, ConstantsAssumption DEF TypeOK, NoPage
  <2>6. PageInv'
    BY <1>0, <1>1, <1>4, <2>1, <2>3, <2>4, EmptyPage DEF PageInv
  <2>7. Passed' = Passed
    BY <1>1, <1>2, <1>4, <1>7, <2>1, <2>4 DEF Passed
  <2>8. SkipInv'
    BY <1>0, <1>1, <2>1, <2>7 DEF SkipInv, Ended
  <2>9. RepeatInv'
    BY <1>0, <1>1, <1>2, <1>4, <2>4 DEF RepeatInv
  <2>10. EachDeletionCostsOneRow'
    BY <2>1 DEF EachDeletionCostsOneRow
  <2>11. QED
    BY <1>5, <2>5, <2>6, <2>8, <2>9, <2>10 DEF IInv
<1>8. QED
  BY <1>6, <1>7

(* A walk cut short promises nothing, and what it repeated it has repeated.   *)
LEMMA EndKeeps ==
  ASSUME IInv, RequestFails \/ Stop
  PROVE  IInv'
<1>0. TypeOK /\ RowsInv /\ PageInv /\ RepeatInv
  BY DEF IInv
<1>1. /\ phase' \in {"failed", "stopped"}
      /\ UNCHANGED <<list, deleted, initial, shape, cap, offset, page, yielded>>
  BY DEF RequestFails, Stop, listVars, fixedVars
<1>2. UNCHANGED <<Ever, Seen, InHand, Horizon, Repeats, Created>>
  BY <1>1 DEF Ever, Seen, InHand, Horizon, Repeats, Created
<1>3. TypeOK' /\ RowsInv' /\ PageInv' /\ RepeatInv'
  BY <1>0, <1>1, <1>2 DEF TypeOK, RowsInv, PageInv, RepeatInv
<1>4. SkipInv' /\ EachDeletionCostsOneRow'
  BY <1>1 DEF SkipInv, Ended, EachDeletionCostsOneRow
<1>5. QED
  BY <1>3, <1>4 DEF IInv

LEMMA StutterKeeps ==
  ASSUME IInv, UNCHANGED vars
  PROVE  IInv'
<1>1. UNCHANGED <<list, deleted, initial, shape, cap, phase, offset, page, yielded>>
  BY DEF vars, listVars, fixedVars
<1>2. UNCHANGED <<Ever, Seen, Missed, InHand, Horizon, LastPage, Ended, Repeats, Created>>
  BY <1>1 DEF Ever, Seen, Missed, InHand, Horizon, LastPage, Ended, Repeats, Created
<1>3. UNCHANGED Passed
  BY <1>1, <1>2 DEF Passed
<1>4. QED
  BY <1>1, <1>2, <1>3 DEF IInv, TypeOK, RowsInv, PageInv, SkipInv, RepeatInv,
                          EachDeletionCostsOneRow

LEMMA InitHolds == Init => IInv
<1> SUFFICES ASSUME Init
             PROVE  IInv
  OBVIOUS
<1>1. /\ initial \in 0 .. MaxRows /\ initial \in Nat /\ initial <= MaxRows
      /\ list = [i \in 1 .. initial |-> i] /\ deleted = {}
      /\ phase = "request" /\ offset = 0 /\ page = NoPage /\ yielded = <<>>
      /\ shape \in Shapes /\ cap \in Caps
  BY ConstantsAssumption DEF Init
<1>2. /\ list \in Seq(1 .. MaxRows) /\ Len(list) = initial
      /\ ToSet(list) = 1 .. initial /\ Injective(list)
  BY <1>1, ConstantsAssumption DEF ToSet, Injective
<1>3. Ever = 1 .. initial /\ Cardinality(Ever) = initial
  BY <1>1, <1>2, FS_Interval DEF Ever
<1>4. InHand = {} /\ Seen = {} /\ Horizon = 0 /\ Len(yielded) = 0
  BY <1>1, EmptyPage DEF InHand, Seen, Horizon, ToSet
<1>5. Cardinality({}) = 0
  BY FS_EmptySet
<1>6. TypeOK
  BY <1>1, <1>2, ConstantsAssumption DEF TypeOK, NoPage
<1>7. RowsInv
  BY <1>1, <1>2, <1>3 DEF RowsInv
<1>8. PageInv
  BY <1>1, <1>4, EmptyPage DEF PageInv
<1>9. SkipInv
  <2>1. Upto(list, 0) = {}
    BY <1>1 DEF Upto
  <2>2. Passed = {}
    BY <1>1, <1>4, <2>1 DEF Passed
  <2>3. QED
    BY <1>1, <1>5, <2>2 DEF SkipInv
<1>10. RepeatInv
  <2>1. InHand \cap Seen = {} /\ (InHand \cup Seen) \cap Behind(list, Horizon) = {}
    BY <1>4
  <2>2. Repeats = 0
    BY <1>4, <1>5 DEF Repeats, Seen
  <2>3. Created = 0
    BY <1>1, <1>3 DEF Created
  <2>4. QED
    BY <1>5, <2>1, <2>2, <2>3 DEF RepeatInv
<1>11. EachDeletionCostsOneRow
  BY <1>1 DEF EachDeletionCostsOneRow
<1>12. QED
  BY <1>6, <1>7, <1>8, <1>9, <1>10, <1>11 DEF IInv

LEMMA StepKeeps == IInv /\ [Next]_vars => IInv'
<1> SUFFICES ASSUME IInv, [Next]_vars
             PROVE  IInv'
  OBVIOUS
<1>1. CASE RequestPage
  <2>1. shape = "whole" \/ shape # "whole"
    OBVIOUS
  <2>2. QED
    BY <1>1, <2>1, PagedKeeps, WholeKeeps
<1>2. CASE RequestFails \/ Stop
  BY <1>2, EndKeeps
<1>3. CASE Take
  BY <1>3, TakeKeeps
<1>4. CASE NextPage
  BY <1>4, NextPageKeeps
<1>5. CASE Create
  BY <1>5, CreateKeeps
<1>6. CASE Delete
  BY <1>6, DeleteKeeps
<1>7. CASE UNCHANGED vars
  BY <1>7, StutterKeeps
<1>8. QED
  BY <1>1, <1>2, <1>3, <1>4, <1>5, <1>6, <1>7 DEF Next, Walk

-----------------------------------------------------------------------------
(* The theorems *)

(* In every state that iteratePages reaches: the rows are accounted for, the   *)
(* page repeats nothing, and the rows passed and to come again are counted.  *)
THEOREM Invariance == Spec => []IInv
<1>1. Init => IInv
  BY InitHolds
<1>2. IInv /\ [Next]_vars => IInv'
  BY StepKeeps
<1>3. QED
  BY <1>1, <1>2, PTL DEF Spec

(* The walk and the list stay well typed: its offset, too, never exceeds the   *)
(* number of rows there can be.                                              *)
THEOREM TypeCorrect == Spec => []TypeOK
<1>1. IInv => TypeOK
  BY DEF IInv
<1>2. QED
  BY <1>1, Invariance, PTL

(* A walk that ended short of its cap missed at most one row that was there    *)
(* all along per row deleted meanwhile, for a list of any size, pages of any  *)
(* size and whatever the server cuts off them.                               *)
THEOREM EachDeletionCostsOneRowCorrect == Spec => []EachDeletionCostsOneRow
<1>1. IInv => EachDeletionCostsOneRow
  BY DEF IInv
<1>2. QED
  BY <1>1, Invariance, PTL

(* It repeats at most one row per row created meanwhile.                      *)
THEOREM EachCreationRepeatsOneRowCorrect == Spec => []EachCreationRepeatsOneRow
<1>1. IInv => EachCreationRepeatsOneRow
  <2> SUFFICES ASSUME IInv
               PROVE  Repeats <= Created
    BY DEF EachCreationRepeatsOneRow
  <2>1. TypeOK /\ RowsInv /\ PageInv /\ RepeatInv
    BY DEF IInv
  <2>2. InHand \cap Seen \subseteq Ever /\ Seen \subseteq Ever
        /\ (InHand \cup Seen) \cap Behind(list, Horizon) \subseteq Ever
    BY <2>1 DEF PageInv
  <2>3. /\ Cardinality(InHand \cap Seen) \in Nat /\ Cardinality(Seen) \in Nat
        /\ Cardinality((InHand \cup Seen) \cap Behind(list, Horizon)) \in Nat
    BY <2>1, <2>2, Finite
  <2>4. Repeats \in Int /\ Created \in Int
    BY <2>1, <2>3, Finite DEF Repeats, Created, Seen
  <2>5. QED
    BY <2>1, <2>3, <2>4 DEF RepeatInv
<1>2. QED
  BY <1>1, Invariance, PTL

(* As long as the walk goes on, one row more fits in its cap.                 *)
CapInv ==
  cap # None =>
    IF phase \in {"request", "page"} THEN Len(yielded) = 0 \/ Len(yielded) < cap
    ELSE Len(yielded) <= cap \/ Len(yielded) <= 1

LEMMA CapStep ==
  ASSUME TypeOK, TypeOK', CapInv, [Next]_vars
  PROVE  CapInv'
<1>1. Len(yielded) \in Nat /\ (cap # None => cap \in Nat)
  <2>1. Len(yielded) \in Nat
    BY DEF TypeOK
  <2>2. cap # None => cap \in Nat
    BY ConstantsAssumption DEF TypeOK
  <2>3. QED
    BY <2>1, <2>2
<1>2. CASE UNCHANGED <<cap, phase, yielded>>
  BY <1>2 DEF CapInv
<1>3. CASE RequestPage \/ RequestFails \/ Stop \/ NextPage
  <2>1. UNCHANGED <<cap, yielded>> /\ phase \in {"request", "page"}
    BY <1>3 DEF RequestPage, RequestFails, Stop, NextPage, fixedVars
  <2>2. QED
    BY <1>1, <2>1 DEF CapInv
<1>4. CASE Take
  <2>1. /\ phase = "page" /\ UNCHANGED cap
        /\ phase' = IF CapReached THEN "done" ELSE "page"
    BY <1>4 DEF Take, fixedVars
  <2>2. Len(yielded') = Len(yielded) + 1
    BY <1>4 DEF Take, TypeOK
  <2>3. QED
    BY <1>1, <2>1, <2>2 DEF CapInv, CapReached
<1>5. QED
  BY <1>2, <1>3, <1>4 DEF Next, Walk, Create, Delete, vars, fixedVars

(* A walk hands out at most as many rows as its cap says, or one if it says    *)
(* none, whatever pages the server answers with.                             *)
THEOREM CapKeptCorrect == Spec => []CapKept
<1>1. Init => CapInv
  BY DEF Init, CapInv
<1>2. IInv /\ IInv' /\ CapInv /\ [Next]_vars => CapInv'
  BY CapStep DEF IInv
<1>3. IInv /\ CapInv => CapKept
  <2> SUFFICES ASSUME TypeOK, CapInv, cap # None
               PROVE  Len(yielded) <= Max({cap, 1})
    BY DEF IInv, CapKept
  <2>1. Len(yielded) \in Nat /\ cap \in Nat
    BY ConstantsAssumption DEF TypeOK
  <2>2. Max({cap, 1}) = IF cap >= 1 THEN cap ELSE 1
    BY <2>1, MaxOfTwo
  <2>3. Len(yielded) <= cap \/ Len(yielded) <= 1
    BY <2>1 DEF CapInv
  <2>4. QED
    BY <2>1, <2>2, <2>3
<1>4. QED
  BY <1>1, <1>2, <1>3, Invariance, PTL DEF Spec
=============================================================================
