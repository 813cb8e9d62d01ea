--------------------------- MODULE NumberingProofs ---------------------------
(***************************************************************************)
(* Proofs about Numbering, for any number of threads, days and prefixes    *)
(* and every format: under the lock a number is new when it is inserted,   *)
(* as long as the greatest text of a day is its greatest number.           *)
(***************************************************************************)
EXTENDS Numbering, FiniteSetTheorems, WellFoundedInduction, TLAPS

(***************************************************************************)
(* The greatest element of a set of numbers, by value and as text.         *)
(***************************************************************************)
LEMMA LeastExists ==
  ASSUME NEW T \in SUBSET Nat, T # {} PROVE \E x \in T : \A y \in T : x <= y
<1>1. PICK x \in T : \A y \in T : ~(<<y, x>> \in OpToRel(<, Nat))
  BY NatLessThanWellFounded, WFMin
<1>2. \A y \in T : ~(y < x)
  BY <1>1 DEF OpToRel
<1> QED BY <1>2

Bounded(S) == \E b \in Nat : \A n \in S : n <= b

LEMMA GreatestExists ==
  ASSUME NEW T \in SUBSET Nat, T # {}, Bounded(T) PROVE \E x \in T : \A y \in T : y <= x
<1> DEFINE U == {u \in Nat : \A y \in T : y <= u}
<1>1. U \in SUBSET Nat /\ U # {}
  BY DEF Bounded
<1>2. PICK u \in U : \A v \in U : u <= v
  BY <1>1, LeastExists
<1>3. ASSUME u \notin T PROVE FALSE
  <2>1. \A y \in T : y <= u /\ y # u
    BY <1>3
  <2>2. PICK y \in T : TRUE
    OBVIOUS
  <2>3. u - 1 \in Nat /\ \A z \in T : z <= u - 1
    BY <1>1, <2>1, <2>2
  <2>4. u - 1 \in U
    BY <2>3
  <2> QED BY <1>1, <1>2, <2>4
<1> QED BY <1>3

LEMMA MaxIs ==
  ASSUME NEW T \in SUBSET Nat, T # {}, Bounded(T)
  PROVE  Max(T) \in T /\ \A y \in T : y <= Max(T)
<1>1. \E x \in T : \A y \in T : x >= y
  BY GreatestExists
<1> QED BY <1>1 DEF Max

KeyOf(k) == IF k < Full THEN k * Radix ELSE k

LEMMA KeyNat == ASSUME NEW k \in Nat PROVE KeyOf(k) \in Nat
BY NumberingConstants DEF KeyOf

LEMMA TimesGrows ==
  ASSUME NEW a \in Nat, NEW b \in Nat, NEW r \in Nat, a <= b
  PROVE  a * r <= b * r
OBVIOUS

LEMMA TimesAbove ==
  ASSUME NEW a \in Nat, NEW b \in Nat, NEW r \in Nat, a < b, 0 < r
  PROVE  a * r < b * r
OBVIOUS

LEMMA TimesWithin ==
  ASSUME NEW a \in Nat, NEW r \in Nat, 0 < r PROVE a <= a * r
OBVIOUS

LEMMA PrecedesIs ==
  ASSUME NEW m \in Nat, NEW n \in Nat
  PROVE  Precedes(m, n) <=> (KeyOf(m) < KeyOf(n) \/ (KeyOf(m) = KeyOf(n) /\ m < n))
BY DEF Precedes, KeyOf

LEMMA KeyWithin ==
  ASSUME NEW n \in Nat, NEW b \in Nat, n <= b PROVE KeyOf(n) <= b * Radix
<1>1. Radix \in Nat /\ 0 < Radix
  BY NumberingConstants
<1>2. n * Radix <= b * Radix /\ n <= n * Radix /\ n * Radix \in Nat /\ b * Radix \in Nat
  BY <1>1, TimesGrows, TimesWithin
<1> QED BY <1>2 DEF KeyOf

\* A day with orders has one whose number comes last.
LEMMA GreatestIs ==
  ASSUME NEW S \in SUBSET Nat, S # {}, Bounded(S)
  PROVE  Greatest(S) \in S /\ \A m \in S \ {Greatest(S)} : Precedes(m, Greatest(S))
<1> DEFINE K == {KeyOf(n) : n \in S}
<1>1. K \in SUBSET Nat /\ K # {}
  BY KeyNat
<1>2. Bounded(K)
  <2>1. PICK b \in Nat : \A n \in S : n <= b
    BY DEF Bounded
  <2>2. b * Radix \in Nat
    BY NumberingConstants
  <2>3. \A n \in S : KeyOf(n) <= b * Radix
    BY <2>1, KeyWithin
  <2> QED BY <2>2, <2>3 DEF Bounded
<1>3. PICK k \in K : \A y \in K : y <= k
  BY <1>1, <1>2, GreatestExists
<1> DEFINE T == {n \in S : KeyOf(n) = k}
<1>4. T \in SUBSET Nat /\ T # {} /\ Bounded(T)
  BY <1>3 DEF Bounded
<1>5. PICK g \in T : \A m \in T : m <= g
  <2> HIDE DEF T
  <2> QED BY <1>4, GreatestExists
<1>6. ASSUME NEW m \in S \ {g} PROVE Precedes(m, g)
  <2>1. KeyOf(m) \in Nat /\ KeyOf(g) = k /\ k \in Nat /\ KeyOf(m) <= k
    BY <1>1, <1>3, <1>5, KeyNat
  <2>2. KeyOf(m) = k => m < g
    BY <1>5
  <2> QED BY <2>1, <2>2, PrecedesIs
<1>7. g \in S
  BY <1>5
<1> QED BY <1>6, <1>7 DEF Greatest

LEMMA NextNat ==
  ASSUME NEW S \in SUBSET Nat, IsFiniteSet(S), Bounded(S) PROVE NextNumber(S) \in Nat
<1>1. Cardinality(S) \in Nat
  BY FS_CardinalityType
<1>2. S # {} => Greatest(S) \in Nat
  BY GreatestIs
<1> QED BY <1>1, <1>2 DEF NextNumber

\* After 1 .. k comes a number that is taken, or k + 1; and k + 1 as long as k is shorter
\* than the format allows.
LEMMA NextOfInterval ==
  ASSUME NEW k \in Nat
  PROVE  /\ NextNumber(1 .. k) \in 1 .. k + 1
         /\ k < Full => NextNumber(1 .. k) = k + 1
<1>1. CASE k = 0
  <2>1. 1 .. k = {}
    BY <1>1
  <2>2. NextNumber(1 .. k) = 1
    BY <2>1 DEF NextNumber
  <2> QED BY <1>1, <2>2
<1>2. CASE k > 0
  <2> DEFINE g == Greatest(1 .. k)
  <2>1. g \in 1 .. k /\ \A m \in (1 .. k) \ {g} : Precedes(m, g)
    <3>1. 1 .. k \in SUBSET Nat /\ 1 \in 1 .. k
      BY <1>2
    <3>2. Bounded(1 .. k)
      BY DEF Bounded
    <3>3. 1 .. k # {}
      BY <3>1
    <3> QED BY <3>1, <3>2, <3>3, GreatestIs
  <2>2. NextNumber(1 .. k) = g + 1
    <3>1. 1 \in 1 .. k /\ 0 \notin 1 .. k
      BY <1>2
    <3>2. 1 .. k # {} /\ ~(1 .. k = {})
      BY <3>1
    <3> QED BY <3>1, <3>2 DEF NextNumber
  <2> HIDE DEF g
  <2>3. ASSUME k < Full, g # k PROVE FALSE
    <3>1. Precedes(k, g)
      <4>1. k \in (1 .. k) \ {g}
        BY <1>2, <2>3
      <4> QED BY <2>1, <4>1
    <3>2. g \in Nat /\ g < k /\ Radix \in Nat /\ 0 < Radix /\ Full \in Nat
      BY <2>1, <2>3, NumberingConstants
    <3>3. g * Radix < k * Radix
      BY <3>2, TimesAbove
    <3>4. KeyOf(k) = k * Radix /\ KeyOf(g) = g * Radix
      BY <2>3, <3>2 DEF KeyOf
    <3>5. g * Radix \in Nat /\ k * Radix \in Nat
      BY <3>2
    <3> QED BY <3>1, <3>2, <3>3, <3>4, <3>5, PrecedesIs
  <2> QED BY <2>1, <2>2, <2>3
<1> QED BY <1>1, <1>2

LEMMA NextTagNat ==
  ASSUME TypeOK, NEW d \in Days, NEW p \in Prefixes
  PROVE  NextTag(d, p) \in Nat /\ \A m \in NumbersOf(d, p) : m < NextTag(d, p)
<1> DEFINE T == NumbersOf(d, p) \cup {0}
<1>1. T \in SUBSET Nat /\ T # {} /\ Bounded(T)
  BY NumberingConstants DEF NumbersOf, Bounded
<1>2. Max(T) \in T /\ \A y \in T : y <= Max(T)
  <2> HIDE DEF T
  <2> QED BY <1>1, MaxIs
<1>3. \A m \in NumbersOf(d, p) : m \in Nat /\ m <= Max(T)
  BY <1>1, <1>2
<1>4. NextTag(d, p) = Max(T) + 1
  BY DEF NextTag
<1>5. Max(T) \in Nat
  BY <1>1, <1>2
<1> HIDE DEF T
<1> QED BY <1>3, <1>4, <1>5

(***************************************************************************)
(* The inductive invariant.                                                *)
(***************************************************************************)
Counted == \A d \in Days : IsFiniteSet(issued[d]) /\ Bounded(issued[d])

Inside(r) == r.pc \in {"allocate", "insert"}

\* What a request has in hand, by where it is.
Good(r) ==
  /\ Inside(r) \/ r.pc = "lock" \/ r.attempt > 0 => r.day \in Days
  /\ Inside(r) => r.day \in holder
  /\ r.pc = "insert" /\ r.day \notin typed => r.number = NextNumber(issued[r.day])
  /\ r.attempt > 0 => r.day \in typed \/ Cardinality(issued[r.day]) >= Full
  /\ r.pc = "tag" => /\ r.day \in Days /\ r.prefix \in Prefixes
                     /\ \A m \in r.seen : m < r.first

OneInside ==
  \A v, w \in Workers :
    v # w /\ Inside(req[v]) /\ Inside(req[w]) => req[v].day # req[w].day

Inv ==
  /\ TypeOK /\ Counted /\ (\A w \in Workers : Good(req[w])) /\ OneInside
  /\ NumbersFollow /\ TagsUniqueUnlessSlipped

LEMMA Becomes ==
  ASSUME TypeOK, NEW w \in Workers, NEW r \in Request, req' = [req EXCEPT ![w] = r]
  PROVE  /\ req' \in [Workers -> Request] /\ req'[w] = r
         /\ \A v \in Workers \ {w} : req'[v] = req[v]
BY DEF TypeOK

LEMMA IdleIs ==
  /\ Idle \in Request /\ Idle.pc = "idle" /\ Idle.attempt = 0
  /\ Idle.number = 0 /\ Idle.day = NoDay
BY NumberingConstants DEF Idle, Request

LEMMA IdleGood == Good(Idle)'
BY IdleIs DEF Good, Inside

\* Requests other than w's, when no day loses an order and w inserts or unlocks nothing
\* that they rely on.
LEMMA OthersGood ==
  ASSUME Inv, Counted', NEW w \in Workers, NEW v \in Workers \ {w}, req'[v] = req[v],
         typed \subseteq typed', \A d \in Days : issued[d] \subseteq issued'[d],
         Inside(req[v]) =>
           /\ req[v].day \in holder'
           /\ issued'[req[v].day] = issued[req[v].day] \/ req[v].day \in typed'
  PROVE  Good(req[v])'
<1>1. Good(req[v]) /\ req[v] \in Request
  BY DEF Inv, TypeOK
<1>2. req[v].attempt > 0 =>
        Cardinality(issued[req[v].day]) <= Cardinality(issued'[req[v].day])
        /\ Cardinality(issued[req[v].day]) \in Nat /\ Cardinality(issued'[req[v].day]) \in Nat
  BY <1>1, FS_Subset, FS_CardinalityType DEF Good, Counted, Inv
<1>3. Full \in Nat
  BY NumberingConstants
<1>4. req[v].attempt > 0 => req[v].day \in typed' \/ Cardinality(issued'[req[v].day]) >= Full
  BY <1>1, <1>2, <1>3 DEF Good
<1> QED BY <1>1, <1>4 DEF Good, Inside

LEMMA InvKept ==
  ASSUME Inv, TypeOK', Counted', NumbersFollow', TagsUniqueUnlessSlipped',
         NEW w \in Workers, Good(req[w])',
         \A v \in Workers \ {w} : req'[v] = req[v],
         typed \subseteq typed', \A d \in Days : issued[d] \subseteq issued'[d],
         \A v \in Workers \ {w} : Inside(req[v]) =>
           /\ req[v].day \in holder'
           /\ issued'[req[v].day] = issued[req[v].day] \/ req[v].day \in typed',
         Inside(req'[w]) => \A v \in Workers \ {w} : Inside(req[v]) => req[v].day # req'[w].day
  PROVE  Inv'
<1>1. \A v \in Workers : Good(req[v])'
  BY OthersGood
<1>2. OneInside'
  BY DEF Inv, OneInside
<1> QED BY <1>1, <1>2 DEF Inv

\* A step that changes only w's request and the locks.
LEMMA RequestKept ==
  ASSUME Inv, NEW w \in Workers, NEW r \in Request, req' = [req EXCEPT ![w] = r],
         Good(r)', UNCHANGED <<issued, tags, typed, slipped, repeated>>, holder' \in SUBSET Days,
         \A v \in Workers \ {w} : Inside(req[v]) => req[v].day \in holder',
         Inside(r) => \A v \in Workers \ {w} : Inside(req[v]) => req[v].day # r.day
  PROVE  Inv'
<1>1. /\ req' \in [Workers -> Request] /\ req'[w] = r
      /\ \A v \in Workers \ {w} : req'[v] = req[v]
  BY Becomes DEF Inv
<1>2. TypeOK' /\ Counted' /\ NumbersFollow' /\ TagsUniqueUnlessSlipped'
  BY <1>1 DEF Inv, TypeOK, Counted, NumbersFollow, TagsUniqueUnlessSlipped
<1>3. Good(req[w])'
  BY <1>1 DEF Good, Inside
<1> QED BY <1>1, <1>2, <1>3, InvKept

\* The lock of w's day is no other's.
LEMMA ReleasedKeeps ==
  ASSUME Inv, NEW w \in Workers, Inside(req[w])
  PROVE  /\ Released(req[w].day) \in SUBSET Days
         /\ \A v \in Workers \ {w} : Inside(req[v]) => req[v].day \in Released(req[w].day)
BY DEF Inv, TypeOK, Good, OneInside, Released

LEMMA CreateInv ==
  ASSUME Inv, NEW w \in Workers, NEW d \in Days, Create(w, d) PROVE Inv'
<1>1. [Idle EXCEPT !.pc = "lock", !.day = d] \in Request
  BY IdleIs DEF Request
<1>2. PICK r \in Request : r = [Idle EXCEPT !.pc = "lock", !.day = d]
  BY <1>1
<1>3. r.pc = "lock" /\ r.day = d /\ r.attempt = 0
  BY <1>2 DEF Idle
<1>4. req' = [req EXCEPT ![w] = r] /\ UNCHANGED <<issued, holder, tags, typed, slipped, repeated>>
  BY <1>2 DEF Create, Begin
<1>5. Good(r)' /\ ~Inside(r)
  BY <1>3 DEF Good, Inside
<1>6. holder' \in SUBSET Days /\ \A v \in Workers \ {w} : Inside(req[v]) => req[v].day \in holder'
  BY <1>4 DEF Inv, TypeOK, Good
<1> QED BY <1>4, <1>5, <1>6, RequestKept

LEMMA LockInv == ASSUME Inv, NEW w \in Workers, Lock(w) PROVE Inv'
<1>1. req[w] \in Request /\ Good(req[w]) /\ req[w].pc = "lock"
  BY DEF Inv, TypeOK, Lock, At
<1>2. [req[w] EXCEPT !.pc = "allocate"] \in Request
  BY <1>1 DEF Request
<1>3. PICK r \in Request : r = [req[w] EXCEPT !.pc = "allocate"]
  BY <1>2
<1>4. r.pc = "allocate" /\ r.day = req[w].day /\ r.attempt = req[w].attempt /\ r.day \in Days
  BY <1>1, <1>3 DEF Request, Good
<1>5. /\ req' = [req EXCEPT ![w] = r] /\ UNCHANGED <<issued, tags, typed, slipped, repeated>>
      /\ holder' = holder \cup {r.day} /\ r.day \notin holder
  BY <1>1, <1>3, <1>4 DEF Lock, Taken, Inv, TypeOK
<1>6. Good(r)'
  BY <1>1, <1>4, <1>5 DEF Good, Inside
<1>7. holder' \in SUBSET Days
  BY <1>4, <1>5 DEF Inv, TypeOK
<1>8. \A v \in Workers \ {w} : Inside(req[v]) => req[v].day \in holder' /\ req[v].day # r.day
  BY <1>5 DEF Inv, Good
<1> QED BY <1>5, <1>6, <1>7, <1>8, RequestKept

LEMMA AllocateInv == ASSUME Inv, NEW w \in Workers, Allocate(w) PROVE Inv'
<1>1. req[w] \in Request /\ Good(req[w]) /\ Inside(req[w])
  BY DEF Inv, TypeOK, Allocate, At, Inside
<1>2. NextNumber(issued[req[w].day]) \in Nat
  BY <1>1, NextNat DEF Good, Inv, TypeOK, Counted
<1>3. PICK n \in Nat : n = NextNumber(issued[req[w].day])
  BY <1>2
<1>4. [req[w] EXCEPT !.pc = "insert", !.number = n] \in Request
  BY <1>1 DEF Request
<1>5. PICK r \in Request : r = [req[w] EXCEPT !.pc = "insert", !.number = n]
  BY <1>4
<1>6. /\ r.pc = "insert" /\ r.number = n /\ r.day = req[w].day /\ r.attempt = req[w].attempt
      /\ r.day \in Days
  BY <1>1, <1>5 DEF Request, Good
<1>7. req' = [req EXCEPT ![w] = r] /\ UNCHANGED <<issued, holder, tags, typed, slipped, repeated>>
  BY <1>1, <1>3, <1>5 DEF Allocate, Inv, TypeOK, Request
<1>8. NextNumber(issued[r.day])' = NextNumber(issued[r.day])
  BY <1>7
<1>9. Good(r)'
  BY <1>1, <1>3, <1>6, <1>7, <1>8 DEF Good, Inside
<1>10. /\ holder' \in SUBSET Days
       /\ \A v \in Workers \ {w} : Inside(req[v]) => req[v].day \in holder' /\ req[v].day # r.day
  BY <1>1, <1>6, <1>7 DEF Inv, TypeOK, Good, OneInside
<1> QED BY <1>7, <1>9, <1>10, RequestKept

\* A request that ends or starts again, and gives its lock back.
LEMMA LeaveInv ==
  ASSUME Inv, NEW w \in Workers, Finish(w), UNCHANGED <<issued, tags, typed, slipped, repeated>>,
         Inside(req[w]) => holder' = Released(req[w].day),
         ~Inside(req[w]) => UNCHANGED holder
  PROVE  Inv'
<1>1. req' = [req EXCEPT ![w] = Idle] /\ Idle \in Request /\ ~Inside(Idle)
  BY IdleIs DEF Finish, Inside
<1>2. holder' \in SUBSET Days /\ \A v \in Workers \ {w} : Inside(req[v]) => req[v].day \in holder'
  <2>1. CASE Inside(req[w])
    BY <2>1, ReleasedKeeps
  <2>2. CASE ~Inside(req[w])
    BY <2>2 DEF Inv, TypeOK, Good
  <2> QED BY <2>1, <2>2
<1>3. PICK i \in Request : i = Idle
  BY <1>1
<1>4. Good(i)'
  BY <1>3, IdleIs DEF Good, Inside
<1> QED BY <1>1, <1>2, <1>3, <1>4, RequestKept

LEMMA AbandonInv == ASSUME Inv, NEW w \in Workers, Abandon(w) PROVE Inv'
BY LeaveInv DEF Abandon, Inside

LEMMA CollideInv == ASSUME Inv, NEW w \in Workers, Collide(w) PROVE Inv'
<1>1. /\ req[w] \in Request /\ Good(req[w]) /\ Inside(req[w]) /\ req[w].pc = "insert"
      /\ req[w].number \in issued[req[w].day] /\ req[w].day \in Days
      /\ holder' = Released(req[w].day) /\ UNCHANGED <<issued, tags, typed, slipped, repeated>>
  BY DEF Inv, TypeOK, Collide, At, Inside, Good
<1>2. CASE ~Again(req[w])
  BY <1>1, <1>2, LeaveInv DEF Collide
<1>3. CASE Again(req[w])
  <2> DEFINE k == Cardinality(issued[req[w].day])
  <2>1. req[w].day \in typed \/ k >= Full
    <3>1. SUFFICES ASSUME req[w].day \notin typed, ~(k >= Full) PROVE FALSE
      OBVIOUS
    <3>2. k \in Nat /\ k < Full
      BY <1>1, <3>1, FS_CardinalityType, NumberingConstants DEF Inv, Counted
    <3>3. issued[req[w].day] = 1 .. k
      BY <1>1, <3>1 DEF Inv, NumbersFollow
    <3>4. req[w].number = NextNumber(1 .. k)
      BY <1>1, <3>1, <3>3 DEF Good
    <3> HIDE DEF k
    <3>5. NextNumber(1 .. k) = k + 1
      BY <3>2, NextOfInterval
    <3>6. k + 1 \in 1 .. k
      BY <1>1, <3>3, <3>4, <3>5
    <3> QED BY <3>2, <3>6
  <2>2. [Idle EXCEPT !.pc = "lock", !.day = req[w].day, !.attempt = req[w].attempt + 1] \in Request
    <3>1. req[w].attempt + 1 \in 0 .. MaxAttempts - 1
      <4>1. MaxAttempts \in Nat /\ req[w].attempt \in 0 .. MaxAttempts - 1
        BY <1>1, NumberingConstants DEF Request
      <4> QED BY <1>3, <4>1 DEF Again
    <3> QED BY <1>1, <3>1, IdleIs DEF Request
  <2>3. PICK r \in Request :
          r = [Idle EXCEPT !.pc = "lock", !.day = req[w].day, !.attempt = req[w].attempt + 1]
    BY <2>2
  <2>4. r.pc = "lock" /\ r.day = req[w].day
    BY <2>3 DEF Idle
  <2>5. req' = [req EXCEPT ![w] = r]
    BY <1>3, <2>3 DEF Collide
  <2>6. Good(r)' /\ ~Inside(r)
    BY <1>1, <2>1, <2>4 DEF Good, Inside
  <2> QED BY <1>1, <2>5, <2>6, ReleasedKeeps, RequestKept
<1> QED BY <1>2, <1>3

LEMMA AddedCounted ==
  ASSUME NEW S \in SUBSET Nat, NEW n \in Nat, IsFiniteSet(S), Bounded(S)
  PROVE  IsFiniteSet(S \cup {n}) /\ Bounded(S \cup {n})
<1>1. IsFiniteSet(S \cup {n})
  BY FS_AddElement
<1>2. PICK b \in Nat : \A m \in S : m <= b
  BY DEF Bounded
<1>3. b + n \in Nat /\ \A m \in S \cup {n} : m <= b + n
  BY <1>2
<1>4. Bounded(S \cup {n})
  BY <1>3 DEF Bounded
<1> QED BY <1>1, <1>4

\* An order added to a day leaves every day finite.
LEMMA DaysCounted ==
  ASSUME Inv, NEW d \in Days, NEW n \in Nat, issued'[d] = issued[d] \cup {n},
         \A c \in Days \ {d} : issued'[c] = issued[c]
  PROVE  Counted'
<1>1. \A c \in Days : issued[c] \in SUBSET Nat /\ IsFiniteSet(issued[c]) /\ Bounded(issued[c])
  BY DEF Inv, TypeOK, Counted
<1>2. IsFiniteSet(issued'[d]) /\ Bounded(issued'[d])
  <2>1. PICK S \in SUBSET Nat : S = issued[d]
    BY <1>1
  <2> QED BY <1>1, <2>1, AddedCounted
<1>3. \A c \in Days : IsFiniteSet(issued'[c]) /\ Bounded(issued'[c])
  BY <1>1, <1>2
<1> QED BY <1>3 DEF Counted, Bounded

\* Under the lock the number of an untouched day is the next one.
LEMMA InsertInv == ASSUME Inv, NEW w \in Workers, Insert(w) PROVE Inv'
<1>1. /\ req[w] \in Request /\ Good(req[w]) /\ Inside(req[w]) /\ req[w].pc = "insert"
      /\ req[w].number \notin issued[req[w].day] /\ req[w].day \in Days
      /\ UNCHANGED <<tags, typed, slipped, repeated>>
  BY DEF Inv, TypeOK, Insert, At, Inside, Good
<1>2. PICK d \in Days : d = req[w].day
  BY <1>1
<1>3. PICK n \in Nat : n = req[w].number
  BY <1>1 DEF Request
<1>4. /\ issued' \in [Days -> SUBSET Nat] /\ issued'[d] = issued[d] \cup {n}
      /\ \A c \in Days \ {d} : issued'[c] = issued[c]
      /\ holder' = Released(d)
  BY <1>1, <1>2, <1>3 DEF Insert, Inv, TypeOK
<1>5. /\ req' \in [Workers -> Request] /\ req'[w] = Idle
      /\ \A v \in Workers \ {w} : req'[v] = req[v]
  BY IdleIs, Becomes DEF Insert, Finish, Inv
<1>6. TypeOK'
  BY <1>1, <1>2, <1>4, <1>5, ReleasedKeeps DEF Inv, TypeOK
<1>7. Counted'
  BY <1>4, DaysCounted
<1>8. NumbersFollow'
  <2>1. ASSUME d \notin typed PROVE issued'[d] = 1 .. Cardinality(issued'[d])
    <3> DEFINE k == Cardinality(issued[d])
    <3>1. k \in Nat /\ issued[d] = 1 .. k
      BY <2>1, FS_CardinalityType DEF Inv, Counted, NumbersFollow
    <3>2. n = NextNumber(1 .. k) /\ n \notin 1 .. k
      BY <1>1, <1>2, <1>3, <2>1, <3>1 DEF Good
    <3> HIDE DEF k
    <3>3. n \in 1 .. k + 1
      BY <3>1, <3>2, NextOfInterval
    <3>4. issued'[d] = 1 .. k + 1
      BY <1>4, <3>1, <3>2, <3>3
    <3>5. Cardinality(1 .. k + 1) = k + 1
      BY <3>1, FS_Interval
    <3> QED BY <3>4, <3>5
  <2> QED BY <1>1, <1>4, <2>1 DEF Inv, NumbersFollow
<1>9. TagsUniqueUnlessSlipped'
  BY <1>1 DEF Inv, TagsUniqueUnlessSlipped
<1>10. Good(req[w])'
  <2>1. PICK i \in Request : i = Idle
    BY IdleIs
  <2>2. Good(i)'
    BY <2>1, IdleIs DEF Good, Inside
  <2> QED BY <1>5, <2>1, <2>2 DEF Good, Inside
<1>11. \A v \in Workers \ {w} : Inside(req[v]) =>
         req[v].day \in holder' /\ issued'[req[v].day] = issued[req[v].day]
  BY <1>1, <1>2, <1>4, ReleasedKeeps DEF Inv, OneInside, Good
<1>12. ~Inside(req'[w])
  BY <1>5, IdleIs DEF Inside
<1>13. typed \subseteq typed' /\ \A c \in Days : issued[c] \subseteq issued'[c]
  BY <1>1, <1>4
<1> QED BY <1>5, <1>6, <1>7, <1>8, <1>9, <1>10, <1>11, <1>12, <1>13, InvKept

\* A step of no request.
LEMMA OutsideKept ==
  ASSUME Inv, TypeOK', Counted', NumbersFollow', TagsUniqueUnlessSlipped',
         UNCHANGED <<holder, req>>, typed \subseteq typed',
         \A d \in Days : issued[d] \subseteq issued'[d],
         \A d \in Days : issued'[d] = issued[d] \/ d \in typed'
  PROVE  Inv'
<1>1. ASSUME NEW w \in Workers PROVE Good(req[w])'
  <2>1. Good(req[w]) /\ req[w] \in Request
    BY DEF Inv, TypeOK
  <2>2. req[w].attempt > 0 =>
          Cardinality(issued[req[w].day]) <= Cardinality(issued'[req[w].day])
          /\ Cardinality(issued[req[w].day]) \in Nat /\ Cardinality(issued'[req[w].day]) \in Nat
    BY <2>1, FS_Subset, FS_CardinalityType DEF Good, Counted, Inv
  <2>3. Full \in Nat
    BY NumberingConstants
  <2>4. req[w].attempt > 0 => req[w].day \in typed' \/ Cardinality(issued'[req[w].day]) >= Full
    BY <2>1, <2>2, <2>3 DEF Good
  <2> QED BY <2>1, <2>4 DEF Good, Inside
<1>2. OneInside'
  BY DEF Inv, OneInside, Inside
<1> QED BY <1>1, <1>2 DEF Inv

LEMMA TypeNumberInv ==
  ASSUME Inv, NEW d \in Days, NEW n \in 0 .. Full - 1, TypeNumber(d, n) PROVE Inv'
<1>1. n \in Nat
  BY NumberingConstants
<1>2. /\ issued' \in [Days -> SUBSET Nat] /\ issued'[d] = issued[d] \cup {n}
      /\ \A c \in Days \ {d} : issued'[c] = issued[c]
      /\ typed' = typed \cup {d} /\ UNCHANGED <<holder, tags, req, slipped, repeated>>
  BY <1>1 DEF TypeNumber, Inv, TypeOK
<1>3. TypeOK'
  BY <1>2 DEF Inv, TypeOK
<1>4. Counted'
  BY <1>1, <1>2, DaysCounted
<1>5. NumbersFollow' /\ TagsUniqueUnlessSlipped'
  BY <1>2 DEF Inv, NumbersFollow, TagsUniqueUnlessSlipped
<1> QED BY <1>2, <1>3, <1>4, <1>5, OutsideKept

-----------------------------------------------------------------------------
(* Tags.                                                                   *)

LEMMA TagNat ==
  ASSUME TypeOK, NEW d \in Days, NEW p \in Prefixes, NEW n \in 1 .. MaxTag
  PROVE  tags[d][p][n] \in Nat
<1>1. tags \in [Days -> [Prefixes -> [1 .. MaxTag -> Nat]]]
  BY DEF TypeOK
<1>2. tags[d] \in [Prefixes -> [1 .. MaxTag -> Nat]]
  BY <1>1
<1>3. tags[d][p] \in [1 .. MaxTag -> Nat]
  BY <1>2
<1> QED BY <1>3

\* The numbers of one prefix of one day replaced.
LEMMA TagsSet ==
  ASSUME TypeOK, NEW d \in Days, NEW p \in Prefixes, NEW g \in [1 .. MaxTag -> Nat],
         tags' = [tags EXCEPT ![d][p] = g]
  PROVE  /\ tags' \in [Days -> [Prefixes -> [1 .. MaxTag -> Nat]]]
         /\ \A c \in Days, x \in Prefixes, n \in 1 .. MaxTag :
              tags'[c][x][n] = IF c = d /\ x = p THEN g[n] ELSE tags[c][x][n]
<1>1. PICK f \in [Prefixes -> [1 .. MaxTag -> Nat]] : f = [tags[d] EXCEPT ![p] = g]
  BY DEF TypeOK
<1>2. tags' = [tags EXCEPT ![d] = f]
  BY <1>1 DEF TypeOK
<1>3. tags' \in [Days -> [Prefixes -> [1 .. MaxTag -> Nat]]]
  BY <1>2 DEF TypeOK
<1>4. tags'[d] = f /\ \A c \in Days \ {d} : tags'[c] = tags[c]
  BY <1>2 DEF TypeOK
<1>5. f[p] = g /\ \A x \in Prefixes \ {p} : f[x] = tags[d][x]
  BY <1>1 DEF TypeOK
<1> QED BY <1>3, <1>4, <1>5

LEMMA BatchInv ==
  ASSUME Inv, NEW w \in Workers, NEW d \in Days, NEW p \in Prefixes, NEW q \in 1 .. MaxTag,
         Batch(w, d, p, q)
  PROVE  Inv'
<1>1. NextTag(d, p) \in Nat /\ \A m \in NumbersOf(d, p) : m < NextTag(d, p)
  BY NextTagNat DEF Inv
<1>2. NumbersOf(d, p) \in SUBSET (1 .. MaxTag) /\ q \in Nat
  BY NumberingConstants DEF NumbersOf
<1>3. PICK f \in Nat, S \in SUBSET (1 .. MaxTag) : f = NextTag(d, p) /\ S = NumbersOf(d, p)
  BY <1>1, <1>2
<1>4. [Idle EXCEPT !.pc = "tag", !.day = d, !.prefix = p, !.first = f,
                   !.quantity = q, !.seen = S] \in Request
  BY <1>2, IdleIs DEF Request
<1>5. PICK r \in Request :
        r = [Idle EXCEPT !.pc = "tag", !.day = d, !.prefix = p, !.first = f,
                         !.quantity = q, !.seen = S]
  BY <1>4
<1>6. r.pc = "tag" /\ r.day = d /\ r.attempt = 0 /\ r.prefix = p /\ r.first = f /\ r.seen = S
  BY <1>5 DEF Idle
<1>7. req' = [req EXCEPT ![w] = r] /\ UNCHANGED <<issued, holder, tags, typed, slipped, repeated>>
  BY <1>3, <1>5 DEF Batch, Begin
<1>8. Good(r)' /\ ~Inside(r)
  BY <1>1, <1>3, <1>6 DEF Good, Inside
<1>9. holder' \in SUBSET Days /\ \A v \in Workers \ {w} : Inside(req[v]) => req[v].day \in holder'
  BY <1>7 DEF Inv, TypeOK, Good
<1> QED BY <1>7, <1>8, <1>9, RequestKept

LEMMA AddBatchInv == ASSUME Inv, NEW w \in Workers, AddBatch(w) PROVE Inv'
<1>1. /\ req[w] \in Request /\ Good(req[w]) /\ req[w].pc = "tag"
      /\ UNCHANGED <<issued, holder, typed, repeated>>
  BY DEF Inv, TypeOK, AddBatch, At
<1>2. PICK d \in Days, p \in Prefixes, f \in Nat, q \in Nat, S \in SUBSET (1 .. MaxTag) :
        /\ d = req[w].day /\ p = req[w].prefix /\ f = req[w].first
        /\ q = req[w].quantity /\ S = req[w].seen
  BY <1>1 DEF Good, Request
<1>3. PICK s \in Prefixes : s = SavedPrefix(p)
  BY NumberingConstants DEF SavedPrefix
<1>4. /\ tags' \in [Days -> [Prefixes -> [1 .. MaxTag -> Nat]]]
      /\ \A c \in Days, x \in Prefixes, n \in 1 .. MaxTag :
           tags'[c][x][n] = IF c = d /\ x = s /\ n \in f .. f + q - 1
                              THEN tags[c][x][n] + 1 ELSE tags[c][x][n]
  <2> DEFINE G == [n \in 1 .. MaxTag |->
                     IF n \in f .. f + q - 1 THEN tags[d][s][n] + 1 ELSE tags[d][s][n]]
  <2>1. G \in [1 .. MaxTag -> Nat]
    <3>1. \A n \in 1 .. MaxTag : tags[d][s][n] \in Nat
      BY TagNat DEF Inv
    <3> QED BY <3>1
  <2>2. tags' = [tags EXCEPT ![d][s] = G]
    BY <1>2, <1>3 DEF AddBatch, Added
  <2>3. PICK g \in [1 .. MaxTag -> Nat] : g = G
    BY <2>1
  <2>4. tags' = [tags EXCEPT ![d][s] = g]
    BY <2>2, <2>3
  <2>5. \A n \in 1 .. MaxTag :
          g[n] = IF n \in f .. f + q - 1 THEN tags[d][s][n] + 1 ELSE tags[d][s][n]
    BY <2>3
  <2> QED BY <2>4, <2>5, TagsSet DEF Inv
<1>5. slipped' \in BOOLEAN
  BY DEF AddBatch, Inv, TypeOK
<1>6. /\ req' \in [Workers -> Request] /\ req'[w] = Idle
      /\ \A v \in Workers \ {w} : req'[v] = req[v]
  BY IdleIs, Becomes DEF AddBatch, Finish, Inv
<1>7. TypeOK'
  BY <1>1, <1>4, <1>5, <1>6 DEF Inv, TypeOK
<1>8. Counted' /\ NumbersFollow'
  BY <1>1 DEF Inv, Counted, NumbersFollow
<1>9. TagsUniqueUnlessSlipped'
  <2>1. SUFFICES ASSUME ~slipped', NEW c \in Days, NEW x \in Prefixes, NEW n \in 1 .. MaxTag,
                        <<c, x, n>> \notin repeated'
                 PROVE  tags'[c][x][n] <= 1
    BY DEF TagsUniqueUnlessSlipped
  <2>2. s = p /\ NumbersOf(d, p) \subseteq S /\ ~slipped
    BY <1>2, <1>3, <2>1 DEF AddBatch
  <2>3. tags[c][x][n] \in Nat /\ tags[c][x][n] <= 1
    BY <1>1, <2>1, <2>2, TagNat DEF Inv, TagsUniqueUnlessSlipped
  <2>4. CASE c = d /\ x = s /\ n \in f .. f + q - 1
    <3>1. n \notin S
      BY <1>1, <1>2, <2>4 DEF Good
    <3>2. ~(tags[c][x][n] > 0)
      BY <2>2, <2>4, <3>1 DEF NumbersOf
    <3>3. tags[c][x][n] = 0
      BY <2>3, <3>2
    <3> QED BY <1>4, <2>4, <3>3
  <2>5. CASE ~(c = d /\ x = s /\ n \in f .. f + q - 1)
    BY <1>4, <2>3, <2>5
  <2> QED BY <2>4, <2>5
<1>10. Good(req[w])'
  <2>1. PICK i \in Request : i = Idle
    BY IdleIs
  <2>2. Good(i)'
    BY <2>1, IdleIs DEF Good, Inside
  <2> QED BY <1>6, <2>1, <2>2 DEF Good, Inside
<1>11. ~Inside(req'[w])
  BY <1>6, IdleIs DEF Inside
<1>12. \A v \in Workers \ {w} : Inside(req[v]) => req[v].day \in holder'
  BY <1>1 DEF Inv, Good
<1> QED BY <1>1, <1>6, <1>7, <1>8, <1>9, <1>10, <1>11, <1>12, InvKept

\* What a tag that is given to or taken from an animal leaves of those that repeat.
LEMMA RepeatsAre ==
  ASSUME NEW d \in Days, NEW p \in Prefixes, NEW n \in 1 .. MaxTag
  PROVE  /\ Repeats(d, p, n) \subseteq Days \X Prefixes \X (1 .. MaxTag)
         /\ tags[d][p][n] > 0 => <<d, p, n>> \in Repeats(d, p, n)
         /\ \A c \in Days, x \in Prefixes, m \in 1 .. MaxTag :
              <<c, x, m>> \in Settles(d, p, n) => c = d /\ x = p /\ m = n /\ tags[d][p][n] <= 2
<1>1. <<d, p, n>> \in Days \X Prefixes \X (1 .. MaxTag)
  OBVIOUS
<1>2. Repeats(d, p, n) \subseteq {<<d, p, n>>}
  BY DEF Repeats
<1>3. tags[d][p][n] > 0 => <<d, p, n>> \in Repeats(d, p, n)
  BY DEF Repeats
<1>4. ASSUME NEW c \in Days, NEW x \in Prefixes, NEW m \in 1 .. MaxTag,
             <<c, x, m>> \in Settles(d, p, n)
      PROVE  c = d /\ x = p /\ m = n /\ tags[d][p][n] <= 2
  <2>1. <<c, x, m>> = <<d, p, n>> /\ tags[d][p][n] <= 2
    BY <1>4 DEF Settles
  <2> QED BY <2>1
<1> QED BY <1>1, <1>2, <1>3, <1>4

\* A tag that is typed is one no animal has, or is repeated.
LEMMA TypeTagInv ==
  ASSUME Inv, NEW d \in Days, NEW p \in Prefixes, NEW n \in 1 .. MaxTag, TypeTag(d, p, n)
  PROVE  Inv'
<1>1. PICK s \in Prefixes : s = SavedPrefix(p)
  BY NumberingConstants DEF SavedPrefix
<1>2. tags[d][s][n] + 1 \in Nat
  BY TagNat DEF Inv
<1>3. /\ tags' \in [Days -> [Prefixes -> [1 .. MaxTag -> Nat]]]
      /\ UNCHANGED <<issued, holder, req, typed, slipped>>
      /\ \A c \in Days, x \in Prefixes, m \in 1 .. MaxTag :
           tags'[c][x][m] = IF c = d /\ x = s /\ m = n
                              THEN tags[c][x][m] + 1 ELSE tags[c][x][m]
  <2>1. PICK g \in [1 .. MaxTag -> Nat] : g = [tags[d][s] EXCEPT ![n] = @ + 1]
    BY <1>2 DEF Inv, TypeOK
  <2>2. tags' = [tags EXCEPT ![d][s] = g] /\ UNCHANGED <<issued, holder, req, typed, slipped>>
    BY <1>1, <2>1 DEF TypeTag
  <2>3. \A m \in 1 .. MaxTag : g[m] = IF m = n THEN tags[d][s][m] + 1 ELSE tags[d][s][m]
    BY <2>1 DEF Inv, TypeOK
  <2> QED BY <2>2, <2>3, TagsSet DEF Inv
<1>4. repeated' = repeated \cup Repeats(d, s, n)
  BY <1>1 DEF TypeTag
<1>5. repeated' \subseteq Days \X Prefixes \X (1 .. MaxTag)
  BY <1>4, RepeatsAre DEF Inv, TypeOK
<1>6. TypeOK' /\ Counted' /\ NumbersFollow'
  BY <1>3, <1>5 DEF Inv, TypeOK, Counted, NumbersFollow
<1>7. TagsUniqueUnlessSlipped'
  <2>1. SUFFICES ASSUME ~slipped', NEW c \in Days, NEW x \in Prefixes, NEW m \in 1 .. MaxTag,
                        <<c, x, m>> \notin repeated'
                 PROVE  tags'[c][x][m] <= 1
    BY DEF TagsUniqueUnlessSlipped
  <2>2. tags[c][x][m] \in Nat /\ tags[c][x][m] <= 1
    BY <1>3, <1>4, <2>1, TagNat DEF Inv, TagsUniqueUnlessSlipped
  <2>3. c = d /\ x = s /\ m = n => ~(tags[c][x][m] > 0)
    BY <1>4, <2>1, RepeatsAre
  <2> QED BY <1>3, <2>2, <2>3
<1> QED BY <1>3, <1>6, <1>7, OutsideKept

\* The same of one that an animal gets for another.
LEMMA EditTagInv ==
  ASSUME Inv, NEW d \in Days, NEW p \in Prefixes, NEW n \in 1 .. MaxTag,
         NEW e \in Days, NEW q \in Prefixes, NEW k \in 1 .. MaxTag, EditTag(d, p, n, e, q, k)
  PROVE  Inv'
<1>1. PICK s \in Prefixes : s = SavedPrefix(q)
  BY NumberingConstants DEF SavedPrefix
<1> DEFINE From(c, x, m) == c = d /\ x = p /\ m = n
           To(c, x, m)   == c = e /\ x = s /\ m = k
<1>2. /\ tags[d][p][n] \in Nat /\ tags[d][p][n] > 0 /\ ~(d = e /\ p = s /\ n = k)
      /\ tags' = Retagged(<<d, p, n>>, <<e, s, k>>)
  BY <1>1, TagNat DEF EditTag, Inv
<1>3. ASSUME NEW c \in Days, NEW x \in Prefixes, NEW m \in 1 .. MaxTag
      PROVE  /\ tags'[c][x][m] \in Nat
             /\ From(c, x, m) => tags'[c][x][m] = tags[c][x][m] - 1
             /\ To(c, x, m) => tags'[c][x][m] = tags[c][x][m] + 1
             /\ ~From(c, x, m) /\ ~To(c, x, m) => tags'[c][x][m] = tags[c][x][m]
  <2>1. tags[c][x][m] \in Nat
    BY TagNat DEF Inv
  <2>2. tags'[c][x][m] = CASE <<c, x, m>> = <<d, p, n>> -> tags[c][x][m] - 1
                           [] <<c, x, m>> = <<e, s, k>> -> tags[c][x][m] + 1
                           [] OTHER                     -> tags[c][x][m]
    BY <1>2 DEF Retagged
  <2>3. /\ <<c, x, m>> = <<d, p, n>> <=> From(c, x, m)
        /\ <<c, x, m>> = <<e, s, k>> <=> To(c, x, m)
        /\ ~(From(c, x, m) /\ To(c, x, m))
    BY <1>2
  <2> QED BY <1>2, <2>1, <2>2, <2>3
<1>4. tags' \in [Days -> [Prefixes -> [1 .. MaxTag -> Nat]]]
  <2> DEFINE cell(c, x, j) == CASE <<c, x, j>> = <<d, p, n>> -> tags[c][x][j] - 1
                                [] <<c, x, j>> = <<e, s, k>> -> tags[c][x][j] + 1
                                [] OTHER                     -> tags[c][x][j]
  <2>1. tags' = [c \in Days |-> [x \in Prefixes |-> [j \in 1 .. MaxTag |-> cell(c, x, j)]]]
    BY <1>2 DEF Retagged
  <2>2. \A c \in Days, x \in Prefixes, j \in 1 .. MaxTag : tags'[c][x][j] = cell(c, x, j)
    BY <2>1
  <2> HIDE DEF cell
  <2>3. \A c \in Days, x \in Prefixes, j \in 1 .. MaxTag : cell(c, x, j) \in Nat
    BY <1>3, <2>2
  <2> QED BY <2>1, <2>3
<1>5. UNCHANGED <<issued, holder, req, typed, slipped>>
  BY DEF EditTag
<1>6. repeated' = (repeated \ Settles(d, p, n)) \cup Repeats(e, s, k)
  BY <1>1 DEF EditTag
<1>7. repeated' \subseteq Days \X Prefixes \X (1 .. MaxTag)
  BY <1>6, RepeatsAre DEF Inv, TypeOK
<1>8. TypeOK' /\ Counted' /\ NumbersFollow'
  BY <1>4, <1>5, <1>7 DEF Inv, TypeOK, Counted, NumbersFollow
<1>9. TagsUniqueUnlessSlipped'
  <2>1. SUFFICES ASSUME ~slipped', NEW c \in Days, NEW x \in Prefixes, NEW m \in 1 .. MaxTag,
                        <<c, x, m>> \notin repeated'
                 PROVE  tags'[c][x][m] <= 1
    BY DEF TagsUniqueUnlessSlipped
  <2>2. tags[c][x][m] \in Nat
    BY TagNat DEF Inv
  <2>3. <<c, x, m>> \in repeated => <<c, x, m>> \in Settles(d, p, n)
    BY <1>6, <2>1
  <2>4. <<c, x, m>> \notin repeated => tags[c][x][m] <= 1
    BY <1>5, <2>1 DEF Inv, TagsUniqueUnlessSlipped
  <2>5. <<c, x, m>> \in Settles(d, p, n) => From(c, x, m) /\ tags[d][p][n] <= 2
    BY RepeatsAre
  <2>6. CASE From(c, x, m)
    <3>1. tags[c][x][m] <= 2
      BY <2>2, <2>3, <2>4, <2>5, <2>6
    <3>2. tags'[c][x][m] = tags[c][x][m] - 1
      BY <1>3, <2>6
    <3> QED BY <2>2, <3>1, <3>2
  <2>7. CASE To(c, x, m)
    <3>1. ~(tags[c][x][m] > 0)
      <4>1. tags[e][s][k] > 0 => <<e, s, k>> \in Repeats(e, s, k)
        BY RepeatsAre
      <4> QED BY <1>6, <2>1, <2>7, <4>1
    <3>2. tags'[c][x][m] = tags[c][x][m] + 1
      BY <1>3, <2>7
    <3> QED BY <2>2, <3>1, <3>2
  <2>8. CASE ~From(c, x, m) /\ ~To(c, x, m)
    BY <1>3, <2>3, <2>4, <2>5, <2>8
  <2> QED BY <2>6, <2>7, <2>8
<1> QED BY <1>5, <1>8, <1>9, OutsideKept

LEMMA RemoveAnimalInv ==
  ASSUME Inv, NEW d \in Days, NEW p \in Prefixes, NEW n \in 1 .. MaxTag, RemoveAnimal(d, p, n)
  PROVE  Inv'
<1>1. tags[d][p][n] \in Nat /\ tags[d][p][n] > 0
  BY TagNat DEF RemoveAnimal, Inv
<1>2. tags[d][p][n] - 1 \in Nat
  BY <1>1
<1>3. /\ tags' \in [Days -> [Prefixes -> [1 .. MaxTag -> Nat]]]
      /\ UNCHANGED <<issued, holder, req, typed, slipped>>
      /\ \A c \in Days, x \in Prefixes, m \in 1 .. MaxTag :
           tags'[c][x][m] = IF c = d /\ x = p /\ m = n
                              THEN tags[c][x][m] - 1 ELSE tags[c][x][m]
  <2>1. PICK g \in [1 .. MaxTag -> Nat] : g = [tags[d][p] EXCEPT ![n] = @ - 1]
    BY <1>2 DEF Inv, TypeOK
  <2>2. tags' = [tags EXCEPT ![d][p] = g] /\ UNCHANGED <<issued, holder, req, typed, slipped>>
    BY <2>1 DEF RemoveAnimal
  <2>3. \A m \in 1 .. MaxTag : g[m] = IF m = n THEN tags[d][p][m] - 1 ELSE tags[d][p][m]
    BY <2>1 DEF Inv, TypeOK
  <2> QED BY <2>2, <2>3, TagsSet DEF Inv
<1>4. repeated' = repeated \ Settles(d, p, n)
  BY DEF RemoveAnimal
<1>5. TagsUniqueUnlessSlipped'
  <2>1. SUFFICES ASSUME ~slipped', NEW c \in Days, NEW x \in Prefixes, NEW m \in 1 .. MaxTag,
                        <<c, x, m>> \notin repeated'
                 PROVE  tags'[c][x][m] <= 1
    BY DEF TagsUniqueUnlessSlipped
  <2>2. tags[c][x][m] \in Nat
    BY TagNat DEF Inv
  <2>3. <<c, x, m>> \in repeated => <<c, x, m>> \in Settles(d, p, n)
    BY <1>4, <2>1
  <2>4. <<c, x, m>> \in Settles(d, p, n) => c = d /\ x = p /\ m = n /\ tags[d][p][n] <= 2
    BY RepeatsAre
  <2>5. <<c, x, m>> \notin repeated => tags[c][x][m] <= 1
    BY <1>3, <2>1 DEF Inv, TagsUniqueUnlessSlipped
  <2> QED BY <1>3, <2>2, <2>3, <2>4, <2>5
<1>6. TypeOK' /\ Counted' /\ NumbersFollow'
  BY <1>3, <1>4 DEF Inv, TypeOK, Counted, NumbersFollow
<1> QED BY <1>3, <1>5, <1>6, OutsideKept

-----------------------------------------------------------------------------
LEMMA InitInv == ASSUME Init PROVE Inv
<1>1. \A w \in Workers : req[w] = Idle
  BY DEF Init
<1>2. TypeOK
  BY IdleIs, NumberingConstants DEF Init, TypeOK
<1>3. Counted /\ NumbersFollow /\ TagsUniqueUnlessSlipped
  <2>1. IsFiniteSet({}) /\ Cardinality({}) = 0
    BY FS_EmptySet
  <2>2. 1 .. 0 = {} /\ Bounded({})
    BY DEF Bounded
  <2> QED BY <2>1, <2>2 DEF Init, Counted, NumbersFollow, TagsUniqueUnlessSlipped
<1>4. \A w \in Workers : Good(req[w])
  BY <1>1, IdleIs DEF Good, Inside
<1>5. OneInside
  BY <1>1, IdleIs DEF OneInside, Inside
<1> QED BY <1>2, <1>3, <1>4, <1>5 DEF Inv

LEMMA StutterInv == ASSUME Inv, UNCHANGED vars PROVE Inv'
<1>1. TypeOK' /\ Counted' /\ NumbersFollow' /\ TagsUniqueUnlessSlipped'
  BY DEF vars, Inv, TypeOK, Counted, NumbersFollow, TagsUniqueUnlessSlipped
<1> QED BY <1>1, OutsideKept DEF vars

\* The invariant holds of every state.
THEOREM InvAlways == Spec => []Inv
<1>1. Init => Inv
  BY InitInv
<1>2. Inv /\ [Next]_vars => Inv'
  <2> SUFFICES ASSUME Inv, [Next]_vars PROVE Inv'
    OBVIOUS
  <2>1. CASE UNCHANGED vars
    BY <2>1, StutterInv
  <2>2. ASSUME NEW w \in Workers, NEW d \in Days, Create(w, d) PROVE Inv'
    BY <2>2, CreateInv
  <2>3. ASSUME NEW w \in Workers, NEW d \in Days, NEW p \in Prefixes, NEW q \in 1 .. MaxTag,
               Batch(w, d, p, q) PROVE Inv'
    BY <2>3, BatchInv
  <2>4. ASSUME NEW w \in Workers, Lock(w) \/ Work(w) \/ Abandon(w) PROVE Inv'
    BY <2>4, LockInv, AllocateInv, InsertInv, CollideInv, AddBatchInv, AbandonInv DEF Work
  <2>5. ASSUME NEW d \in Days, NEW n \in 0 .. Full - 1, TypeNumber(d, n) PROVE Inv'
    BY <2>5, TypeNumberInv
  <2>6. ASSUME NEW d \in Days, NEW p \in Prefixes, NEW n \in 1 .. MaxTag,
               \/ TypeTag(d, p, n) \/ RemoveAnimal(d, p, n)
               \/ \E e \in Days, q \in Prefixes, m \in 1 .. MaxTag : EditTag(d, p, n, e, q, m)
        PROVE  Inv'
    BY <2>6, TypeTagInv, RemoveAnimalInv, EditTagInv
  <2> QED BY <2>1, <2>2, <2>3, <2>4, <2>5, <2>6 DEF Next
<1> QED BY <1>1, <1>2, PTL DEF Spec

\* The orders, tags and requests have their types, and every number and lock in a request
\* is one of its day (create_slaughter_order, create_batch_animals).
THEOREM NumberingTyped == Spec => []TypeOK
<1>1. Inv => TypeOK
  BY DEF Inv
<1> QED BY <1>1, InvAlways, PTL

\* A request that holds the lock of its day never collides, for any number of threads and
\* any format, unless a number was entered by hand or the day is full
\* (generate_order_number).
THEOREM NoRetry == Spec => []RetriesOnlyByHand
<1>1. Inv => RetriesOnlyByHand
  BY DEF Inv, Good, RetriesOnlyByHand
<1> QED BY <1>1, InvAlways, PTL

\* The numbers of a day follow without a gap, whatever requests are abandoned.
THEOREM Follow == Spec => []NumbersFollow
<1>1. Inv => NumbersFollow
  BY DEF Inv
<1> QED BY <1>1, InvAlways, PTL

\* A batch gives no animal a tag another of the day has unless it slipped, for any prefixes
\* and sizes of batches, however tags are typed, edited and removed: those two animals have
\* were typed for one of them (_next_same_day_tag_number, AnimalForm).
THEOREM TagsUnique == Spec => []TagsUniqueUnlessSlipped
<1>1. Inv => TagsUniqueUnlessSlipped
  BY DEF Inv
<1> QED BY <1>1, InvAlways, PTL
=============================================================================
