------------------------------ MODULE Numbering ------------------------------
(***************************************************************************)
(* The two allocators of the reception (reception/services.py).            *)
(*                                                                         *)
(* Order numbers: one more than the greatest number of the day, in the     *)
(* order of the texts; a lock on the day is held until the order commits,  *)
(* the column is unique, and a request that collides all the same tries    *)
(* again.  Animal tags: a batch continues the numbers its prefix has that  *)
(* day, without a lock; a tag may also be typed, and edited with the date; *)
(* the column is not unique, nothing looks whether another animal has the  *)
(* tag, and the tag is rewritten when the animal is saved.                 *)
(***************************************************************************)
EXTENDS Integers, FiniteSets, FiniteSetsExt

CONSTANTS
  Workers, Days,
  Prefixes,       \* of tags, as typed and as stored
  Stored,         \* what saving an animal makes of a prefix
  Radix, Full,    \* digits; the first number longer than the format (10, 10000)
  MaxAttempts,    \* MAX_ORDER_CREATION_RETRIES
  MaxOrders,      \* bound: orders of a day
  MaxTag,         \* bound: numbers of a prefix
  MaxSame,        \* bound: animals with the tag that is to be given
  NoDay, NoPrefix

ASSUME NumberingConstants ==
  /\ {Radix, Full, MaxAttempts, MaxOrders, MaxTag, MaxSame} \subseteq Nat
  /\ 1 < Radix /\ Radix <= Full /\ 0 < MaxAttempts
  /\ Stored \in [Prefixes -> Prefixes]
  /\ \A p \in Prefixes : Stored[Stored[p]] = Stored[p]
  /\ NoDay \notin Days /\ NoPrefix \notin Prefixes

VARIABLES
  issued,     \* numbers of the orders of each day; 0: one that ends in no number
  holder,     \* days whose advisory lock is taken
  tags,       \* animals of each day with a tag: their number
  req,        \* the request each worker thread runs
  typed,      \* history: days with a number entered by hand
  slipped,    \* history: a batch missed tags of its prefix, or had its tags rewritten
  repeated    \* history: tags that several animals have since one was typed

vars == <<issued, holder, tags, req, typed, slipped, repeated>>

-----------------------------------------------------------------------------
Request == [pc : {"idle", "lock", "allocate", "insert", "tag"},
            day : Days \cup {NoDay}, attempt : 0 .. MaxAttempts - 1, number : Nat,
            prefix : Prefixes \cup {NoPrefix}, first : Nat, quantity : Nat,
            seen : SUBSET (1 .. MaxTag)]    \* numbers of the prefix, as loaded

TypeOK ==
  /\ issued \in [Days -> SUBSET Nat]
  /\ holder \in SUBSET Days
  /\ tags \in [Days -> [Prefixes -> [1 .. MaxTag -> Nat]]]
  /\ req \in [Workers -> Request]
  /\ typed \in SUBSET Days
  /\ slipped \in BOOLEAN
  /\ repeated \subseteq Days \X Prefixes \X (1 .. MaxTag)

Idle == [pc |-> "idle", day |-> NoDay, attempt |-> 0, number |-> 0,
         prefix |-> NoPrefix, first |-> 0, quantity |-> 0, seen |-> {}]

Init ==
  /\ issued = [d \in Days |-> {}]
  /\ holder = {}
  /\ tags = [d \in Days |-> [p \in Prefixes |-> [n \in 1 .. MaxTag |-> 0]]]
  /\ req = [w \in Workers |-> Idle]
  /\ typed = {} /\ slipped = FALSE /\ repeated = {}

-----------------------------------------------------------------------------
Begin(w, r) == req[w].pc = "idle" /\ req' = [req EXCEPT ![w] = r]
At(w, l)    == req[w].pc = l
Finish(w)   == req' = [req EXCEPT ![w] = Idle]

(* create_slaughter_order, and SlaughterOrder.save for an order without a  *)
(* number.                                                                 *)

Create(w, d) ==
  /\ Cardinality(issued[d]) < MaxOrders
  /\ Begin(w, [Idle EXCEPT !.pc = "lock", !.day = d])
  /\ UNCHANGED <<issued, holder, tags, typed, slipped, repeated>>

\* Bug: the lock lasts for the statement, not for the transaction.
Taken_Briefly(d) == holder

\* pg_advisory_xact_lock: until commit or rollback.
Taken(d) == holder \cup {d}

Lock(w) ==
  /\ At(w, "lock") /\ req[w].day \notin holder
  /\ holder' = Taken(req[w].day)
  /\ req' = [req EXCEPT ![w].pc = "allocate"]
  /\ UNCHANGED <<issued, tags, typed, slipped, repeated>>

\* Bug: the lock belongs to the session, which outlives the transaction.
Released_Never(d) == holder

Released(d) == holder \ {d}

\* The order of the texts: "10000" is before "9999", and after "1000".
Precedes(m, n) ==
  LET Key(k) == IF k < Full THEN k * Radix ELSE k
  IN  Key(m) < Key(n) \/ (Key(m) = Key(n) /\ m < n)

\* order_by("-slaughter_order_no").first()
Greatest(S) == CHOOSE n \in S : \A m \in S \ {n} : Precedes(m, n)

\* Bug: the numbers of a day start with 0.
NextNumber_Zero(S) == IF S = {} THEN 0 ELSE Greatest(S) + 1

\* A text that ends in no number is the last of its day: then the orders are counted.
NextNumber(S) ==
  CASE S = {}  -> 1
    [] 0 \in S -> Cardinality(S) + 1
    [] OTHER   -> Greatest(S) + 1

Allocate(w) ==
  /\ At(w, "allocate")
  /\ req' = [req EXCEPT ![w].pc = "insert", ![w].number = NextNumber(issued[req[w].day])]
  /\ UNCHANGED <<issued, holder, tags, typed, slipped, repeated>>

\* The order and its animals are inserted, and the transaction commits.
Insert(w) ==
  LET r == req[w] IN
  /\ At(w, "insert") /\ r.number \notin issued[r.day]
  /\ issued' = [issued EXCEPT ![r.day] = @ \cup {r.number}]
  /\ holder' = Released(r.day)
  /\ Finish(w)
  /\ UNCHANGED <<tags, typed, slipped, repeated>>

Again(r) == r.attempt + 1 < MaxAttempts

\* IntegrityError: rolled back, and tried again, or given up with a ValidationError.
Collide(w) ==
  LET r == req[w] IN
  /\ At(w, "insert") /\ r.number \in issued[r.day]
  /\ holder' = Released(r.day)
  /\ IF Again(r)
       THEN req' = [req EXCEPT ![w] = [Idle EXCEPT !.pc = "lock", !.day = r.day,
                                                   !.attempt = r.attempt + 1]]
       ELSE Finish(w)
  /\ UNCHANGED <<issued, tags, typed, slipped, repeated>>

\* An order is given a number of the format, or another text, in the admin: no lock.
TypeNumber(d, n) ==
  /\ n \notin issued[d] /\ Cardinality(issued[d]) < MaxOrders
  /\ issued' = [issued EXCEPT ![d] = @ \cup {n}]
  /\ typed' = typed \cup {d}
  /\ UNCHANGED <<holder, tags, req, slipped, repeated>>

-----------------------------------------------------------------------------
(* create_batch_animals.                                                   *)

\* What saving an animal makes of the prefix of its tag
\* (validate_and_sanitize_english_name).
SavedPrefix(p) == Stored[p]

NumbersOf(d, p) == {n \in 1 .. MaxTag : tags[d][p][n] > 0}

\* Bug: the animals of the prefix are counted.
NextTag_Counted(d, p) == Cardinality(NumbersOf(d, p)) + 1

\* _next_same_day_tag_number: looks for the prefix as typed.
NextTag(d, p) == Max(NumbersOf(d, p) \cup {0}) + 1

Batch(w, d, p, q) ==
  /\ NextTag(d, p) + q - 1 <= MaxTag
  /\ \A n \in 1 .. MaxTag : tags[d][SavedPrefix(p)][n] < MaxSame
  /\ Begin(w, [Idle EXCEPT !.pc = "tag", !.day = d, !.prefix = p,
                           !.first = NextTag(d, p), !.quantity = q,
                           !.seen = NumbersOf(d, p)])
  /\ UNCHANGED <<issued, holder, tags, typed, slipped, repeated>>

Added(w) ==
  LET r == req[w] IN
    [tags EXCEPT ![r.day][SavedPrefix(r.prefix)] =
       [n \in 1 .. MaxTag |->
          IF n \in r.first .. r.first + r.quantity - 1 THEN @[n] + 1 ELSE @[n]]]

\* The animals of the batch commit together.
AddBatch(w) ==
  LET r == req[w] IN
  /\ At(w, "tag")
  /\ tags' = Added(w)
  /\ slipped' = (slipped \/ SavedPrefix(r.prefix) # r.prefix
                         \/ ~(NumbersOf(r.day, r.prefix) \subseteq r.seen))
  /\ Finish(w)
  /\ UNCHANGED <<issued, holder, typed, repeated>>

\* A tag that is given to one more animal, and one that is left with at most one.
Repeats(d, p, n) == IF tags[d][p][n] > 0 THEN {<<d, p, n>>} ELSE {}
Settles(d, p, n) == IF tags[d][p][n] <= 2 THEN {<<d, p, n>>} ELSE {}

\* add_animal_to_order with a tag of the same form, whether or not an animal has it; and the
\* save of an animal that was removed meanwhile, which inserts it again.
TypeTag(d, p, n) ==
  LET s == SavedPrefix(p) IN
  /\ tags[d][s][n] < MaxSame
  /\ tags' = [tags EXCEPT ![d][s][n] = @ + 1]
  /\ repeated' = repeated \cup Repeats(d, s, n)
  /\ UNCHANGED <<issued, holder, req, typed, slipped>>

Retagged(from, to) ==
  [c \in Days |-> [x \in Prefixes |-> [j \in 1 .. MaxTag |->
     CASE <<c, x, j>> = from -> tags[c][x][j] - 1
       [] <<c, x, j>> = to   -> tags[c][x][j] + 1
       [] OTHER              -> tags[c][x][j]]]]

\* EditAnimalInOrderView: another tag, or another date, whether or not an animal has it; and
\* any save of an animal that was loaded before, which writes back the tag it had.
EditTag(d, p, n, e, q, m) ==
  LET s == SavedPrefix(q) IN
  /\ tags[d][p][n] > 0 /\ tags[e][s][m] < MaxSame /\ <<d, p, n>> # <<e, s, m>>
  /\ tags' = Retagged(<<d, p, n>>, <<e, s, m>>)
  /\ repeated' = (repeated \ Settles(d, p, n)) \cup Repeats(e, s, m)
  /\ UNCHANGED <<issued, holder, req, typed, slipped>>

\* remove_animal_from_order
RemoveAnimal(d, p, n) ==
  /\ tags[d][p][n] > 0
  /\ tags' = [tags EXCEPT ![d][p][n] = @ - 1]
  /\ repeated' = repeated \ Settles(d, p, n)
  /\ UNCHANGED <<issued, holder, req, typed, slipped>>

-----------------------------------------------------------------------------
\* The request fails or its process dies: what it has not committed is rolled back.
Abandon(w) ==
  /\ ~At(w, "idle")
  /\ holder' = IF req[w].pc \in {"allocate", "insert"} THEN Released(req[w].day) ELSE holder
  /\ Finish(w)
  /\ UNCHANGED <<issued, tags, typed, slipped, repeated>>

Work(w) == Allocate(w) \/ Insert(w) \/ Collide(w) \/ AddBatch(w)

Next ==
  \/ \E w \in Workers :
       \/ \E d \in Days : Create(w, d)
       \/ \E d \in Days, p \in Prefixes, q \in 1 .. MaxTag : Batch(w, d, p, q)
       \/ Lock(w) \/ Work(w) \/ Abandon(w)
  \/ \E d \in Days, n \in 0 .. Full - 1 : TypeNumber(d, n)
  \/ \E d \in Days, p \in Prefixes, n \in 1 .. MaxTag :
       \/ TypeTag(d, p, n) \/ RemoveAnimal(d, p, n)
       \/ \E e \in Days, q \in Prefixes, m \in 1 .. MaxTag : EditTag(d, p, n, e, q, m)

Spec == Init /\ [][Next]_vars

\* A thread goes on with its request, and PostgreSQL grants a lock in the order of arrival.
FairSpec == Spec /\ \A w \in Workers : WF_vars(Work(w)) /\ SF_vars(Lock(w))

-----------------------------------------------------------------------------
(* Properties.                                                             *)

\* No request ever has to try again, however many create the first order of a day at the
\* same time, unless a number of the day was entered by hand or the day has as many orders
\* as the format has numbers, which no retry helps (generate_order_number).
RetriesOnlyByHand ==
  \A w \in Workers : req[w].attempt > 0 =>
    req[w].day \in typed \/ Cardinality(issued[req[w].day]) >= Full

\* The numbers of a day have no gap, whatever requests fail or are killed in between,
\* unless one was entered by hand.
NumbersFollow ==
  \A d \in Days \ typed : issued[d] = 1 .. Cardinality(issued[d])

\* A batch gives its animals tags no animal of the day has, with animals removed, retagged
\* and redated and tags typed in between, unless it missed what was added to its prefix
\* meanwhile, or the prefix is one that saving rewrites, so that the next batch does not
\* find it ("the sequence continues for the same prefix on the same day"): a tag two
\* animals have was typed for one of them.
TagsUniqueUnlessSlipped ==
  slipped \/ \A d \in Days, p \in Prefixes : \A n \in 1 .. MaxTag :
               tags[d][p][n] <= 1 \/ <<d, p, n>> \in repeated

\* Every request ends, those that wait for the lock of a full day too.
EventuallyAnswered == \A w \in Workers : ~At(w, "idle") ~> At(w, "idle")
=============================================================================
