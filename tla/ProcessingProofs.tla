--------------------------- MODULE ProcessingProofs ---------------------------
(***************************************************************************)
(* What the services of processing promise of one order, for any animals,  *)
(* batches, cuts, threads and packages: OrderLifecycle, WeightLogs and     *)
(* DisassemblyCuts, each with the inductive invariant its promises need.   *)
(***************************************************************************)
EXTENDS OrderLifecycle, WeightLogs, DisassemblyCuts, Sums, TLAPS, FiniteSetTheorems

(***************************************************************************)
(* The order and its animals.  The inductive invariant IInv adds to the    *)
(* types what a request knows at each step (ReqOK), that a row is locked   *)
(* by one transaction (Locks), that nobody else knows an animal that is    *)
(* being added (Fresh), and that a locked animal still is what its request *)
(* loaded, unless an update has been lost (Based).                         *)
(***************************************************************************)
InTransaction == {"save", "load", "read", "write", "commit"}
Transitions   == Deriving \cup {"cancel"}
Savers        == Transitions \cup Alone

ReqOK(r) ==
  /\ r.pc = "save" => r.op \in Savers
  /\ r.pc \in {"load", "read", "write"} => r.op \in Deriving
  /\ r.pc \in {"cancel", "list", "commit"} => r.op = "cancel"
  /\ r.pc = "insert" => r.op = "add"
  /\ r.pc = "delete" => r.op = "remove"
  /\ r.pc = "bill" => r.op = "bill"
  /\ r.pc \in {"read", "write"} => r.ord # "unread"
  /\ r.op = "batch" => r.ord # "unread"
  /\ r.op \in {"cancel", "add", "remove"} => r.ord = "PENDING"
  /\ r.op = "bill" => r.ord = "COMPLETED"
  /\ r.op \in Savers \ {"batch", "cancel"} => \A a, b \in r.todo : a = b
  /\ r.pc \in {"load", "read", "write"} /\ r.op # "batch" => r.todo = {}
  /\ r.op \in Savers => \A a \in r.todo : r.seen[a] \in Source[r.op]
  /\ \A a \in Animals : r.wr[a] # "clean" =>
        /\ r.pc \in InTransaction
        /\ r.op \in Transitions
        /\ r.wr[a] = Target[r.op]
  /\ r.op = "cancel" /\ r.pc \in {"save", "commit"} =>
        \A a \in Animals : r.read[a] # "none" =>
           (r.pc = "save" /\ a \in r.todo) \/ r.wr[a] = "disposed"
  /\ r.pc \in {"load", "read", "write"} => \E a \in Animals : r.wr[a] # "clean"

Reqs == \A w \in Workers : ReqOK(req[w])

Locks == \A v, w \in Workers : v # w => \A a \in Animals : ~Holds(v, a) \/ ~Holds(w, a)

Fresh ==
  \A v \in Workers : At(v, "insert") =>
    \A a \in req[v].todo :
      /\ animal[a] = "none"
      /\ \A w \in Workers \ {v} : a \notin req[w].todo /\ ~Holds(w, a)

Based ==
  ~drift => \A w \in Workers, a \in Animals :
              Holds(w, a) => animal[a] \in Source[req[w].op]

Inv  == TypeOK /\ Reqs /\ Locks /\ Fresh /\ Based
IInv == Inv /\ AgreesUnlessDrift

-----------------------------------------------------------------------------
(* Lemmas on the operators. *)

LEMMA IdleOK == Idle \in Request /\ ReqOK(Idle)
  BY DEF Idle, Request, ReqOK, NoRows, Clean, Rows, Labels, Savers, Transitions,
         Deriving, Alone, InTransaction

\* A transition's target is a status other than received, and further on.
LEMMA TargetOK ==
  ASSUME NEW op \in Transitions
  PROVE  /\ Target[op] \in Statuses \ {"received"}
         /\ Target[op] # "none" /\ Target[op] # "clean"
         /\ \A s \in Source[op] : s \in Statuses /\ Stage[s] <= Stage[Target[op]]
  BY DEF Transitions, Deriving, Target, Statuses, Working, Terminal, Source, Stage

\* Only a return or a cancellation starts from a finished animal.
LEMMA SourceWorks ==
  ASSUME NEW op \in Deriving, op # "return"
  PROVE  Source[op] \cap Terminal = {}
  BY DEF Deriving, Source, Terminal

LEMMA BecomesOK ==
  ASSUME NEW op \in Savers, NEW s \in Statuses
  PROVE  /\ Becomes(op, s) \in Statuses
         /\ op \in Transitions => Becomes(op, s) = Target[op]
  BY DEF Savers, Transitions, Deriving, Alone, Becomes, Target, Statuses, Working, Terminal

LEMMA SourceOK ==
  ASSUME NEW op \in Savers
  PROVE  Source[op] \subseteq Statuses
  BY DEF Savers, Transitions, Deriving, Alone, Source, Statuses, Working, Terminal

LEMMA DerivedOK ==
  ASSUME NEW o \in OrderStatuses, NEW rows
  PROVE  Derived(o, rows) \in OrderStatuses
  BY DEF Derived, OrderStatuses

\* What a request sees are rows, as it has written them or as they are committed.
LEMMA ViewOK ==
  ASSUME animal \in Rows, NEW r \in Request
  PROVE  /\ View(r) \in Rows
         /\ \A a \in Animals : View(r)[a] = IF r.wr[a] = "clean" THEN animal[a] ELSE r.wr[a]
  BY DEF View, Rows, Request

\* Agreement, animal by animal.
AgreeOn(o, rows) ==
  /\ o = "PENDING" => \A a \in Animals : rows[a] \notin Working
  /\ o = "IN_PROGRESS" => \E a \in Animals : rows[a] \notin Terminal \cup {"none"}
  /\ o \in {"COMPLETED", "BILLED"} => \A a \in Animals : rows[a] \in Terminal \cup {"none"}
  /\ o = "CANCELLED" => \A a \in Animals : rows[a] \in {"disposed", "none"}

LEMMA AgreesPointwise ==
  /\ Agrees <=> AgreeOn(order, animal)
  /\ Agrees' <=> AgreeOn(order', animal')
<1>1. Agrees <=> AgreeOn(order, animal)
  BY DEF Agrees, Present, AgreeOn, Working, Terminal
<1>2. Agrees' <=> AgreeOn(order', animal')
  BY DEF Agrees, Present, AgreeOn, Working, Terminal
<1> QED BY <1>1, <1>2

\* A derived status agrees with the animals it is derived from, if no animal has come
\* to be received since the order last agreed.
LEMMA DerivedAgrees ==
  ASSUME NEW o \in OrderStatuses, NEW old \in Rows, NEW rows \in Rows, AgreeOn(o, old),
         \A a \in Animals : rows[a] = "received" => old[a] = "received"
  PROVE  AgreeOn(Derived(o, rows), rows)
<1> DEFINE st == {rows[a] : a \in Animals} \ {"none"}
<1>1. CASE st \subseteq Terminal
  <2>1. Derived(o, rows) = "COMPLETED"
    BY <1>1 DEF Derived
  <2> QED BY <1>1, <2>1 DEF AgreeOn
<1>2. CASE ~(st \subseteq Terminal) /\ st \cap Working # {}
  <2>1. Derived(o, rows) = "IN_PROGRESS"
    BY <1>2 DEF Derived
  <2>2. \E a \in Animals : rows[a] \notin Terminal \cup {"none"}
    BY <1>2
  <2> QED BY <2>1, <2>2 DEF AgreeOn
<1>3. CASE ~(st \subseteq Terminal) /\ st \cap Working = {}
  <2>1. Derived(o, rows) = o
    BY <1>3 DEF Derived
  <2>2. PICK a \in Animals : rows[a] \notin Terminal \cup {"none"}
    BY <1>3
  <2>3. \A c \in Animals : rows[c] \notin Working
    BY <1>3 DEF Working
  <2>4. rows[a] = "received" /\ old[a] = "received"
    BY <2>2, <2>3 DEF Rows, Statuses
  <2> QED BY <2>1, <2>2, <2>3, <2>4 DEF AgreeOn, Terminal
<1> QED BY <1>1, <1>2, <1>3

-----------------------------------------------------------------------------
(* A step of one request. *)

\* r is the record a step of w leaves, animal' and drift' what it makes of the tables.
StepOf(w, r) ==
  /\ r \in Request /\ ReqOK(r)
  /\ req' = [req EXCEPT ![w] = r]
  /\ order' \in OrderStatuses /\ animal' \in Rows /\ weighed' \subseteq Animals
  /\ drift' \in BOOLEAN /\ (drift => drift')
  /\ \A a \in Animals : r.wr[a] # "clean" =>
        Holds(w, a) \/ (RowFree(w, a) /\ a \in req[w].todo)
  /\ ~drift' => \A a \in Animals : r.wr[a] # "clean" => animal'[a] \in Source[r.op]
  /\ r.pc = "insert" => \A a \in r.todo :
        /\ animal'[a] = "none"
        /\ \A v \in Workers \ {w} : a \notin req[v].todo /\ ~Holds(v, a)
  /\ r.pc # "insert" => \A a \in r.todo : a \in req[w].todo \/ animal[a] # "none"
  /\ \A a \in Animals : animal'[a] # animal[a] =>
        Holds(w, a) \/ (RowFree(w, a) /\ a \in req[w].todo)

LEMMA StepKeepsInv ==
  ASSUME Inv, NEW w \in Workers, NEW r, StepOf(w, r)
  PROVE  Inv'
<1>0. /\ r \in Request /\ ReqOK(r)
      /\ req' = [req EXCEPT ![w] = r]
      /\ req \in [Workers -> Request] /\ drift \in BOOLEAN /\ animal \in Rows
  BY DEF StepOf, Inv, TypeOK
<1>a. req'[w] = r /\ \A v \in Workers \ {w} : req'[v] = req[v]
  BY <1>0
<1>1. TypeOK'
  BY <1>0 DEF StepOf, TypeOK
<1>2. Reqs'
  <2>1. \A v \in Workers : ReqOK(req'[v])
    BY <1>0, <1>a DEF Inv, Reqs
  <2> QED BY <2>1 DEF Reqs, ReqOK
<1>3. \A v \in Workers \ {w}, a \in Animals : (req[v].wr[a] # "clean") => r.wr[a] = "clean"
  BY DEF StepOf, RowFree, Holds, Inv, Locks
<1>4. Locks'
  <2> SUFFICES ASSUME NEW u \in Workers, NEW v \in Workers, u # v, NEW a \in Animals
               PROVE  req'[u].wr[a] = "clean" \/ req'[v].wr[a] = "clean"
    BY DEF Locks, Holds
  <2>1. CASE u = w
    BY <2>1, <1>a, <1>3
  <2>2. CASE v = w
    BY <2>2, <1>a, <1>3
  <2>3. CASE u # w /\ v # w
    BY <2>3, <1>a DEF Inv, Locks, Holds
  <2> QED BY <2>1, <2>2, <2>3
<1>5. Fresh'
  <2> SUFFICES ASSUME NEW v \in Workers, req'[v].pc = "insert", NEW a \in req'[v].todo
               PROVE  /\ animal'[a] = "none"
                      /\ \A u \in Workers \ {v} : a \notin req'[u].todo /\ req'[u].wr[a] = "clean"
    BY DEF Fresh, At, Holds
  <2>1. CASE v = w
    BY <2>1, <1>a DEF StepOf, Holds
  <2>2. CASE v # w
    <3>1. /\ req[v].pc = "insert" /\ a \in req[v].todo /\ a \in Animals
          /\ animal[a] = "none" /\ \A u \in Workers \ {v} : a \notin req[u].todo /\ req[u].wr[a] = "clean"
      BY <2>2, <1>a, <1>0 DEF Inv, Fresh, At, Holds, Request
    <3>2. animal'[a] = "none"
      BY <3>1, <2>2 DEF StepOf, Holds
    <3>3. r.wr[a] = "clean"
      BY <3>1, <2>2 DEF StepOf, Holds
    <3>4. a \notin r.todo
      <4>1. CASE r.pc = "insert"
        BY <4>1, <3>1, <2>2 DEF StepOf
      <4>2. CASE r.pc # "insert"
        BY <4>2, <3>1, <2>2 DEF StepOf
      <4> QED BY <4>1, <4>2
    <3> QED BY <3>1, <3>2, <3>3, <3>4, <1>a
  <2> QED BY <2>1, <2>2
<1>6. Based'
  <2> SUFFICES ASSUME ~drift', NEW v \in Workers, NEW a \in Animals, req'[v].wr[a] # "clean"
               PROVE  animal'[a] \in Source[req'[v].op]
    BY DEF Based, Holds
  <2>1. CASE v = w
    BY <2>1, <1>a DEF StepOf
  <2>2. CASE v # w
    <3>1. ~drift /\ req[v].wr[a] # "clean" /\ req'[v].op = req[v].op
      BY <2>2, <1>a, <1>0 DEF StepOf
    <3>2. animal[a] \in Source[req[v].op]
      BY <3>1 DEF Inv, Based, Holds
    <3>3. animal'[a] = animal[a]
      BY <3>1, <2>2 DEF StepOf, RowFree, Holds, Inv, Locks
    <3> QED BY <3>1, <3>2, <3>3
  <2> QED BY <2>1, <2>2
<1> QED BY <1>1, <1>2, <1>4, <1>5, <1>6 DEF Inv

\* A step that reads, or begins or gives up a transaction.
Quiet(w, r) ==
  /\ r \in Request /\ ReqOK(r)
  /\ req' = [req EXCEPT ![w] = r]
  /\ UNCHANGED <<order, animal, weighed, drift>>
  /\ \/ \A a \in Animals : r.wr[a] = "clean"
     \/ r.wr = req[w].wr /\ r.op = req[w].op
  /\ r.pc = "insert" => r.todo \subseteq Unused
  /\ r.pc # "insert" => \A a \in r.todo : a \in req[w].todo \/ animal[a] # "none"

LEMMA QuietKeepsInv ==
  ASSUME Inv, NEW w \in Workers, NEW r, Quiet(w, r)
  PROVE  Inv'
<1>1. r \in Request /\ ReqOK(r) /\ req' = [req EXCEPT ![w] = r]
      /\ order' = order /\ animal' = animal /\ weighed' = weighed /\ drift' = drift
  BY DEF Quiet
<1>2. \A a \in Animals : r.wr[a] # "clean" => Holds(w, a) /\ r.op = req[w].op
  BY DEF Quiet, Holds
<1>3. ~drift' => \A a \in Animals : r.wr[a] # "clean" => animal'[a] \in Source[r.op]
  BY <1>1, <1>2 DEF Inv, Based
<1>4. r.pc = "insert" => \A a \in r.todo :
        /\ animal'[a] = "none"
        /\ \A v \in Workers \ {w} : a \notin req[v].todo /\ ~Holds(v, a)
  BY <1>1 DEF Quiet, Unused
<1>5. r.pc # "insert" => \A a \in r.todo : a \in req[w].todo \/ animal[a] # "none"
  BY DEF Quiet
<1>6. StepOf(w, r)
  BY <1>1, <1>2, <1>3, <1>4, <1>5 DEF StepOf, Inv, TypeOK
<1> QED BY <1>6, StepKeepsInv

-----------------------------------------------------------------------------
(* Every action keeps Inv. *)

LEMMA LoadedOK ==
  ASSUME TypeOK, NEW A \in SUBSET Animals
  PROVE  Loaded(A) \in Rows /\ \A a \in A : Loaded(A)[a] = animal[a]
  BY DEF Loaded, TypeOK, Rows

LEMMA CleanOK ==
  /\ Clean \in [Animals -> Statuses \cup {"clean"}] /\ NoRows \in Rows
  /\ \A a \in Animals : Clean[a] = "clean" /\ NoRows[a] = "none"
  BY DEF Clean, NoRows, Rows

\* A request that begins has written nothing.
Begun(r, pc, op, A, o) ==
  /\ r \in Request
  /\ r.pc = pc /\ r.op = op /\ r.todo = A /\ r.ord = o
  /\ \A a \in Animals : r.wr[a] = "clean" /\ r.read[a] = "none"

LEMMA StartInv ==
  ASSUME Inv, NEW w \in Workers, NEW op \in (Deriving \ {"batch"}) \cup Alone,
         NEW a \in Animals, Start(w, op, a)
  PROVE  Inv'
<1>1. PICK o \in LoadedWith(op) :
        req' = [req EXCEPT ![w] = [Idle EXCEPT !.pc = "save", !.op = op, !.todo = {a},
                                               !.seen = Loaded({a}), !.ord = o]]
  BY DEF Start, Begin, Become
<1> DEFINE r == [Idle EXCEPT !.pc = "save", !.op = op, !.todo = {a},
                             !.seen = Loaded({a}), !.ord = o]
<1>2. o \in OrderStatuses \cup {"unread"}
  BY DEF LoadedWith, Inv, TypeOK
<1>3. Loaded({a}) \in Rows /\ Loaded({a})[a] = animal[a]
  BY LoadedOK DEF Inv
<1>4. Begun(r, "save", op, {a}, o) /\ r.seen[a] = animal[a]
  BY <1>2, <1>3, CleanOK DEF Begun, Idle, Request, Labels, AllOps
<1>5. animal[a] \in Source[op] /\ op \in Savers /\ op # "batch"
  BY DEF Start, Allowed, Savers, Transitions, Deriving, Alone
<1>6. ReqOK(r)
  BY <1>4, <1>5 DEF Begun, ReqOK, Deriving, Alone, Savers
<1>7. animal[a] # "none"
  BY <1>5, SourceOK DEF Statuses, Working, Terminal
<1>8. Quiet(w, r)
  BY <1>1, <1>4, <1>6, <1>7 DEF Quiet, Start, Begun
<1> QED BY <1>8, QuietKeepsInv

LEMMA StartBatchInv ==
  ASSUME Inv, NEW w \in Workers, StartBatch(w)
  PROVE  Inv'
<1> DEFINE A == {a \in Animals : animal[a] = "received"}
           r == [Idle EXCEPT !.pc = "save", !.op = "batch", !.todo = A,
                             !.seen = Loaded(A), !.ord = order]
<1>1. Loaded(A) \in Rows /\ \A a \in A : Loaded(A)[a] = "received"
  BY LoadedOK DEF Inv
<1>2. req' = [req EXCEPT ![w] = r]
  BY DEF StartBatch, Begin, Become
<1>3. order \in OrderStatuses /\ order # "unread"
  BY DEF Inv, TypeOK, OrderStatuses
<1>4. Begun(r, "save", "batch", A, order) /\ \A a \in A : r.seen[a] = "received"
  BY <1>1, <1>3, CleanOK DEF Begun, Idle, Request, Labels, AllOps, Deriving
<1>5. ReqOK(r)
  BY <1>3, <1>4 DEF Begun, ReqOK, Deriving, Alone, Savers, Transitions, Source
<1>6. Quiet(w, r)
  BY <1>2, <1>4, <1>5 DEF Quiet, StartBatch, Begun
<1> QED BY <1>6, QuietKeepsInv

\* StartCancel, StartBill, StartAdd and StartRemove: nothing is loaded but the order.
LEMMA StartOrderInv ==
  ASSUME Inv, NEW w \in Workers,
         StartCancel(w) \/ StartBill(w) \/ StartAdd(w) \/ (\E a \in Animals : StartRemove(w, a))
  PROVE  Inv'
<1>0. order \in OrderStatuses
  BY DEF Inv, TypeOK
<1>1. CASE StartCancel(w)
  <2> DEFINE r == [Idle EXCEPT !.pc = "cancel", !.op = "cancel", !.ord = order]
  <2>1. Begun(r, "cancel", "cancel", {}, order) /\ req' = [req EXCEPT ![w] = r]
    BY <1>0, <1>1, CleanOK DEF StartCancel, Begin, Become, Begun, Idle, Request, Labels, AllOps
  <2>2. ReqOK(r)
    BY <1>1, <2>1 DEF StartCancel, ReqOK, Begun
  <2>3. Quiet(w, r)
    BY <1>1, <2>1, <2>2 DEF Quiet, StartCancel, Begun
  <2> QED BY <2>3, QuietKeepsInv
<1>2. CASE StartBill(w)
  <2> DEFINE r == [Idle EXCEPT !.pc = "bill", !.op = "bill", !.ord = order]
  <2>1. Begun(r, "bill", "bill", {}, order) /\ req' = [req EXCEPT ![w] = r]
    BY <1>0, <1>2, CleanOK DEF StartBill, Begin, Become, Begun, Idle, Request, Labels, AllOps
  <2>2. ReqOK(r)
    BY <1>2, <2>1 DEF StartBill, MayBill, ReqOK, Begun
  <2>3. Quiet(w, r)
    BY <1>2, <2>1, <2>2 DEF Quiet, StartBill, Begun
  <2> QED BY <2>3, QuietKeepsInv
<1>3. CASE StartAdd(w)
  <2>0. PICK A \in SUBSET Unused \ {{}} :
          Begin(w, [Idle EXCEPT !.pc = "insert", !.op = "add", !.todo = A, !.ord = order])
    BY <1>3 DEF StartAdd
  <2> DEFINE r == [Idle EXCEPT !.pc = "insert", !.op = "add", !.todo = A, !.ord = order]
  <2>1. Begun(r, "insert", "add", A, order) /\ req' = [req EXCEPT ![w] = r]
    BY <1>0, <2>0, CleanOK DEF Begin, Become, Begun, Idle, Request, Labels, AllOps, Unused
  <2>2. ReqOK(r)
    BY <1>3, <2>1 DEF StartAdd, ReqOK, Begun, Savers, Transitions, Deriving, Alone
  <2>3. Quiet(w, r)
    BY <1>3, <2>0, <2>1, <2>2 DEF Quiet, StartAdd, Begun
  <2> QED BY <2>3, QuietKeepsInv
<1>4. CASE \E a \in Animals : StartRemove(w, a)
  <2>0. PICK a \in Animals : StartRemove(w, a)
    BY <1>4
  <2> DEFINE r == [Idle EXCEPT !.pc = "delete", !.op = "remove", !.todo = {a}, !.ord = order]
  <2>1. Begun(r, "delete", "remove", {a}, order) /\ req' = [req EXCEPT ![w] = r]
    BY <1>0, <2>0, CleanOK DEF StartRemove, Begin, Become, Begun, Idle, Request, Labels, AllOps
  <2>2. ReqOK(r)
    BY <2>0, <2>1 DEF StartRemove, ReqOK, Begun, Savers, Transitions, Deriving, Alone
  <2>3. Quiet(w, r)
    BY <2>0, <2>1, <2>2 DEF Quiet, StartRemove, Begun
  <2> QED BY <2>3, QuietKeepsInv
<1> QED BY <1>1, <1>2, <1>3, <1>4

\* Steps of a transaction that only read.
LEMMA ReadInv ==
  ASSUME Inv, NEW w \in Workers,
         LoadOrder(w) \/ ReadAnimals(w) \/ CancelOrder(w) \/ ListAnimals(w)
  PROVE  Inv'
<1>0. /\ req[w] \in Request /\ ReqOK(req[w])
      /\ order \in OrderStatuses /\ order # "unread" /\ animal \in Rows
  BY DEF Inv, TypeOK, Reqs, OrderStatuses
<1>1. CASE LoadOrder(w)
  <2> DEFINE r == [req[w] EXCEPT !.pc = "read", !.ord = order]
  <2>1. r \in Request /\ req' = [req EXCEPT ![w] = r]
    BY <1>0, <1>1 DEF LoadOrder, Become, Request, Labels
  <2>2. ReqOK(r)
    BY <1>0, <1>1 DEF LoadOrder, At, ReqOK, InTransaction, Deriving, Request
  <2>3. Quiet(w, r)
    BY <1>0, <1>1, <2>1, <2>2 DEF Quiet, LoadOrder, Request
  <2> QED BY <2>3, QuietKeepsInv
<1>2. CASE ReadAnimals(w)
  <2> DEFINE r == [req[w] EXCEPT !.pc = "write", !.read = View(req[w])]
  <2>1. r \in Request /\ req' = [req EXCEPT ![w] = r]
    BY <1>0, <1>2, ViewOK DEF ReadAnimals, Become, Request, Labels
  <2>2. ReqOK(r)
    BY <1>0, <1>2 DEF ReadAnimals, At, ReqOK, InTransaction, Deriving, Request
  <2>3. Quiet(w, r)
    BY <1>0, <1>2, <2>1, <2>2 DEF Quiet, ReadAnimals, Request
  <2> QED BY <2>3, QuietKeepsInv
<1>3. CASE CancelOrder(w)
  <2> DEFINE r == [req[w] EXCEPT !.pc = "list"]
  <2>1. r \in Request /\ req' = [req EXCEPT ![w] = r]
    BY <1>0, <1>3 DEF CancelOrder, Become, Request, Labels
  <2>2. ReqOK(r)
    BY <1>0, <1>3 DEF CancelOrder, At, ReqOK, InTransaction, Request
  <2>3. Quiet(w, r)
    BY <1>0, <1>3, <2>1, <2>2 DEF Quiet, CancelOrder, Request
  <2> QED BY <2>3, QuietKeepsInv
<1>4. CASE ListAnimals(w)
  <2> DEFINE A == {a \in Animals : animal[a] # "none"}
             r == [req[w] EXCEPT !.pc = IF A = {} THEN "commit" ELSE "save",
                                 !.todo = A, !.seen = animal, !.read = animal]
  <2>1. r \in Request /\ req' = [req EXCEPT ![w] = r]
    BY <1>0, <1>4 DEF ListAnimals, Become, Request, Labels
  <2>2. \A a \in A : animal[a] \in Source["cancel"]
    BY <1>0 DEF Source, Rows
  <2>3. ReqOK(r)
    <3>1. r.op = "cancel" /\ r.ord = "PENDING" /\ r.wr = req[w].wr /\ r.todo = A /\ r.seen = animal
          /\ r.read = animal /\ r.pc = IF A = {} THEN "commit" ELSE "save"
      BY <1>0, <1>4 DEF ListAnimals, At, ReqOK, Request
    <3>2. \A a \in Animals : r.wr[a] = "clean"
      BY <3>1, <1>0, <1>4 DEF ListAnimals, At, ReqOK, InTransaction
    <3> HIDE DEF r
    <3> QED BY <3>1, <3>2, <2>2 DEF ReqOK, Savers, Transitions, Deriving, Alone
  <2>4. Quiet(w, r)
    BY <1>0, <1>4, <2>1, <2>3 DEF Quiet, ListAnimals, Request
  <2> QED BY <2>4, QuietKeepsInv
<1> QED BY <1>1, <1>2, <1>3, <1>4

\* The next animal of a batch, or the end.
LEMMA ContinueOK ==
  ASSUME Inv, NEW w \in Workers, NEW o \in OrderStatuses, req[w].op \in Deriving,
         req[w].todo # {} => req[w].op = "batch"
  PROVE  LET r == IF req[w].todo = {} THEN Idle
                  ELSE [req[w] EXCEPT !.pc = "save", !.ord = o, !.read = NoRows, !.wr = Clean]
         IN  /\ r \in Request /\ ReqOK(r)
             /\ r.pc # "insert" /\ r.todo \subseteq req[w].todo
             /\ \A a \in Animals : r.wr[a] = "clean"
<1>0. req[w] \in Request /\ ReqOK(req[w]) /\ o # "unread"
  BY DEF Inv, TypeOK, Reqs, OrderStatuses
<1>1. CASE req[w].todo = {}
  BY <1>1, IdleOK, CleanOK DEF Idle
<1>2. CASE req[w].todo # {}
  <2> DEFINE r == [req[w] EXCEPT !.pc = "save", !.ord = o, !.read = NoRows, !.wr = Clean]
  <2>1. r \in Request
    BY <1>0, CleanOK DEF Request, Labels
  <2>2. r.pc = "save" /\ r.op = "batch" /\ r.todo = req[w].todo /\ r.seen = req[w].seen
        /\ r.ord = o /\ r.wr = Clean
    BY <1>0, <1>2 DEF Request
  <2>3. \A a \in r.todo : r.seen[a] \in Source["batch"]
    BY <1>0, <1>2, <2>2 DEF ReqOK, Savers, Transitions, Deriving
  <2>4. ReqOK(r)
    <3> HIDE DEF r
    <3> QED BY <1>0, <2>2, <2>3, CleanOK DEF ReqOK, Savers, Transitions, Deriving
  <2> QED BY <1>2, <2>1, <2>2, <2>4, CleanOK
<1> QED BY <1>1, <1>2

LEMMA FailureInv ==
  ASSUME Inv, NEW w \in Workers, Abort(w) \/ Crash(w)
  PROVE  Inv'
<1>1. CASE req' = [req EXCEPT ![w] = Idle] /\ UNCHANGED <<order, animal, weighed, drift>>
  <2>1. Quiet(w, Idle)
    BY <1>1, IdleOK, CleanOK DEF Quiet, Idle
  <2> QED BY <2>1, QuietKeepsInv
<1>2. CASE Abort(w) /\ req[w].op = "batch"
  <2> DEFINE o == Derived(req[w].ord, req[w].read)
             r == IF req[w].todo = {} THEN Idle
                  ELSE [req[w] EXCEPT !.pc = "save", !.ord = o, !.read = NoRows, !.wr = Clean]
  <2>1. req[w].ord \in OrderStatuses
    BY <1>2 DEF Inv, TypeOK, Request, Reqs, ReqOK
  <2>2. o \in OrderStatuses
    BY <2>1, DerivedOK
  <2>3. /\ r \in Request /\ ReqOK(r) /\ r.pc # "insert" /\ r.todo \subseteq req[w].todo
        /\ \A a \in Animals : r.wr[a] = "clean"
    BY <1>2, <2>2, ContinueOK DEF Deriving
  <2>4. req' = [req EXCEPT ![w] = r]
    BY <1>2 DEF Abort, Continue, Become
  <2>5. Quiet(w, r)
    <3> HIDE DEF r
    <3> QED BY <1>2, <2>3, <2>4 DEF Quiet, Abort
  <2> QED BY <2>5, QuietKeepsInv
<1> QED BY <1>1, <1>2 DEF Abort, Crash, Finish, Become

LEMMA SaveInv ==
  ASSUME Inv, NEW w \in Workers, NEW a \in Animals, Save(w, a)
  PROVE  Inv'
<1> DEFINE q == req[w]
           rest == q.todo \ {a}
           next == CASE q.op = "cancel" -> IF rest = {} THEN "commit" ELSE "save"
                     [] OTHER           -> IF q.ord = "unread" THEN "load" ELSE "read"
           r == [q EXCEPT !.pc = next, !.todo = rest,
                          !.wr = [@ EXCEPT ![a] = Becomes(q.op, q.seen[a])]]
<1>0. /\ q \in Request /\ ReqOK(q) /\ q.pc = "save" /\ q.op \in Transitions /\ q.op \in Savers
      /\ a \in q.todo /\ RowFree(w, a)
  BY DEF Inv, TypeOK, Reqs, Save, At, ReqOK, Savers
<1>1. q.seen[a] \in Source[q.op] /\ q.seen[a] \in Statuses
  BY <1>0, SourceOK DEF ReqOK
<1>2. /\ Becomes(q.op, q.seen[a]) = Target[q.op]
      /\ Target[q.op] \in Statuses /\ Target[q.op] # "clean"
  BY <1>0, <1>1, BecomesOK, TargetOK
<1>3. next \in Labels \ {"insert"} /\ next \in InTransaction
  BY DEF Labels, InTransaction
<1>4. /\ r \in Request /\ req' = [req EXCEPT ![w] = r]
  <2>1. [q.wr EXCEPT ![a] = Becomes(q.op, q.seen[a])] \in [Animals -> Statuses \cup {"clean"}]
    BY <1>0, <1>2 DEF Request
  <2>2. r \in Request
    <3> HIDE DEF next
    <3> QED BY <1>0, <1>3, <2>1 DEF Request
  <2> QED BY <2>2 DEF Save, Become
<1>5. /\ r.pc = next /\ r.op = q.op /\ r.todo = rest /\ r.seen = q.seen /\ r.read = q.read
      /\ r.ord = q.ord /\ r.wr[a] = Target[q.op]
      /\ \A b \in Animals \ {a} : r.wr[b] = q.wr[b]
  <2> HIDE DEF next
  <2> QED BY <1>0, <1>2 DEF Request
<1> HIDE DEF r
<1>6. ReqOK(r)
  <2>1. CASE q.op = "cancel"
    <3>1. r.pc \in {"save", "commit"} /\ (rest # {} => r.pc = "save")
      BY <2>1, <1>5
    <3>2. Target["cancel"] = "disposed"
      BY DEF Target
    <3>3. \A b \in Animals : r.read[b] # "none" =>
             (r.pc = "save" /\ b \in r.todo) \/ r.wr[b] = "disposed"
      BY <1>0, <1>5, <2>1, <3>1, <3>2 DEF ReqOK
    <3> HIDE DEF next
    <3> QED BY <1>0, <1>5, <2>1, <3>1, <3>3 DEF ReqOK, Savers, Transitions, Deriving, InTransaction
  <2>2. CASE q.op # "cancel"
    <3>1. q.op \in Deriving /\ r.pc \in {"load", "read"} /\ (r.pc = "read" => q.ord # "unread")
      BY <2>2, <1>0, <1>5 DEF Transitions
    <3>2. q.op # "batch" => rest = {}
      BY <1>0, <2>2 DEF ReqOK
    <3>3. r.wr[a] # "clean"
      BY <1>2, <1>5
    <3> HIDE DEF next
    <3> QED BY <1>0, <1>5, <2>2, <3>1, <3>2, <3>3
          DEF ReqOK, Savers, Transitions, Deriving, InTransaction
  <2> QED BY <2>1, <2>2
<1>7. ~drift' => \A b \in Animals : r.wr[b] # "clean" => animal'[b] \in Source[r.op]
  <2>1. ~drift' => ~drift /\ animal[a] = q.seen[a]
    BY DEF Save, SetDrift
  <2>2. animal' = animal
    BY DEF Save
  <2> QED BY <2>1, <2>2, <1>1, <1>5 DEF Inv, Based, Holds
<1>8. StepOf(w, r)
  <2>1. order' \in OrderStatuses /\ animal' = animal /\ animal' \in Rows
        /\ weighed' \subseteq Animals /\ drift' \in BOOLEAN /\ (drift => drift')
    BY DEF Save, SetDrift, Inv, TypeOK
  <2>2. \A b \in Animals : r.wr[b] # "clean" => Holds(w, b) \/ (RowFree(w, b) /\ b \in q.todo)
    BY <1>0, <1>5 DEF Holds
  <2>3. r.pc # "insert" /\ r.todo \subseteq q.todo
    BY <1>3, <1>5
  <2> HIDE DEF next
  <2> QED BY <1>4, <1>6, <1>7, <2>1, <2>2, <2>3 DEF StepOf
<1> QED BY <1>8, StepKeepsInv

\* Steps after which the request ends: the animals they write are theirs to write.
LEMMA FinishInv ==
  ASSUME Inv, NEW w \in Workers, req' = [req EXCEPT ![w] = Idle],
         order' \in OrderStatuses, animal' \in Rows, weighed' \subseteq Animals,
         drift' \in BOOLEAN, drift => drift',
         \A a \in Animals : animal'[a] # animal[a] =>
            Holds(w, a) \/ (RowFree(w, a) /\ a \in req[w].todo)
  PROVE  Inv'
<1>1. StepOf(w, Idle)
  BY IdleOK, CleanOK DEF StepOf, Idle
<1> QED BY <1>1, StepKeepsInv

LEMMA SaveAloneInv ==
  ASSUME Inv, NEW w \in Workers, NEW a \in Animals, SaveAlone(w, a)
  PROVE  Inv' /\ (~drift' => animal[a] = req[w].seen[a] /\ animal'[a] = Becomes(req[w].op, animal[a]))
<1>1. req[w] \in Request /\ ReqOK(req[w]) /\ req[w].op \in Savers /\ a \in req[w].todo
  BY DEF Inv, TypeOK, Reqs, SaveAlone, At, ReqOK
<1>2. req[w].seen[a] \in Statuses
  BY <1>1, SourceOK DEF ReqOK
<1>3. Becomes(req[w].op, req[w].seen[a]) \in Statuses
  BY <1>1, <1>2, BecomesOK
<1>4. animal \in Rows /\ animal' = [animal EXCEPT ![a] = Becomes(req[w].op, req[w].seen[a])]
  BY DEF SaveAlone, Inv, TypeOK
<1>5. animal' \in Rows
  BY <1>3, <1>4 DEF Rows
<1>6. \A b \in Animals : animal'[b] # animal[b] => RowFree(w, b) /\ b \in req[w].todo
  BY <1>1, <1>4 DEF SaveAlone, Rows
<1>7. Inv'
  BY <1>5, <1>6, FinishInv DEF SaveAlone, Finish, Become, SetDrift, Inv, TypeOK
<1> QED BY <1>4, <1>7 DEF SaveAlone, SetDrift, Rows

LEMMA WriteOrderInv ==
  ASSUME Inv, NEW w \in Workers, WriteOrder(w)
  PROVE  Inv'
<1> DEFINE q == req[w]
           o == Derived(q.ord, q.read)
           r == IF q.todo = {} THEN Idle
                ELSE [q EXCEPT !.pc = "save", !.ord = o, !.read = NoRows, !.wr = Clean]
<1>1. q \in Request /\ ReqOK(q) /\ q.pc = "write" /\ q.op \in Deriving /\ q.ord \in OrderStatuses
      /\ (q.todo # {} => q.op = "batch")
  BY DEF Inv, TypeOK, Reqs, WriteOrder, At, ReqOK, Request
<1>2. o \in OrderStatuses
  BY <1>1, DerivedOK
<1>3. /\ r \in Request /\ ReqOK(r) /\ r.pc # "insert" /\ r.todo \subseteq q.todo
      /\ \A a \in Animals : r.wr[a] = "clean"
  BY <1>1, <1>2, ContinueOK
<1>4. req' = [req EXCEPT ![w] = r] /\ order' = o /\ animal' = View(q)
  BY DEF WriteOrder, Continue, Become
<1> HIDE DEF r, o
<1>5. animal' \in Rows /\ \A a \in Animals : animal'[a] # animal[a] => Holds(w, a)
  BY <1>1, <1>4, ViewOK DEF Holds, Inv, TypeOK
<1>6. weighed' \subseteq Animals /\ drift' \in BOOLEAN /\ (drift => drift')
  BY DEF WriteOrder, SetDrift, Inv, TypeOK
<1>7. StepOf(w, r)
  BY <1>2, <1>3, <1>4, <1>5, <1>6 DEF StepOf
<1> QED BY <1>7, StepKeepsInv

LEMMA CommitCancelInv ==
  ASSUME Inv, NEW w \in Workers, CommitCancel(w)
  PROVE  Inv'
<1>1. req[w] \in Request /\ animal' = View(req[w])
  BY DEF CommitCancel, Inv, TypeOK
<1>2. animal' \in Rows /\ \A a \in Animals : animal'[a] # animal[a] => Holds(w, a)
  BY <1>1, ViewOK DEF Holds, Inv, TypeOK
<1> QED BY <1>2, FinishInv DEF CommitCancel, Finish, Become, SetDrift, Inv, TypeOK, OrderStatuses

\* Bill, Insert and Delete.
LEMMA OrderStepInv ==
  ASSUME Inv, NEW w \in Workers,
         Bill(w) \/ Insert(w) \/ (\E a \in Animals : Delete(w, a))
  PROVE  Inv'
<1>1. CASE Bill(w)
  BY <1>1, FinishInv DEF Bill, Finish, Become, SetDrift, Inv, TypeOK, OrderStatuses
<1>2. CASE Insert(w)
  <2>1. animal' \in Rows
    BY <1>2 DEF Insert, Inv, TypeOK, Rows, Statuses
  <2>2. \A a \in Animals : animal'[a] # animal[a] => RowFree(w, a) /\ a \in req[w].todo
    BY <1>2 DEF Insert, Inv, Fresh, RowFree
  <2> QED BY <1>2, <2>1, <2>2, FinishInv DEF Insert, Finish, Become, SetDrift, Inv, TypeOK
<1>3. CASE \E a \in Animals : Delete(w, a)
  <2>0. PICK a \in Animals : Delete(w, a)
    BY <1>3
  <2>1. animal' \in Rows
    BY <2>0 DEF Delete, Inv, TypeOK, Rows
  <2>2. \A b \in Animals : animal'[b] # animal[b] => RowFree(w, b) /\ b \in req[w].todo
    BY <2>0 DEF Delete, Inv, TypeOK, Rows
  <2> QED BY <2>0, <2>1, <2>2, FinishInv DEF Delete, Finish, Become, SetDrift, Inv, TypeOK
<1> QED BY <1>1, <1>2, <1>3

LEMMA RelogInv ==
  ASSUME Inv, NEW w \in Workers, NEW a \in Animals, Relog(w, a)
  PROVE  Inv'
  BY DEF Relog, Inv, TypeOK, Reqs, ReqOK, Locks, Holds, Fresh, At, Based

-----------------------------------------------------------------------------
(* Every step keeps Inv. *)

\* The actions of Next that write the order, the animals or drift, and the others.
LEMMA NextCases ==
  ASSUME Next
  PROVE  \E w \in Workers :
           \/ \E a \in Animals : SaveAlone(w, a) \/ Delete(w, a)
           \/ WriteOrder(w) \/ CommitCancel(w) \/ Bill(w) \/ Insert(w)
           \/ \E a \in Animals : Save(w, a)
           \/ /\ UNCHANGED <<order, animal, drift>>
              /\ \/ \E a \in Animals : \/ \E op \in (Deriving \ {"batch"}) \cup Alone : Start(w, op, a)
                                      \/ Relog(w, a) \/ StartRemove(w, a)
                 \/ StartBatch(w) \/ StartCancel(w) \/ StartBill(w) \/ StartAdd(w)
                 \/ LoadOrder(w) \/ ReadAnimals(w) \/ CancelOrder(w) \/ ListAnimals(w)
                 \/ Abort(w) \/ Crash(w)
  BY DEF Next, Step, Start, Relog, StartRemove, StartBatch, StartCancel, StartBill, StartAdd,
         LoadOrder, ReadAnimals, CancelOrder, ListAnimals, Abort, Crash

LEMMA InvNext == Inv /\ [Next]_vars => Inv'
<1> SUFFICES ASSUME Inv, [Next]_vars PROVE Inv'
  OBVIOUS
<1>1. CASE Next
  <2>1. PICK w \in Workers :
           \/ \E a \in Animals : SaveAlone(w, a) \/ Delete(w, a)
           \/ WriteOrder(w) \/ CommitCancel(w) \/ Bill(w) \/ Insert(w)
           \/ \E a \in Animals : Save(w, a)
           \/ \E a \in Animals : \/ \E op \in (Deriving \ {"batch"}) \cup Alone : Start(w, op, a)
                                 \/ Relog(w, a) \/ StartRemove(w, a)
           \/ StartBatch(w) \/ StartCancel(w) \/ StartBill(w) \/ StartAdd(w)
           \/ LoadOrder(w) \/ ReadAnimals(w) \/ CancelOrder(w) \/ ListAnimals(w)
           \/ Abort(w) \/ Crash(w)
    BY <1>1, NextCases
  <2> QED BY <2>1, StartInv, StartBatchInv, StartOrderInv, ReadInv, FailureInv, SaveInv,
             SaveAloneInv, WriteOrderInv, CommitCancelInv, OrderStepInv, RelogInv
<1>2. CASE UNCHANGED vars
  BY <1>2 DEF vars, Inv, TypeOK, Reqs, ReqOK, Locks, Holds, Fresh, At, Based
<1> QED BY <1>1, <1>2

LEMMA InvInit == Init => Inv /\ Agrees
<1> SUFFICES ASSUME Init PROVE Inv /\ Agrees
  OBVIOUS
<1>1. TypeOK
  BY IdleOK DEF Init, TypeOK, OrderStatuses, Rows, Statuses
<1>2. \A w \in Workers : req[w] = Idle
  BY DEF Init
<1>3. Reqs /\ Locks /\ Fresh /\ Based
  BY <1>2, IdleOK, CleanOK DEF Reqs, Locks, Holds, Fresh, At, Based, Idle
<1>4. AgreeOn(order, animal)
  BY DEF Init, AgreeOn, Working
<1> QED BY <1>1, <1>3, <1>4, AgreesPointwise DEF Inv

-----------------------------------------------------------------------------
(* What a step that loses no update writes. *)

\* The status was derived from the rows as they are, by the order as it is, and a row
\* that was written was one the transition starts from.
LEMMA WriteFacts ==
  ASSUME Inv, NEW w \in Workers, WriteOrder(w), ~drift'
  PROVE  /\ ~drift /\ req[w].op \in Deriving
         /\ order \in OrderStatuses /\ animal \in Rows /\ animal' \in Rows
         /\ order' = Derived(order, animal')
         /\ \E a \in Animals : Holds(w, a)
         /\ \A a \in Animals : Holds(w, a) =>
               animal[a] \in Source[req[w].op] /\ animal'[a] = Target[req[w].op]
         /\ \A a \in Animals : ~Holds(w, a) => animal'[a] = animal[a]
<1>1. req[w] \in Request /\ ReqOK(req[w]) /\ req[w].pc = "write" /\ animal \in Rows
  BY DEF Inv, TypeOK, Reqs, WriteOrder, At
<1>2. ~drift /\ order = req[w].ord /\ View(req[w]) = req[w].read /\ animal' = View(req[w])
      /\ order' = Derived(req[w].ord, req[w].read)
  BY DEF WriteOrder, SetDrift
<1>3. /\ View(req[w]) \in Rows
      /\ \A a \in Animals : animal'[a] = IF Holds(w, a) THEN req[w].wr[a] ELSE animal[a]
  BY <1>1, <1>2, ViewOK DEF Holds
<1>4. /\ req[w].op \in Deriving /\ \E a \in Animals : Holds(w, a)
      /\ \A a \in Animals : Holds(w, a) => req[w].wr[a] = Target[req[w].op]
  BY <1>1 DEF ReqOK, Holds
<1>5. \A a \in Animals : Holds(w, a) => animal[a] \in Source[req[w].op]
  BY <1>2 DEF Inv, Based
<1> QED BY <1>1, <1>2, <1>3, <1>4, <1>5 DEF Inv, TypeOK

\* A cancellation has disposed of every animal there is.
LEMMA CancelFacts ==
  ASSUME Inv, NEW w \in Workers, CommitCancel(w), ~drift'
  PROVE  /\ order = "PENDING" /\ order' = "CANCELLED"
         /\ \A a \in Animals : animal'[a] \in {"disposed", "none"}
         /\ \A a \in Animals : animal'[a] # animal[a] => animal'[a] = "disposed"
<1>1. req[w] \in Request /\ ReqOK(req[w]) /\ req[w].pc = "commit" /\ req[w].op = "cancel"
      /\ animal \in Rows
  BY DEF Inv, TypeOK, Reqs, CommitCancel, At, ReqOK
<1>2. \A a \in Animals : animal'[a] = IF req[w].wr[a] = "clean" THEN animal[a] ELSE req[w].wr[a]
  BY <1>1, ViewOK DEF CommitCancel
<1>3. /\ \A a \in Animals : req[w].read[a] # "none" => req[w].wr[a] = "disposed"
      /\ \A a \in Animals : req[w].wr[a] # "clean" => req[w].wr[a] = "disposed"
  BY <1>1 DEF ReqOK, Target
<1>4. /\ order = "PENDING" /\ order' = "CANCELLED"
      /\ \A a \in Animals : animal[a] # "none" => req[w].read[a] # "none"
  BY <1>1 DEF CommitCancel, SetDrift, ReqOK
<1> QED BY <1>2, <1>3, <1>4

\* Animals that are added or removed belong to a pending order, and a billed order was
\* completed.
LEMMA OrderFacts ==
  ASSUME Inv, NEW w \in Workers, ~drift'
  PROVE  /\ Bill(w) => order = "COMPLETED"
         /\ Insert(w) => order = "PENDING" /\ \A a \in Animals :
                           animal'[a] = animal[a] \/ (animal[a] = "none" /\ animal'[a] = "received")
         /\ \A a \in Animals : Delete(w, a) => order = "PENDING"
<1>1. ReqOK(req[w])
  BY DEF Inv, Reqs
<1>2. Bill(w) => order = "COMPLETED"
  BY <1>1 DEF Bill, At, SetDrift, ReqOK
<1>3. Insert(w) => order = "PENDING"
  BY <1>1 DEF Insert, At, SetDrift, ReqOK
<1>4. Insert(w) => \A a \in Animals :
                     animal'[a] = animal[a] \/ (animal[a] = "none" /\ animal'[a] = "received")
  BY DEF Insert, Inv, Fresh
<1>5. \A a \in Animals : Delete(w, a) => order = "PENDING"
  BY <1>1 DEF Delete, At, SetDrift, ReqOK
<1> QED BY <1>2, <1>3, <1>4, <1>5

\* A save that commits alone leaves the status, or takes a ready carcass apart.
LEMMA AloneFacts ==
  ASSUME Inv, NEW w \in Workers, NEW a \in Animals, SaveAlone(w, a), ~drift'
  PROVE  /\ \A b \in Animals \ {a} : animal'[b] = animal[b]
         /\ \/ animal'[a] = animal[a]
            \/ animal[a] = "carcass_ready" /\ animal'[a] = "disassembled"
<1>1. ReqOK(req[w]) /\ req[w].op \in Alone /\ a \in req[w].todo /\ animal \in Rows
  BY DEF Inv, TypeOK, Reqs, SaveAlone
<1>2. animal[a] = req[w].seen[a] /\ animal'[a] = Becomes(req[w].op, animal[a])
  BY SaveAloneInv
<1>3. animal[a] \in Source[req[w].op]
  BY <1>1, <1>2 DEF ReqOK, Savers
<1>4. \A b \in Animals \ {a} : animal'[b] = animal[b]
  BY <1>1 DEF SaveAlone, Rows
<1>5. CASE req[w].op = "touch"
  BY <1>2, <1>4, <1>5 DEF Becomes
<1>6. CASE req[w].op = "disassemble"
  BY <1>2, <1>3, <1>4, <1>6 DEF Becomes, Source, Target
<1> QED BY <1>1, <1>5, <1>6 DEF Alone

LEMMA AgreesNext == IInv /\ [Next]_vars => AgreesUnlessDrift'
<1> SUFFICES ASSUME Inv, AgreesUnlessDrift, [Next]_vars, ~drift' PROVE AgreeOn(order', animal')
  BY AgreesPointwise DEF IInv, AgreesUnlessDrift
<1>0. animal \in Rows /\ order \in OrderStatuses
  BY DEF Inv, TypeOK
<1>1. CASE UNCHANGED <<order, animal, drift>>
  BY <1>1, AgreesPointwise DEF AgreesUnlessDrift
<1>2. ASSUME NEW w \in Workers, NEW a \in Animals, SaveAlone(w, a)
      PROVE  AgreeOn(order', animal')
  <2>1. ~drift /\ order' = order
    BY <1>2 DEF SaveAlone, SetDrift
  <2>2. AgreeOn(order, animal)
    BY <2>1, AgreesPointwise DEF AgreesUnlessDrift
  <2> QED BY <1>2, <2>1, <2>2, AloneFacts DEF AgreeOn, Working, Terminal
<1>3. ASSUME NEW w \in Workers, NEW a \in Animals, Delete(w, a)
      PROVE  AgreeOn(order', animal')
  <2>1. ~drift /\ order = "PENDING" /\ order' = "PENDING"
    BY <1>3, OrderFacts DEF Delete, SetDrift
  <2>2. AgreeOn(order, animal)
    BY <2>1, AgreesPointwise DEF AgreesUnlessDrift
  <2> QED BY <1>0, <1>3, <2>1, <2>2 DEF Delete, AgreeOn, Rows, Working
<1>4. ASSUME NEW w \in Workers, WriteOrder(w)
      PROVE  AgreeOn(order', animal')
  <2>1. ~drift /\ order' = Derived(order, animal') /\ animal' \in Rows /\ req[w].op \in Transitions
    BY <1>4, WriteFacts DEF Transitions
  <2>2. AgreeOn(order, animal)
    BY <2>1, AgreesPointwise DEF AgreesUnlessDrift
  <2>3. \A a \in Animals : animal'[a] = "received" => animal[a] = "received"
    BY <1>4, <2>1, WriteFacts, TargetOK
  <2> QED BY <1>0, <2>1, <2>2, <2>3, DerivedAgrees
<1>5. ASSUME NEW w \in Workers, CommitCancel(w)
      PROVE  AgreeOn(order', animal')
  BY <1>5, CancelFacts DEF AgreeOn
<1>6. ASSUME NEW w \in Workers, Bill(w)
      PROVE  AgreeOn(order', animal')
  <2>1. ~drift /\ order = "COMPLETED" /\ order' = "BILLED" /\ animal' = animal
    BY <1>6, OrderFacts DEF Bill, SetDrift
  <2> QED BY <2>1, AgreesPointwise DEF AgreesUnlessDrift, AgreeOn
<1>7. ASSUME NEW w \in Workers, Insert(w)
      PROVE  AgreeOn(order', animal')
  <2>1. ~drift /\ order = "PENDING" /\ order' = "PENDING"
    BY <1>7, OrderFacts DEF Insert, SetDrift
  <2>2. AgreeOn(order, animal)
    BY <2>1, AgreesPointwise DEF AgreesUnlessDrift
  <2> QED BY <1>7, <2>1, <2>2, OrderFacts DEF AgreeOn, Working
<1>8. ASSUME NEW w \in Workers, NEW a \in Animals, Save(w, a)
      PROVE  AgreeOn(order', animal')
  <2>1. ~drift /\ order' = order /\ animal' = animal
    BY <1>8 DEF Save, SetDrift
  <2> QED BY <2>1, AgreesPointwise DEF AgreesUnlessDrift
<1> QED BY <1>1, <1>2, <1>3, <1>4, <1>5, <1>6, <1>7, <1>8, NextCases DEF vars

\* An animal goes back only by a stale save.
LEMMA BackNext ==
  Inv /\ [Next]_vars =>
    \A a \in Animals :
      (/\ animal[a] # "none" /\ animal'[a] # "none"
       /\ Stage[animal'[a]] < Stage[animal[a]]) => drift'
<1> SUFFICES ASSUME Inv, [Next]_vars, ~drift', NEW a \in Animals,
                    animal[a] # "none", animal'[a] # "none"
             PROVE  ~(Stage[animal'[a]] < Stage[animal[a]])
  BY DEF Inv, TypeOK
<1>0. animal[a] \in Statuses /\ \A s \in Statuses : Stage[s] \in 0..6 /\ ~(Stage[s] < Stage[s])
  BY DEF Inv, TypeOK, Rows, Stage, Statuses, Working, Terminal
<1>1. CASE animal'[a] = animal[a]
  BY <1>0, <1>1
<1>2. ASSUME NEW w \in Workers, NEW b \in Animals, SaveAlone(w, b), animal'[a] # animal[a]
      PROVE  ~(Stage[animal'[a]] < Stage[animal[a]])
  <2>1. animal[a] = "carcass_ready" /\ animal'[a] = "disassembled"
    BY <1>2, AloneFacts
  <2> QED BY <2>1 DEF Stage
<1>3. ASSUME NEW w \in Workers, WriteOrder(w), animal'[a] # animal[a]
      PROVE  ~(Stage[animal'[a]] < Stage[animal[a]])
  <2>1. /\ req[w].op \in Transitions /\ animal[a] \in Source[req[w].op]
        /\ animal'[a] = Target[req[w].op]
    BY <1>3, WriteFacts DEF Transitions
  <2>2. animal'[a] \in Statuses /\ Stage[animal[a]] <= Stage[animal'[a]]
    BY <2>1, TargetOK
  <2> QED BY <1>0, <2>2
<1>4. ASSUME NEW w \in Workers, CommitCancel(w), animal'[a] # animal[a]
      PROVE  ~(Stage[animal'[a]] < Stage[animal[a]])
  <2>1. animal'[a] = "disposed"
    BY <1>4, CancelFacts
  <2>2. Stage["disposed"] = 6
    BY DEF Stage
  <2> QED BY <1>0, <2>1, <2>2
<1>5. ASSUME NEW w \in Workers, Insert(w), animal'[a] # animal[a]
      PROVE  FALSE
  BY <1>5, OrderFacts
<1>6. ASSUME NEW w \in Workers, NEW b \in Animals, Delete(w, b), animal'[a] # animal[a]
      PROVE  FALSE
  BY <1>6 DEF Delete, Inv, TypeOK, Rows
<1>7. CASE Next /\ animal'[a] # animal[a]
  BY <1>7, <1>2, <1>3, <1>4, <1>5, <1>6, NextCases DEF Save, Bill
<1> QED BY <1>1, <1>7 DEF vars

\* A closed order changes only when an animal of it is returned.
LEMMA ClosedNext ==
  IInv /\ [Next]_vars =>
    ((order \in Closed /\ order' # order) =>
       drift' \/ (\E w \in Workers : req[w].op = "return" /\ req[w].pc = "write"))
<1> SUFFICES ASSUME IInv, [Next]_vars, order \in Closed, order' # order, ~drift'
             PROVE  \E w \in Workers : req[w].op = "return" /\ req[w].pc = "write"
  BY DEF IInv, Inv, TypeOK
<1>0. Inv
  BY DEF IInv
<1>1. ASSUME NEW w \in Workers, WriteOrder(w)
      PROVE  \E v \in Workers : req[v].op = "return" /\ req[v].pc = "write"
  <2>1. ~drift /\ req[w].op \in Deriving
    BY <1>0, <1>1, WriteFacts
  <2>2. \A a \in Animals : animal[a] \in Terminal \cup {"none"}
    BY <2>1, AgreesPointwise DEF IInv, AgreesUnlessDrift, AgreeOn, Closed, Terminal
  <2>3. PICK a \in Animals : animal[a] \in Source[req[w].op]
    BY <1>0, <1>1, WriteFacts
  <2>4. animal[a] # "none"
    BY <2>1, <2>3, SourceOK DEF Savers, Transitions, Statuses, Working, Terminal
  <2>5. req[w].op = "return"
    BY <2>1, <2>2, <2>3, <2>4, SourceWorks
  <2> QED BY <1>1, <2>5 DEF WriteOrder, At
<1>2. ASSUME NEW w \in Workers, CommitCancel(w)
      PROVE  FALSE
  BY <1>0, <1>2, CancelFacts DEF Closed
<1>3. ASSUME NEW w \in Workers, Bill(w)
      PROVE  FALSE
  BY <1>0, <1>3, OrderFacts DEF Closed
<1>4. CASE Next
  BY <1>4, <1>1, <1>2, <1>3, NextCases DEF Save, SaveAlone, Delete, Insert
<1> QED BY <1>4 DEF vars

-----------------------------------------------------------------------------
(* Theorems. *)

\* The invariant holds of every state, whatever requests overlap, roll back or crash.
THEOREM OrderInvariant == Spec => []IInv
<1>1. Init => IInv
  BY InvInit DEF IInv, AgreesUnlessDrift
<1>2. IInv /\ [Next]_vars => IInv'
  BY InvNext, AgreesNext DEF IInv
<1> QED BY <1>1, <1>2, PTL DEF Spec

\* The variables of OrderLifecycle keep their types.
THEOREM OrderTyped == Spec => []TypeOK
<1>1. IInv => TypeOK
  BY DEF IInv, Inv
<1> QED BY <1>1, OrderInvariant, PTL

\* The order's status agrees with its animals unless an update was lost
\* (update_order_status_from_animals, cancel_slaughter_order, bill_order).
THEOREM OrderAgrees == Spec => []AgreesUnlessDrift
<1>1. IInv => AgreesUnlessDrift
  BY DEF IInv
<1> QED BY <1>1, OrderInvariant, PTL

\* An animal goes back in its workflow only by a stale save (Animal.save).
THEOREM AnimalsAdvance == Spec => BackOnlyByStaleSave
<1>1. IInv /\ [Next]_vars =>
        \A a \in Animals :
          (/\ animal[a] # "none" /\ animal'[a] # "none"
           /\ Stage[animal'[a]] < Stage[animal[a]]) => drift'
  BY BackNext DEF IInv
<1> QED BY <1>1, OrderInvariant, PTL DEF Spec, BackOnlyByStaleSave

\* A billed or cancelled order is reopened only by the return of an animal or a lost
\* update (update_order_status_from_animals asks for no status).
THEOREM ClosedReopened == Spec => ClosedLeftOnlyByReturn
<1>1. IInv /\ [Next]_vars =>
        ((order \in Closed /\ order' # order) =>
           drift' \/ (\E w \in Workers : req[w].op = "return" /\ req[w].pc = "write"))
  BY ClosedNext
<1> QED BY <1>1, OrderInvariant, PTL DEF Spec, ClosedLeftOnlyByReturn

-----------------------------------------------------------------------------
(***************************************************************************)
(* Weight logs.  A request that writes a batch holds it; what it has read  *)
(* is added to what is promised.                                           *)
(***************************************************************************)
Held == \A v, w \in Workers :
          logReq[v].group = logReq[w].group /\ logReq[w].group \in Groups => v = w

LogRead(r) ==
  /\ r.pc = "write" => r.animal \in Animals
  /\ r.pc \in {"batch", "derive", "resync"} => r.group \in Groups /\ r.row.quantity > 0
  /\ r.pc \in {"batch", "derive"} => Fits(r.weighed, r.row.quantity, r.available)
  /\ r.pc = "resync" => group[r.group].quantity = r.row.quantity

LogInv ==
  /\ LogTypeOK
  /\ Held
  /\ \A w \in Workers : LogRead(logReq[w])
  /\ BatchesFitUnlessDisturbed
  /\ CompleteIsLogged
  /\ OneWeightEach

\* Why the average of a batch is a weight.
LEMMA AverageIs == ASSUME NEW t \in Nat, NEW q \in Nat, q > 0 PROVE Average(t, q) \in Nat
BY DEF Average

\* A thread that serves nothing holds no batch.
LEMMA LogIdleIs == LogIdle \in LogRequest /\ LogIdle.pc = "idle" /\ LogIdle.group \notin Groups
BY WeightConstants DEF LogIdle, LogRequest, GroupRow

\* The animals that can be weighed are counted.
LEMMA AvailableIs ==
  ASSUME LogTypeOK
  PROVE  /\ IsFiniteSet(eligible) /\ Cardinality(eligible) \in Nat
         /\ Cardinality(eligible) = 0 => eligible = {}
<1>1. IsFiniteSet(eligible)
  BY WeightConstants, FS_Subset DEF LogTypeOK
<1> QED BY <1>1, FS_CardinalityType, FS_EmptySet

\* What the batches weigh, and that each is among it.
LEMMA WeighedIs ==
  ASSUME LogTypeOK
  PROVE  /\ Weighed \in Nat
         /\ \A g \in Groups : group[g].quantity \in Nat /\ Weighed - group[g].quantity \in Nat
<1> DEFINE f == [g \in Groups |-> group[g].quantity]
<1>1. \A g \in Groups : f[g] \in Nat /\ f[g] = group[g].quantity
  BY DEF LogTypeOK, GroupRow
<1>2. Weighed = SumFunctionOnSet(f, Groups) /\ IsFiniteSet(Groups)
  BY WeightConstants DEF Weighed
<1> HIDE DEF f
<1>3. Weighed \in Nat
  BY <1>1, <1>2, SumNat
<1>4. ASSUME NEW g \in Groups PROVE Weighed - f[g] \in Nat
  <2>1. IsFiniteSet(Groups \ {g})
    BY <1>2, FS_Subset
  <2>2. SumFunctionOnSet(f, Groups \ {g}) \in Nat
    BY <1>1, <2>1, SumNat
  <2>3. Weighed = f[g] + SumFunctionOnSet(f, Groups \ {g})
    BY <1>1, <1>2, SumTake
  <2> QED BY <1>1, <2>2, <2>3
<1> QED BY <1>1, <1>3, <1>4

\* The same of their weights.
LEMMA TotalIs ==
  ASSUME LogTypeOK
  PROVE  /\ Total \in Nat
         /\ \A g \in Groups : group[g].total \in Nat /\ Total - group[g].total \in Nat
<1> DEFINE f == [g \in Groups |-> group[g].total]
<1>1. \A g \in Groups : f[g] \in Nat /\ f[g] = group[g].total
  BY DEF LogTypeOK, GroupRow
<1>2. Total = SumFunctionOnSet(f, Groups) /\ IsFiniteSet(Groups)
  BY WeightConstants DEF Total
<1> HIDE DEF f
<1>3. Total \in Nat
  BY <1>1, <1>2, SumNat
<1>4. ASSUME NEW g \in Groups PROVE Total - f[g] \in Nat
  <2>1. IsFiniteSet(Groups \ {g})
    BY <1>2, FS_Subset
  <2>2. SumFunctionOnSet(f, Groups \ {g}) \in Nat
    BY <1>1, <2>1, SumNat
  <2>3. Total = f[g] + SumFunctionOnSet(f, Groups \ {g})
    BY <1>1, <1>2, SumTake
  <2> QED BY <1>1, <2>2, <2>3
<1> QED BY <1>1, <1>3, <1>4

\* A batch is written over another state of it.
LEMMA WeighedNext ==
  ASSUME LogTypeOK, NEW g \in Groups, NEW row \in GroupRow, group' = [group EXCEPT ![g] = row]
  PROVE  Weighed' = Weighed - group[g].quantity + row.quantity
<1> DEFINE f == [x \in Groups |-> group[x].quantity]
           h == [x \in Groups |-> group'[x].quantity]
<1>1. /\ \A x \in Groups : f[x] \in Int
      /\ h[g] = row.quantity /\ h[g] \in Int /\ f[g] = group[g].quantity
      /\ \A x \in Groups \ {g} : h[x] = f[x]
  BY DEF LogTypeOK, GroupRow
<1>2. /\ Weighed = SumFunctionOnSet(f, Groups) /\ Weighed' = SumFunctionOnSet(h, Groups)
      /\ IsFiniteSet(Groups)
  BY WeightConstants DEF Weighed
<1> HIDE DEF f, h
<1>3. SumFunctionOnSet(h, Groups) = SumFunctionOnSet(f, Groups) - f[g] + h[g]
  BY <1>1, <1>2, SumChange
<1> QED BY <1>1, <1>2, <1>3

\* The rows written for a set of animals: one for each.
LEMMA NewRowsAre ==
  ASSUME NEW S \in SUBSET Animals, NEW k \in Nat, clock \in Nat
  PROVE  /\ NewRows(S, k) \in SUBSET LogRow
         /\ \A r \in NewRows(S, k) : r.animal \in S
         /\ \A a \in S : \E r \in NewRows(S, k) : r.animal = a
         /\ \A r, q \in NewRows(S, k) : r.animal = q.animal => r = q
<1> DEFINE row(a) == [animal |-> a, date |-> clock + 1, weight |-> k]
<1>1. NewRows(S, k) = {row(a) : a \in S}
  BY DEF NewRows
<1>2. \A a \in S : row(a) \in LogRow /\ row(a).animal = a
  BY DEF LogRow
<1> HIDE DEF row
<1> QED BY <1>1, <1>2

\* What remains to be shown of a step: requests and types.
LogRest == LogTypeOK /\ Held /\ \A w \in Workers : LogRead(logReq[w])

\* A request that begins, or reads on.
LEMMA LogGoesOn ==
  ASSUME LogInv, NEW w \in Workers, NEW r \in LogRequest, logReq' = [logReq EXCEPT ![w] = r],
         LogRead(r), r.group \in Groups => \A v \in Workers \ {w} : logReq[v].group # r.group,
         UNCHANGED <<leather, eligible, group, log, clock, disturbed, relogged>>
  PROVE  LogInv'
<1>1. LogTypeOK'
  BY DEF LogInv, LogTypeOK
<1>2. logReq'[w] = r /\ \A v \in Workers \ {w} : logReq'[v] = logReq[v]
  BY DEF LogInv, LogTypeOK
<1>3. Held'
  BY <1>2 DEF LogInv, Held
<1>4. \A v \in Workers : LogRead(logReq[v])'
  BY <1>2 DEF LogInv, LogRead
<1>5. Weighed' = Weighed /\ Missing' = Missing
  BY DEF Weighed, Missing, Logged, RowsOf
<1>6. BatchesFitUnlessDisturbed' /\ CompleteIsLogged' /\ OneWeightEach'
  BY <1>5 DEF LogInv, BatchesFitUnlessDisturbed, CompleteIsLogged, OneWeightEach
<1> QED BY <1>1, <1>3, <1>4, <1>6 DEF LogInv

\* A request that ends, having written at most the batch it holds.
LEMMA LogEnds ==
  ASSUME LogInv, NEW w \in Workers, LogFinish(w),
         eligible' \subseteq Animals, group' \in [Groups -> GroupRow], log' \subseteq LogRow,
         clock' \in Nat, disturbed' \in BOOLEAN, UNCHANGED <<leather, relogged>>,
         \A g \in Groups : g # logReq[w].group => group'[g] = group[g]
  PROVE  LogRest'
<1>1. LogTypeOK'
  BY LogIdleIs DEF LogInv, LogTypeOK, LogFinish
<1>2. logReq'[w] = LogIdle /\ \A v \in Workers \ {w} : logReq'[v] = logReq[v]
  BY DEF LogInv, LogTypeOK, LogFinish
<1>3. Held'
  BY <1>2, LogIdleIs DEF LogInv, Held
<1>4. \A v \in Workers : LogRead(logReq[v])'
  <2> SUFFICES ASSUME NEW v \in Workers PROVE LogRead(logReq[v])'
    OBVIOUS
  <2>1. CASE v = w
    BY <1>2, <2>1, LogIdleIs DEF LogRead
  <2>2. CASE v # w
    <3>1. LogRead(logReq[v]) /\ logReq'[v] = logReq[v]
      BY <1>2, <2>2 DEF LogInv
    <3>2. logReq[v].group \in Groups => group'[logReq[v].group] = group[logReq[v].group]
      BY <2>2 DEF LogInv, Held
    <3> QED BY <3>1, <3>2 DEF LogRead
  <2> QED BY <2>1, <2>2
<1> QED BY <1>1, <1>3, <1>4 DEF LogRest

\* When a batch is written from what the transaction still finds.
LEMMA BatchWritten ==
  ASSUME LogInv, NEW w \in Workers, logReq[w].group \in Groups,
         group' = [group EXCEPT ![logReq[w].group] = logReq[w].row],
         ~BatchStale(w)
  PROVE  /\ Weighed' = logReq[w].weighed + logReq[w].row.quantity
         /\ logReq[w].available = Cardinality(eligible)
<1>1. logReq[w] \in LogRequest
  BY DEF LogInv, LogTypeOK
<1>2. PICK g \in Groups : g = logReq[w].group
  OBVIOUS
<1>3. PICK row \in GroupRow : row = logReq[w].row
  BY <1>1 DEF LogRequest
<1>4. Weighed' = Weighed - group[g].quantity + row.quantity
  BY <1>2, <1>3, WeighedNext DEF LogInv
<1> QED BY <1>2, <1>3, <1>4 DEF BatchStale

\* More eligible animals: the batches fit the better, and cover them less.
LEMMA GrowLog == ASSUME LogInv, Grow PROVE LogInv'
<1>1. PICK a \in Animals \ eligible : eligible' = eligible \cup {a}
  BY DEF Grow
<1>2. UNCHANGED <<leather, group, log, clock, logReq, disturbed, relogged>>
  BY DEF Grow
<1>3. LogTypeOK' /\ Held' /\ \A v \in Workers : LogRead(logReq[v])'
  BY <1>1, <1>2 DEF LogInv, LogTypeOK, Held, LogRead
<1>4. Cardinality(eligible') = Cardinality(eligible) + 1
  BY <1>1, AvailableIs, FS_AddElement DEF LogInv
<1>5. Weighed' = Weighed /\ Weighed \in Nat /\ Cardinality(eligible) \in Nat
  BY <1>2, WeighedIs, AvailableIs DEF LogInv, Weighed
<1>6. BatchesFitUnlessDisturbed' /\ CompleteIsLogged'
  BY <1>2, <1>4, <1>5 DEF LogInv, BatchesFitUnlessDisturbed, CompleteIsLogged
<1>7. OneWeightEach'
  BY <1>2 DEF LogInv, OneWeightEach
<1> QED BY <1>3, <1>6, <1>7 DEF LogInv

\* An animal that leaves disturbs the order only if batches were weighed.
LEMMA ShrinkLog == ASSUME LogInv, Shrink PROVE LogInv'
<1>1. PICK a \in eligible : eligible' = eligible \ {a}
  BY DEF Shrink
<1>2. UNCHANGED <<leather, group, log, clock, logReq, relogged>> /\ disturbed' = (disturbed \/ Weighed > 0)
  BY DEF Shrink, Disturb
<1>3. LogTypeOK' /\ Held' /\ \A v \in Workers : LogRead(logReq[v])'
  BY <1>1, <1>2 DEF LogInv, LogTypeOK, Held, LogRead
<1>4. /\ Cardinality(eligible') \in Nat
      /\ Cardinality(eligible') = 0 => eligible' = {}
  <2>1. IsFiniteSet(eligible')
    BY <1>1, AvailableIs, FS_Subset DEF LogInv
  <2> QED BY <2>1, FS_CardinalityType, FS_EmptySet
<1>5. Weighed' = Weighed /\ Weighed \in Nat
  BY <1>2, WeighedIs DEF LogInv, Weighed
<1>6. disturbed' \/ Weighed = 0
  <2>1. Weighed > 0 \/ Weighed = 0
    BY <1>5
  <2> QED BY <1>2, <2>1
<1>7. BatchesFitUnlessDisturbed'
  BY <1>4, <1>5, <1>6 DEF BatchesFitUnlessDisturbed
<1>8. CompleteIsLogged'
  <2>1. eligible' = {} => Missing' = {}
    BY DEF Missing
  <2> QED BY <1>4, <1>5, <1>6, <2>1 DEF CompleteIsLogged
<1>9. OneWeightEach'
  BY <1>2 DEF LogInv, OneWeightEach
<1> QED BY <1>3, <1>7, <1>8, <1>9 DEF LogInv

\* A lookup, a batch or an edit that is loaded writes nothing yet.
LEMMA LookupLog ==
  ASSUME LogInv, NEW w \in Workers, NEW a \in Animals, NEW k \in Weights, Lookup(w, a, k)
  PROVE  LogInv'
<1>1. PICK d \in IF Logged(a) THEN {r.date : r \in RowsOf(a)} ELSE {0} :
        LogBegin(w, [LogIdle EXCEPT !.pc = "write", !.animal = a, !.date = d, !.weight = k])
  BY DEF Lookup
<1>2. d \in Nat
  BY <1>1 DEF LogInv, LogTypeOK, LogRow, RowsOf
<1>3. [LogIdle EXCEPT !.pc = "write", !.animal = a, !.date = d, !.weight = k] \in LogRequest
  BY <1>2, LogIdleIs, WeightConstants DEF LogRequest
<1>4. PICK r \in LogRequest :
        r = [LogIdle EXCEPT !.pc = "write", !.animal = a, !.date = d, !.weight = k]
  BY <1>3
<1>5. r.pc = "write" /\ r.animal \in Animals /\ r.group \notin Groups
  BY <1>4, WeightConstants DEF LogIdle
<1>6. LogRead(r)
  BY <1>5 DEF LogRead
<1>7. logReq' = [logReq EXCEPT ![w] = r] /\ UNCHANGED <<leather, eligible, group, log, clock, disturbed, relogged>>
  BY <1>1, <1>4 DEF Lookup, LogBegin
<1> QED BY <1>5, <1>6, <1>7, LogGoesOn

\* What a new batch has read fits.
LEMMA LoadBatchLog ==
  ASSUME LogInv, NEW w \in Workers, NEW g \in Groups, NEW n \in 1 .. Cardinality(Animals),
         NEW k \in Weights, LoadBatch(w, g, n, k)
  PROVE  LogInv'
<1> DEFINE loaded == [LogIdle EXCEPT !.pc = "batch", !.group = g,
                                     !.row = [quantity |-> n, total |-> n * k],
                                     !.available = Cardinality(eligible),
                                     !.weighed = Weighed, !.total = Total]
<1>1. n \in Nat /\ n > 0 /\ Weighed \in Nat /\ Total \in Nat /\ Cardinality(eligible) \in Nat
  BY WeighedIs, TotalIs, AvailableIs DEF LogInv
<1>2. n * k \in Nat
  BY <1>1, WeightConstants
<1>3. [quantity |-> n, total |-> n * k] \in GroupRow
  BY <1>1, <1>2 DEF GroupRow
<1>4. loaded \in LogRequest
  BY <1>1, <1>3, LogIdleIs DEF LogRequest
<1>5. PICK r \in LogRequest : r = loaded
  BY <1>4
<1>6. /\ r.pc = "batch" /\ r.group = g /\ r.row.quantity = n /\ r.weighed = Weighed
      /\ r.available = Cardinality(eligible)
  BY <1>5 DEF LogIdle
<1>7. Fits(Weighed, n, Cardinality(eligible)) /\ \A v \in Workers : logReq[v].group # g
  BY DEF LoadBatch
<1>8. LogRead(r)
  BY <1>1, <1>6, <1>7 DEF LogRead
<1>9. logReq' = [logReq EXCEPT ![w] = r] /\ UNCHANGED <<leather, eligible, group, log, clock, disturbed, relogged>>
  BY <1>5 DEF LoadBatch, LogBegin
<1> QED BY <1>6, <1>7, <1>8, <1>9, LogGoesOn

\* An edited batch keeps its number of animals.
LEMMA LoadEditLog ==
  ASSUME LogInv, NEW w \in Workers, NEW g \in Groups, NEW k \in Weights, LoadEdit(w, g, k)
  PROVE  LogInv'
<1>1. PICK n \in Nat : n = group[g].quantity
  BY WeighedIs DEF LogInv
<1> DEFINE loaded == [LogIdle EXCEPT !.pc = "resync", !.group = g,
                                     !.row = [quantity |-> n, total |-> n * k],
                                     !.available = Cardinality(eligible),
                                     !.weighed = Weighed - n, !.total = Total - group[g].total]
<1>2. /\ n > 0 /\ Weighed - n \in Nat /\ Total - group[g].total \in Nat
      /\ Cardinality(eligible) \in Nat
  BY <1>1, WeighedIs, TotalIs, AvailableIs DEF LogInv, LoadEdit
<1>3. n * k \in Nat
  BY <1>1, WeightConstants
<1>4. [quantity |-> n, total |-> n * k] \in GroupRow
  BY <1>1, <1>3 DEF GroupRow
<1>5. loaded \in LogRequest
  BY <1>2, <1>4, LogIdleIs DEF LogRequest
<1>6. PICK r \in LogRequest : r = loaded
  BY <1>5
<1>7. r.pc = "resync" /\ r.group = g /\ r.row.quantity = n
  BY <1>6 DEF LogIdle
<1>8. \A v \in Workers : logReq[v].group # g
  BY DEF LoadEdit
<1>9. LogRead(r)
  BY <1>1, <1>2, <1>7 DEF LogRead
<1>10. logReq' = [logReq EXCEPT ![w] = r] /\ UNCHANGED <<leather, eligible, group, log, clock, disturbed, relogged>>
  BY <1>1, <1>6 DEF LoadEdit, LogBegin
<1> QED BY <1>7, <1>8, <1>9, <1>10, LogGoesOn

\* The last batch goes on to the animals without a log.
LEMMA ReadMissingLog == ASSUME LogInv, NEW w \in Workers, ReadMissing(w) PROVE LogInv'
<1>1. logReq[w] \in LogRequest /\ logReq[w].pc = "batch" /\ LogRead(logReq[w])
  BY DEF LogInv, LogTypeOK, ReadMissing, LogAt
<1>2. Missing \in SUBSET Animals
  BY DEF LogInv, LogTypeOK, Missing
<1>3. [logReq[w] EXCEPT !.pc = "derive", !.needs = Missing] \in LogRequest
  BY <1>1, <1>2 DEF LogRequest
<1>4. PICK r \in LogRequest : r = [logReq[w] EXCEPT !.pc = "derive", !.needs = Missing]
  BY <1>3
<1>5. /\ r.pc = "derive" /\ r.group = logReq[w].group /\ r.row = logReq[w].row
      /\ r.weighed = logReq[w].weighed /\ r.available = logReq[w].available
  BY <1>1, <1>4 DEF LogRequest
<1>6. LogRead(r)
  BY <1>1, <1>5 DEF LogRead
<1>7. r.group \in Groups => \A v \in Workers \ {w} : logReq[v].group # r.group
  BY <1>5 DEF LogInv, Held
<1>8. logReq' = [logReq EXCEPT ![w] = r] /\ UNCHANGED <<leather, eligible, group, log, clock, disturbed, relogged>>
  BY <1>4 DEF ReadMissing
<1> QED BY <1>6, <1>7, <1>8, LogGoesOn

\* A weight entered by hand replaces the row it found, or is the first.
LEMMA WriteLog == ASSUME LogInv, NEW w \in Workers, Write(w) PROVE LogInv'
<1>1. PICK r \in LogRequest : r = logReq[w]
  BY DEF LogInv, LogTypeOK
<1>2. r.animal \in Animals /\ r.weight \in Nat /\ r.date \in Nat
  BY <1>1 DEF LogInv, LogRead, Write, LogAt, LogRequest
<1>3. UNCHANGED <<leather, eligible, group, relogged>> /\ LogFinish(w) /\ log' = Written(r)
  BY <1>1 DEF Write
<1>4. disturbed' \in BOOLEAN /\ clock' \in Nat /\ clock \in Nat
  BY DEF LogInv, LogTypeOK, Write, Disturb
<1>5. disturbed \/ LookupStale(w) => disturbed'
  BY DEF Write, Disturb
<1>6. CASE r.date = 0
  <2>1. log' = log \cup NewRows({r.animal}, r.weight)
    BY <1>3, <1>6 DEF Written
  <2>2. PICK N \in SUBSET LogRow :
          /\ N = NewRows({r.animal}, r.weight)
          /\ \A q \in N : q.animal = r.animal
          /\ \A p, q \in N : p.animal = q.animal => p = q
    <3>1. {r.animal} \in SUBSET Animals
      BY <1>2
    <3> QED BY <1>2, <1>4, <3>1, NewRowsAre
  <2>3. log' \subseteq LogRow
    BY <2>1, <2>2 DEF LogInv, LogTypeOK
  <2>4. LogRest'
    BY <1>3, <1>4, <2>3, LogEnds DEF LogInv, LogTypeOK
  <2>5. Missing' \subseteq Missing
    BY <1>3, <2>1 DEF Missing, Logged, RowsOf
  <2>6. OneWeightEach'
    <3>1. ~disturbed' => \A q \in log : q.animal # r.animal
      BY <1>1, <1>5, <1>6 DEF LookupStale, Logged, RowsOf
    <3> QED BY <1>3, <1>5, <2>1, <2>2, <3>1 DEF LogInv, OneWeightEach
  <2>7. Weighed' = Weighed
    BY <1>3 DEF Weighed
  <2> QED BY <1>3, <1>5, <2>4, <2>5, <2>6, <2>7
          DEF LogInv, LogRest, BatchesFitUnlessDisturbed, CompleteIsLogged
<1>7. CASE r.date # 0
  <2>1. PICK x \in LogRow : /\ x.animal = r.animal
           /\ log' = {q \in log : ~(q.animal = r.animal /\ q.date = r.date)} \cup {x}
    <3>1. [animal |-> r.animal, date |-> r.date, weight |-> r.weight] \in LogRow
      BY <1>2 DEF LogRow
    <3> QED BY <1>3, <1>7, <3>1 DEF Written
  <2>2. log' \subseteq LogRow
    BY <2>1 DEF LogInv, LogTypeOK
  <2>3. LogRest'
    BY <1>3, <1>4, <2>2, LogEnds DEF LogInv, LogTypeOK
  <2>4. Missing' \subseteq Missing
    BY <1>3, <2>1 DEF Missing, Logged, RowsOf
  <2>5. OneWeightEach'
    <3>1. ~disturbed' => \E q \in log : q.animal = r.animal /\ q.date = r.date
      BY <1>1, <1>5, <1>7 DEF LookupStale, RowsOf
    <3>2. ~disturbed' /\ r.animal \notin relogged =>
            \A p \in log : p.animal = r.animal => p.date = r.date
      BY <1>5, <3>1 DEF LogInv, OneWeightEach
    <3> QED BY <1>3, <1>5, <2>1, <3>2 DEF LogInv, OneWeightEach
  <2>6. Weighed' = Weighed
    BY <1>3 DEF Weighed
  <2> QED BY <1>3, <1>5, <2>3, <2>4, <2>5, <2>6
          DEF LogInv, LogRest, BatchesFitUnlessDisturbed, CompleteIsLogged
<1> QED BY <1>6, <1>7

\* One more row of leather is the animal's first, or the animal is weighed again.
LEMMA LogLeatherLog ==
  ASSUME LogInv, NEW a \in Animals, NEW k \in Weights, LogLeather(a, k)
  PROVE  LogInv'
<1>1. /\ UNCHANGED <<leather, eligible, group, logReq, disturbed>>
      /\ log' = log \cup NewRows({a}, k) /\ clock' = clock + 1
      /\ relogged' = IF Logged(a) THEN relogged \cup {a} ELSE relogged
  BY DEF LogLeather
<1>2. clock \in Nat /\ k \in Nat /\ {a} \in SUBSET Animals
  BY WeightConstants DEF LogInv, LogTypeOK
<1>3. PICK N \in SUBSET LogRow :
        /\ N = NewRows({a}, k)
        /\ \A q \in N : q.animal = a
        /\ \A p, q \in N : p.animal = q.animal => p = q
  BY <1>2, NewRowsAre
<1>4. LogTypeOK'
  <2>1. relogged' \subseteq Animals
    BY <1>1 DEF LogInv, LogTypeOK
  <2>2. log' \subseteq LogRow
    BY <1>1, <1>3 DEF LogInv, LogTypeOK
  <2>3. clock' \in Nat
    BY <1>1, <1>2
  <2>4. logReq' = logReq /\ logReq \in [Workers -> LogRequest]
    BY <1>1 DEF LogInv, LogTypeOK
  <2> QED BY <1>1, <2>1, <2>2, <2>3, <2>4 DEF LogInv, LogTypeOK
<1>5. Held' /\ \A w \in Workers : LogRead(logReq[w])'
  BY <1>1 DEF LogInv, Held, LogRead
<1>6. Weighed' = Weighed /\ Missing' \subseteq Missing
  BY <1>1 DEF Weighed, Missing, Logged, RowsOf
<1>7. BatchesFitUnlessDisturbed' /\ CompleteIsLogged'
  BY <1>1, <1>6 DEF LogInv, BatchesFitUnlessDisturbed, CompleteIsLogged
<1>8. OneWeightEach'
  <2>1. a \notin relogged' => \A q \in log : q.animal # a
    BY <1>1 DEF Logged, RowsOf
  <2>2. relogged \subseteq relogged'
    BY <1>1
  <2> QED BY <1>1, <1>3, <2>1, <2>2 DEF LogInv, OneWeightEach
<1> QED BY <1>4, <1>5, <1>7, <1>8 DEF LogInv

\* A batch that is not the last leaves animals uncovered.
LEMMA WriteBatchLog == ASSUME LogInv, NEW w \in Workers, WriteBatch(w) PROVE LogInv'
<1>1. PICK r \in LogRequest : r = logReq[w]
  BY DEF LogInv, LogTypeOK
<1>2. r.group \in Groups /\ r.row \in GroupRow /\ r.row.quantity \in Nat
  BY <1>1 DEF LogInv, LogRead, WriteBatch, LogAt, LogRequest, GroupRow
<1>3. /\ UNCHANGED <<leather, eligible, log, clock, relogged>> /\ LogFinish(w)
      /\ group' = [group EXCEPT ![r.group] = r.row]
      /\ ~(r.weighed + r.row.quantity >= r.available)
      /\ disturbed' = (disturbed \/ BatchStale(w))
  BY <1>1 DEF WriteBatch, AllWeighed, Disturb
<1>4. LogRest'
  <2>1. \A g \in Groups : g # logReq[w].group => group'[g] = group[g]
    BY <1>1, <1>3 DEF LogInv, LogTypeOK
  <2>2. group' \in [Groups -> GroupRow] /\ disturbed' \in BOOLEAN
    BY <1>2, <1>3 DEF LogInv, LogTypeOK
  <2> QED BY <1>3, <2>1, <2>2, LogEnds DEF LogInv, LogTypeOK
<1>5. ~disturbed' => /\ Weighed' = r.weighed + r.row.quantity
                     /\ r.available = Cardinality(eligible)
  BY <1>1, <1>2, <1>3, BatchWritten
<1>6. r.weighed \in Nat /\ Cardinality(eligible) \in Nat
  BY <1>1, AvailableIs DEF LogRequest, LogInv
<1>7. BatchesFitUnlessDisturbed' /\ CompleteIsLogged'
  BY <1>2, <1>3, <1>5, <1>6 DEF BatchesFitUnlessDisturbed, CompleteIsLogged
<1>8. OneWeightEach'
  BY <1>3 DEF LogInv, OneWeightEach
<1> QED BY <1>4, <1>7, <1>8 DEF LogInv, LogRest

\* The last batch gives every animal without a log one.
LEMMA DeriveLog == ASSUME LogInv, NEW w \in Workers, Derive(w) PROVE LogInv'
<1>1. PICK r \in LogRequest : r = logReq[w]
  BY DEF LogInv, LogTypeOK
<1>2. /\ r.group \in Groups /\ r.row \in GroupRow /\ r.needs \in SUBSET Animals
      /\ r.row.quantity \in Nat /\ r.row.quantity > 0 /\ r.row.total \in Nat
      /\ r.weighed \in Nat /\ r.total \in Nat /\ r.available \in Nat
      /\ r.weighed + r.row.quantity <= r.available
  BY <1>1 DEF LogInv, LogRead, Derive, LogAt, LogRequest, GroupRow, Fits
<1>3. PICK k \in Nat : k = Average(r.total + r.row.total, r.weighed + r.row.quantity)
  BY <1>2, AverageIs
<1>4. /\ UNCHANGED <<leather, eligible, relogged>> /\ LogFinish(w) /\ clock' = clock + 1
      /\ group' = [group EXCEPT ![r.group] = r.row]
      /\ log' = log \cup NewRows(r.needs, k)
      /\ disturbed' = (disturbed \/ (BatchStale(w) \/ r.needs # Missing))
  BY <1>1, <1>3 DEF Derive, Disturb
<1>5. clock \in Nat
  BY DEF LogInv, LogTypeOK
<1>6. PICK N \in SUBSET LogRow :
        /\ N = NewRows(r.needs, k)
        /\ \A q \in N : q.animal \in r.needs
        /\ \A a \in r.needs : \E q \in N : q.animal = a
        /\ \A p, q \in N : p.animal = q.animal => p = q
  <2>1. PICK S \in SUBSET Animals : S = r.needs
    BY <1>2
  <2>2. /\ NewRows(S, k) \in SUBSET LogRow
        /\ \A q \in NewRows(S, k) : q.animal \in S
        /\ \A a \in S : \E q \in NewRows(S, k) : q.animal = a
        /\ \A p, q \in NewRows(S, k) : p.animal = q.animal => p = q
    BY <1>5, NewRowsAre
  <2> QED BY <2>1, <2>2
<1>7. LogRest'
  <2>1. \A g \in Groups : g # logReq[w].group => group'[g] = group[g]
    BY <1>1, <1>4 DEF LogInv, LogTypeOK
  <2>2. group' \in [Groups -> GroupRow] /\ disturbed' \in BOOLEAN
    BY <1>2, <1>4 DEF LogInv, LogTypeOK
  <2>3. log' \subseteq LogRow /\ clock' \in Nat /\ eligible' \subseteq Animals
    BY <1>4, <1>5, <1>6 DEF LogInv, LogTypeOK
  <2> QED BY <1>4, <2>1, <2>2, <2>3, LogEnds
<1>8. ~disturbed' => /\ Weighed' = r.weighed + r.row.quantity
                     /\ r.available = Cardinality(eligible)
  BY <1>1, <1>2, <1>4, BatchWritten
<1>9. BatchesFitUnlessDisturbed'
  BY <1>2, <1>4, <1>8 DEF BatchesFitUnlessDisturbed
<1>10. CompleteIsLogged'
  <2>1. ~disturbed' => r.needs = Missing
    BY <1>4
  <2>2. ~disturbed' => Missing' = {}
    BY <1>4, <1>6, <2>1 DEF Missing, Logged, RowsOf
  <2> QED BY <2>2 DEF CompleteIsLogged
<1>11. OneWeightEach'
  <2>1. ~disturbed' => \A a \in r.needs : \A q \in log : q.animal # a
    BY <1>4 DEF Missing, Logged, RowsOf
  <2>2. (disturbed => disturbed') /\ relogged' = relogged /\ log' = log \cup N
    BY <1>4, <1>6
  <2>3. ASSUME ~disturbed'
        PROVE  \A p, q \in log' : p.animal = q.animal /\ p.animal \notin relogged' => p = q
    BY <1>6, <2>1, <2>2, <2>3 DEF LogInv, OneWeightEach
  <2> QED BY <2>3 DEF OneWeightEach
<1> QED BY <1>7, <1>9, <1>10, <1>11 DEF LogInv, LogRest

\* The individual logs are rebuilt: one for each animal, or none.
LEMMA ResyncLog == ASSUME LogInv, NEW w \in Workers, Resync(w) PROVE LogInv'
<1>1. PICK r \in LogRequest : r = logReq[w]
  BY DEF LogInv, LogTypeOK
<1>2. /\ r.group \in Groups /\ r.row \in GroupRow
      /\ r.row.quantity \in Nat /\ r.row.quantity > 0 /\ r.row.total \in Nat
      /\ r.weighed \in Nat /\ r.total \in Nat /\ r.available \in Nat
      /\ group[r.group].quantity = r.row.quantity
  BY <1>1 DEF LogInv, LogRead, Resync, LogAt, LogRequest, GroupRow
<1>3. PICK k \in Nat : k = Average(r.total + r.row.total, r.weighed + r.row.quantity)
  BY <1>2, AverageIs
<1>4. /\ UNCHANGED <<leather, eligible, relogged>> /\ LogFinish(w) /\ clock' = clock + 1
      /\ group' = [group EXCEPT ![r.group] = r.row]
      /\ log' = IF r.available > 0 /\ r.weighed + r.row.quantity >= r.available
                  THEN NewRows(eligible, k) ELSE {}
      /\ disturbed' = (disturbed \/ BatchStale(w))
  BY <1>1, <1>3 DEF Resync, Disturb, Kept, AllWeighed
<1>5. clock \in Nat /\ eligible \in SUBSET Animals
  BY DEF LogInv, LogTypeOK
<1>6. PICK N \in SUBSET LogRow :
        /\ N = NewRows(eligible, k)
        /\ \A a \in eligible : \E q \in N : q.animal = a
        /\ \A p, q \in N : p.animal = q.animal => p = q
  BY <1>5, NewRowsAre
<1>7. LogRest'
  <2>1. \A g \in Groups : g # logReq[w].group => group'[g] = group[g]
    BY <1>1, <1>4 DEF LogInv, LogTypeOK
  <2>2. group' \in [Groups -> GroupRow] /\ disturbed' \in BOOLEAN
    BY <1>2, <1>4 DEF LogInv, LogTypeOK
  <2>3. log' \subseteq LogRow /\ clock' \in Nat /\ eligible' \subseteq Animals
    BY <1>4, <1>5, <1>6
  <2> QED BY <1>4, <2>1, <2>2, <2>3, LogEnds
<1>8. ~disturbed' => /\ Weighed' = r.weighed + r.row.quantity
                     /\ r.available = Cardinality(eligible)
  BY <1>1, <1>2, <1>4, BatchWritten
<1>9. Weighed' = Weighed
  <2>1. Weighed' = Weighed - group[r.group].quantity + r.row.quantity
    BY <1>2, <1>4, WeighedNext DEF LogInv
  <2>2. Weighed \in Nat
    BY WeighedIs DEF LogInv
  <2> QED BY <1>2, <2>1, <2>2
<1>10. BatchesFitUnlessDisturbed'
  BY <1>4, <1>9 DEF LogInv, BatchesFitUnlessDisturbed
<1>11. CompleteIsLogged'
  <2>1. ASSUME ~disturbed', Weighed' >= Cardinality(eligible') PROVE Missing' = {}
    <3>1. r.weighed + r.row.quantity >= r.available /\ r.available = Cardinality(eligible)
      BY <1>4, <1>8, <2>1
    <3>2. CASE r.available > 0
      <4>1. log' = N
        BY <1>4, <1>6, <3>1, <3>2
      <4> QED BY <1>4, <1>6, <4>1 DEF Missing, Logged, RowsOf
    <3>3. CASE r.available = 0
      BY <1>4, <3>1, <3>3, AvailableIs DEF LogInv, Missing
    <3> QED BY <1>2, <3>2, <3>3
  <2> QED BY <2>1 DEF CompleteIsLogged
<1>12. OneWeightEach'
  BY <1>4, <1>6 DEF OneWeightEach
<1> QED BY <1>7, <1>10, <1>11, <1>12 DEF LogInv, LogRest

\* No batches and no logs.
LEMMA LogInitInv == ASSUME LogInit PROVE LogInv
<1>1. [quantity |-> 0, total |-> 0] \in GroupRow
  BY DEF GroupRow
<1>2. \A w \in Workers : logReq[w] = LogIdle
  BY DEF LogInit
<1>3. LogTypeOK
  BY <1>1, LogIdleIs DEF LogInit, LogTypeOK
<1>4. Held /\ \A w \in Workers : LogRead(logReq[w])
  BY <1>2, LogIdleIs DEF Held, LogRead
<1>5. Missing = {} /\ OneWeightEach
  BY DEF LogInit, Missing, OneWeightEach
<1>6. Weighed = 0
  <2> DEFINE f == [g \in Groups |-> group[g].quantity]
  <2>1. \A g \in Groups : f[g] = 0
    BY DEF LogInit
  <2>2. Weighed = SumFunctionOnSet(f, Groups) /\ IsFiniteSet(Groups)
    BY WeightConstants DEF Weighed
  <2> HIDE DEF f
  <2> QED BY <2>1, <2>2, SumZero
<1>7. Cardinality(eligible) \in Nat
  BY <1>3, AvailableIs
<1> QED BY <1>3, <1>4, <1>5, <1>6, <1>7
       DEF LogInv, BatchesFitUnlessDisturbed, CompleteIsLogged

\* The invariant holds of every state.
THEOREM LogInvAlways == LogSpec => []LogInv
<1>1. LogInit => LogInv
  BY LogInitInv
<1>2. LogInv /\ [LogNext]_logVars => LogInv'
  <2> SUFFICES ASSUME LogInv, [LogNext]_logVars PROVE LogInv'
    OBVIOUS
  <2>1. CASE UNCHANGED logVars
    <3>1. UNCHANGED <<leather, eligible, group, log, clock, logReq, disturbed, relogged>>
      BY <2>1 DEF logVars
    <3>2. Weighed' = Weighed /\ Missing' = Missing
      BY <3>1 DEF Weighed, Missing, Logged, RowsOf
    <3> QED BY <3>1, <3>2 DEF LogInv, LogTypeOK, Held, LogRead, BatchesFitUnlessDisturbed,
               CompleteIsLogged, OneWeightEach
  <2>2. CASE LogNext
    <3>1. CASE Grow \/ Shrink
      BY <3>1, GrowLog, ShrinkLog
    <3>2. ASSUME NEW w \in Workers,
                 \/ \E a \in Animals, k \in Weights : Lookup(w, a, k)
                 \/ \E g \in Groups, n \in 1 .. Cardinality(Animals), k \in Weights :
                      LoadBatch(w, g, n, k)
                 \/ \E g \in Groups, k \in Weights : LoadEdit(w, g, k)
          PROVE  LogInv'
      BY <3>2, LookupLog, LoadBatchLog, LoadEditLog
    <3>3. ASSUME NEW w \in Workers,
                 Write(w) \/ WriteBatch(w) \/ ReadMissing(w) \/ Derive(w) \/ Resync(w)
          PROVE  LogInv'
      BY <3>3, WriteLog, WriteBatchLog, ReadMissingLog, DeriveLog, ResyncLog
    <3>4. ASSUME NEW a \in Animals, NEW k \in Weights, LogLeather(a, k)
          PROVE  LogInv'
      BY <3>4, LogLeatherLog
    <3> QED BY <2>2, <3>1, <3>2, <3>3, <3>4 DEF LogNext
  <2> QED BY <2>1, <2>2
<1> QED BY <1>1, <1>2, PTL DEF LogSpec

\* Rows and requests of the weighing services keep their types: a batch that is derived
\* from or rebuilt holds at least one animal, so its average is a weight
\* (log_group_weight, _create_individual_weight_logs_from_batches).
THEOREM LogsTyped == LogSpec => []LogTypeOK
<1>1. LogInv => LogTypeOK
  BY DEF LogInv
<1> QED BY <1>1, LogInvAlways, PTL

\* Batches weigh no more animals than the order has, for any number of animals, batches and
\* threads, unless two of them overlapped or an animal left (log_group_weight).
THEOREM BatchesFit == LogSpec => []BatchesFitUnlessDisturbed
<1>1. LogInv => BatchesFitUnlessDisturbed
  BY DEF LogInv
<1> QED BY <1>1, LogInvAlways, PTL

\* Once the batches cover the animals, each has an individual log
\* (_create_individual_weight_logs_from_batches, resync_individual_weights_for_order_weight_type).
THEOREM LogsComplete == LogSpec => []CompleteIsLogged
<1>1. LogInv => CompleteIsLogged
  BY DEF LogInv
<1> QED BY <1>1, LogInvAlways, PTL

\* No animal has two weights of a type, for any number of animals, batches and threads,
\* unless a lookup went stale, or its leather was weighed again (log_individual_weight,
\* log_leather_weight).
THEOREM OneWeight == LogSpec => []OneWeightEach
<1>1. LogInv => OneWeightEach
  BY DEF LogInv
<1> QED BY <1>1, LogInvAlways, PTL

-----------------------------------------------------------------------------
(***************************************************************************)
(* Cuts.  What a request has checked, by where it is, is added to what is   *)
(* promised.                                                               *)
(***************************************************************************)
CutChecked(r) ==
  /\ r.pc \in {"check", "save"} => r.cut \in Cuts
  /\ r.pc = "save" => /\ KindAllowed(Reading(r.package), r.kind)
                      /\ CutFits(r.hot, r.others, r.weight)
  /\ r.pc = "package" /\ r.worked => Mode(r.next) = Mode(r.package)

CutInv ==
  /\ CutTypeOK
  /\ \A w \in Threads : CutChecked(cutReq[w])
  /\ CutsFitUnlessLoose
  /\ WorkFitsPackageUnlessMixed

\* What a set of cuts weighs.
LEMMA CutSum ==
  ASSUME CutTypeOK, NEW S \in SUBSET Cuts PROVE SumOf(S) \in Nat
<1> DEFINE f == [c \in Cuts |-> cut[c].weight]
<1>1. IsFiniteSet(S)
  BY CutConstants, FS_Subset
<1>2. \A c \in S : f[c] \in Nat
  BY DEF CutTypeOK, Row
<1>3. SumOf(S) = SumFunctionOnSet(f, S)
  BY DEF SumOf
<1> HIDE DEF f
<1> QED BY <1>1, <1>2, <1>3, SumNat

\* The same, after a step.
LEMMA CutSumNext ==
  ASSUME CutTypeOK', There' \in SUBSET Cuts PROVE SumOf(There)' \in Nat
<1> DEFINE h == [c \in Cuts |-> cut'[c].weight]
           S == There'
<1>1. IsFiniteSet(S)
  BY CutConstants, FS_Subset
<1>2. \A c \in S : h[c] \in Nat
  BY DEF CutTypeOK, Row
<1>3. SumOf(There)' = SumFunctionOnSet(h, S)
  BY DEF SumOf
<1> HIDE DEF h, S
<1> QED BY <1>1, <1>2, <1>3, SumNat

\* The cuts other than one that is saved weigh the same after it.
LEMMA OthersSame ==
  ASSUME CutTypeOK, CutTypeOK', NEW c \in Cuts, \A d \in Cuts \ {c} : cut'[d] = cut[d]
  PROVE  SumFunctionOnSet([d \in Cuts |-> cut'[d].weight], There \ {c}) = Others(c)
<1> DEFINE f == [d \in Cuts |-> cut[d].weight]
           h == [d \in Cuts |-> cut'[d].weight]
           S == There \ {c}
<1>1. IsFiniteSet(S)
  BY CutConstants, FS_Subset DEF There
<1>2. \A d \in S : h[d] = f[d]
  BY DEF There
<1>3. Others(c) = SumFunctionOnSet(f, S)
  BY DEF Others, SumOf
<1> HIDE DEF f, h, S
<1>4. SumFunctionOnSet(h, S) = SumFunctionOnSet(f, S)
  BY <1>1, <1>2, SumSame
<1> QED BY <1>3, <1>4 DEF h, S

\* After a cut is saved the cuts weigh it and the others; after one is deleted, the others.
LEMMA SavedSum ==
  ASSUME CutTypeOK, CutTypeOK', NEW c \in Cuts, cut'[c].there,
         \A d \in Cuts \ {c} : cut'[d] = cut[d]
  PROVE  SumOf(There)' = cut'[c].weight + Others(c)
<1> DEFINE h == [d \in Cuts |-> cut'[d].weight]
           S == There'
<1>1. S \ {c} = There \ {c} /\ c \in S /\ S \subseteq Cuts
  BY DEF There
<1>2. IsFiniteSet(S)
  BY <1>1, CutConstants, FS_Subset
<1>3. (\A d \in S : h[d] \in Int) /\ h[c] = cut'[c].weight
  BY <1>1 DEF CutTypeOK, Row
<1>4. SumOf(There)' = SumFunctionOnSet(h, S)
  BY DEF SumOf
<1>5. SumFunctionOnSet(h, There \ {c}) = Others(c)
  BY OthersSame
<1> HIDE DEF h, S
<1>6. SumFunctionOnSet(h, S) = h[c] + SumFunctionOnSet(h, S \ {c})
  BY <1>1, <1>2, <1>3, SumTake
<1> QED BY <1>1, <1>3, <1>4, <1>5, <1>6

\* After a cut is deleted the others weigh no more.
LEMMA DeletedSum ==
  ASSUME CutTypeOK, CutTypeOK', NEW c \in There, ~cut'[c].there,
         \A d \in Cuts \ {c} : cut'[d] = cut[d]
  PROVE  SumOf(There)' <= SumOf(There)
<1> DEFINE f == [d \in Cuts |-> cut[d].weight]
<1>1. There' = There \ {c} /\ There \subseteq Cuts /\ c \in Cuts
  BY DEF There
<1>2. SumOf(There)' = Others(c)
  BY <1>1, OthersSame DEF SumOf
<1>3. /\ Others(c) = SumFunctionOnSet(f, There \ {c})
      /\ SumOf(There) = SumFunctionOnSet(f, There)
  BY DEF Others, SumOf
<1>4. \A d \in There : f[d] \in Nat
  BY DEF CutTypeOK, Row, There
<1>5. IsFiniteSet(There)
  BY <1>1, CutConstants, FS_Subset
<1> HIDE DEF f
<1> QED BY <1>2, <1>3, <1>4, <1>5, SumLess

\* A thread that serves nothing.
LEMMA CutIdleIs == CutIdle \in CutRequest /\ CutIdle.pc = "idle"
BY DEF CutIdle, CutRequest, Kinds, Packages

\* Another request of one thread.
LEMMA CutBecomes ==
  ASSUME CutInv, NEW w \in Threads, NEW r \in CutRequest, CutChecked(r),
         cutReq' = [cutReq EXCEPT ![w] = r],
         package' \in Packages, cut' \in [Cuts -> Row], hot' \in Nat,
         status' \in {"carcass_ready", "disassembled"}, loose' \in BOOLEAN, mixed' \in BOOLEAN
  PROVE  CutTypeOK' /\ \A v \in Threads : CutChecked(cutReq[v])'
<1>1. cutReq' \in [Threads -> CutRequest]
  BY DEF CutInv, CutTypeOK
<1>2. CutTypeOK'
  BY <1>1 DEF CutTypeOK
<1>3. \A v \in Threads : CutChecked(cutReq'[v])
  BY DEF CutInv, CutTypeOK
<1> QED BY <1>2, <1>3 DEF CutChecked

\* A request that ends.
LEMMA CutFinishKept ==
  ASSUME CutInv, NEW w \in Threads, CutFinish(w),
         package' \in Packages, cut' \in [Cuts -> Row], hot' \in Nat,
         status' \in {"carcass_ready", "disassembled"}, loose' \in BOOLEAN, mixed' \in BOOLEAN
  PROVE  CutTypeOK' /\ \A v \in Threads : CutChecked(cutReq[v])'
BY CutIdleIs, CutBecomes DEF CutFinish, CutChecked

\* A request that loads or checks and writes nothing.
LEMMA CutReadInv ==
  ASSUME CutInv, NEW w \in Threads, NEW r \in CutRequest, CutChecked(r),
         cutReq' = [cutReq EXCEPT ![w] = r], UNCHANGED <<package, cut, hot, status, loose, mixed>>
  PROVE  CutInv'
<1>1. CutTypeOK' /\ \A v \in Threads : CutChecked(cutReq[v])'
  BY CutBecomes DEF CutInv, CutTypeOK
<1>2. WorkFitsPackageUnlessMixed'
  BY DEF CutInv, WorkFitsPackageUnlessMixed, There
<1>3. CutsFitUnlessLoose'
  BY DEF CutInv, CutsFitUnlessLoose, There, SumOf
<1> QED BY <1>1, <1>2, <1>3 DEF CutInv

\* Whatever the form lets through is checked later.
LEMMA AddCutInv ==
  ASSUME CutInv, NEW w \in Threads, NEW c \in Cuts, NEW k \in CutWeights, Add(w, c, k) \/ Edit(w, c, k)
  PROVE  CutInv'
<1>1. k \in Nat
  BY CutConstants
<1>2. CASE Add(w, c, k)
  <2>1. PICK kind \in Offered(Reading(package), {}) :
          cutReq' = [cutReq EXCEPT ![w] = [CutIdle EXCEPT !.pc = "check", !.cut = c, !.adding = TRUE,
                                      !.weight = k, !.kind = kind, !.package = package,
                                      !.ready = (status = "carcass_ready")]]
    BY <1>2 DEF Add, CutBegin
  <2>2. PICK y \in BOOLEAN : y = (status = "carcass_ready")
    OBVIOUS
  <2>3. [CutIdle EXCEPT !.pc = "check", !.cut = c, !.adding = TRUE, !.weight = k, !.kind = kind,
                     !.package = package, !.ready = y] \in CutRequest
    BY <1>1, CutIdleIs DEF CutRequest, Offered, Kinds, CutInv, CutTypeOK
  <2>4. PICK r \in CutRequest :
          r = [CutIdle EXCEPT !.pc = "check", !.cut = c, !.adding = TRUE, !.weight = k,
                           !.kind = kind, !.package = package, !.ready = y]
    BY <2>3
  <2>5. r.pc = "check" /\ r.cut = c
    BY <2>4 DEF CutIdle
  <2>6. cutReq' = [cutReq EXCEPT ![w] = r] /\ UNCHANGED <<package, cut, hot, status, loose, mixed>>
    BY <1>2, <2>1, <2>2, <2>4 DEF Add
  <2> QED BY <2>5, <2>6, CutReadInv DEF CutChecked
<1>3. CASE Edit(w, c, k)
  <2>1. PICK kind \in Offered(Reading(package), {cut[c].kind}) :
          cutReq' = [cutReq EXCEPT ![w] = [CutIdle EXCEPT !.pc = "check", !.cut = c, !.weight = k,
                                      !.kind = kind]]
    BY <1>3 DEF Edit, CutBegin
  <2>2. kind \in Kinds
    BY DEF Offered, Kinds, CutInv, CutTypeOK, Row
  <2>3. [CutIdle EXCEPT !.pc = "check", !.cut = c, !.weight = k, !.kind = kind] \in CutRequest
    BY <1>1, <2>2, CutIdleIs DEF CutRequest
  <2>4. PICK r \in CutRequest :
          r = [CutIdle EXCEPT !.pc = "check", !.cut = c, !.weight = k, !.kind = kind]
    BY <2>3
  <2>5. r.pc = "check" /\ r.cut = c
    BY <2>4 DEF CutIdle
  <2>6. cutReq' = [cutReq EXCEPT ![w] = r] /\ UNCHANGED <<package, cut, hot, status, loose, mixed>>
    BY <1>3, <2>1, <2>4 DEF Edit
  <2> QED BY <2>5, <2>6, CutReadInv DEF CutChecked
<1> QED BY <1>2, <1>3

\* A package may change its mode only while no work is recorded.
LEMMA CheckPackageInv ==
  ASSUME CutInv, NEW w \in Threads, NEW p \in Packages, CheckPackage(w, p) PROVE CutInv'
<1>1. /\ cutReq' = [cutReq EXCEPT ![w] = [CutIdle EXCEPT !.pc = "package", !.package = package, !.next = p,
                                                !.worked = Worked]]
      /\ UNCHANGED <<package, cut, hot, status, loose, mixed>>
  BY DEF CheckPackage, CutBegin
<1>2. PICK b \in BOOLEAN : b = Worked
  BY DEF Worked
<1>3. b => Mode(p) = Mode(package)
  BY <1>2 DEF CheckPackage, Worked, Recorded, There
<1>4. [CutIdle EXCEPT !.pc = "package", !.package = package, !.next = p, !.worked = b] \in CutRequest
  BY CutIdleIs DEF CutRequest, CutInv, CutTypeOK
<1>5. PICK r \in CutRequest :
        r = [CutIdle EXCEPT !.pc = "package", !.package = package, !.next = p, !.worked = b]
  BY <1>4
<1>6. r.pc = "package" /\ r.package = package /\ r.next = p /\ r.worked = b
  BY <1>5 DEF CutIdle
<1>7. CutChecked(r)
  BY <1>3, <1>6 DEF CutChecked
<1> QED BY <1>1, <1>2, <1>5, <1>7, CutReadInv

\* What a check has read and let through is kept until the save.
LEMMA CheckCutInv == ASSUME CutInv, NEW w \in Threads, Check(w) PROVE CutInv'
<1>1. cutReq[w] \in CutRequest /\ cutReq[w].cut \in Cuts /\ cutReq[w].package \in Packages
  BY DEF CutInv, CutTypeOK, CutChecked, CutRequest, Check, CutAt
<1>2. PICK p \in Packages : p = Asked(cutReq[w])
  BY <1>1 DEF Asked, CutInv, CutTypeOK
<1>3. PICK sum \in Nat : sum = Others(cutReq[w].cut)
  BY CutSum DEF Others, There, CutInv
<1>4. PICK r \in CutRequest :
        r = [cutReq[w] EXCEPT !.pc = "save", !.package = p, !.hot = hot, !.others = sum]
  <2>1. [cutReq[w] EXCEPT !.pc = "save", !.package = p, !.hot = hot, !.others = sum] \in CutRequest
    BY <1>1 DEF CutRequest, CutInv, CutTypeOK
  <2> QED BY <2>1
<1>5. /\ r.pc = "save" /\ r.package = p /\ r.cut = cutReq[w].cut /\ r.kind = cutReq[w].kind
      /\ r.hot = hot /\ r.others = sum /\ r.weight = cutReq[w].weight
  BY <1>1, <1>4 DEF CutRequest
<1>6. cutReq' = [cutReq EXCEPT ![w] = r] /\ UNCHANGED <<package, cut, hot, status, loose, mixed>>
  BY <1>1, <1>2, <1>3, <1>4 DEF Check, CutRequest, CutInv, CutTypeOK
<1>7. KindAllowed(Reading(r.package), r.kind) /\ CutFits(r.hot, r.others, r.weight)
  BY <1>2, <1>3, <1>5 DEF Check
<1>8. CutChecked(r)
  BY <1>1, <1>5, <1>7 DEF CutChecked
<1> QED BY <1>6, <1>8, CutReadInv

\* A refused cut is not saved.
LEMMA RefuseCutInv == ASSUME CutInv, NEW w \in Threads, Refuse(w) PROVE CutInv'
BY CutIdleIs, CutReadInv DEF Refuse, CutFinish, CutChecked

\* A saved cut fits unless what its check read has changed.
LEMMA SaveCutInv == ASSUME CutInv, NEW w \in Threads, SaveCut(w) PROVE CutInv'
<1>1. cutReq[w] \in CutRequest
  BY DEF CutInv, CutTypeOK
<1>2. /\ cutReq[w].pc = "save" /\ CutChecked(cutReq[w]) /\ cutReq[w].cut \in Cuts
      /\ cutReq[w].kind \in Kinds /\ cutReq[w].weight \in Nat /\ cutReq[w].package \in Packages
  BY <1>1 DEF SaveCut, CutAt, CutInv, CutChecked, CutRequest
<1>3. PICK c \in Cuts : c = cutReq[w].cut
  BY <1>2
<1>4. PICK x \in Row : /\ x = Saved(cutReq[w]) /\ x.kind = cutReq[w].kind
                       /\ x.weight = cutReq[w].weight /\ x.there
  <2>1. /\ Saved(cutReq[w]) \in Row /\ Saved(cutReq[w]).kind = cutReq[w].kind
        /\ Saved(cutReq[w]).weight = cutReq[w].weight /\ Saved(cutReq[w]).there = TRUE
    BY <1>2 DEF Saved, Row
  <2> QED BY <2>1
<1>5. /\ cut' \in [Cuts -> Row] /\ cut'[c] = x /\ \A d \in Cuts \ {c} : cut'[d] = cut[d]
  BY <1>3, <1>4 DEF SaveCut, CutInv, CutTypeOK
<1>6. loose' \in BOOLEAN /\ mixed' \in BOOLEAN /\ UNCHANGED <<package, hot, status>>
  BY DEF SaveCut, CutInv, CutTypeOK
<1>7. CutTypeOK' /\ \A v \in Threads : CutChecked(cutReq[v])'
  <2>1. CASE cutReq[w].adding /\ cutReq[w].ready
    <3>1. [CutIdle EXCEPT !.pc = "disassemble", !.package = cutReq[w].package] \in CutRequest
      BY <1>2, CutIdleIs DEF CutRequest
    <3>2. PICK r \in CutRequest :
            r = [CutIdle EXCEPT !.pc = "disassemble", !.package = cutReq[w].package]
      BY <3>1
    <3>3. r.pc = "disassemble"
      BY <3>2 DEF CutIdle
    <3>4. cutReq' = [cutReq EXCEPT ![w] = r]
      BY <2>1, <3>2 DEF SaveCut
    <3> QED BY <1>5, <1>6, <3>3, <3>4, CutBecomes DEF CutChecked, CutInv, CutTypeOK
  <2>2. CASE ~(cutReq[w].adding /\ cutReq[w].ready)
    BY <1>5, <1>6, <2>2, CutFinishKept DEF SaveCut, CutInv, CutTypeOK
  <2> QED BY <2>1, <2>2
<1>8. CutsFitUnlessLoose'
  <2>1. SUFFICES ASSUME ~loose', hot' # 0 PROVE SumOf(There)' <= hot'
    BY DEF CutsFitUnlessLoose
  <2>2. hot = cutReq[w].hot /\ Others(c) = cutReq[w].others
    BY <1>3, <2>1 DEF SaveCut
  <2>3. SumOf(There)' = cutReq[w].weight + Others(c)
    BY <1>4, <1>5, <1>7, SavedSum DEF CutInv
  <2>4. Others(c) \in Nat /\ hot \in Nat
    BY CutSum DEF Others, There, CutInv, CutTypeOK
  <2>5. hot = 0 \/ Others(c) + cutReq[w].weight <= hot
    BY <1>2, <2>2 DEF CutChecked, CutFits
  <2> QED BY <1>2, <1>6, <2>1, <2>3, <2>4, <2>5
<1>9. WorkFitsPackageUnlessMixed'
  <2>1. SUFFICES ASSUME ~mixed'
                 PROVE  /\ \A d \in There' : KindAllowed(Reading(package'), cut'[d].kind)
                        /\ status' = "disassembled" => Mode(package') # "none"
    BY DEF WorkFitsPackageUnlessMixed
  <2>2. ~mixed /\ Reading(package) = Reading(cutReq[w].package) /\ UNCHANGED <<package, status>>
    BY <2>1 DEF SaveCut
  <2>3. KindAllowed(Reading(package'), cut'[c].kind)
    BY <1>2, <1>4, <1>5, <2>2 DEF CutChecked
  <2>4. ASSUME NEW d \in There', d # c PROVE KindAllowed(Reading(package'), cut'[d].kind)
    BY <1>5, <2>2, <2>4 DEF There, CutInv, WorkFitsPackageUnlessMixed
  <2>5. status' = "disassembled" => Mode(package') # "none"
    BY <2>2 DEF CutInv, WorkFitsPackageUnlessMixed
  <2> QED BY <2>3, <2>4, <2>5
<1> QED BY <1>7, <1>8, <1>9 DEF CutInv

\* The animal is disassembled if the order, as loaded, pays for it.
LEMMA DisassembleInv == ASSUME CutInv, NEW w \in Threads, Disassemble(w) PROVE CutInv'
<1>1. /\ loose' \in BOOLEAN /\ mixed' \in BOOLEAN /\ status' \in {"carcass_ready", "disassembled"}
      /\ UNCHANGED <<package, cut, hot, loose>>
  BY DEF Disassemble, CutInv, CutTypeOK
<1>2. CutTypeOK' /\ \A v \in Threads : CutChecked(cutReq[v])'
  BY <1>1, CutFinishKept DEF Disassemble, CutInv, CutTypeOK
<1>3. WorkFitsPackageUnlessMixed'
  BY <1>1 DEF Disassemble, Proceeds, CutInv, WorkFitsPackageUnlessMixed, There
<1>4. CutsFitUnlessLoose'
  BY <1>1 DEF CutInv, CutsFitUnlessLoose, There, SumOf
<1> QED BY <1>2, <1>3, <1>4 DEF CutInv

\* The saved package is one the recorded work is allowed under.
LEMMA SavePackageInv == ASSUME CutInv, NEW w \in Threads, SavePackage(w) PROVE CutInv'
<1>1. cutReq[w] \in CutRequest
  BY DEF CutInv, CutTypeOK
<1>2. /\ package' = cutReq[w].next /\ package' \in Packages /\ mixed' \in BOOLEAN
      /\ UNCHANGED <<cut, hot, status, loose>>
  BY <1>1 DEF SavePackage, CutInv, CutTypeOK, CutRequest
<1>3. CutTypeOK' /\ \A v \in Threads : CutChecked(cutReq[v])'
  BY <1>2, CutFinishKept DEF SavePackage, CutInv, CutTypeOK
<1>4. WorkFitsPackageUnlessMixed'
  <2>1. SUFFICES ASSUME ~mixed'
                 PROVE  /\ \A d \in There' : KindAllowed(Reading(package'), cut'[d].kind)
                        /\ status' = "disassembled" => Mode(package') # "none"
    BY DEF WorkFitsPackageUnlessMixed
  <2>2. ~mixed /\ ~Slips(cutReq[w])
    BY <2>1 DEF SavePackage
  <2>3. There' = There
    BY <1>2 DEF There
  <2>4. CASE ~Worked
    BY <1>2, <2>3, <2>4 DEF Worked
  <2>5. CASE Worked
    <3>1. package = cutReq[w].package /\ Mode(cutReq[w].next) = Mode(cutReq[w].package)
      BY <2>2, <2>5 DEF Slips, SavePackage, CutAt, CutInv, CutChecked
    <3>2. Reading(cutReq[w].next) = Reading(cutReq[w].package)
      BY <2>2, <3>1 DEF Slips
    <3> QED BY <1>2, <2>2, <2>3, <3>1, <3>2 DEF CutInv, WorkFitsPackageUnlessMixed
  <2> QED BY <2>4, <2>5
<1>5. CutsFitUnlessLoose'
  BY <1>2 DEF CutInv, CutsFitUnlessLoose, There, SumOf
<1> QED BY <1>3, <1>4, <1>5 DEF CutInv

\* A service that loads the order has written nothing yet.
LEMMA TakeOrderInv == ASSUME CutInv, NEW w \in Threads, TakeOrder(w) PROVE CutInv'
<1>1. [CutIdle EXCEPT !.pc = "order", !.package = package] \in CutRequest
  BY CutIdleIs DEF CutRequest, CutInv, CutTypeOK
<1>2. PICK r \in CutRequest : r = [CutIdle EXCEPT !.pc = "order", !.package = package]
  BY <1>1
<1>3. r.pc = "order"
  BY <1>2 DEF CutIdle
<1>4. CutChecked(r)
  BY <1>3 DEF CutChecked
<1>5. /\ cutReq' = [cutReq EXCEPT ![w] = r]
      /\ UNCHANGED <<package, cut, hot, status, loose, mixed>>
  BY <1>2 DEF TakeOrder, CutBegin
<1> QED BY <1>4, <1>5, CutReadInv

\* The package that is written back is for the recorded work, or for none.
LEMMA WriteOrderBackInv == ASSUME CutInv, NEW w \in Threads, WriteOrderBack(w) PROVE CutInv'
<1>1. cutReq[w] \in CutRequest
  BY DEF CutInv, CutTypeOK
<1>2. /\ package' = cutReq[w].package /\ package' \in Packages /\ mixed' \in BOOLEAN
      /\ UNCHANGED <<cut, hot, status, loose>>
  BY <1>1 DEF WriteOrderBack, CutInv, CutTypeOK, CutRequest
<1>3. CutTypeOK' /\ \A v \in Threads : CutChecked(cutReq[v])'
  BY <1>2, CutFinishKept DEF WriteOrderBack, CutInv, CutTypeOK
<1>4. WorkFitsPackageUnlessMixed'
  <2>1. SUFFICES ASSUME ~mixed'
                 PROVE  /\ \A d \in There' : KindAllowed(Reading(package'), cut'[d].kind)
                        /\ status' = "disassembled" => Mode(package') # "none"
    BY DEF WorkFitsPackageUnlessMixed
  <2>2. ~mixed /\ ~Reverts(cutReq[w])
    BY <2>1 DEF WriteOrderBack
  <2>3. There' = There
    BY <1>2 DEF There
  <2>4. CASE ~Worked
    BY <1>2, <2>3, <2>4 DEF Worked
  <2>5. CASE Worked
    <3>1. Reading(package') = Reading(package) /\ Mode(package') = Mode(package)
      BY <1>2, <2>2, <2>5 DEF Reverts
    <3> QED BY <1>2, <2>2, <2>3, <3>1 DEF CutInv, WorkFitsPackageUnlessMixed
  <2> QED BY <2>4, <2>5
<1>5. CutsFitUnlessLoose'
  BY <1>2 DEF CutInv, CutsFitUnlessLoose, There, SumOf
<1> QED BY <1>3, <1>4, <1>5 DEF CutInv

\* Fewer cuts fit the better.
LEMMA DeleteCutInv == ASSUME CutInv, NEW c \in Cuts, DeleteCut(c) PROVE CutInv'
<1>1. NoRow \in Row /\ NoRow.there = FALSE
  BY DEF NoRow, Row, Kinds
<1>2. /\ cut' \in [Cuts -> Row] /\ cut'[c].there = FALSE /\ \A d \in Cuts \ {c} : cut'[d] = cut[d]
      /\ c \in There /\ UNCHANGED <<package, hot, status, cutReq, loose, mixed>>
  BY <1>1 DEF DeleteCut, CutInv, CutTypeOK
<1>3. CutTypeOK' /\ \A v \in Threads : CutChecked(cutReq[v])'
  BY <1>2 DEF CutInv, CutTypeOK, CutChecked
<1>4. WorkFitsPackageUnlessMixed'
  BY <1>2 DEF CutInv, WorkFitsPackageUnlessMixed, There
<1>5. CutsFitUnlessLoose'
  <2>1. SumOf(There)' <= SumOf(There)
    BY <1>2, <1>3, DeletedSum DEF CutInv
  <2>2. SumOf(There) \in Nat /\ hot \in Nat
    BY CutSum DEF There, CutInv, CutTypeOK
  <2>3. SumOf(There)' \in Int
    <3>1. There' \in SUBSET Cuts
      BY DEF There
    <3> QED BY <1>3, <3>1, CutSumNext
  <2> QED BY <1>2, <2>1, <2>2, <2>3 DEF CutInv, CutsFitUnlessLoose
<1> QED BY <1>3, <1>4, <1>5 DEF CutInv

\* Another carcass weight.
LEMMA ReweighInv == ASSUME CutInv, NEW k \in CutWeights \cup {0}, Reweigh(k) PROVE CutInv'
<1>1. k \in Nat /\ hot' = k /\ loose' \in BOOLEAN /\ UNCHANGED <<package, cut, status, cutReq, mixed>>
  BY CutConstants DEF Reweigh, CutInv, CutTypeOK
<1>2. CutTypeOK' /\ \A v \in Threads : CutChecked(cutReq[v])'
  BY <1>1 DEF CutInv, CutTypeOK, CutChecked
<1>3. WorkFitsPackageUnlessMixed'
  BY <1>1 DEF CutInv, WorkFitsPackageUnlessMixed, There
<1>4. CutsFitUnlessLoose'
  <2>1. SumOf(There)' = SumOf(There)
    BY <1>1 DEF SumOf, There
  <2>2. SumOf(There) \in Nat
    BY CutSum DEF There, CutInv
  <2>3. ~loose' => ~(k > 0 /\ SumOf(There) > k)
    BY DEF Reweigh
  <2> QED BY <1>1, <2>1, <2>2, <2>3 DEF CutsFitUnlessLoose
<1> QED BY <1>2, <1>3, <1>4 DEF CutInv

\* No cuts.
LEMMA CutInitInv == ASSUME CutInit PROVE CutInv
<1>1. \A w \in Threads : cutReq[w] = CutIdle
  BY DEF CutInit
<1>2. NoRow \in Row /\ NoRow.there = FALSE
  BY DEF NoRow, Row, Kinds
<1>3. CutTypeOK
  <2>1. cutReq \in [Threads -> CutRequest]
    BY CutIdleIs DEF CutInit
  <2>2. cut \in [Cuts -> Row]
    BY <1>2 DEF CutInit
  <2>3. hot \in Nat
    BY CutConstants DEF CutInit
  <2> QED BY <2>1, <2>2, <2>3 DEF CutInit, CutTypeOK
<1>4. \A w \in Threads : CutChecked(cutReq[w])
  BY <1>1, CutIdleIs DEF CutChecked
<1>5. There = {}
  BY <1>2 DEF CutInit, There
<1>6. WorkFitsPackageUnlessMixed
  BY <1>5 DEF CutInit, WorkFitsPackageUnlessMixed
<1>7. CutsFitUnlessLoose
  BY <1>3, <1>5, SumEmpty DEF CutsFitUnlessLoose, SumOf, CutTypeOK
<1> QED BY <1>3, <1>4, <1>6, <1>7 DEF CutInv

\* The invariant holds of every state.
THEOREM CutInvAlways == CutSpec => []CutInv
<1>1. CutInit => CutInv
  BY CutInitInv
<1>2. CutInv /\ [CutNext]_cutVars => CutInv'
  <2> SUFFICES ASSUME CutInv, [CutNext]_cutVars PROVE CutInv'
    OBVIOUS
  <2>1. CASE UNCHANGED cutVars
    BY <2>1 DEF cutVars, CutInv, CutTypeOK, CutChecked, CutsFitUnlessLoose,
       WorkFitsPackageUnlessMixed, There, SumOf
  <2>2. CASE CutNext
    BY <2>2, AddCutInv, CheckPackageInv, CheckCutInv, RefuseCutInv, SaveCutInv, DisassembleInv,
       SavePackageInv, TakeOrderInv, WriteOrderBackInv, DeleteCutInv, ReweighInv DEF CutNext
  <2> QED BY <2>1, <2>2
<1> QED BY <1>1, <1>2, PTL DEF CutSpec

\* Rows, requests and weights of the cuts keep their types: what the form and the checks
\* let through (DisassemblyCut.save, AddDisassemblyCutView).
THEOREM CutsTyped == CutSpec => []CutTypeOK
<1>1. CutInv => CutTypeOK
  BY DEF CutInv
<1> QED BY <1>1, CutInvAlways, PTL

\* The cuts of a carcass weigh no more than the carcass, for any number of cuts and threads,
\* unless a save or a reweighing slipped past the check (DisassemblyCut.save).
THEOREM CutsFit == CutSpec => []CutsFitUnlessLoose
<1>1. CutInv => CutsFitUnlessLoose
  BY DEF CutInv
<1> QED BY <1>1, CutInvAlways, PTL

\* Cuts and disassembly are what the package of the order allows, for any number of cuts
\* and threads, unless one was saved behind the other's check, or a save of the order wrote
\* back an older package under them (DisassemblyCut.save, update_order_service_package,
\* update_order_status_from_animals).
THEOREM WorkFits == CutSpec => []WorkFitsPackageUnlessMixed
<1>1. CutInv => WorkFitsPackageUnlessMixed
  BY DEF CutInv
<1> QED BY <1>1, CutInvAlways, PTL
=============================================================================
