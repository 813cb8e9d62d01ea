--------------------------- MODULE OrderLifecycle ---------------------------
(***************************************************************************)
(* A slaughter order and its animals: the services that move an animal     *)
(* through its workflow and derive the order's status from all of them     *)
(* (processing/services.py, reception/services.py), and the views that     *)
(* load an order or an animal and call them.                               *)
(*                                                                         *)
(* A view loads rows outside the service's transaction, so a request keeps *)
(* what it loaded (seen, ord) and a save writes that row back.  A          *)
(* transaction's own writes stay in wr until it commits: other requests    *)
(* read the committed rows and wait to write a row that is in a wr, which  *)
(* is PostgreSQL at read committed.  wr of an animal is "clean" when the   *)
(* transaction has not written it.                                         *)
(*                                                                         *)
(* Group weighings and carcasses are not here, and an order's owner,       *)
(* destination and dates are saved with update_fields, apart from status.  *)
(***************************************************************************)
EXTENDS Integers, FiniteSets, OneOrder

CONSTANTS
  Ops,       \* the services in use
  Package    \* what the order's service package includes

\* Services that end by deriving the order's status, and saves that commit alone.
Deriving == {"slaughter", "batch", "weigh", "prepare", "package", "deliver", "return"}
Alone    == {"disassemble", "touch"}
AllOps   == Deriving \cup Alone \cup {"cancel", "bill", "add", "remove"}

ASSUME OrderConstants ==
  /\ Ops \subseteq AllOps
  /\ Package \subseteq {"disassembly", "delivery"}
  /\ IsFiniteSet(Animals)

VARIABLES
  order,     \* SlaughterOrder.status
  animal,    \* Animal.status, "none" where there is no row
  weighed,   \* animals with a hot carcass weight log
  req,       \* the request each worker thread runs
  drift      \* history: a lost update or a write skew has happened

vars == <<order, animal, weighed, req, drift>>

-----------------------------------------------------------------------------
Terminal == {"delivered", "returned", "disposed"}
Working  == {"slaughtered", "carcass_ready", "disassembled", "packaged"}
Statuses == {"received"} \cup Working \cup Terminal
Rows     == [Animals -> Statuses \cup {"none"}]

OrderStatuses == {"PENDING", "IN_PROGRESS", "COMPLETED", "BILLED", "CANCELLED"}
Closed        == {"BILLED", "CANCELLED"}

Labels == {"idle", "save", "load", "read", "write", "cancel", "list", "commit",
           "bill", "insert", "delete"}

Request == [pc : Labels, op : AllOps \cup {"none"}, todo : SUBSET Animals,
            seen : Rows, read : Rows, ord : OrderStatuses \cup {"unread"},
            wr : [Animals -> Statuses \cup {"clean"}]]

NoRows == [a \in Animals |-> "none"]
Clean  == [a \in Animals |-> "clean"]
Idle   == [pc |-> "idle", op |-> "none", todo |-> {}, seen |-> NoRows,
           read |-> NoRows, ord |-> "unread", wr |-> Clean]

TypeOK ==
  /\ order \in OrderStatuses
  /\ animal \in Rows
  /\ weighed \subseteq Animals
  /\ req \in [Workers -> Request]
  /\ drift \in BOOLEAN

Init ==
  /\ order = "PENDING"
  /\ animal \in [Animals -> {"received", "none"}]
  /\ weighed = {}
  /\ req = [w \in Workers |-> Idle]
  /\ drift = FALSE

-----------------------------------------------------------------------------
\* Bug: an animal that was returned can still be packaged.
Source_Loose ==
  [slaughter |-> {"received"}, batch |-> {"received"}, weigh |-> {"slaughtered"},
   prepare |-> {"slaughtered"}, disassemble |-> {"carcass_ready"},
   package |-> {"carcass_ready", "disassembled", "returned"},
   deliver |-> {"packaged", "carcass_ready"},
   return |-> Statuses, cancel |-> Statuses, touch |-> Statuses]

\* The transitions of Animal.status.  touch is a save for other fields.
Source ==
  [slaughter |-> {"received"}, batch |-> {"received"}, weigh |-> {"slaughtered"},
   prepare |-> {"slaughtered"}, disassemble |-> {"carcass_ready"},
   package |-> {"carcass_ready", "disassembled"},
   deliver |-> {"packaged", "carcass_ready"},
   return |-> Statuses, cancel |-> Statuses, touch |-> Statuses]

Target ==
  [slaughter |-> "slaughtered", batch |-> "slaughtered", weigh |-> "carcass_ready",
   prepare |-> "carcass_ready", disassemble |-> "disassembled", package |-> "packaged",
   deliver |-> "delivered", return |-> "returned", cancel |-> "disposed"]

Becomes(op, s) == IF op = "touch" THEN s ELSE Target[op]

\* A transition's source and conditions, on the rows that were loaded.
Allowed(op, a) ==
  /\ animal[a] \in Source[op]
  /\ op = "disassemble" => "disassembly" \in Package /\ a \in weighed
  /\ op = "deliver" => "delivery" \in Package

\* Bug: one finished animal completes the order.
Derived_Any(o, rows) ==
  LET st == {rows[a] : a \in Animals} \ {"none"} IN
    CASE st \cap Terminal # {} -> "COMPLETED"
      [] st \cap Terminal = {} /\ st \cap Working # {} -> "IN_PROGRESS"
      [] OTHER -> o

\* The status an order of status o gets from these animals.  The early return for an
\* order without animals is not met: the animal just saved is one of them.
Derived(o, rows) ==
  LET st == {rows[a] : a \in Animals} \ {"none"} IN
    CASE st \subseteq Terminal -> "COMPLETED"
      [] ~(st \subseteq Terminal) /\ st \cap Working # {} -> "IN_PROGRESS"
      [] OTHER -> o

\* What a query of request r returns, and what the table holds when r has committed.
View(r) == [a \in Animals |-> IF r.wr[a] = "clean" THEN animal[a] ELSE r.wr[a]]

Holds(v, a)   == req[v].wr[a] # "clean"
HoldsOrder(v) == req[v].op = "cancel" /\ req[v].pc # "cancel"

RowFree(w, a) == \A v \in Workers \ {w} : ~Holds(v, a)
OrderFree(w)  == \A v \in Workers \ {w} : ~HoldsOrder(v)

At(w, l)       == req[w].pc = l
Become(w, r)   == req' = [req EXCEPT ![w] = r]
Begin(w, r)    == At(w, "idle") /\ Become(w, r)
Finish(w)      == Become(w, Idle)
Loaded(A)      == [a \in Animals |-> IF a \in A THEN animal[a] ELSE "none"]
SetDrift(cause) == drift' = (drift \/ cause)

-----------------------------------------------------------------------------
(* One animal at a time. *)

\* deliver_product's condition reads the order before the save, and quick processing
\* loads it with the animal; elsewhere it is loaded when its status is derived.
LoadedWith(op) ==
  CASE op = "deliver" -> {order}
    [] op = "weigh"   -> {order, "unread"}
    [] OTHER          -> {"unread"}

Start(w, op, a) ==
  /\ op \in Ops \ {"batch"}
  /\ Allowed(op, a)
  /\ \E o \in LoadedWith(op) :
        Begin(w, [Idle EXCEPT !.pc = "save", !.op = op, !.todo = {a},
                              !.seen = Loaded({a}), !.ord = o])
  /\ UNCHANGED <<order, animal, weighed, drift>>

\* Another hot weight of a carcass that is ready: only the log is written.
Relog(w, a) ==
  /\ "weigh" \in Ops
  /\ At(w, "idle")
  /\ animal[a] = "carcass_ready"
  /\ weighed' = weighed \cup {a}
  /\ UNCHANGED <<order, animal, req, drift>>

\* Batch slaughter: the order and its received animals are loaded once, each animal is
\* a transaction, and all of them share the order object.
StartBatch(w) ==
  LET A == {a \in Animals : animal[a] = "received"} IN
  /\ "batch" \in Ops
  /\ A # {}
  /\ Begin(w, [Idle EXCEPT !.pc = "save", !.op = "batch", !.todo = A,
                           !.seen = Loaded(A), !.ord = order])
  /\ UNCHANGED <<order, animal, weighed, drift>>

\* animal.save() in a transaction.  A row removed since is inserted again.
Save(w, a) ==
  LET r == req[w]
      rest == r.todo \ {a}
      next == CASE r.op = "cancel" -> IF rest = {} THEN "commit" ELSE "save"
                [] OTHER           -> IF r.ord = "unread" THEN "load" ELSE "read"
  IN
  /\ At(w, "save") /\ r.op \notin Alone
  /\ a \in r.todo
  /\ RowFree(w, a)
  /\ Become(w, [r EXCEPT !.pc = next, !.todo = rest,
                         !.wr = [@ EXCEPT ![a] = Becomes(r.op, r.seen[a])]])
  /\ SetDrift(animal[a] # r.seen[a])
  /\ UNCHANGED <<order, animal, weighed>>

\* animal.save() that commits by itself, and no order is touched.
SaveAlone(w, a) ==
  LET r == req[w] IN
  /\ At(w, "save") /\ r.op \in Alone
  /\ a \in r.todo
  /\ RowFree(w, a)
  /\ animal' = [animal EXCEPT ![a] = Becomes(r.op, r.seen[a])]
  /\ Finish(w)
  /\ SetDrift(animal[a] # r.seen[a])
  /\ UNCHANGED <<order, weighed>>

-----------------------------------------------------------------------------
(* update_order_status_from_animals, at the end of the same transaction. *)

LoadOrder(w) ==
  /\ At(w, "load")
  /\ Become(w, [req[w] EXCEPT !.pc = "read", !.ord = order])
  /\ UNCHANGED <<order, animal, weighed, drift>>

ReadAnimals(w) ==
  /\ At(w, "read")
  /\ Become(w, [req[w] EXCEPT !.pc = "write", !.read = View(req[w])])
  /\ UNCHANGED <<order, animal, weighed, drift>>

\* The next animal of a batch, with the order object as it was left, or the end.
Continue(w, status) ==
  Become(w, IF req[w].todo = {} THEN Idle
            ELSE [req[w] EXCEPT !.pc = "save", !.ord = status, !.read = NoRows, !.wr = Clean])

\* order.save() and the commit.
WriteOrder(w) ==
  LET r == req[w] IN
  /\ At(w, "write")
  /\ OrderFree(w)
  /\ order' = Derived(r.ord, r.read)
  /\ animal' = View(r)
  /\ weighed' = IF r.op = "weigh" THEN weighed \cup {a \in Animals : Holds(w, a)} ELSE weighed
  /\ Continue(w, Derived(r.ord, r.read))
  /\ SetDrift(order # r.ord \/ View(r) # r.read)

-----------------------------------------------------------------------------
(* The order itself. *)

\* Bug: billing does not check that the order is complete.
MayBill_Unchecked == order # "BILLED"
MayBill == order = "COMPLETED"

StartCancel(w) ==
  /\ "cancel" \in Ops
  /\ order = "PENDING"
  /\ Begin(w, [Idle EXCEPT !.pc = "cancel", !.op = "cancel", !.ord = order])
  /\ UNCHANGED <<order, animal, weighed, drift>>

\* The order is saved first, and stays locked while its animals are disposed of.
CancelOrder(w) ==
  /\ At(w, "cancel")
  /\ OrderFree(w)
  /\ Become(w, [req[w] EXCEPT !.pc = "list"])
  /\ UNCHANGED <<order, animal, weighed, drift>>

ListAnimals(w) ==
  LET A == {a \in Animals : animal[a] # "none"} IN
  /\ At(w, "list")
  /\ Become(w, [req[w] EXCEPT !.pc = IF A = {} THEN "commit" ELSE "save",
                              !.todo = A, !.seen = animal, !.read = animal])
  /\ UNCHANGED <<order, animal, weighed, drift>>

CommitCancel(w) ==
  /\ At(w, "commit")
  /\ order' = "CANCELLED"
  /\ animal' = View(req[w])
  /\ Finish(w)
  /\ SetDrift(\/ order # req[w].ord
              \/ \E a \in Animals : animal[a] # "none" /\ req[w].read[a] = "none")
  /\ UNCHANGED weighed

StartBill(w) ==
  /\ "bill" \in Ops
  /\ MayBill
  /\ Begin(w, [Idle EXCEPT !.pc = "bill", !.op = "bill", !.ord = order])
  /\ UNCHANGED <<order, animal, weighed, drift>>

Bill(w) ==
  /\ At(w, "bill")
  /\ OrderFree(w)
  /\ order' = "BILLED"
  /\ Finish(w)
  /\ SetDrift(order # req[w].ord)
  /\ UNCHANGED <<animal, weighed>>

\* Ids no row has and no request knows.
Unused == {a \in Animals : /\ animal[a] = "none"
                           /\ \A v \in Workers : a \notin req[v].todo /\ ~Holds(v, a)}

\* One animal, or a batch of them in one transaction.
StartAdd(w) ==
  /\ "add" \in Ops
  /\ order = "PENDING"
  /\ \E A \in SUBSET Unused \ {{}} :
        Begin(w, [Idle EXCEPT !.pc = "insert", !.op = "add", !.todo = A, !.ord = order])
  /\ UNCHANGED <<order, animal, weighed, drift>>

Insert(w) ==
  /\ At(w, "insert")
  /\ animal' = [a \in Animals |-> IF a \in req[w].todo THEN "received" ELSE animal[a]]
  /\ Finish(w)
  /\ SetDrift(order # req[w].ord)
  /\ UNCHANGED <<order, weighed>>

StartRemove(w, a) ==
  /\ "remove" \in Ops
  /\ order = "PENDING"
  /\ animal[a] # "none"
  /\ Begin(w, [Idle EXCEPT !.pc = "delete", !.op = "remove", !.todo = {a}, !.ord = order])
  /\ UNCHANGED <<order, animal, weighed, drift>>

Delete(w, a) ==
  /\ At(w, "delete")
  /\ a \in req[w].todo
  /\ RowFree(w, a)
  /\ animal' = [animal EXCEPT ![a] = "none"]
  /\ weighed' = weighed \ {a}
  /\ Finish(w)
  /\ SetDrift(order # req[w].ord)
  /\ UNCHANGED order

-----------------------------------------------------------------------------
(* Failures. *)

\* Requests w cannot go on before: those that hold what its next step writes.
WaitsFor(w) ==
  CASE At(w, "save") /\ (\A a \in req[w].todo : ~RowFree(w, a)) ->
         {v \in Workers \ {w} : \E a \in req[w].todo : Holds(v, a)}
    [] At(w, "write") \/ At(w, "cancel") -> {v \in Workers \ {w} : HoldsOrder(v)}
    [] OTHER -> {}

\* PostgreSQL finds requests that wait for each other and rolls one back.
Deadlocked(w) ==
  \E W \in SUBSET Workers : w \in W /\ \A v \in W : WaitsFor(v) \cap W # {}

\* Bug: the transaction is not rolled back.
Abort_Stuck(w) == Deadlocked(w) /\ UNCHANGED vars

\* A batch goes on with its other animals; its order object keeps the status it was given.
Abort(w) ==
  /\ Deadlocked(w)
  /\ IF req[w].op = "batch" THEN Continue(w, Derived(req[w].ord, req[w].read)) ELSE Finish(w)
  /\ UNCHANGED <<order, animal, weighed, drift>>

\* The worker process dies: its transaction is rolled back.
Crash(w) ==
  /\ ~At(w, "idle")
  /\ Finish(w)
  /\ UNCHANGED <<order, animal, weighed, drift>>

Step(w) ==
  \/ \E a \in Animals : Save(w, a) \/ SaveAlone(w, a) \/ Delete(w, a)
  \/ LoadOrder(w) \/ ReadAnimals(w) \/ WriteOrder(w)
  \/ CancelOrder(w) \/ ListAnimals(w) \/ CommitCancel(w)
  \/ Bill(w) \/ Insert(w)
  \/ Abort(w)

Next ==
  \E w \in Workers :
    \/ \E a \in Animals : \/ \E op \in (Deriving \ {"batch"}) \cup Alone : Start(w, op, a)
                          \/ Relog(w, a)
                          \/ StartRemove(w, a)
    \/ StartBatch(w) \/ StartCancel(w) \/ StartBill(w) \/ StartAdd(w)
    \/ Step(w)
    \/ Crash(w)

\* Threads are scheduled, and waiters for a row are served in turn.
Fairness == \A w \in Workers : SF_vars(Step(w))

Spec     == Init /\ [][Next]_vars
FairSpec == Spec /\ Fairness

-----------------------------------------------------------------------------
(* Properties *)

Present == {animal[a] : a \in Animals} \ {"none"}

\* The order's status says what its animals are: nothing in work while it is pending,
\* something unfinished while it is in progress, all finished once it is completed or
\* billed, all disposed of when it is cancelled; unless a request has written a row
\* or a derived status from rows that another had changed since it read them
\* (update_order_status_from_animals, cancel_slaughter_order and every caller).
Agrees ==
  /\ order = "PENDING" => Present \cap Working = {}
  /\ order = "IN_PROGRESS" => ~(Present \subseteq Terminal)
  /\ order \in {"COMPLETED", "BILLED"} => Present \subseteq Terminal
  /\ order = "CANCELLED" => Present \subseteq {"disposed"}

AgreesUnlessDrift == drift \/ Agrees

\* The order an animal goes through the workflow in.
Stage == [received |-> 0, slaughtered |-> 1, carcass_ready |-> 2, disassembled |-> 3,
          packaged |-> 4, delivered |-> 5, returned |-> 6, disposed |-> 6]

\* An animal never goes back in its workflow, except that a save writes a row that was
\* loaded before another request changed it (Animal.save writes all columns); nothing
\* returns a finished animal to work otherwise.
BackOnlyByStaleSave ==
  [][\A a \in Animals :
       (/\ animal[a] # "none" /\ animal'[a] # "none"
        /\ Stage[animal'[a]] < Stage[animal[a]]) => drift']_vars

\* A billed or cancelled order changes status only when one of its animals is returned
\* to its owner, unless an update was lost: no service that derives a status asks
\* whether the order is closed.
ClosedLeftOnlyByReturn ==
  [][(order \in Closed /\ order' # order) =>
       drift' \/ (\E w \in Workers : req[w].op = "return" /\ req[w].pc = "write")]_vars

\* Every request ends, although transitions lock an animal before the order and a
\* cancellation the order before its animals: the one that is rolled back ends too.
RequestsEnd == \A w \in Workers : ~At(w, "idle") ~> At(w, "idle")
=============================================================================
