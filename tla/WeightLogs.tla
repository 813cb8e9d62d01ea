------------------------------ MODULE WeightLogs ------------------------------
(***************************************************************************)
(* The weights of one weight type in one slaughter order                   *)
(* (processing/services.py): batch logs, each for a number of animals, the *)
(* individual logs derived from them once the batches cover every animal   *)
(* that can be weighed, and individual logs entered by hand.  The weight   *)
(* type is leather or one of the others: leather has no batches, and its   *)
(* own service, which never looks for a row to correct.                    *)
(*                                                                         *)
(* Each service is one transaction at read committed; a request is split   *)
(* where it reads rows that another transaction may change before it       *)
(* commits.  What the hot carcass weight does to the status of animals and *)
(* order is the subject of OrderLifecycle: here animals become and cease   *)
(* to be eligible (get_weight_logging_animals).                            *)
(***************************************************************************)
EXTENDS Integers, FiniteSets, Functions, OneOrder

CONSTANTS
  Groups,     \* rows a batch log can be
  NoAnimal, NoGroup,
  Weights,    \* weight of an animal, in units
  MaxLogs     \* individual logs that can be written, one after the other

ASSUME WeightConstants ==
  /\ IsFiniteSet(Animals) /\ IsFiniteSet(Groups)
  /\ Weights \subseteq Nat \ {0} /\ MaxLogs \in Nat
  /\ NoAnimal \notin Animals /\ NoGroup \notin Groups

VARIABLES
  leather,    \* whether the weight type is leather_weight; never changes
  eligible,   \* animals whose status allows this weight type
  group,      \* batch logs; quantity 0: not written
  log,        \* individual logs: a set of rows
  clock,      \* log_date of the last row
  logReq,     \* the request each worker thread runs
  disturbed,  \* history: two weighings overlapped, or an animal left a weighed order
  relogged    \* history: animals whose leather was weighed again

logVars == <<leather, eligible, group, log, clock, logReq, disturbed, relogged>>

-----------------------------------------------------------------------------
GroupRow == [quantity : Nat, total : Nat]
LogRow   == [animal : Animals, date : Nat, weight : Nat]

LogRequest == [pc : {"idle", "write", "batch", "derive", "resync"},
               animal : Animals \cup {NoAnimal}, date : Nat,  \* the row found, or 0
               group : Groups \cup {NoGroup}, row : GroupRow, \* the row to be written
               available : Nat,                               \* as read, and what the
               weighed : Nat, total : Nat,                    \* other batches weighed
               needs : SUBSET Animals, weight : Nat]

LogTypeOK ==
  /\ eligible \subseteq Animals
  /\ group \in [Groups -> GroupRow]
  /\ log \subseteq LogRow
  /\ clock \in Nat
  /\ logReq \in [Workers -> LogRequest]
  /\ leather \in BOOLEAN /\ disturbed \in BOOLEAN
  /\ relogged \subseteq Animals

LogIdle == [pc |-> "idle", animal |-> NoAnimal, date |-> 0,
            group |-> NoGroup, row |-> [quantity |-> 0, total |-> 0],
            available |-> 0, weighed |-> 0, total |-> 0, needs |-> {}, weight |-> 0]

LogInit ==
  /\ leather \in BOOLEAN
  /\ eligible = {}
  /\ group = [g \in Groups |-> [quantity |-> 0, total |-> 0]]
  /\ log = {} /\ clock = 0
  /\ logReq = [w \in Workers |-> LogIdle]
  /\ disturbed = FALSE /\ relogged = {}

-----------------------------------------------------------------------------
LogBegin(w, r) == logReq[w].pc = "idle" /\ logReq' = [logReq EXCEPT ![w] = r]
LogAt(w, l)    == logReq[w].pc = l
LogFinish(w)   == logReq' = [logReq EXCEPT ![w] = LogIdle]
Disturb(c)     == disturbed' = (disturbed \/ c)

Weighed   == SumFunctionOnSet([g \in Groups |-> group[g].quantity], Groups)
Total     == SumFunctionOnSet([g \in Groups |-> group[g].total], Groups)
RowsOf(a) == {r \in log : r.animal = a}
Logged(a) == RowsOf(a) # {}
Missing   == {a \in eligible : ~Logged(a)}

\* Decimal division, rounded when the row is stored: here to the unit.
Average(total, quantity) == total \div quantity

\* Bug: the rows are created for the order, not for its animals.
NewRows_Orphaned(S, weight) == {[animal |-> NoAnimal, date |-> clock + 1, weight |-> weight] : a \in S}

NewRows(S, weight) == {[animal |-> a, date |-> clock + 1, weight |-> weight] : a \in S}

-----------------------------------------------------------------------------
(* Animals: slaughtered, or added to the order; returned, disposed of, or  *)
(* taken out of it.                                                        *)

Grow ==
  /\ \E a \in Animals \ eligible : eligible' = eligible \cup {a}
  /\ UNCHANGED <<leather, group, log, clock, logReq, disturbed, relogged>>

Shrink ==
  /\ \E a \in eligible : eligible' = eligible \ {a}
  /\ Disturb(Weighed > 0)
  /\ UNCHANGED <<leather, group, log, clock, logReq, relogged>>

-----------------------------------------------------------------------------
(* log_individual_weight, which the views call for every type but leather. *)

\* filter(animal, weight_type).first(): 0 when there is no row.
Lookup(w, a, g) ==
  /\ ~leather /\ a \in eligible /\ clock < MaxLogs
  /\ \E d \in IF Logged(a) THEN {r.date : r \in RowsOf(a)} ELSE {0} :
       LogBegin(w, [LogIdle EXCEPT !.pc = "write", !.animal = a, !.date = d, !.weight = g])
  /\ UNCHANGED <<leather, eligible, group, log, clock, disturbed, relogged>>

\* Another request has created a row, or deleted the one that was found, meanwhile.
LookupStale(w) ==
  LET r == logReq[w] IN
    IF r.date = 0 THEN Logged(r.animal) ELSE \A q \in RowsOf(r.animal) : q.date # r.date

\* Bug: a correction is stored as one more row.
Written_Added(r) == log \cup NewRows({r.animal}, r.weight)

\* save() of a row that is gone inserts it again.
Written(r) ==
  IF r.date = 0 THEN log \cup NewRows({r.animal}, r.weight)
  ELSE {q \in log : ~(q.animal = r.animal /\ q.date = r.date)}
         \cup {[animal |-> r.animal, date |-> r.date, weight |-> r.weight]}

Write(w) ==
  /\ LogAt(w, "write") /\ clock < MaxLogs
  /\ log' = Written(logReq[w])
  /\ clock' = IF logReq[w].date = 0 THEN clock + 1 ELSE clock
  /\ Disturb(LookupStale(w))
  /\ LogFinish(w)
  /\ UNCHANGED <<leather, eligible, group, relogged>>

-----------------------------------------------------------------------------
(* log_leather_weight: a row for every call, whatever the animal's status  *)
(* and whatever rows it has.                                               *)
LogLeather(a, k) ==
  /\ leather /\ clock < MaxLogs
  /\ log' = log \cup NewRows({a}, k)
  /\ clock' = clock + 1
  /\ relogged' = IF Logged(a) THEN relogged \cup {a} ELSE relogged
  /\ UNCHANGED <<leather, eligible, group, logReq, disturbed>>

-----------------------------------------------------------------------------
(* log_group_weight.                                                       *)

\* Bug: a batch is compared with the animals, not with those that are left.
Fits_Alone(weighed, quantity, available) == quantity <= available

\* "Only ... animals remain available for ... weighing".
Fits(weighed, quantity, available) == weighed + quantity <= available

LoadBatch(w, g, n, k) ==
  /\ ~leather /\ group[g].quantity = 0 /\ \A v \in Workers : logReq[v].group # g
  /\ n > 0 /\ Fits(Weighed, n, Cardinality(eligible))
  /\ LogBegin(w, [LogIdle EXCEPT !.pc = "batch", !.group = g,
                                 !.row = [quantity |-> n, total |-> n * k],
                                 !.available = Cardinality(eligible),
                                 !.weighed = Weighed, !.total = Total])
  /\ UNCHANGED <<leather, eligible, group, log, clock, disturbed, relogged>>

\* Bug: all animals are weighed only when more than all are.
AllWeighed_Exceeded(n, available) == n > available

\* total_animals_weighed >= available_count
AllWeighed(n, available) == n >= available

\* What the transaction has read is not so any more when it commits.
BatchStale(w) ==
  \/ logReq[w].weighed # Weighed - group[logReq[w].group].quantity
  \/ logReq[w].available # Cardinality(eligible)

WriteBatch(w) ==
  LET r == logReq[w] IN
  /\ LogAt(w, "batch") /\ ~AllWeighed(r.weighed + r.row.quantity, r.available)
  /\ group' = [group EXCEPT ![r.group] = r.row]
  /\ Disturb(BatchStale(w))
  /\ LogFinish(w)
  /\ UNCHANGED <<leather, eligible, log, clock, relogged>>

\* _create_individual_weight_logs_from_batches: the animals without a log are read ...
ReadMissing(w) ==
  LET r == logReq[w] IN
  /\ LogAt(w, "batch") /\ AllWeighed(r.weighed + r.row.quantity, r.available)
  /\ clock < MaxLogs
  /\ logReq' = [logReq EXCEPT ![w].pc = "derive", ![w].needs = Missing]
  /\ UNCHANGED <<leather, eligible, group, log, clock, disturbed, relogged>>

\* ... and given the average of the batches as they were loaded.
Derive(w) ==
  LET r == logReq[w] IN
  /\ LogAt(w, "derive") /\ clock < MaxLogs
  /\ group' = [group EXCEPT ![r.group] = r.row]
  /\ log' = log \cup NewRows(r.needs, Average(r.total + r.row.total, r.weighed + r.row.quantity))
  /\ clock' = clock + 1
  /\ Disturb(BatchStale(w) \/ r.needs # Missing)
  /\ LogFinish(w)
  /\ UNCHANGED <<leather, eligible, relogged>>

-----------------------------------------------------------------------------
(* update_group_weight_log_total and the resync that follows it: the row is *)
(* updated, which keeps other edits of it out, the batches are read ...     *)

LoadEdit(w, g, k) ==
  LET n == group[g].quantity IN
    /\ n > 0 /\ clock < MaxLogs
    /\ \A v \in Workers : logReq[v].group # g
    /\ LogBegin(w, [LogIdle EXCEPT !.pc = "resync", !.group = g,
                                   !.row = [quantity |-> n, total |-> n * k],
                                   !.available = Cardinality(eligible),
                                   !.weighed = Weighed - n, !.total = Total - group[g].total])
    /\ UNCHANGED <<leather, eligible, group, log, clock, disturbed, relogged>>

\* The individual logs of the order are deleted, those entered by hand too.
Kept == {}

\* ... and the individual logs rebuilt if they cover all animals.
Resync(w) ==
  LET r == logReq[w]
      n == r.weighed + r.row.quantity
  IN  /\ LogAt(w, "resync") /\ clock < MaxLogs
      /\ group' = [group EXCEPT ![r.group] = r.row]
      /\ log' = IF r.available > 0 /\ AllWeighed(n, r.available)
                  THEN Kept \cup NewRows(eligible, Average(r.total + r.row.total, n))
                  ELSE Kept
      /\ clock' = clock + 1
      /\ Disturb(BatchStale(w))
      /\ LogFinish(w)
      /\ UNCHANGED <<leather, eligible, relogged>>

LogNext ==
  \/ Grow \/ Shrink
  \/ \E a \in Animals, k \in Weights : LogLeather(a, k)
  \/ \E w \in Workers :
       \/ \E a \in Animals, k \in Weights : Lookup(w, a, k)
       \/ \E g \in Groups, n \in 1 .. Cardinality(Animals), k \in Weights : LoadBatch(w, g, n, k)
       \/ \E g \in Groups, k \in Weights : LoadEdit(w, g, k)
       \/ Write(w) \/ WriteBatch(w) \/ ReadMissing(w) \/ Derive(w) \/ Resync(w)

LogSpec == LogInit /\ [][LogNext]_logVars

-----------------------------------------------------------------------------
(* Properties.                                                             *)

\* Batches never weigh more animals than the order has, unless two of them were checked
\* at the same time or an animal left the order (the cumulative validation of
\* log_group_weight).
BatchesFitUnlessDisturbed == disturbed \/ Weighed <= Cardinality(eligible)

\* An order whose batches cover all its animals has an individual log for each of them,
\* and does not wait for a batch nobody may enter any more, unless the last two batches
\* overlapped (each finds the order incomplete) or an animal left it.
CompleteIsLogged ==
  disturbed \/ (Weighed >= Cardinality(eligible) => Missing = {})

\* An animal has one weight of a type, which log_individual_weight corrects in place and
\* batches fill in or rebuild, unless a row was created or deleted between another's lookup
\* and write; leather weighed again is one more row (log_leather_weight).
OneWeightEach ==
  disturbed \/ \A r, q \in log : r.animal = q.animal /\ r.animal \notin relogged => r = q
=============================================================================
