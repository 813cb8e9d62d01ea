--------------------------- MODULE PollCacheProofs ---------------------------
(***************************************************************************)
(* Proofs about PollCache: its types, and that the answers of the cache    *)
(* show every finished change unless the version was put back, lost, or    *)
(* bumped before a commit, for any number of threads, edges and saves.     *)
(***************************************************************************)
EXTENDS PollCache, TLAPS

(***************************************************************************)
(* Types.                                                                  *)
(***************************************************************************)

\* What a thread's request becomes keeps the requests typed.
LEMMA Becomes ==
  ASSUME TypeOK, NEW w \in Workers, NEW r \in Request, req' = [req EXCEPT ![w] = r]
  PROVE  req' \in [Workers -> Request]
BY DEF TypeOK

LEMMA IdleTyped == Idle \in Request
BY DEF Idle, Request, Labels

LEMMA FinishTyped ==
  ASSUME TypeOK, NEW w \in Workers, Finish(w)
  PROVE  req' \in [Workers -> Request]
BY IdleTyped, Becomes DEF Finish

LEMMA GotoTyped ==
  ASSUME TypeOK, NEW w \in Workers, NEW l \in Labels, Goto(w, l)
  PROVE  req' \in [Workers -> Request]
BY DEF TypeOK, Goto, Request

LEMMA BumpedTyped ==
  ASSUME TypeOK, NEW w \in Workers, NEW n \in Nat, Bumped(w, n), broken' \in BOOLEAN
  PROVE  TypeOK'
<1>1. req[w].floor \in Nat /\ finished \in Nat
  BY DEF TypeOK, Request
<1>2. req' \in [Workers -> Request] /\ finished' \in Nat
  <2>1. CASE req[w].again
    <3>1. [req[w] EXCEPT !.pc = "bump", !.again = FALSE] \in Request
      BY DEF TypeOK, Request, Labels
    <3> QED BY <1>1, <2>1, <3>1, Becomes DEF Bumped, TypeOK
  <2>2. CASE ~req[w].again /\ req[w].save = "auto"
    BY <1>1, <2>2, FinishTyped DEF Bumped, Later
  <2>3. CASE ~req[w].again /\ req[w].save = "batch"
    BY <1>1, <2>3, GotoTyped DEF Bumped, Labels
  <2> QED BY <2>1, <2>2, <2>3 DEF Bumped
<1> QED BY <1>2 DEF Bumped, TypeOK

\* The type invariant is inductive.
LEMMA TypeStep == TypeOK /\ [Next]_vars => TypeOK'
<1> SUFFICES ASSUME TypeOK, [Next]_vars PROVE TypeOK' OBVIOUS
<1>1. ASSUME NEW w \in Workers, NEW e \in Edges, Poll(w, e) PROVE TypeOK'
  <2>1. [Idle EXCEPT !.pc = "lookup", !.edge = e, !.ver = Current, !.floor = finished] \in Request
    BY DEF TypeOK, Idle, Request, Labels, Current
  <2>2. req' \in [Workers -> Request]
    BY <1>1, <2>1, Becomes DEF Poll
  <2> QED BY <1>1, <2>2 DEF Poll, TypeOK
<1>2. ASSUME NEW w \in Workers, Hit(w) PROVE TypeOK'
  <2>1. PICK x \in cache : seen' = [seen EXCEPT ![req[w].edge] = x.rows] BY <1>2 DEF Hit
  <2>2. x.rows \in Nat BY <2>1 DEF TypeOK, Entry
  <2>3. seen' \in [Edges -> Nat] BY <2>1, <2>2 DEF TypeOK
  <2>4. req' \in [Workers -> Request] BY <1>2, FinishTyped DEF Hit
  <2> QED BY <1>2, <2>3, <2>4 DEF Hit, TypeOK
<1>3. ASSUME NEW w \in Workers, Miss(w) PROVE TypeOK'
  <2>1. req' \in [Workers -> Request] BY <1>3, GotoTyped DEF Miss, Labels
  <2> QED BY <1>3, <2>1 DEF Miss, TypeOK
<1>4. ASSUME NEW w \in Workers, Query(w) PROVE TypeOK'
  <2>1. [req[w] EXCEPT !.pc = "store", !.rows = table] \in Request
    BY DEF TypeOK, Request, Labels
  <2>2. req' \in [Workers -> Request] BY <1>4, <2>1, Becomes DEF Query, TypeOK
  <2> QED BY <1>4, <2>2 DEF Query, TypeOK
<1>5. ASSUME NEW w \in Workers, Store(w) PROVE TypeOK'
  <2>1. req[w].rows \in Nat /\ req[w].ver \in Nat BY DEF TypeOK, Request
  <2>2. [ver |-> req[w].ver, rows |-> req[w].rows] \in Entry BY <2>1 DEF Entry
  <2>3. cache' \subseteq Entry BY <1>5, <2>2 DEF Store, StoreKey, TypeOK
  <2>4. seen' \in [Edges -> Nat] BY <1>5, <2>1 DEF Store, TypeOK
  <2>5. req' \in [Workers -> Request] BY <1>5, FinishTyped DEF Store
  <2> QED BY <1>5, <2>3, <2>4, <2>5 DEF Store, TypeOK
<1>6. ASSUME NEW w \in Workers, Save(w) PROVE TypeOK'
  <2>0. table + 1 \in Nat BY DEF TypeOK
  <2>1. PICK b \in BOOLEAN :
          req' = [req EXCEPT ![w] = [Idle EXCEPT !.pc = "bump", !.save = "auto", !.again = b,
                                                 !.floor = table + 1]]
    BY <1>6 DEF Save
  <2>3. [Idle EXCEPT !.pc = "bump", !.save = "auto", !.again = b, !.floor = table + 1] \in Request
    BY <2>0 DEF Idle, Request, Labels
  <2>2. req' \in [Workers -> Request] BY <2>1, <2>3, Becomes
  <2> QED BY <1>6, <2>2 DEF Save, TypeOK
<1>7. ASSUME NEW w \in Workers, SaveInBatch(w) PROVE TypeOK'
  <2>1. [Idle EXCEPT !.pc = "bump", !.save = "batch", !.again = TRUE] \in Request
    BY DEF TypeOK, Idle, Request, Labels
  <2>2. req' \in [Workers -> Request] BY <1>7, <2>1, Becomes DEF SaveInBatch
  <2> QED BY <1>7, <2>2 DEF SaveInBatch, TypeOK
<1>8. ASSUME NEW w \in Workers, BumpAtomic(w) PROVE TypeOK'
  BY <1>8, BumpedTyped DEF BumpAtomic, TypeOK
<1>9. ASSUME NEW w \in Workers, BumpRead(w) PROVE TypeOK'
  <2>0. version + 1 \in Nat /\ req[w] \in Request BY DEF TypeOK
  <2>1. [req[w] EXCEPT !.pc = "set", !.ver = version + 1] \in Request
    BY <2>0 DEF Request, Labels
  <2>2. req' \in [Workers -> Request] BY <1>9, <2>1, Becomes DEF BumpRead, TypeOK
  <2> QED BY <1>9, <2>2 DEF BumpRead, TypeOK
<1>10. ASSUME NEW w \in Workers, BumpSet(w) PROVE TypeOK'
  <2>1. req[w].ver \in Nat BY DEF TypeOK, Request
  <2>2. broken' \in BOOLEAN BY <1>10 DEF BumpSet
  <2> QED BY <1>10, <2>1, <2>2, BumpedTyped DEF BumpSet
<1>11. ASSUME NEW w \in Workers, Commit(w) PROVE TypeOK'
  <2>1. broken' \in BOOLEAN BY <1>11 DEF Commit
  <2>2. req' \in [Workers -> Request] BY <1>11, FinishTyped DEF Commit
  <2> QED BY <1>11, <2>1, <2>2 DEF Commit, TypeOK
<1>12. ASSUME NEW v \in Versions, Expire(v) PROVE TypeOK'
  <2>1. broken' \in BOOLEAN BY <1>12 DEF Expire
  <2> QED BY <1>12, <2>1 DEF Expire, TypeOK
<1>13. CASE Forget
  BY <1>13 DEF Forget, TypeOK
<1>14. ASSUME NEW w \in Workers, Crash(w) PROVE TypeOK'
  <2>1. req' \in [Workers -> Request] BY <1>14, FinishTyped DEF Crash
  <2> QED BY <1>14, <2>1 DEF Crash, TypeOK
<1>15. CASE UNCHANGED vars
  BY <1>15 DEF TypeOK, vars
<1> QED BY <1>1, <1>2, <1>3, <1>4, <1>5, <1>6, <1>7, <1>8, <1>9, <1>10, <1>11, <1>12, <1>13,
           <1>14, <1>15 DEF Next, Asks, Step

\* The variables of the cached poll stay in their types, on every schedule.
THEOREM PollTyped == Spec => []TypeOK
<1>1. Init => TypeOK
  <2> SUFFICES ASSUME Init PROVE TypeOK OBVIOUS
  <2>1. cache \subseteq Entry /\ broken \in BOOLEAN /\ backend \in Backends
    BY DEF Init
  <2>2. req \in [Workers -> Request]
    BY IdleTyped DEF Init
  <2>3. seen \in [Edges -> Nat]
    BY DEF Init
  <2>4. /\ table \in Nat /\ version \in Nat /\ finished \in Nat
        /\ saves \in Nat /\ crashes \in Nat /\ forgets \in Nat
    BY DEF Init
  <2> QED BY <2>1, <2>2, <2>3, <2>4 DEF TypeOK
<1> QED BY <1>1, TypeStep, PTL DEF Spec

(***************************************************************************)
(* Freshness.  A finished change has raised the version above that of      *)
(* every answer that does not show it: that is what has to be carried from *)
(* step to step, for the answers in the cache and for those that requests  *)
(* are about to store.                                                     *)
(***************************************************************************)
AnswerOf(w) == [ver |-> req[w].ver, rows |-> req[w].rows]
Answers     == cache \cup {AnswerOf(w) : w \in {u \in Workers : At(u, "store")}}

\* No version in use is above the version key.
Below ==
  /\ \A x \in Answers : x.ver <= version
  /\ \A w \in Workers : req[w].pc \in {"lookup", "query"} => req[w].ver <= version

\* What is held under the version key shows every finished change.
Shown == \A x \in Answers : x.ver = version => x.rows >= finished

\* So does what a poll may be answered from, for the changes it has to see.
Owed == \A w \in Workers, x \in Answers :
          At(w, "lookup") /\ x.ver = req[w].ver => x.rows >= req[w].floor

\* What is held above a version that is being set shows the change it is set for.
Ready == \A w \in Workers, x \in Answers :
           At(w, "set") /\ req[w].save = "auto" /\ x.ver >= req[w].ver => x.rows >= req[w].floor

Exact == Below /\ Shown /\ Owed /\ Ready

\* Changes that are finished, or that a request answers for, are committed.
Committed == finished <= table /\ \A w \in Workers : req[w].floor <= table

Fresh == Committed /\ (broken \/ Exact)

LEMMA AnswersTyped == TypeOK => Answers \subseteq Entry
BY DEF TypeOK, Answers, AnswerOf, Entry, Request

\* No answer is added by a step that leaves no request about to store one.
LEMMA NoNewAnswer ==
  ASSUME TypeOK, NEW w \in Workers, NEW r \in Request, r.pc # "store",
         req' = [req EXCEPT ![w] = r], cache' \subseteq cache
  PROVE  Answers' \subseteq Answers
BY DEF TypeOK, Answers, AnswerOf, At

\* A step that adds no answer, moves neither the version key nor what is finished, and
\* leaves its request neither polling nor setting the version.
LEMMA QuietStep ==
  ASSUME TypeOK, TypeOK', Fresh, NEW w \in Workers, NEW r \in Request,
         req' = [req EXCEPT ![w] = r], r.pc \notin {"lookup", "query", "set"},
         Answers' \subseteq Answers, UNCHANGED <<version, finished, broken>>,
         table' >= table, r.floor <= table'
  PROVE  Fresh'
<1>1. Committed'
  BY DEF Fresh, Committed, TypeOK, Request
<1>2. ASSUME Exact PROVE Exact'
  <2>1. \A u \in Workers : req'[u].pc \in {"lookup", "query", "set"} => req'[u] = req[u]
    BY DEF TypeOK
  <2>2. Below' BY <1>2, <2>1 DEF Exact, Below
  <2>3. Shown' BY <1>2 DEF Exact, Shown
  <2>4. Owed' BY <1>2, <2>1 DEF Exact, Owed, At
  <2>5. Ready' BY <1>2, <2>1 DEF Exact, Ready, At
  <2> QED BY <2>2, <2>3, <2>4, <2>5 DEF Exact
<1> QED BY <1>1, <1>2 DEF Fresh

LEMMA IdleFields == Idle.pc = "idle" /\ Idle.floor = 0
BY DEF Idle

\* The same for a request that ends without a write.
LEMMA EndStep ==
  ASSUME TypeOK, TypeOK', Fresh, NEW w \in Workers, Finish(w), Answers' \subseteq Answers,
         UNCHANGED <<version, finished, broken, table>>
  PROVE  Fresh'
<1>1. table' >= table /\ 0 <= table' BY DEF TypeOK
<1>2. Idle \in Request /\ Idle.pc \notin {"lookup", "query", "set"} /\ Idle.floor <= table'
  BY <1>1, IdleTyped, IdleFields
<1>3. req' = [req EXCEPT ![w] = Idle] BY DEF Finish
<1> HIDE DEF Idle
<1> QED BY <1>1, <1>2, <1>3, QuietStep

LEMMA PollFresh ==
  ASSUME TypeOK, TypeOK', Fresh, NEW w \in Workers, NEW e \in Edges, Poll(w, e)
  PROVE  Fresh'
<1> DEFINE r == [Idle EXCEPT !.pc = "lookup", !.edge = e, !.ver = Current, !.floor = finished]
<1>1. /\ r \in Request /\ r.pc = "lookup" /\ r.ver = version /\ r.floor = finished
  BY DEF TypeOK, Idle, Request, Labels, Current
<1>2. req' = [req EXCEPT ![w] = r] /\ UNCHANGED <<version, finished, broken, table, cache>>
  BY DEF Poll
<1> HIDE DEF r
<1>3. Answers' \subseteq Answers
  BY <1>1, <1>2, NoNewAnswer
<1>4. Committed'
  BY <1>1, <1>2 DEF Fresh, Committed, TypeOK
<1>5. ASSUME Exact PROVE Exact'
  <2>1. req'[w] = r /\ \A u \in Workers \ {w} : req'[u] = req[u]
    BY <1>2 DEF TypeOK
  <2>2. version \in Nat BY DEF TypeOK
  <2>3. Below' BY <1>1, <1>2, <1>3, <1>5, <2>1, <2>2 DEF Exact, Below
  <2>4. Shown' BY <1>2, <1>3, <1>5 DEF Exact, Shown
  <2>5. Owed' BY <1>1, <1>2, <1>3, <1>5, <2>1 DEF Exact, Owed, Shown, At
  <2>6. Ready' BY <1>1, <1>3, <1>5, <2>1 DEF Exact, Ready, At
  <2> QED BY <2>3, <2>4, <2>5, <2>6 DEF Exact
<1> QED BY <1>2, <1>4, <1>5 DEF Fresh

LEMMA MissFresh ==
  ASSUME TypeOK, TypeOK', Fresh, NEW w \in Workers, Miss(w)
  PROVE  Fresh'
<1> DEFINE r == [req[w] EXCEPT !.pc = "query"]
<1>1. /\ r \in Request /\ r.pc = "query" /\ r.ver = req[w].ver /\ r.floor = req[w].floor
      /\ req[w].pc = "lookup"
  BY DEF TypeOK, Request, Labels, Miss, At
<1>2. req' = [req EXCEPT ![w] = r] /\ UNCHANGED <<version, finished, broken, table, cache>>
  BY DEF Miss, Goto, TypeOK
<1> HIDE DEF r
<1>3. Answers' \subseteq Answers
  BY <1>1, <1>2, NoNewAnswer
<1>4. req'[w] = r /\ \A u \in Workers \ {w} : req'[u] = req[u]
  BY <1>2 DEF TypeOK
<1>5. Committed'
  BY <1>1, <1>2, <1>4 DEF Fresh, Committed
<1>6. ASSUME Exact PROVE Exact'
  <2>1. Below' BY <1>1, <1>2, <1>3, <1>4, <1>6 DEF Exact, Below
  <2>2. Shown' BY <1>2, <1>3, <1>6 DEF Exact, Shown
  <2>3. Owed' BY <1>1, <1>3, <1>4, <1>6 DEF Exact, Owed, At
  <2>4. Ready' BY <1>1, <1>3, <1>4, <1>6 DEF Exact, Ready, At
  <2> QED BY <2>1, <2>2, <2>3, <2>4 DEF Exact
<1> QED BY <1>2, <1>5, <1>6 DEF Fresh

\* The rows that are read show all that is committed.
LEMMA QueryFresh ==
  ASSUME TypeOK, TypeOK', Fresh, NEW w \in Workers, Query(w)
  PROVE  Fresh'
<1> DEFINE r == [req[w] EXCEPT !.pc = "store", !.rows = table]
           new == [ver |-> req[w].ver, rows |-> table]
<1>1. /\ r \in Request /\ r.pc = "store" /\ r.ver = req[w].ver /\ r.floor = req[w].floor
      /\ r.rows = table /\ req[w].pc = "query"
  BY DEF TypeOK, Request, Labels, Query, At
<1>2. req' = [req EXCEPT ![w] = r] /\ UNCHANGED <<version, finished, broken, table, cache>>
  BY DEF Query
<1> HIDE DEF r
<1>3. req'[w] = r /\ \A u \in Workers \ {w} : req'[u] = req[u]
  BY <1>2 DEF TypeOK
<1>4. Answers' \subseteq Answers \cup {new}
  <2> SUFFICES ASSUME NEW x \in Answers', x \notin cache PROVE x \in Answers \cup {new}
    BY <1>2 DEF Answers
  <2>1. PICK u \in Workers : req'[u].pc = "store" /\ x = [ver |-> req'[u].ver, rows |-> req'[u].rows]
    BY <1>2 DEF Answers, AnswerOf, At
  <2> QED BY <1>1, <1>3, <2>1 DEF Answers, AnswerOf, At
<1>5. Committed'
  BY <1>1, <1>2, <1>3 DEF Fresh, Committed
<1>6. ASSUME Exact PROVE Exact'
  <2>1. new.ver = req[w].ver /\ new.rows = table /\ req[w].ver <= version
    BY <1>1, <1>6 DEF Exact, Below
  <2> HIDE DEF new
  <2>2. \A u \in Workers : req[u].floor <= table /\ finished <= table
    BY DEF Fresh, Committed
  <2>3. Below' BY <1>1, <1>2, <1>3, <1>4, <1>6, <2>1 DEF Exact, Below
  <2>4. Shown' BY <1>2, <1>4, <1>6, <2>1, <2>2 DEF Exact, Shown
  <2>5. Owed' BY <1>1, <1>3, <1>4, <1>6, <2>1, <2>2 DEF Exact, Owed, At
  <2>6. Ready' BY <1>1, <1>3, <1>4, <1>6, <2>1, <2>2 DEF Exact, Ready, At
  <2> QED BY <2>3, <2>4, <2>5, <2>6 DEF Exact
<1> QED BY <1>2, <1>5, <1>6 DEF Fresh

\* Once the version has been raised above every answer, nothing finished is hidden.
LEMMA BumpedFresh ==
  ASSUME TypeOK, Fresh, NEW w \in Workers, NEW n \in Nat, Bumped(w, n)
  PROVE  /\ Committed'
         /\ Exact /\ n >= version
            /\ (\A x \in Answers : x.ver = n =>
                  x.rows >= finished /\ (req[w].save = "auto" => x.rows >= req[w].floor))
            => Exact'
<1> DEFINE r == IF req[w].again THEN [req[w] EXCEPT !.pc = "bump", !.again = FALSE]
                ELSE IF req[w].save = "auto" THEN Idle ELSE [req[w] EXCEPT !.pc = "commit"]
<1>1. /\ r \in Request /\ r.pc \in {"idle", "commit", "bump"} /\ r.floor \in {0, req[w].floor}
      /\ req' = [req EXCEPT ![w] = r]
  BY IdleTyped, IdleFields DEF TypeOK, Request, Labels, Bumped, Finish, Goto
<1> HIDE DEF r
<1>0. /\ finished \in Nat /\ table \in Nat /\ version \in Nat
      /\ \A u \in Workers : req[u].floor \in Nat /\ req[u].ver \in Nat
  BY DEF TypeOK, Request
<1>2. /\ table' = table /\ cache' = cache /\ version' = n
      /\ finished' = finished \/ (req[w].save = "auto" /\ finished' = req[w].floor)
  BY DEF Bumped, Later
<1>3. req'[w] = r /\ \A u \in Workers \ {w} : req'[u] = req[u]
  BY <1>1 DEF TypeOK
<1>4. Answers' \subseteq Answers
  <2>1. cache' \subseteq cache /\ r.pc # "store" BY <1>1, <1>2
  <2> QED BY <1>1, <2>1, NoNewAnswer
<1>5. Committed'
  <2>1. \A u \in Workers : req'[u].floor \in {0, req[u].floor} BY <1>1, <1>3
  <2>2. finished <= table /\ \A u \in Workers : req[u].floor <= table BY DEF Fresh, Committed
  <2>3. finished' <= table' BY <1>2, <2>2
  <2>4. \A u \in Workers : req'[u].floor <= table' BY <1>0, <1>2, <2>1, <2>2
  <2> QED BY <2>3, <2>4 DEF Committed
<1>6. ASSUME Exact, n >= version,
             \A x \in Answers : x.ver = n =>
               x.rows >= finished /\ (req[w].save = "auto" => x.rows >= req[w].floor)
      PROVE  Exact'
  <2>1. version \in Nat /\ \A x \in Answers : x.ver \in Nat
    BY AnswersTyped DEF TypeOK, Entry
  <2>2. \A u \in Workers : req[u].ver \in Nat BY DEF TypeOK, Request
  <2>3. Below'
    <3>1. \A x \in Answers : x.ver <= n BY <1>6, <2>1 DEF Exact, Below
    <3>2. \A u \in Workers : req'[u].pc \in {"lookup", "query"} => req'[u] = req[u]
      BY <1>1, <1>3
    <3>3. \A u \in Workers : req'[u].pc \in {"lookup", "query"} => req'[u].ver <= n
      BY <1>6, <2>1, <2>2, <3>2 DEF Exact, Below
    <3> QED BY <1>2, <1>4, <3>1, <3>3 DEF Below
  <2>4. Shown'
    <3>1. \A x \in Answers : x.ver = n => x.rows >= finished' BY <1>2, <1>6
    <3> QED BY <1>2, <1>4, <3>1 DEF Shown
  <2>5. Owed' BY <1>1, <1>3, <1>4, <1>6 DEF Exact, Owed, At
  <2>6. Ready' BY <1>1, <1>3, <1>4, <1>6 DEF Exact, Ready, At
  <2> QED BY <2>3, <2>4, <2>5, <2>6 DEF Exact
<1> QED BY <1>5, <1>6

LEMMA BumpAtomicFresh ==
  ASSUME TypeOK, TypeOK', Fresh, NEW w \in Workers, BumpAtomic(w)
  PROVE  Fresh'
<1>1. version + 1 \in Nat /\ version + 1 >= version /\ version \in Nat BY DEF TypeOK
<1>2. ASSUME Exact PROVE \A x \in Answers : x.ver # version + 1
  BY <1>1, <1>2, AnswersTyped DEF Exact, Below, Entry
<1>3. Bumped(w, version + 1) /\ UNCHANGED broken
  BY DEF BumpAtomic
<1> QED BY <1>1, <1>2, <1>3, BumpedFresh DEF Fresh

\* No answer is above the version key when the next version is read off it.
LEMMA BumpReadFresh ==
  ASSUME TypeOK, TypeOK', Fresh, NEW w \in Workers, BumpRead(w)
  PROVE  Fresh'
<1> DEFINE r == [req[w] EXCEPT !.pc = "set", !.ver = version + 1]
<1>0. version \in Nat /\ version + 1 \in Nat BY DEF TypeOK
<1>1. /\ r \in Request /\ r.pc = "set" /\ r.ver = version + 1 /\ r.floor = req[w].floor
  BY <1>0 DEF TypeOK, Request, Labels
<1>2. req' = [req EXCEPT ![w] = r] /\ UNCHANGED <<version, finished, broken, table, cache>>
  BY DEF BumpRead
<1> HIDE DEF r
<1>3. req'[w] = r /\ \A u \in Workers \ {w} : req'[u] = req[u]
  BY <1>2 DEF TypeOK
<1>4. Answers' \subseteq Answers
  BY <1>1, <1>2, NoNewAnswer
<1>5. Committed'
  BY <1>1, <1>2, <1>3 DEF Fresh, Committed
<1>6. ASSUME Exact PROVE Exact'
  <2>1. \A x \in Answers : x.ver \in Nat /\ x.ver <= version
    BY <1>6, AnswersTyped DEF Exact, Below, Entry
  <2>2. Below' BY <1>1, <1>2, <1>3, <1>4, <1>6 DEF Exact, Below
  <2>3. Shown' BY <1>2, <1>4, <1>6 DEF Exact, Shown
  <2>4. Owed' BY <1>1, <1>3, <1>4, <1>6 DEF Exact, Owed, At
  <2>5. Ready'
    <3> SUFFICES ASSUME NEW u \in Workers, NEW x \in Answers', req'[u].pc = "set",
                        req'[u].save = "auto", x.ver >= req'[u].ver
                 PROVE  x.rows >= req'[u].floor
      BY DEF Ready, At
    <3>1. CASE u = w BY <1>0, <1>1, <1>3, <1>4, <2>1, <3>1
    <3>2. CASE u # w BY <1>3, <1>4, <1>6, <3>2 DEF Exact, Ready, At
    <3> QED BY <3>1, <3>2
  <2> QED BY <2>2, <2>3, <2>4, <2>5 DEF Exact
<1> QED BY <1>2, <1>5, <1>6 DEF Fresh

LEMMA BumpSetFresh ==
  ASSUME TypeOK, TypeOK', Fresh, NEW w \in Workers, BumpSet(w)
  PROVE  Fresh'
<1> DEFINE n == req[w].ver
<1>1. n \in Nat /\ version \in Nat /\ finished \in Nat BY DEF TypeOK, Request
<1>2. Bumped(w, n) /\ req[w].pc = "set" /\ broken' = (broken \/ n < version)
  BY DEF BumpSet, At
<1>3. \A x \in Answers : x.ver \in Nat /\ x.rows \in Nat BY AnswersTyped DEF Entry
<1>4. ASSUME Exact, n >= version, NEW x \in Answers, x.ver = n
      PROVE  x.rows >= finished /\ (req[w].save = "auto" => x.rows >= req[w].floor)
  <2>1. x.ver = version BY <1>1, <1>3, <1>4 DEF Exact, Below
  <2>2. x.ver >= req[w].ver BY <1>1, <1>4
  <2> QED BY <1>2, <1>4, <2>1, <2>2 DEF Exact, Shown, Ready, At
<1>5. Committed' /\ (Exact /\ n >= version => Exact')
  BY <1>1, <1>2, <1>4, BumpedFresh
<1>6. n < version \/ n >= version BY <1>1
<1> QED BY <1>2, <1>5, <1>6 DEF Fresh

LEMMA CommitFresh ==
  ASSUME TypeOK, TypeOK', Fresh, NEW w \in Workers, Commit(w)
  PROVE  Fresh'
<1>1. /\ req' = [req EXCEPT ![w] = Idle] /\ UNCHANGED <<version, cache>>
      /\ table' = table + 1 /\ finished' = table + 1 /\ broken' = (broken \/ Held(version))
  BY DEF Commit, Finish
<1>2. Idle \in Request /\ Idle.pc = "idle" /\ Idle.floor = 0 BY IdleTyped, IdleFields
<1>3. req'[w] = Idle /\ \A u \in Workers \ {w} : req'[u] = req[u]
  BY <1>1 DEF TypeOK
<1>4. Answers' \subseteq Answers
  BY <1>1, <1>2, NoNewAnswer
<1>5. Committed'
  <2>1. table \in Nat /\ \A u \in Workers : req[u].floor \in Nat BY DEF TypeOK, Request
  <2> QED BY <1>1, <1>2, <1>3, <2>1 DEF Fresh, Committed
<1>6. ASSUME Exact, ~Held(version) PROVE Exact'
  <2>1. \A x \in Answers : x.ver # version
    BY <1>6 DEF Held, Answers, AnswerOf, At
  <2>2. Below' BY <1>1, <1>2, <1>3, <1>4, <1>6 DEF Exact, Below
  <2>3. Shown' BY <1>1, <1>4, <2>1 DEF Shown
  <2>4. Owed' BY <1>2, <1>3, <1>4, <1>6 DEF Exact, Owed, At
  <2>5. Ready' BY <1>2, <1>3, <1>4, <1>6 DEF Exact, Ready, At
  <2> QED BY <2>2, <2>3, <2>4, <2>5 DEF Exact
<1> QED BY <1>1, <1>5, <1>6 DEF Fresh

\* Entries go; and with no answer and no request left, freshness holds again.
LEMMA ExpireFresh ==
  ASSUME TypeOK, Fresh, NEW v \in Versions, Expire(v)
  PROVE  Fresh'
<1>1. /\ UNCHANGED <<version, table, finished, req>> /\ cache' \subseteq cache
      /\ broken' = (broken /\ (cache' # {} \/ \E w \in Workers : ~At(w, "idle")))
  BY DEF Expire
<1>2. Answers' \subseteq Answers /\ Committed'
  BY <1>1 DEF Answers, AnswerOf, At, Fresh, Committed
<1>3. Exact => Exact'
  BY <1>1, <1>2 DEF Exact, Below, Shown, Owed, Ready, At
<1>4. ASSUME cache' = {}, \A w \in Workers : At(w, "idle") PROVE Exact'
  <2>1. Answers' = {}
    BY <1>1, <1>4 DEF Answers, At
  <2> QED BY <1>1, <1>4, <2>1 DEF Exact, Below, Shown, Owed, Ready, At
<1> QED BY <1>1, <1>2, <1>3, <1>4 DEF Fresh

LEMMA FreshStep == TypeOK /\ Fresh /\ [Next]_vars => Fresh'
<1> SUFFICES ASSUME TypeOK, Fresh, [Next]_vars PROVE Fresh' OBVIOUS
<1>0. TypeOK' BY TypeStep
<1>1. ASSUME NEW w \in Workers, NEW e \in Edges, Poll(w, e) PROVE Fresh'
  BY <1>0, <1>1, PollFresh
<1>2. ASSUME NEW w \in Workers, Hit(w) PROVE Fresh'
  <2>1. Finish(w) /\ UNCHANGED <<version, finished, broken, table, cache>> BY <1>2 DEF Hit
  <2>2. Answers' \subseteq Answers BY <2>1, NoNewAnswer, IdleTyped, IdleFields DEF Finish
  <2> QED BY <1>0, <2>1, <2>2, EndStep
<1>3. ASSUME NEW w \in Workers, Miss(w) PROVE Fresh'
  BY <1>0, <1>3, MissFresh
<1>4. ASSUME NEW w \in Workers, Query(w) PROVE Fresh'
  BY <1>0, <1>4, QueryFresh
<1>5. ASSUME NEW w \in Workers, Store(w) PROVE Fresh'
  <2>1. Finish(w) /\ UNCHANGED <<version, finished, broken, table>> BY <1>5 DEF Store
  <2>2. AnswerOf(w) \in Answers BY <1>5 DEF Store, Answers
  <2>3. cache' \subseteq Answers
    BY <1>5, <2>2 DEF Store, StoreKey, Answers, AnswerOf
  <2>4. \A u \in Workers : At(u, "store")' => req'[u] = req[u]
    BY <2>1, IdleFields DEF Finish, At, TypeOK
  <2>5. Answers' \subseteq Answers
    BY <2>3, <2>4 DEF Answers, AnswerOf, At
  <2> QED BY <1>0, <2>1, <2>5, EndStep
<1>6. ASSUME NEW w \in Workers, Save(w) PROVE Fresh'
  <2>0. PICK b \in BOOLEAN :
          req' = [req EXCEPT ![w] = [Idle EXCEPT !.pc = "bump", !.save = "auto", !.again = b,
                                                 !.floor = table + 1]]
    BY <1>6 DEF Save
  <2> DEFINE r == [Idle EXCEPT !.pc = "bump", !.save = "auto", !.again = b, !.floor = table + 1]
  <2>1. table \in Nat /\ table + 1 \in Nat BY DEF TypeOK
  <2>2. r \in Request /\ r.pc = "bump" /\ r.floor = table + 1
    BY <2>1 DEF Idle, Request, Labels
  <2>3. /\ req' = [req EXCEPT ![w] = r] /\ table' = table + 1
        /\ UNCHANGED <<version, finished, broken, cache>>
    BY <1>6, <2>0 DEF Save
  <2> HIDE DEF r
  <2>4. Answers' \subseteq Answers BY <2>2, <2>3, NoNewAnswer
  <2>5. table' >= table /\ r.floor <= table' BY <2>1, <2>2, <2>3
  <2> QED BY <1>0, <2>2, <2>3, <2>4, <2>5, QuietStep
<1>7. ASSUME NEW w \in Workers, SaveInBatch(w) PROVE Fresh'
  <2> DEFINE r == [Idle EXCEPT !.pc = "bump", !.save = "batch", !.again = TRUE]
  <2>1. r \in Request /\ r.pc = "bump" /\ r.floor = 0
    BY DEF Idle, Request, Labels
  <2>2. /\ req' = [req EXCEPT ![w] = r] /\ UNCHANGED <<version, finished, broken, table, cache>>
    BY <1>7 DEF SaveInBatch
  <2> HIDE DEF r
  <2>3. Answers' \subseteq Answers BY <2>1, <2>2, NoNewAnswer
  <2>4. table' >= table /\ r.floor <= table' BY <2>1, <2>2 DEF TypeOK
  <2> QED BY <1>0, <2>1, <2>2, <2>3, <2>4, QuietStep
<1>8. ASSUME NEW w \in Workers, BumpAtomic(w) PROVE Fresh'
  BY <1>0, <1>8, BumpAtomicFresh
<1>9. ASSUME NEW w \in Workers, BumpRead(w) PROVE Fresh'
  BY <1>0, <1>9, BumpReadFresh
<1>10. ASSUME NEW w \in Workers, BumpSet(w) PROVE Fresh'
  BY <1>0, <1>10, BumpSetFresh
<1>11. ASSUME NEW w \in Workers, Commit(w) PROVE Fresh'
  BY <1>0, <1>11, CommitFresh
<1>12. ASSUME NEW v \in Versions, Expire(v) PROVE Fresh'
  BY <1>12, ExpireFresh
<1>13. CASE Forget
  BY <1>13 DEF Forget, Fresh, Committed
<1>14. ASSUME NEW w \in Workers, Crash(w) PROVE Fresh'
  <2>1. Finish(w) /\ UNCHANGED <<version, finished, broken, table, cache>> BY <1>14 DEF Crash
  <2>2. Answers' \subseteq Answers BY <2>1, NoNewAnswer, IdleTyped, IdleFields DEF Finish
  <2> QED BY <1>0, <2>1, <2>2, EndStep
<1>15. CASE UNCHANGED vars
  BY <1>15 DEF vars, Fresh, Committed, Exact, Below, Shown, Owed, Ready, Answers, AnswerOf, At
<1> QED BY <1>1, <1>2, <1>3, <1>4, <1>5, <1>6, <1>7, <1>8, <1>9, <1>10, <1>11, <1>12, <1>13,
           <1>14, <1>15 DEF Next, Asks, Step

\* The claim of the version keys: a poll that begins when a save has ended is not
\* answered from an entry older than the save, whatever runs beside it, unless a bump
\* put the version back, the key was lost, or a batch committed after its bump.
THEOREM PollFreshness == Spec => []FreshUnlessBroken
<1>1. Init => Fresh
  <2> SUFFICES ASSUME Init PROVE Fresh OBVIOUS
  <2>1. \A w \in Workers : req[w].pc = "idle" /\ req[w].floor = 0
    BY IdleFields DEF Init
  <2>2. Answers = {} BY <2>1 DEF Init, Answers, At
  <2>3. Exact BY <2>1, <2>2 DEF Exact, Below, Shown, Owed, Ready, At
  <2>4. Committed BY <2>1 DEF Init, Committed
  <2> QED BY <2>3, <2>4 DEF Fresh
<1>2. Fresh => FreshUnlessBroken
  BY DEF Fresh, Exact, Owed, FreshUnlessBroken, HitShowsFinished, Answers
<1> QED BY <1>1, <1>2, FreshStep, PollTyped, PTL DEF Spec
=============================================================================
