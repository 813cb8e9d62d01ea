------------------------------ MODULE PollCache ------------------------------
(***************************************************************************)
(* The versioned payload cache in front of the two endpoints the edges     *)
(* poll every five seconds: GET /sessions, one version key per edge, and   *)
(* GET /print-jobs/pending, one per site (scales/api_views.py).  A poll    *)
(* reads the version, looks under "<key>:<version>", and on a miss queries *)
(* the rows and stores them under the version it had read.  Saving a row   *)
(* bumps the version, by a post_save signal.                               *)
(*                                                                         *)
(* The rows are a number: how many changes are committed.  An answer is    *)
(* the number of changes it shows.  There is one version key: the pollers  *)
(* are one edge, or the edges of one site.                                 *)
(***************************************************************************)
EXTENDS Integers

CONSTANTS
  Workers,    \* request threads
  Edges,      \* who polls
  NoEdge,
  Backends,   \* how the cache increments: see BumpAtomic and BumpRead
  Saves,      \* "auto": the save commits, then bumps; "twice": it bumps twice;
              \* "batch": it bumps twice, then commits
  MaxSaves, MaxCrashes, MaxForgets

ASSUME PollConstants ==
  /\ NoEdge \notin Edges
  /\ Backends \subseteq {"atomic", "get_set"}
  /\ Saves \subseteq {"auto", "twice", "batch"}
  /\ MaxSaves \in Nat /\ MaxCrashes \in Nat /\ MaxForgets \in Nat

VARIABLES
  backend,    \* the CACHES backend of the deployment
  table,      \* committed changes
  version,    \* the version key; 0 when there is none
  cache,      \* the entries that have not expired
  req,        \* the request of each thread
  finished,   \* history: the last change whose request has ended
  seen,       \* what the last answer to each edge showed
  broken,     \* history: something happened that can make a stale entry current
  saves, crashes, forgets

vars == <<backend, table, version, cache, req, finished, seen, broken,
          saves, crashes, forgets>>

-----------------------------------------------------------------------------
Entry == [ver : Nat, rows : Nat]

Labels == {"idle", "lookup", "query", "store", "bump", "set", "commit"}

Request == [pc : Labels,
            edge : Edges \cup {NoEdge},
            save : {"none", "auto", "batch"},
            again : BOOLEAN,    \* the view bumps after the signal has
            ver : Nat,      \* the version a poll has read, or a bump will set
            rows : Nat,     \* what a poll has read
            floor : Nat]    \* a poll: the changes finished when it began; a save: its own
Idle == [pc |-> "idle", edge |-> NoEdge, save |-> "none", again |-> FALSE,
         ver |-> 0, rows |-> 0, floor |-> 0]

TypeOK ==
  /\ backend \in Backends
  /\ table \in Nat /\ version \in Nat /\ finished \in Nat
  /\ cache \subseteq Entry
  /\ req \in [Workers -> Request]
  /\ seen \in [Edges -> Nat]
  /\ broken \in BOOLEAN
  /\ saves \in Nat /\ crashes \in Nat /\ forgets \in Nat

Init ==
  /\ backend \in Backends
  /\ table = 0 /\ version = 0 /\ finished = 0
  /\ cache = {}
  /\ req = [w \in Workers |-> Idle]
  /\ seen = [e \in Edges |-> 0]
  /\ broken = FALSE
  /\ saves = 0 /\ crashes = 0 /\ forgets = 0

Versions    == 0 .. 2 * MaxSaves
At(w, l)    == req[w].pc = l
Goto(w, l)  == req' = [req EXCEPT ![w].pc = l]
Finish(w)   == req' = [req EXCEPT ![w] = Idle]

-----------------------------------------------------------------------------
(* A poll.  An edge polls again when the last poll is answered.            *)

Current == version

Poll(w, e) ==
  /\ At(w, "idle") /\ \A v \in Workers : req[v].edge # e
  /\ req' = [req EXCEPT ![w] = [Idle EXCEPT !.pc = "lookup", !.edge = e, !.ver = Current,
                                            !.floor = finished]]
  /\ UNCHANGED <<backend, table, version, cache, finished, seen, broken,
                 saves, crashes, forgets>>

Hit(w) ==
  /\ At(w, "lookup")
  /\ \E x \in cache : x.ver = req[w].ver /\ seen' = [seen EXCEPT ![req[w].edge] = x.rows]
  /\ Finish(w)
  /\ UNCHANGED <<backend, table, version, cache, finished, broken, saves, crashes, forgets>>

Miss(w) ==
  /\ At(w, "lookup") /\ \A x \in cache : x.ver # req[w].ver
  /\ Goto(w, "query")
  /\ UNCHANGED <<backend, table, version, cache, finished, seen, broken,
                 saves, crashes, forgets>>

Query(w) ==
  /\ At(w, "query")
  /\ req' = [req EXCEPT ![w] = [@ EXCEPT !.pc = "store", !.rows = table]]
  /\ UNCHANGED <<backend, table, version, cache, finished, seen, broken,
                 saves, crashes, forgets>>

\* Bug: the key is built when the payload is stored, from the version of that time.
StoreKey_Late(w) == version

StoreKey(w) == req[w].ver

Store(w) ==
  /\ At(w, "store")
  /\ cache' = {x \in cache : x.ver # StoreKey(w)}
                \cup {[ver |-> StoreKey(w), rows |-> req[w].rows]}
  /\ seen' = [seen EXCEPT ![req[w].edge] = req[w].rows]
  /\ Finish(w)
  /\ UNCHANGED <<backend, table, version, finished, broken, saves, crashes, forgets>>

-----------------------------------------------------------------------------
(* A save and its bump.                                                    *)

\* A view without a transaction: the row is committed when post_save is sent.  The
\* receiver bumps; edge_post_event bumps the version of its edge once more.
Save(w) ==
  /\ saves < MaxSaves /\ At(w, "idle")
  /\ table' = table + 1
  /\ \E b \in BOOLEAN :
       /\ (IF b THEN "twice" ELSE "auto") \in Saves
       /\ req' = [req EXCEPT ![w] = [Idle EXCEPT !.pc = "bump", !.save = "auto", !.again = b,
                                                 !.floor = table + 1]]
  /\ saves' = saves + 1
  /\ UNCHANGED <<backend, version, cache, finished, seen, broken, crashes, forgets>>

\* The batch endpoint saves, and so bumps, inside its transaction.
SaveInBatch(w) ==
  /\ "batch" \in Saves /\ saves < MaxSaves /\ At(w, "idle")
  /\ req' = [req EXCEPT ![w] = [Idle EXCEPT !.pc = "bump", !.save = "batch", !.again = TRUE]]
  /\ saves' = saves + 1
  /\ UNCHANGED <<backend, table, version, cache, finished, seen, broken, crashes, forgets>>

Later(m, n) == IF m > n THEN m ELSE n

\* What follows the bump: the second, the end of the request, or of its transaction.
Bumped(w, ver) ==
  /\ version' = ver
  /\ \/ /\ req[w].again
        /\ req' = [req EXCEPT ![w] = [@ EXCEPT !.pc = "bump", !.again = FALSE]]
        /\ UNCHANGED finished
     \/ /\ ~req[w].again /\ req[w].save = "auto"
        /\ Finish(w) /\ finished' = Later(finished, req[w].floor)
     \/ /\ ~req[w].again /\ req[w].save = "batch"
        /\ Goto(w, "commit") /\ UNCHANGED finished
  /\ UNCHANGED <<backend, table, cache, seen, saves, crashes, forgets>>

\* cache.incr of Redis and of LocMemCache, on a key that exists.
BumpAtomic(w) ==
  /\ At(w, "bump") /\ backend = "atomic" /\ version > 0
  /\ Bumped(w, version + 1)
  /\ UNCHANGED broken

\* Two steps: incr raises ValueError on a missing key, and set(1) follows it;
\* DatabaseCache inherits an incr that is a get and a set.
BumpRead(w) ==
  /\ At(w, "bump") /\ (backend = "get_set" \/ version = 0)
  /\ req' = [req EXCEPT ![w] = [@ EXCEPT !.pc = "set", !.ver = version + 1]]
  /\ UNCHANGED <<backend, table, version, cache, finished, seen, broken,
                 saves, crashes, forgets>>

BumpSet(w) ==
  /\ At(w, "set")
  /\ Bumped(w, req[w].ver)
  /\ broken' = (broken \/ req[w].ver < version)

\* Rows of an answer that is in the cache under v, or about to be.
Held(v) ==
  \/ \E x \in cache : x.ver = v
  \/ \E w \in Workers : At(w, "store") /\ req[w].ver = v

Commit(w) ==
  /\ At(w, "commit")
  /\ table' = table + 1 /\ finished' = table + 1
  /\ broken' = (broken \/ Held(version))
  /\ Finish(w)
  /\ UNCHANGED <<backend, version, cache, seen, saves, crashes, forgets>>

-----------------------------------------------------------------------------
\* Bug: the payload is stored without a timeout.
Expire_Never(v) == FALSE /\ UNCHANGED vars

\* The timeout of the entries, two seconds.  When the last one goes, and nothing
\* is running, whatever could have made a stale entry current is over.
Expire(v) ==
  /\ \E x \in cache : x.ver = v
  /\ cache' = {x \in cache : x.ver # v}
  /\ broken' = (broken /\ (cache' # {} \/ \E w \in Workers : ~At(w, "idle")))
  /\ UNCHANGED <<backend, table, version, req, finished, seen, saves, crashes, forgets>>

\* The version key is lost: the set of DatabaseCache.incr gives it the default
\* timeout, LocMemCache culls it, Redis evicts it or restarts.
Forget ==
  /\ version > 0 /\ forgets < MaxForgets
  /\ version' = 0 /\ broken' = TRUE /\ forgets' = forgets + 1
  /\ UNCHANGED <<backend, table, cache, req, finished, seen, saves, crashes>>

\* The process stops: a transaction is rolled back, a bump is never done.
Crash(w) ==
  /\ ~At(w, "idle") /\ crashes < MaxCrashes
  /\ crashes' = crashes + 1
  /\ Finish(w)
  /\ UNCHANGED <<backend, table, version, cache, finished, seen, broken, saves, forgets>>

Step(w) == Hit(w) \/ Miss(w) \/ Query(w) \/ Store(w)
           \/ BumpAtomic(w) \/ BumpRead(w) \/ BumpSet(w) \/ Commit(w)

Asks(e) == \E w \in Workers : Poll(w, e)

Next ==
  \/ \E w \in Workers : Save(w) \/ SaveInBatch(w) \/ Step(w) \/ Crash(w)
  \/ \E e \in Edges : Asks(e)
  \/ \E v \in Versions : Expire(v)
  \/ Forget

Spec == Init /\ [][Next]_vars

\* Threads that run go on, edges poll for ever, and entries expire.
Fairness == /\ \A w \in Workers : WF_vars(Step(w))
            /\ \A e \in Edges : SF_vars(Asks(e))
            /\ \A v \in Versions : WF_vars(Expire(v))

FairSpec == Spec /\ Fairness

-----------------------------------------------------------------------------
(* Properties.                                                             *)

\* An entry a poll is about to be answered from shows every change whose request
\* had ended when the poll began.
HitShowsFinished ==
  \A w \in Workers, x \in cache :
    At(w, "lookup") /\ x.ver = req[w].ver => x.rows >= req[w].floor

\* The invalidation is exact unless a bump put the version back, a batch committed
\* after its bump while an answer was held, or the version key was lost; and it is
\* exact again when the entries of that time have expired.
FreshUnlessBroken == broken \/ HitShowsFinished

\* Whatever is lost, a bump, the version key or a request, the timeout of the
\* entries brings every edge to the rows of the table once nobody saves any more.
EventuallySeen == \A e \in Edges : <>[](seen[e] = table)
=============================================================================
