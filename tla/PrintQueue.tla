----------------------------- MODULE PrintQueue -----------------------------
(***************************************************************************)
(* The print jobs of one site: label views enqueue them, the edges of the  *)
(* site poll the pending ones and acknowledge what became of them, an      *)
(* operator cancels, an administrator re-enqueues the failed, a command    *)
(* fails the stuck, and removing or re-linking an edge clears its jobs     *)
(* (labeling/services.py, labeling/admin.py, scales/api_views.py,          *)
(* scales/views.py).                                                       *)
(*                                                                         *)
(* As in ScaleEvents a request is a record, and other requests run between *)
(* two of its queries.  An acknowledgement and a cancellation load the row *)
(* and save it; the others are UPDATE statements with a WHERE clause.      *)
(*                                                                         *)
(* A poll is one step, and a write invalidates the payload cache in the    *)
(* step that commits it: what the version key does between the two is the  *)
(* subject of PollCache.  The edges are not part of the repository: an     *)
(* edge may acknowledge any job it has in hand, in any order, and drops a  *)
(* job when it likes once it has reported how printing it ended.           *)
(***************************************************************************)
EXTENDS Integers, FiniteSets

CONSTANTS
  MaxJobs,
  Edges, Workers,
  PageSize,         \* jobs in an answer: 50 in the code
  Ops,              \* the endpoints in use
  MaxCrashes, MaxEdits,
  NoEdge

AllOps == {"cancel", "reenqueue", "cleanup", "remove", "relink"}
Jobs   == 1 .. MaxJobs      \* in the order of print_date

ASSUME QueueConstants ==
  /\ MaxJobs \in Nat /\ PageSize \in Nat \ {0}
  /\ Ops \subseteq AllOps
  /\ MaxCrashes \in Nat /\ MaxEdits \in Nat
  /\ NoEdge \notin Edges

VARIABLES
  job,      \* PrintJob rows
  alive,    \* EdgeDevice.is_active, and that of its printers
  payload,  \* the cached answer of the site: a set of jobs, or none
  offered,  \* the jobs each edge has read in an answer and has in hand
  req, crashes, edits

vars == <<job, alive, payload, offered, req, crashes, edits>>

-----------------------------------------------------------------------------
Acks == {"dispatched", "completed", "failed"}
Done == {"completed", "cancelled"}

Row   == [status : {"none", "pending"} \cup Acks \cup Done,
          claim : Edges \cup {NoEdge},      \* claimed_by_edge
          printer : Edges \cup {NoEdge}]    \* the edge whose printer target_printer is
NoRow == [status |-> "none", claim |-> NoEdge, printer |-> NoEdge]

Labels  == {"idle", "create", "save", "cancel", "reenqueue", "untarget", "clear", "release", "retire"}
Request == [pc : Labels, e : Edges \cup {NoEdge}, j : Jobs \cup {0},
            row : Row,                      \* the row as loaded
            ack : Acks \cup {"none"},
            bump : BOOLEAN]                 \* re-enqueue: the site was seen
Idle == [pc |-> "idle", e |-> NoEdge, j |-> 0, row |-> NoRow, ack |-> "none", bump |-> FALSE]

None == [cached |-> FALSE, jobs |-> {}]

TypeOK ==
  /\ job \in [Jobs -> Row]
  /\ alive \in [Edges -> BOOLEAN]
  /\ payload \in [cached : BOOLEAN, jobs : {S \in SUBSET Jobs : Cardinality(S) <= PageSize}]
  /\ offered \in [Edges -> SUBSET Jobs]
  /\ req \in [Workers -> Request]
  /\ crashes \in Nat /\ edits \in Nat

Init ==
  /\ job = [j \in Jobs |-> NoRow]
  /\ alive = [e \in Edges |-> TRUE]
  /\ payload = None
  /\ offered = [e \in Edges |-> {}]
  /\ req = [w \in Workers |-> Idle]
  /\ crashes = 0 /\ edits = 0

-----------------------------------------------------------------------------
Begin(w, r) == req[w].pc = "idle" /\ req' = [req EXCEPT ![w] = r]
At(w, l)    == req[w].pc = l
Goto(w, l)  == req' = [req EXCEPT ![w].pc = l]
Finish(w)   == req' = [req EXCEPT ![w] = Idle]

In(j, st)    == job[j].status = st
Pending      == {j \in Jobs : In(j, "pending")}

\* Bug: the payload is left in the cache.
Bump_Never(c) == UNCHANGED payload

\* _bump_edge_print_jobs_version, if c: what is cached is not found any more.
Bump(c) == payload' = IF c THEN None ELSE payload

\* An UPDATE of the jobs in S, and the bump that follows when it has rows.
SetStatus(S, st) ==
  /\ job' = [j \in Jobs |-> IF j \in S THEN [job[j] EXCEPT !.status = st] ELSE job[j]]
  /\ Bump(S # {})

-----------------------------------------------------------------------------
(* Polls.                                                                  *)

\* Bug: the query forgets the status.
Eligible_AnyStatus(e) == {j \in Jobs : job[j].claim \in {NoEdge, e}}

\* The jobs an edge may be given.
Eligible(e) == {j \in Pending : job[j].claim \in {NoEdge, e}}

\* Bug: the slice is gone.
Page_Whole(e) == Eligible(e)

\* order_by("print_date")[:50]
Page(e) == {j \in Eligible(e) : Cardinality({i \in Eligible(e) : i < j}) < PageSize}

Give(e, jobs) == offered' = [offered EXCEPT ![e] = @ \cup jobs]

PollHit(e) ==
  /\ alive[e] /\ payload.cached
  /\ Give(e, payload.jobs)
  /\ UNCHANGED <<job, alive, payload, req, crashes, edits>>

\* The page of this edge is cached for every edge of the site.
PollMiss(e) ==
  /\ alive[e] /\ ~payload.cached
  /\ Give(e, Page(e))
  /\ payload' = [cached |-> TRUE, jobs |-> Page(e)]
  /\ UNCHANGED <<job, alive, req, crashes, edits>>

Poll(e) == PollHit(e) \/ PollMiss(e)

\* The timeout of the payload.
Expire ==
  /\ payload.cached /\ payload' = None
  /\ UNCHANGED <<job, alive, offered, req, crashes, edits>>

-----------------------------------------------------------------------------
(* Enqueueing, by the label views.                                         *)

\* The view has seen an edge with a printer at the site.
Enqueue(w, j) ==
  /\ In(j, "none") /\ \A i \in Jobs : i < j => ~In(i, "none")
  /\ \A v \in Workers : ~At(v, "create")
  /\ \E e \in Edges : alive[e]
  /\ Begin(w, [Idle EXCEPT !.pc = "create", !.j = j])
  /\ UNCHANGED <<job, alive, payload, offered, crashes, edits>>

CreateJob(w) ==
  /\ At(w, "create")
  /\ SetStatus({req[w].j}, "pending")
  /\ Finish(w)
  /\ UNCHANGED <<alive, offered, crashes, edits>>

-----------------------------------------------------------------------------
(* Acknowledgements.                                                       *)

\* Bug: a job that is cancelled takes acknowledgements.
Closed_Completed == {"completed"}

\* "job already completed", "job already cancelled": nothing is written.
Closed == {"completed", "cancelled"}

Ack(w, e, j, st) ==
  /\ alive[e] /\ j \in offered[e]
  /\ job[j].status \notin Closed
  /\ Begin(w, [Idle EXCEPT !.pc = "save", !.e = e, !.j = j, !.ack = st, !.row = job[j]])
  /\ UNCHANGED <<job, alive, payload, offered, crashes, edits>>

\* Bug: the edge that acknowledges last has the job.
Claimant_Last(row, loaded, e) == e

\* claimed_by_edge is among the saved fields when the row had none as loaded.
Claimant(row, loaded, e) == IF loaded.claim = NoEdge THEN e ELSE row.claim

\* save(update_fields=...): the fields that are not listed keep what the table has.
SaveAck(w) ==
  LET r == req[w] IN
  /\ At(w, "save")
  /\ \E p \in {job[r.j].printer, r.e} :
       job' = [job EXCEPT ![r.j] = [status |-> r.ack, printer |-> p,
                                    claim |-> Claimant(job[r.j], r.row, r.e)]]
  /\ Bump(TRUE)
  /\ \/ UNCHANGED offered
     \/ r.ack # "dispatched" /\ offered' = [offered EXCEPT ![r.e] = @ \ {r.j}]
  /\ Finish(w)
  /\ UNCHANGED <<alive, crashes, edits>>

-----------------------------------------------------------------------------
(* Operators.                                                              *)

Edit(op) == op \in Ops /\ edits < MaxEdits /\ edits' = edits + 1

Cancel(w, j) ==
  /\ Edit("cancel") /\ In(j, "pending")
  /\ Begin(w, [Idle EXCEPT !.pc = "cancel", !.j = j, !.row = job[j]])
  /\ UNCHANGED <<job, alive, payload, offered, crashes>>

\* save() writes every field of the row as it was loaded.
SaveCancel(w) ==
  LET r == req[w] IN
  /\ At(w, "cancel")
  /\ job' = [job EXCEPT ![r.j] = [r.row EXCEPT !.status = "cancelled"]]
  /\ Bump(TRUE)
  /\ Finish(w)
  /\ UNCHANGED <<alive, offered, crashes, edits>>

\* Two queries: the sites of the failed jobs in the selection, and the UPDATE of
\* those that are failed by then.
Reenqueue(w, j) ==
  /\ Edit("reenqueue") /\ ~In(j, "none")
  /\ Begin(w, [Idle EXCEPT !.pc = "reenqueue", !.j = j, !.bump = In(j, "failed")])
  /\ UNCHANGED <<job, alive, payload, offered, crashes>>

UpdateReenqueue(w) ==
  LET j == req[w].j IN
  /\ At(w, "reenqueue")
  /\ job' = IF In(j, "failed") THEN [job EXCEPT ![j].status = "pending"] ELSE job
  /\ Bump(req[w].bump)
  /\ Finish(w)
  /\ UNCHANGED <<alive, offered, crashes, edits>>

\* cleanup_stale_print_jobs: S has been dispatched for longer than the cutoff.
Cleanup ==
  /\ Edit("cleanup")
  /\ \E S \in SUBSET {j \in Jobs : In(j, "dispatched")} : S # {} /\ SetStatus(S, "failed")
  /\ UNCHANGED <<alive, offered, req, crashes>>

-----------------------------------------------------------------------------
(* Removing an edge, or clearing it to be linked again.                    *)

Retire(w, e, op, l) ==
  /\ Edit(op) /\ alive[e]
  /\ Begin(w, [Idle EXCEPT !.pc = l, !.e = e])
  /\ UNCHANGED <<job, alive, payload, offered, crashes>>

Remove(w, e) == Retire(w, e, "remove", "untarget")
Relink(w, e) == Retire(w, e, "relink", "clear")

\* The jobs that target its printers, if they are not removed already; or all.
CancelPending(w) ==
  LET e == req[w].e IN
  /\ \/ At(w, "untarget") /\ SetStatus({j \in Pending : alive[e] /\ job[j].printer = e}, "cancelled")
     \/ At(w, "clear") /\ SetStatus(Pending, "cancelled")
  /\ Goto(w, "release")
  /\ UNCHANGED <<alive, offered, crashes, edits>>

Release(w) ==
  /\ At(w, "release")
  /\ SetStatus({j \in Jobs : In(j, "dispatched") /\ job[j].claim = req[w].e}, "cancelled")
  /\ Goto(w, "retire")
  /\ UNCHANGED <<alive, offered, crashes, edits>>

SoftDelete(w) ==
  /\ At(w, "retire")
  /\ alive' = [alive EXCEPT ![req[w].e] = FALSE]
  /\ Finish(w)
  /\ UNCHANGED <<job, payload, offered, crashes, edits>>

-----------------------------------------------------------------------------
Crash(w) ==
  /\ ~At(w, "idle") /\ crashes < MaxCrashes
  /\ crashes' = crashes + 1
  /\ Finish(w)
  /\ UNCHANGED <<job, alive, payload, offered, edits>>

Step(w) == CreateJob(w) \/ SaveAck(w) \/ SaveCancel(w) \/ UpdateReenqueue(w)
           \/ CancelPending(w) \/ Release(w) \/ SoftDelete(w)

Arrive(w) ==
  \/ \E j \in Jobs : Enqueue(w, j) \/ Cancel(w, j) \/ Reenqueue(w, j)
  \/ \E e \in Edges : Remove(w, e) \/ Relink(w, e)
  \/ \E e \in Edges, j \in Jobs, st \in Acks : Ack(w, e, j, st)

Next ==
  \/ \E e \in Edges : Poll(e)
  \/ \E w \in Workers : Arrive(w) \/ Step(w) \/ Crash(w)
  \/ Expire \/ Cleanup

Spec == Init /\ [][Next]_vars

\* Requests go on; the payload expires, and an edge that is not removed polls: no one
\* says which is the first.  An edge acknowledges what it has in hand and may still print.
Takes(e, j) == In(j, "pending") /\ \E w \in Workers : Ack(w, e, j, "dispatched")

Fairness ==
  /\ \A w \in Workers : WF_vars(Step(w))
  /\ WF_vars(Expire) /\ WF_vars(\E e \in Edges : PollMiss(e))
  /\ \A e \in Edges, j \in Jobs : SF_vars(Takes(e, j))

FairSpec == Spec /\ Fairness

-----------------------------------------------------------------------------
(* Properties.                                                             *)

\* No write leaves a job in the cached answer that an edge must not be given any more:
\* of all the paths that take a job out of "pending", by save or by UPDATE, none
\* forgets the invalidation.
CacheOffersPending == payload.jobs \subseteq Pending

\* A job that is completed or cancelled changes only by the save of a request that
\* had loaded it before: nothing that reads the row as it is touches it any more.
ClosedLeftOnlyByStaleSave ==
  [][\A j \in Jobs : In(j, "completed") \/ In(j, "cancelled") =>
       \/ job'[j].status = job[j].status
       \/ \E w \in Workers : /\ req[w].pc \in {"save", "cancel"} /\ req[w].j = j
                             /\ req[w].row.status \notin {"completed", "cancelled"}]_vars

\* The edge that has claimed a job keeps it, unless another edge's acknowledgement that
\* loaded the job without a claim is saved, or a cancellation that loaded it with
\* another claim than it has.
ClaimLeftOnlyByStaleSave ==
  [][\A j \in Jobs : job[j].claim # NoEdge =>
       \/ job'[j].claim = job[j].claim
       \/ \E w \in Workers :
            /\ req[w].j = j
            /\ \/ At(w, "save") /\ req[w].row.claim = NoEdge /\ job'[j].claim = req[w].e
               \/ At(w, "cancel") /\ job'[j].claim = req[w].row.claim]_vars

\* A job that no edge has claimed does not wait for ever while an edge is there.
Waiting(j) == In(j, "pending") /\ job[j].claim = NoEdge
NewJobsTaken == \A j \in Jobs : Waiting(j) ~> (~Waiting(j) \/ \A e \in Edges : ~alive[e])
=============================================================================
