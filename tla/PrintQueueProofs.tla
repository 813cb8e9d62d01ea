-------------------------- MODULE PrintQueueProofs --------------------------
(***************************************************************************)
(* Proofs about PrintQueue, for any number of jobs, edges, threads and     *)
(* crashes and any size of a page.                                         *)
(***************************************************************************)
EXTENDS PrintQueue, FiniteSetTheorems, WellFoundedInduction, TLAPS

(***************************************************************************)
(* A page has no more jobs than it should: those before its last are fewer *)
(* than its size.                                                          *)
(***************************************************************************)
LEMMA JobsFinite ==
  /\ IsFiniteSet(Jobs) /\ Jobs \in SUBSET Nat
  /\ \A S \in SUBSET Jobs : IsFiniteSet(S) /\ Cardinality(S) \in Nat
<1>1. IsFiniteSet(Jobs) /\ Jobs \in SUBSET Nat
  BY FS_Interval, QueueConstants DEF Jobs
<1>2. \A S \in SUBSET Jobs : IsFiniteSet(S)
  BY <1>1, FS_Subset
<1> QED BY <1>1, <1>2, FS_CardinalityType

\* The last of some jobs: the one with the least distance to the end.
LEMMA LastExists ==
  ASSUME NEW S \in SUBSET Jobs, S # {} PROVE \E m \in S : \A j \in S : j <= m
<1> DEFINE D == {MaxJobs - j : j \in S}
<1>1. D \in SUBSET Nat /\ D # {}
  BY QueueConstants DEF Jobs
<1> HIDE DEF D
<1>2. PICK x \in D : \A y \in D : ~(<<y, x>> \in OpToRel(<, Nat))
  BY <1>1, NatLessThanWellFounded, WFMin
<1>3. \A y \in D : ~(y < x)
  BY <1>1, <1>2 DEF OpToRel
<1>4. PICK m \in S : x = MaxJobs - m
  BY DEF D
<1>5. \A j \in S : MaxJobs - j \in D
  BY DEF D
<1>6. \A j \in S : ~(MaxJobs - j < MaxJobs - m)
  BY <1>3, <1>4, <1>5
<1>7. \A j \in S : j \in Int /\ m \in Int /\ MaxJobs \in Int
  BY QueueConstants DEF Jobs
<1> QED BY <1>6, <1>7

LEMMA PageFits ==
  ASSUME NEW e \in Edges
  PROVE  Page(e) \in SUBSET Jobs /\ Page(e) \subseteq Pending /\ Cardinality(Page(e)) <= PageSize
<1>1. Page(e) \in SUBSET Jobs /\ Page(e) \subseteq Pending /\ Eligible(e) \in SUBSET Jobs
  BY DEF Page, Eligible, Pending
<1>2. CASE Page(e) = {}
  BY <1>1, <1>2, FS_EmptySet, QueueConstants
<1>3. CASE Page(e) # {}
  <2>1. PICK m \in Page(e) : \A j \in Page(e) : j <= m
    BY <1>1, <1>3, LastExists
  <2> DEFINE B == {i \in Eligible(e) : i < m}
             P == Page(e) \ {m}
  <2>2. B \in SUBSET Jobs /\ Cardinality(B) < PageSize
    BY <1>1, <2>1 DEF Page
  <2>3. P \subseteq B
    <3>1. \A j \in P : j \in Nat /\ m \in Nat /\ j # m /\ j <= m
      BY <1>1, <2>1, JobsFinite
    <3> QED BY <3>1 DEF Page
  <2>4. Cardinality(P) <= Cardinality(B)
    BY <2>2, <2>3, JobsFinite, FS_Subset
  <2>5. Cardinality(Page(e)) = Cardinality(P) + 1
    BY <1>1, <2>1, JobsFinite, FS_RemoveElement
  <2>6. Cardinality(P) \in Nat /\ Cardinality(B) \in Nat /\ PageSize \in Nat
    BY <1>1, <2>2, JobsFinite, QueueConstants
  <2> QED BY <1>1, <2>2, <2>4, <2>5, <2>6
<1> QED BY <1>2, <1>3

(***************************************************************************)
(* The inductive invariant.                                                *)
(***************************************************************************)
Statuses == {"none", "pending"} \cup Acks \cup Done
Payloads == [cached : BOOLEAN, jobs : {S \in SUBSET Jobs : Cardinality(S) <= PageSize}]

\* What a request has in hand, by where it is.
Sane(r) ==
  /\ r.pc \in {"create", "save", "cancel", "reenqueue"} => r.j \in Jobs
  /\ r.pc = "create" => In(r.j, "none")
  /\ r.pc \in {"save", "cancel", "reenqueue"} => ~In(r.j, "none")
  /\ r.pc = "save" => r.e \in Edges /\ r.ack \in Acks /\ r.row.status \notin Closed
  /\ r.pc = "cancel" => r.row.status = "pending"
  /\ r.pc \in {"untarget", "clear", "release", "retire"} => r.e \in Edges

OneCreates == \A v, w \in Workers : v # w => ~(At(v, "create") /\ At(w, "create"))

InHand == \A e \in Edges : \A j \in offered[e] : ~In(j, "none")

Inv == TypeOK /\ (\A w \in Workers : Sane(req[w])) /\ OneCreates /\ InHand /\ CacheOffersPending

LEMMA Becomes ==
  ASSUME TypeOK, NEW w \in Workers, NEW r \in Request, req' = [req EXCEPT ![w] = r]
  PROVE  /\ req' \in [Workers -> Request] /\ req'[w] = r
         /\ \A v \in Workers \ {w} : req'[v] = req[v]
BY DEF TypeOK

LEMMA IdleIs == Idle \in Request /\ Idle.pc = "idle"
BY DEF Idle, Request, Labels, Row, NoRow

LEMMA NoneIs == None \in Payloads /\ None.jobs = {}
BY FS_EmptySet, QueueConstants DEF None, Payloads

LEMMA BumpIs ==
  ASSUME TypeOK, NEW c, Bump(c)
  PROVE  payload' \in Payloads /\ (payload' = None \/ payload' = payload) /\ (c => payload' = None)
BY NoneIs DEF Bump, TypeOK, Payloads

\* An UPDATE changes the status of some jobs, and what is cached of them is dropped.
LEMMA SetStatusIs ==
  ASSUME TypeOK, NEW S \in SUBSET Jobs, NEW st \in Statuses, SetStatus(S, st)
  PROVE  /\ job' \in [Jobs -> Row]
         /\ \A j \in S : job'[j].status = st
         /\ \A j \in Jobs \ S : job'[j] = job[j]
         /\ \A j \in Jobs : job'[j].claim = job[j].claim
         /\ payload' \in Payloads
         /\ payload' = None \/ (payload' = payload /\ \A j \in Jobs : job'[j] = job[j])
<1>1. job' = [j \in Jobs |-> IF j \in S THEN [job[j] EXCEPT !.status = st] ELSE job[j]]
  BY DEF SetStatus
<1>2. \A j \in Jobs : /\ [job[j] EXCEPT !.status = st] \in Row
                      /\ [job[j] EXCEPT !.status = st].status = st
                      /\ [job[j] EXCEPT !.status = st].claim = job[j].claim
                      /\ job[j] \in Row
  BY DEF TypeOK, Row, Statuses
<1>3. /\ job' \in [Jobs -> Row]
      /\ \A j \in S : job'[j].status = st
      /\ \A j \in Jobs \ S : job'[j] = job[j]
      /\ \A j \in Jobs : job'[j].claim = job[j].claim
  BY <1>1, <1>2
<1>4. payload' \in Payloads /\ (payload' = None \/ payload' = payload) /\ (S # {} => payload' = None)
  BY BumpIs DEF SetStatus
<1> QED BY <1>3, <1>4

\* One saved row.
LEMMA SavedIs ==
  ASSUME TypeOK, NEW i \in Jobs, NEW r \in Row, job' = [job EXCEPT ![i] = r]
  PROVE  job' \in [Jobs -> Row] /\ job'[i] = r /\ \A j \in Jobs \ {i} : job'[j] = job[j]
BY DEF TypeOK

\* What is cached is pending when it was dropped, or no job stopped being pending.
LEMMA CacheKept ==
  ASSUME Inv, \/ payload' = None
              \/ payload' = payload /\ \A j \in Jobs : In(j, "pending") => In(j, "pending")'
  PROVE  CacheOffersPending'
<1>1. CASE payload' = None
  BY <1>1, NoneIs DEF CacheOffersPending
<1>2. CASE payload' = payload /\ \A j \in Jobs : In(j, "pending") => In(j, "pending")'
  BY <1>2 DEF Inv, CacheOffersPending, Pending
<1> QED BY <1>1, <1>2

\* A step of w's request.
LEMMA InvKept ==
  ASSUME Inv, TypeOK', CacheOffersPending', NEW w \in Workers, Sane(req[w])',
         \A v \in Workers \ {w} : req'[v] = req[v],
         \A j \in Jobs : ~In(j, "none") => ~In(j, "none")',
         \A j \in Jobs : In(j, "none") => In(j, "none")' \/ (At(w, "create") /\ req[w].j = j),
         At(w, "create")' => \A v \in Workers \ {w} : ~At(v, "create"),
         \A e \in Edges : offered'[e] \subseteq offered[e]
  PROVE  Inv'
<1>1. ASSUME NEW v \in Workers \ {w} PROVE Sane(req[v])'
  <2>1. Sane(req[v]) /\ req'[v] = req[v]
    BY DEF Inv
  <2>2. req[v].pc = "create" => In(req[v].j, "none")'
    BY <2>1 DEF Inv, OneCreates, At, Sane
  <2> QED BY <2>1, <2>2 DEF Sane
<1>2. OneCreates'
  BY DEF Inv, OneCreates, At
<1>3. InHand'
  <2>1. \A e \in Edges : offered[e] \in SUBSET Jobs
    BY DEF Inv, TypeOK
  <2> QED BY <2>1 DEF Inv, InHand
<1> QED BY <1>1, <1>2, <1>3 DEF Inv

\* A request that begins and writes nothing.
LEMMA BeginInv ==
  ASSUME Inv, NEW w \in Workers, NEW r \in Request, req' = [req EXCEPT ![w] = r],
         Sane(r), UNCHANGED <<job, alive, payload, offered>>, crashes' \in Nat, edits' \in Nat,
         r.pc = "create" => \A v \in Workers : ~At(v, "create")
  PROVE  Inv'
<1>1. /\ req' \in [Workers -> Request] /\ req'[w] = r
      /\ \A v \in Workers \ {w} : req'[v] = req[v]
  BY Becomes DEF Inv
<1>2. TypeOK'
  BY <1>1 DEF Inv, TypeOK
<1>3. CacheOffersPending' /\ \A j \in Jobs : In(j, "none")' <=> In(j, "none")
  BY DEF Inv, CacheOffersPending, Pending, In
<1>4. Sane(req[w])'
  BY <1>1 DEF Sane, In
<1>5. At(w, "create")' => \A v \in Workers \ {w} : ~At(v, "create")
  BY <1>1 DEF At
<1> QED BY <1>1, <1>2, <1>3, <1>4, <1>5, InvKept

\* A request that saves what it has and ends.
LEMMA EndInv ==
  ASSUME Inv, NEW w \in Workers, Finish(w), job' \in [Jobs -> Row], payload' \in Payloads,
         alive' \in [Edges -> BOOLEAN], offered' \in [Edges -> SUBSET Jobs],
         \A e \in Edges : offered'[e] \subseteq offered[e],
         crashes' \in Nat, edits' \in Nat, CacheOffersPending',
         \A j \in Jobs : ~In(j, "none") => ~In(j, "none")',
         \A j \in Jobs : In(j, "none") => In(j, "none")' \/ (At(w, "create") /\ req[w].j = j)
  PROVE  Inv'
<1>1. /\ req' \in [Workers -> Request] /\ req'[w] = Idle
      /\ \A v \in Workers \ {w} : req'[v] = req[v]
  BY IdleIs, Becomes DEF Inv, Finish
<1>2. TypeOK'
  BY <1>1 DEF TypeOK, Payloads
<1>3. Sane(req[w])' /\ ~At(w, "create")'
  BY <1>1, IdleIs DEF Sane, At
<1> QED BY <1>1, <1>2, <1>3, InvKept

(***************************************************************************)
(* The actions.                                                            *)
(***************************************************************************)
LEMMA PollInv == ASSUME Inv, NEW e \in Edges, Poll(e) PROVE Inv'
<1>1. PICK T \in SUBSET Jobs :
        /\ T \subseteq Pending /\ Cardinality(T) <= PageSize
        /\ offered' = [offered EXCEPT ![e] = offered[e] \cup T]
        /\ UNCHANGED <<job, alive, req, crashes, edits>>
        /\ payload' = payload \/ payload' = [cached |-> TRUE, jobs |-> T]
  <2>1. CASE PollHit(e)
    <3>1. payload.jobs \in SUBSET Jobs /\ Cardinality(payload.jobs) <= PageSize
      BY DEF Inv, TypeOK
    <3>2. payload.jobs \subseteq Pending
      BY DEF Inv, CacheOffersPending
    <3> QED BY <2>1, <3>1, <3>2 DEF PollHit, Give
  <2>2. CASE PollMiss(e)
    BY <2>2, PageFits DEF PollMiss, Give
  <2> QED BY <2>1, <2>2 DEF Poll
<1>3. /\ offered' = [offered EXCEPT ![e] = offered[e] \cup T]
      /\ UNCHANGED <<job, alive, req, crashes, edits>>
  BY <1>1
<1>4. payload' \in Payloads
  <2>1. T \in {S \in SUBSET Jobs : Cardinality(S) <= PageSize}
    BY <1>1
  <2>2. CASE payload' = payload
    BY <2>2 DEF Inv, TypeOK, Payloads
  <2>3. CASE payload' = [cached |-> TRUE, jobs |-> T]
    BY <2>1, <2>3 DEF Payloads
  <2> QED BY <1>1, <2>2, <2>3
<1>5. offered' \in [Edges -> SUBSET Jobs]
  BY <1>3 DEF Inv, TypeOK
<1>6. TypeOK'
  BY <1>3, <1>4, <1>5 DEF Inv, TypeOK, Payloads
<1>7. CacheOffersPending'
  BY <1>1 DEF Inv, CacheOffersPending, Pending, In
<1>8. InHand'
  <2>1. \A j \in T : ~In(j, "none")
    BY <1>1 DEF Pending, In
  <2> QED BY <1>3, <2>1 DEF Inv, TypeOK, InHand, In
<1>9. (\A w \in Workers : Sane(req[w])') /\ OneCreates'
  BY <1>3 DEF Inv, Sane, OneCreates, At, In
<1> QED BY <1>6, <1>7, <1>8, <1>9 DEF Inv

LEMMA ExpireInv == ASSUME Inv, Expire PROVE Inv'
<1>1. payload' = None /\ UNCHANGED <<job, alive, offered, req, crashes, edits>>
  BY DEF Expire
<1>2. TypeOK' /\ CacheOffersPending'
  BY <1>1, NoneIs, CacheKept DEF Inv, TypeOK, Payloads
<1> QED BY <1>1, <1>2 DEF Inv, Sane, OneCreates, At, In, InHand

LEMMA ArriveInv == ASSUME Inv, NEW w \in Workers, Arrive(w) PROVE Inv'
<1> USE DEF Sane, In
<1>1. ASSUME NEW j \in Jobs, Enqueue(w, j) PROVE Inv'
  <2>1. [Idle EXCEPT !.pc = "create", !.j = j] \in Request
    BY IdleIs DEF Request, Labels
  <2>2. PICK r \in Request : r = [Idle EXCEPT !.pc = "create", !.j = j]
    BY <2>1
  <2>3. r.pc = "create" /\ r.j = j
    BY <2>2 DEF Idle
  <2>4. req' = [req EXCEPT ![w] = r] /\ UNCHANGED <<job, alive, payload, offered, crashes, edits>>
    BY <1>1, <2>2 DEF Enqueue, Begin
  <2>5. Sane(r) /\ \A v \in Workers : ~At(v, "create")
    BY <1>1, <2>3 DEF Enqueue
  <2> QED BY <2>4, <2>5, BeginInv DEF Inv, TypeOK
<1>2. ASSUME NEW j \in Jobs, Cancel(w, j) PROVE Inv'
  <2>1. job[j] \in Row /\ job[j].status = "pending"
    BY <1>2 DEF Cancel, Inv, TypeOK
  <2>2. [Idle EXCEPT !.pc = "cancel", !.j = j, !.row = job[j]] \in Request
    BY <2>1, IdleIs DEF Request, Labels
  <2>3. PICK r \in Request : r = [Idle EXCEPT !.pc = "cancel", !.j = j, !.row = job[j]]
    BY <2>2
  <2>4. r.pc = "cancel" /\ r.j = j /\ r.row = job[j]
    BY <2>3 DEF Idle
  <2>5. req' = [req EXCEPT ![w] = r] /\ UNCHANGED <<job, alive, payload, offered, crashes>>
    BY <1>2, <2>3 DEF Cancel, Begin
  <2>6. edits' \in Nat
    BY <1>2 DEF Cancel, Edit, Inv, TypeOK
  <2> QED BY <2>1, <2>4, <2>5, <2>6, BeginInv DEF Inv, TypeOK
<1>3. ASSUME NEW j \in Jobs, Reenqueue(w, j) PROVE Inv'
  <2>1. [Idle EXCEPT !.pc = "reenqueue", !.j = j, !.bump = (job[j].status = "failed")] \in Request
    BY IdleIs DEF Request, Labels
  <2>2. PICK r \in Request :
          r = [Idle EXCEPT !.pc = "reenqueue", !.j = j, !.bump = (job[j].status = "failed")]
    BY <2>1
  <2>3. r.pc = "reenqueue" /\ r.j = j
    BY <2>2 DEF Idle
  <2>4. req' = [req EXCEPT ![w] = r] /\ UNCHANGED <<job, alive, payload, offered, crashes>>
    BY <1>3, <2>2 DEF Reenqueue, Begin
  <2>5. edits' \in Nat /\ job[j].status # "none"
    BY <1>3 DEF Reenqueue, Edit, Inv, TypeOK
  <2> QED BY <2>3, <2>4, <2>5, BeginInv DEF Inv, TypeOK
<1>4. ASSUME NEW e \in Edges, Remove(w, e) \/ Relink(w, e) PROVE Inv'
  <2>1. PICK l \in {"untarget", "clear"} :
          /\ req' = [req EXCEPT ![w] = [Idle EXCEPT !.pc = l, !.e = e]]
          /\ UNCHANGED <<job, alive, payload, offered, crashes>>
          /\ edits' = edits + 1
    BY <1>4 DEF Remove, Relink, Retire, Begin, Edit
  <2>2. [Idle EXCEPT !.pc = l, !.e = e] \in Request
    BY IdleIs DEF Request, Labels
  <2>3. PICK r \in Request : r = [Idle EXCEPT !.pc = l, !.e = e]
    BY <2>2
  <2>4. r.pc = l /\ r.e = e
    BY <2>3 DEF Idle
  <2>5. edits' \in Nat
    BY <2>1 DEF Inv, TypeOK
  <2> QED BY <2>1, <2>3, <2>4, <2>5, BeginInv DEF Inv, TypeOK
<1>5. ASSUME NEW e \in Edges, NEW j \in Jobs, NEW st \in Acks, Ack(w, e, j, st) PROVE Inv'
  <2>1. job[j] \in Row /\ job[j].status \notin Closed /\ job[j].status # "none"
    BY <1>5 DEF Ack, Inv, TypeOK, InHand
  <2>2. [Idle EXCEPT !.pc = "save", !.e = e, !.j = j, !.ack = st, !.row = job[j]] \in Request
    BY <2>1, IdleIs DEF Request, Labels
  <2>3. PICK r \in Request :
          r = [Idle EXCEPT !.pc = "save", !.e = e, !.j = j, !.ack = st, !.row = job[j]]
    BY <2>2
  <2>4. r.pc = "save" /\ r.e = e /\ r.j = j /\ r.ack = st /\ r.row = job[j]
    BY <2>3 DEF Idle
  <2>5. req' = [req EXCEPT ![w] = r] /\ UNCHANGED <<job, alive, payload, offered, crashes, edits>>
    BY <1>5, <2>3 DEF Ack, Begin
  <2> QED BY <2>1, <2>4, <2>5, BeginInv DEF Inv, TypeOK
<1> QED BY <1>1, <1>2, <1>3, <1>4, <1>5 DEF Arrive

LEMMA CreateJobInv == ASSUME Inv, NEW w \in Workers, CreateJob(w) PROVE Inv'
<1>1. PICK j \in Jobs : j = req[w].j /\ At(w, "create")
  BY DEF CreateJob, At, Inv, Sane
<1>2. SetStatus({j}, "pending") /\ "pending" \in Statuses /\ {j} \in SUBSET Jobs
  BY <1>1 DEF CreateJob, Statuses
<1>3. /\ job' \in [Jobs -> Row] /\ payload' \in Payloads /\ job'[j].status = "pending"
      /\ \A i \in Jobs \ {j} : job'[i] = job[i]
      /\ payload' = None \/ payload' = payload
  BY <1>2, SetStatusIs DEF Inv
<1>4. CacheOffersPending'
  BY <1>3, CacheKept DEF In
<1>5. /\ \A i \in Jobs : ~In(i, "none") => ~In(i, "none")'
      /\ \A i \in Jobs : In(i, "none") => In(i, "none")' \/ (At(w, "create") /\ req[w].j = i)
  BY <1>1, <1>3 DEF In
<1> QED BY <1>3, <1>4, <1>5, EndInv DEF CreateJob, Inv, TypeOK

LEMMA SaveAckInv == ASSUME Inv, NEW w \in Workers, SaveAck(w) PROVE Inv'
<1>1. /\ req[w] \in Request /\ req[w].pc = "save" /\ Sane(req[w])
      /\ req[w].j \in Jobs /\ req[w].e \in Edges /\ req[w].ack \in Acks
  BY DEF SaveAck, At, Inv, TypeOK, Sane
<1>2. PICK i \in Jobs : i = req[w].j
  BY <1>1
<1>3. PICK p \in {job[i].printer, req[w].e} :
        job' = [job EXCEPT ![i] = [status |-> req[w].ack, printer |-> p,
                                   claim |-> Claimant(job[i], req[w].row, req[w].e)]]
  BY <1>2 DEF SaveAck
<1>4. [status |-> req[w].ack, printer |-> p,
       claim |-> Claimant(job[i], req[w].row, req[w].e)] \in Row
  BY <1>1 DEF Claimant, Row, Inv, TypeOK
<1>5. PICK r \in Row : r = [status |-> req[w].ack, printer |-> p,
                            claim |-> Claimant(job[i], req[w].row, req[w].e)]
  BY <1>4
<1>6. /\ job' \in [Jobs -> Row] /\ job'[i].status = req[w].ack
      /\ \A j \in Jobs \ {i} : job'[j] = job[j]
  BY <1>3, <1>5, SavedIs DEF Inv
<1>7. payload' \in Payloads /\ payload' = None
  BY BumpIs DEF SaveAck, Inv
<1>8. CacheOffersPending'
  BY <1>7, CacheKept
<1>9. /\ offered' \in [Edges -> SUBSET Jobs] /\ \A e \in Edges : offered'[e] \subseteq offered[e]
      /\ UNCHANGED <<alive, crashes, edits>>
  BY <1>1 DEF SaveAck, Inv, TypeOK
<1>10. /\ \A j \in Jobs : ~In(j, "none") => ~In(j, "none")'
       /\ \A j \in Jobs : In(j, "none") => In(j, "none")'
  BY <1>1, <1>2, <1>6 DEF In, Sane, Acks
<1> QED BY <1>6, <1>7, <1>8, <1>9, <1>10, EndInv DEF SaveAck, Inv, TypeOK

LEMMA SaveCancelInv == ASSUME Inv, NEW w \in Workers, SaveCancel(w) PROVE Inv'
<1>1. req[w] \in Request /\ req[w].pc = "cancel" /\ Sane(req[w]) /\ req[w].j \in Jobs
  BY DEF SaveCancel, At, Inv, TypeOK, Sane
<1>2. PICK i \in Jobs : i = req[w].j
  BY <1>1
<1>3. [req[w].row EXCEPT !.status = "cancelled"] \in Row
  BY <1>1 DEF Request, Row, Done
<1>4. PICK r \in Row : r = [req[w].row EXCEPT !.status = "cancelled"]
  BY <1>3
<1>5. r.status = "cancelled"
  BY <1>1, <1>4 DEF Request, Row
<1>6. /\ job' \in [Jobs -> Row] /\ job'[i].status = "cancelled"
      /\ \A j \in Jobs \ {i} : job'[j] = job[j]
  BY <1>2, <1>4, <1>5, SavedIs DEF SaveCancel, Inv
<1>7. payload' \in Payloads /\ payload' = None
  BY BumpIs DEF SaveCancel, Inv
<1>8. CacheOffersPending'
  BY <1>7, CacheKept
<1>9. /\ \A j \in Jobs : ~In(j, "none") => ~In(j, "none")'
      /\ \A j \in Jobs : In(j, "none") => In(j, "none")'
  BY <1>1, <1>2, <1>6 DEF In, Sane
<1> QED BY <1>6, <1>7, <1>8, <1>9, EndInv DEF SaveCancel, Inv, TypeOK

LEMMA UpdateReenqueueInv == ASSUME Inv, NEW w \in Workers, UpdateReenqueue(w) PROVE Inv'
<1>1. PICK i \in Jobs : i = req[w].j /\ ~In(i, "none")
  BY DEF UpdateReenqueue, At, Inv, Sane
<1>2. /\ job' \in [Jobs -> Row]
      /\ job'[i].status = job[i].status \/ job'[i].status = "pending"
      /\ \A j \in Jobs \ {i} : job'[j] = job[j]
  <2>1. [job[i] EXCEPT !.status = "pending"] \in Row /\ [job[i] EXCEPT !.status = "pending"].status = "pending"
    BY DEF Inv, TypeOK, Row
  <2>2. PICK r \in Row : r = [job[i] EXCEPT !.status = "pending"] /\ r.status = "pending"
    BY <2>1
  <2>3. CASE In(i, "failed")
    <3>1. job' = [job EXCEPT ![i] = r]
      BY <1>1, <2>2, <2>3 DEF UpdateReenqueue
    <3> QED BY <2>2, <3>1, SavedIs DEF Inv
  <2>4. CASE ~In(i, "failed")
    BY <1>1, <2>4 DEF UpdateReenqueue, Inv, TypeOK
  <2> QED BY <2>3, <2>4
<1>3. payload' \in Payloads /\ (payload' = None \/ payload' = payload)
  BY BumpIs DEF UpdateReenqueue, Inv
<1>4. CacheOffersPending'
  BY <1>2, <1>3, CacheKept DEF In
<1>5. /\ \A j \in Jobs : ~In(j, "none") => ~In(j, "none")'
      /\ \A j \in Jobs : In(j, "none") => In(j, "none")'
  BY <1>1, <1>2 DEF In
<1> QED BY <1>2, <1>3, <1>4, <1>5, EndInv DEF UpdateReenqueue, Inv, TypeOK

\* An UPDATE that takes jobs to an end.
LEMMA UpdateKeeps ==
  ASSUME Inv, NEW S \in SUBSET Jobs, NEW st \in {"failed", "cancelled"}, SetStatus(S, st),
         \A j \in S : ~In(j, "none")
  PROVE  /\ job' \in [Jobs -> Row] /\ payload' \in Payloads /\ CacheOffersPending'
         /\ \A j \in Jobs : In(j, "none")' <=> In(j, "none")
<1>1. st \in Statuses
  BY DEF Statuses, Acks, Done
<1>2. /\ job' \in [Jobs -> Row] /\ payload' \in Payloads
      /\ \A j \in S : job'[j].status = st
      /\ \A j \in Jobs \ S : job'[j] = job[j]
      /\ payload' = None \/ (payload' = payload /\ \A j \in Jobs : job'[j] = job[j])
  BY <1>1, SetStatusIs DEF Inv
<1>3. CacheOffersPending'
  BY <1>2, CacheKept DEF In
<1>4. ASSUME NEW j \in Jobs PROVE In(j, "none")' <=> In(j, "none")
  BY <1>2 DEF In
<1> QED BY <1>2, <1>3, <1>4

LEMMA CleanupInv == ASSUME Inv, Cleanup PROVE Inv'
<1>1. PICK S \in SUBSET {j \in Jobs : In(j, "dispatched")} : SetStatus(S, "failed")
  BY DEF Cleanup
<1>2. S \in SUBSET Jobs /\ \A j \in S : ~In(j, "none")
  BY DEF In
<1>3. /\ job' \in [Jobs -> Row] /\ payload' \in Payloads /\ CacheOffersPending'
      /\ \A j \in Jobs : In(j, "none")' <=> In(j, "none")
  BY <1>1, <1>2, UpdateKeeps
<1>4. TypeOK'
  BY <1>3 DEF Cleanup, Edit, Inv, TypeOK, Payloads
<1>5. \A w \in Workers : Sane(req[w])'
  BY <1>3 DEF Cleanup, Inv, Sane
<1>6. InHand'
  BY <1>3 DEF Cleanup, Inv, TypeOK, InHand
<1> QED BY <1>3, <1>4, <1>5, <1>6 DEF Cleanup, Inv, OneCreates, At

\* A step that clears jobs for an edge and goes on.
LEMMA ClearInv ==
  ASSUME Inv, NEW w \in Workers, NEW l \in {"release", "retire"}, Goto(w, l), req[w].e \in Edges,
         NEW S \in SUBSET Jobs, \A j \in S : ~In(j, "none"), SetStatus(S, "cancelled"),
         UNCHANGED <<alive, offered, crashes, edits>>
  PROVE  Inv'
<1>1. [req[w] EXCEPT !.pc = l] \in Request /\ req' = [req EXCEPT ![w] = [req[w] EXCEPT !.pc = l]]
  BY DEF Goto, Inv, TypeOK, Request, Labels
<1>2. PICK r \in Request : r = [req[w] EXCEPT !.pc = l]
  BY <1>1
<1>3. r.pc = l /\ r.e \in Edges
  BY <1>2 DEF Inv, TypeOK, Request
<1>4. /\ req' \in [Workers -> Request] /\ req'[w] = r
      /\ \A v \in Workers \ {w} : req'[v] = req[v]
  BY <1>1, <1>2, Becomes DEF Inv
<1>5. /\ job' \in [Jobs -> Row] /\ payload' \in Payloads /\ CacheOffersPending'
      /\ \A j \in Jobs : In(j, "none")' <=> In(j, "none")
  BY UpdateKeeps
<1>6. TypeOK'
  BY <1>4, <1>5 DEF Inv, TypeOK, Payloads
<1>7. Sane(req[w])' /\ ~At(w, "create")'
  BY <1>3, <1>4 DEF Sane, At
<1> QED BY <1>4, <1>5, <1>6, <1>7, InvKept

LEMMA CancelPendingInv == ASSUME Inv, NEW w \in Workers, CancelPending(w) PROVE Inv'
<1>1. req[w].e \in Edges /\ Goto(w, "release") /\ UNCHANGED <<alive, offered, crashes, edits>>
  BY DEF CancelPending, At, Inv, Sane
<1>2. PICK S \in SUBSET Pending : SetStatus(S, "cancelled")
  <2>1. {j \in Pending : alive[req[w].e] /\ job[j].printer = req[w].e} \in SUBSET Pending
    OBVIOUS
  <2> QED BY <2>1 DEF CancelPending
<1>3. S \in SUBSET Jobs /\ \A j \in S : ~In(j, "none")
  BY DEF Pending, In
<1> QED BY <1>1, <1>2, <1>3, ClearInv

LEMMA ReleaseInv == ASSUME Inv, NEW w \in Workers, Release(w) PROVE Inv'
<1>1. req[w].e \in Edges /\ Goto(w, "retire") /\ UNCHANGED <<alive, offered, crashes, edits>>
  BY DEF Release, At, Inv, Sane
<1>2. PICK S \in SUBSET Jobs : SetStatus(S, "cancelled") /\ \A j \in S : In(j, "dispatched")
  BY DEF Release
<1>3. \A j \in S : ~In(j, "none")
  BY <1>2 DEF In
<1> QED BY <1>1, <1>2, <1>3, ClearInv

LEMMA SoftDeleteInv == ASSUME Inv, NEW w \in Workers, SoftDelete(w) PROVE Inv'
<1>1. alive' \in [Edges -> BOOLEAN] /\ UNCHANGED <<job, payload, offered, crashes, edits>>
  BY DEF SoftDelete, Inv, TypeOK
<1>2. CacheOffersPending' /\ \A j \in Jobs : In(j, "none")' <=> In(j, "none")
  BY <1>1 DEF Inv, CacheOffersPending, Pending, In
<1> QED BY <1>1, <1>2, EndInv DEF SoftDelete, Inv, TypeOK, Payloads

LEMMA CrashInv == ASSUME Inv, NEW w \in Workers, Crash(w) PROVE Inv'
<1>1. crashes' \in Nat /\ UNCHANGED <<job, alive, payload, offered, edits>>
  BY DEF Crash, Inv, TypeOK
<1>2. CacheOffersPending' /\ \A j \in Jobs : In(j, "none")' <=> In(j, "none")
  BY <1>1 DEF Inv, CacheOffersPending, Pending, In
<1> QED BY <1>1, <1>2, EndInv DEF Crash, Inv, TypeOK, Payloads

-----------------------------------------------------------------------------
LEMMA InitInv == ASSUME Init PROVE Inv
<1>1. \A w \in Workers : req[w] = Idle
  BY DEF Init
<1>2. TypeOK
  BY IdleIs, NoneIs DEF Init, TypeOK, Payloads, Row, NoRow
<1>3. CacheOffersPending /\ InHand
  BY NoneIs DEF Init, CacheOffersPending, InHand
<1>4. \A w \in Workers : Sane(req[w]) /\ ~At(w, "create")
  BY <1>1, IdleIs DEF Sane, At
<1> QED BY <1>2, <1>3, <1>4 DEF Inv, OneCreates

LEMMA StepInv ==
  ASSUME Inv, NEW w \in Workers, Arrive(w) \/ Step(w) \/ Crash(w) PROVE Inv'
BY ArriveInv, CreateJobInv, SaveAckInv, SaveCancelInv, UpdateReenqueueInv, CancelPendingInv,
   ReleaseInv, SoftDeleteInv, CrashInv DEF Step

\* The invariant holds of every state.
THEOREM InvAlways == Spec => []Inv
<1>1. Init => Inv
  BY InitInv
<1>2. Inv /\ [Next]_vars => Inv'
  <2> SUFFICES ASSUME Inv, [Next]_vars PROVE Inv'
    OBVIOUS
  <2>1. CASE UNCHANGED vars
    BY <2>1 DEF vars, Inv, TypeOK, Sane, OneCreates, At, In, InHand, CacheOffersPending, Pending
  <2>2. CASE Next
    BY <2>2, PollInv, StepInv, ExpireInv, CleanupInv DEF Next
  <2> QED BY <2>1, <2>2
<1> QED BY <1>1, <1>2, PTL DEF Spec

-----------------------------------------------------------------------------
(* What a step does to one job.                                            *)

\* Steps of no request that saves a row leave closed jobs and every claim alone.
LEMMA UpdateLeaves ==
  ASSUME Inv, NEW S \in SUBSET Jobs, NEW st \in Statuses, SetStatus(S, st), NEW j \in Jobs
  PROVE  job'[j].claim = job[j].claim /\ (j \notin S => job'[j] = job[j])
BY SetStatusIs DEF Inv

\* A row changes by a save, or by an UPDATE that keeps its claim and finds it open.
Updated(j) ==
  /\ job'[j].claim = job[j].claim
  /\ In(j, "completed") \/ In(j, "cancelled") => job'[j].status = job[j].status

LEMMA StepUpdates ==
  ASSUME Inv, NEW w \in Workers, Arrive(w) \/ Step(w) \/ Crash(w), NEW j \in Jobs,
         ~(SaveAck(w) /\ req[w].j = j), ~(SaveCancel(w) /\ req[w].j = j)
  PROVE  Updated(j)
<1>1. CASE Arrive(w) \/ SoftDelete(w) \/ Crash(w)
  BY <1>1 DEF Arrive, Enqueue, Cancel, Reenqueue, Remove, Relink, Retire, Ack, SoftDelete,
              Crash, Updated
<1>2. CASE CreateJob(w)
  <2>1. PICK i \in Jobs : i = req[w].j /\ In(i, "none")
    BY <1>2 DEF CreateJob, At, Inv, Sane
  <2>2. SetStatus({i}, "pending") /\ "pending" \in Statuses
    BY <1>2, <2>1 DEF CreateJob, Statuses
  <2>3. job'[j].claim = job[j].claim /\ (j # i => job'[j] = job[j])
    BY <2>1, <2>2, UpdateLeaves
  <2> QED BY <2>1, <2>3 DEF Updated, In
<1>3. CASE SaveAck(w)
  <2>1. PICK i \in Jobs : i = req[w].j /\ i # j
    BY <1>3 DEF SaveAck, At, Inv, Sane
  <2> QED BY <1>3, <2>1 DEF SaveAck, Updated, Inv, TypeOK
<1>4. CASE SaveCancel(w)
  <2>1. PICK i \in Jobs : i = req[w].j /\ i # j
    BY <1>4 DEF SaveCancel, At, Inv, Sane
  <2> QED BY <1>4, <2>1 DEF SaveCancel, Updated, Inv, TypeOK
<1>5. CASE UpdateReenqueue(w)
  <2>1. PICK i \in Jobs : i = req[w].j
    BY <1>5 DEF UpdateReenqueue, At, Inv, Sane
  <2>2. CASE In(i, "failed")
    <3>1. job' = [job EXCEPT ![i] = [job[i] EXCEPT !.status = "pending"]]
      BY <1>5, <2>1, <2>2 DEF UpdateReenqueue
    <3>2. job[i] \in Row /\ job[i].status = "failed"
      BY <2>2 DEF Inv, TypeOK, In
    <3>3. PICK r \in Row : r = [job[i] EXCEPT !.status = "pending"] /\ r.claim = job[i].claim
      <4>1. /\ [job[i] EXCEPT !.status = "pending"] \in Row
            /\ [job[i] EXCEPT !.status = "pending"].claim = job[i].claim
        BY <3>2 DEF Row
      <4> QED BY <4>1
    <3>4. job'[i] = r /\ \A k \in Jobs \ {i} : job'[k] = job[k]
      BY <3>1, <3>3, SavedIs DEF Inv
    <3> QED BY <3>2, <3>3, <3>4 DEF Updated, In
  <2>3. CASE ~In(i, "failed")
    BY <1>5, <2>1, <2>3 DEF UpdateReenqueue, Updated
  <2> QED BY <2>2, <2>3
<1>6. CASE CancelPending(w) \/ Release(w)
  <2>1. PICK S \in SUBSET Jobs : /\ SetStatus(S, "cancelled")
                                 /\ \A i \in S : In(i, "pending") \/ In(i, "dispatched")
    <3>1. CASE CancelPending(w)
      <4>1. {i \in Pending : alive[req[w].e] /\ job[i].printer = req[w].e} \in SUBSET Pending
        OBVIOUS
      <4>2. PICK S \in SUBSET Pending : SetStatus(S, "cancelled")
        BY <3>1, <4>1 DEF CancelPending
      <4> QED BY <4>2 DEF Pending
    <3>2. CASE Release(w)
      BY <3>2 DEF Release
    <3> QED BY <1>6, <3>1, <3>2
  <2>2. job'[j].claim = job[j].claim /\ (j \notin S => job'[j] = job[j])
    BY <2>1, UpdateLeaves DEF Statuses, Done
  <2> QED BY <2>1, <2>2 DEF Updated, In
<1> QED BY <1>1, <1>2, <1>3, <1>4, <1>5, <1>6 DEF Step

LEMMA NextUpdates ==
  ASSUME Inv, [Next]_vars, NEW j \in Jobs,
         \A w \in Workers : ~(SaveAck(w) /\ req[w].j = j) /\ ~(SaveCancel(w) /\ req[w].j = j)
  PROVE  Updated(j)
<1>1. CASE UNCHANGED vars \/ Expire \/ \E e \in Edges : Poll(e)
  BY <1>1 DEF vars, Expire, Poll, PollHit, PollMiss, Updated
<1>2. CASE \E w \in Workers : Arrive(w) \/ Step(w) \/ Crash(w)
  BY <1>2, StepUpdates
<1>3. CASE Cleanup
  <2>1. PICK S \in SUBSET {i \in Jobs : In(i, "dispatched")} : SetStatus(S, "failed")
    BY <1>3 DEF Cleanup
  <2>2. S \in SUBSET Jobs /\ \A i \in S : In(i, "dispatched")
    BY <2>1
  <2>3. job'[j].claim = job[j].claim /\ (j \notin S => job'[j] = job[j])
    BY <2>1, <2>2, UpdateLeaves DEF Statuses, Acks
  <2> QED BY <2>2, <2>3 DEF Updated, In
<1> QED BY <1>1, <1>2, <1>3 DEF Next

-----------------------------------------------------------------------------
\* Jobs, payload, answers and requests have their types; a page that is cached or answered
\* holds no more jobs than the slice allows (edge_get_pending_print_jobs).
THEOREM QueueTyped == Spec => []TypeOK
<1>1. Inv => TypeOK
  BY DEF Inv
<1> QED BY <1>1, InvAlways, PTL

\* Whatever takes a job out of "pending" drops what is cached of it, for any number of jobs
\* and edges and any size of a page.
THEOREM CacheOffers == Spec => []CacheOffersPending
<1>1. Inv => CacheOffersPending
  BY DEF Inv
<1> QED BY <1>1, InvAlways, PTL

\* A closed job changes only by a stale save (edge_ack_print_job, cancel_print_job).
THEOREM ClosedJobsStay == Spec => ClosedLeftOnlyByStaleSave
<1>1. Inv /\ [Next]_vars =>
        \A j \in Jobs : In(j, "completed") \/ In(j, "cancelled") =>
          \/ job'[j].status = job[j].status
          \/ \E w \in Workers : /\ req[w].pc \in {"save", "cancel"} /\ req[w].j = j
                                /\ req[w].row.status \notin {"completed", "cancelled"}
  <2> SUFFICES ASSUME Inv, [Next]_vars, NEW j \in Jobs,
                      In(j, "completed") \/ In(j, "cancelled"),
                      job'[j].status # job[j].status
               PROVE  \E w \in Workers :
                        /\ req[w].pc \in {"save", "cancel"} /\ req[w].j = j
                        /\ req[w].row.status \notin {"completed", "cancelled"}
    OBVIOUS
  <2>1. PICK w \in Workers : (SaveAck(w) \/ SaveCancel(w)) /\ req[w].j = j
    BY NextUpdates DEF Updated
  <2>2. Sane(req[w]) /\ req[w].pc \in {"save", "cancel"}
    BY <2>1 DEF SaveAck, SaveCancel, At, Inv
  <2>3. req[w].row.status \notin {"completed", "cancelled"}
    BY <2>2 DEF Sane, Closed
  <2> QED BY <2>1, <2>2, <2>3
<1> QED BY <1>1, InvAlways, PTL DEF Spec, ClosedLeftOnlyByStaleSave

\* A claim changes hands only by a stale save (edge_ack_print_job, cancel_print_job).
THEOREM ClaimsStay == Spec => ClaimLeftOnlyByStaleSave
<1>1. Inv /\ [Next]_vars =>
        \A j \in Jobs : job[j].claim # NoEdge =>
          \/ job'[j].claim = job[j].claim
          \/ \E w \in Workers :
               /\ req[w].j = j
               /\ \/ At(w, "save") /\ req[w].row.claim = NoEdge /\ job'[j].claim = req[w].e
                  \/ At(w, "cancel") /\ job'[j].claim = req[w].row.claim
  <2> SUFFICES ASSUME Inv, [Next]_vars, NEW j \in Jobs, job'[j].claim # job[j].claim
               PROVE  \E w \in Workers :
                        /\ req[w].j = j
                        /\ \/ At(w, "save") /\ req[w].row.claim = NoEdge
                              /\ job'[j].claim = req[w].e
                           \/ At(w, "cancel") /\ job'[j].claim = req[w].row.claim
    OBVIOUS
  <2>1. PICK w \in Workers : (SaveAck(w) \/ SaveCancel(w)) /\ req[w].j = j
    BY NextUpdates DEF Updated
  <2>2. CASE SaveAck(w)
    <3>1. PICK p \in {job[j].printer, req[w].e} :
            job' = [job EXCEPT ![j] = [status |-> req[w].ack, printer |-> p,
                                       claim |-> Claimant(job[j], req[w].row, req[w].e)]]
      BY <2>1, <2>2 DEF SaveAck
    <3>2. job'[j].claim = Claimant(job[j], req[w].row, req[w].e)
      BY <3>1 DEF Inv, TypeOK
    <3>3. req[w].row.claim = NoEdge /\ job'[j].claim = req[w].e
      BY <3>2 DEF Claimant
    <3> QED BY <2>1, <2>2, <3>3 DEF SaveAck
  <2>3. CASE SaveCancel(w)
    <3>1. job' = [job EXCEPT ![j] = [req[w].row EXCEPT !.status = "cancelled"]]
      BY <2>1, <2>3 DEF SaveCancel
    <3>2. req[w].row \in Row
      BY DEF Inv, TypeOK, Request
    <3>3. job'[j].claim = req[w].row.claim
      BY <3>1, <3>2 DEF Inv, TypeOK, Row
    <3> QED BY <2>1, <2>3, <3>3 DEF SaveCancel
  <2> QED BY <2>1, <2>2, <2>3
<1> QED BY <1>1, InvAlways, PTL DEF Spec, ClaimLeftOnlyByStaleSave
=============================================================================
