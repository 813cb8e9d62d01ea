---------------------------- MODULE OfflineBatches ----------------------------
(***************************************************************************)
(* Events an edge has weighed while the cloud was out of reach, in batches *)
(* of its own: their upload by the offline branch of POST /events and      *)
(* POST /events/batch, the acknowledgement of a batch                      *)
(* (POST /offline-batches/ack, scales/api_views.py) and its reconciliation *)
(* to an animal by an operator (scales/views.py).                          *)
(*                                                                         *)
(* A request is a record, as in ScaleEvents.  total_weight_grams is saved  *)
(* by every statement that saves event_count and is left out; so is the    *)
(* animal, to which the events of the new session all go.  Nothing edits   *)
(* an event before it has a session.                                       *)
(***************************************************************************)
EXTENDS Integers, FiniteSets

CONSTANTS
  Batches, Events, Sessions, Workers,
  BatchOf,      \* the batch each event is weighed in
  MaxCrashes,   \* requests that may die between two queries
  NoBatch, NoEvent, NoSession

ASSUME OfflineConstants ==
  /\ BatchOf \in [Events -> Batches]
  /\ MaxCrashes \in Nat
  /\ NoBatch \notin Batches /\ NoEvent \notin Events /\ NoSession \notin Sessions
  /\ IsFiniteSet(Events)

VARIABLES
  batch,     \* OrphanedBatch rows
  event,     \* WeighingEvent rows: not stored, or the session they are in
  session,   \* the sessions that reconciliations create
  received,  \* OfflineBatchAck rows
  outbox,    \* the edge's store: its events
  edge,      \* the edge's store: its batches
  req,       \* the request each worker thread runs
  drift,     \* history: something can have left the count of the batch short
  crashes

vars == <<batch, event, session, received, outbox, edge, req, drift, crashes>>

-----------------------------------------------------------------------------
BatchRow == [status : {"none", "pending", "reconciled"}, count : Nat,
             session : Sessions \cup {NoSession}]
NoRow    == [status |-> "none", count |-> 0, session |-> NoSession]

EventRow == [stored : BOOLEAN, session : Sessions \cup {NoSession}]

\* sealed: history, the edge had acknowledged the batch when the session was made.
SessionRow == [batch : Batches \cup {NoBatch}, count : Nat, sealed : BOOLEAN]

Labels  == {"idle", "insert", "fetch", "tally", "load", "commit", "answer",
            "acknowledge", "confirm", "reconcile"}
Request == [pc : Labels, e : Events \cup {NoEvent}, b : Batches \cup {NoBatch}, count : Nat]
Idle    == [pc |-> "idle", e |-> NoEvent, b |-> NoBatch, count |-> 0]

TypeOK ==
  /\ batch \in [Batches -> BatchRow]
  /\ event \in [Events -> EventRow]
  /\ session \in [Sessions -> SessionRow]
  /\ received \in [Batches -> BOOLEAN]
  /\ outbox \in [Events -> {"none", "queued", "acked"}]
  /\ edge \in [Batches -> {"open", "sent", "done"}]
  /\ req \in [Workers -> Request]
  /\ drift \in [Batches -> BOOLEAN]
  /\ crashes \in Nat

Init ==
  /\ batch = [b \in Batches |-> NoRow]
  /\ event = [e \in Events |-> [stored |-> FALSE, session |-> NoSession]]
  /\ session = [s \in Sessions |-> [batch |-> NoBatch, count |-> 0, sealed |-> FALSE]]
  /\ received = [b \in Batches |-> FALSE]
  /\ outbox = [e \in Events |-> "none"]
  /\ edge = [b \in Batches |-> "open"]
  /\ req = [w \in Workers |-> Idle]
  /\ drift = [b \in Batches |-> FALSE]
  /\ crashes = 0

-----------------------------------------------------------------------------
Begin(w, r) == req[w].pc = "idle" /\ req' = [req EXCEPT ![w] = r]
At(w, l)    == req[w].pc = l
Goto(w, l)  == req' = [req EXCEPT ![w].pc = l]
Finish(w)   == req' = [req EXCEPT ![w] = Idle]

Stored(e)   == event[e].stored
EventsOf(b) == {e \in Events : BatchOf[e] = b}
StoredOf(b) == {e \in EventsOf(b) : Stored(e)}

-----------------------------------------------------------------------------
(* The edge, which is not part of the repository: it weighs into a batch   *)
(* until it is back, uploads until it reads accepted or duplicate for each *)
(* event, and then acknowledges the batch until it reads an answer.        *)

Capture(e) ==
  /\ outbox[e] = "none" /\ edge[BatchOf[e]] = "open"
  /\ outbox' = [outbox EXCEPT ![e] = "queued"]
  /\ UNCHANGED <<batch, event, session, received, edge, req, drift, crashes>>

\* Bug: ids are remembered when a request arrives.
FirstStep_OnReceipt(e, l) ==
  IF Stored(e) \/ \E v \in Workers : req[v].e = e THEN "answer" ELSE l

\* The deduplication query: a known event is answered at once.
FirstStep(e, l) == IF Stored(e) THEN "answer" ELSE l

Upload(w, e, l) ==
  /\ outbox[e] = "queued"
  /\ Begin(w, [Idle EXCEPT !.pc = FirstStep(e, l), !.e = e, !.b = BatchOf[e]])
  /\ UNCHANGED <<batch, event, session, received, outbox, edge, drift, crashes>>

Post(w, e)      == Upload(w, e, "insert")
PostBatch(w, e) == Upload(w, e, "load")

Answer(w) ==
  /\ At(w, "answer")
  /\ outbox' = [outbox EXCEPT ![req[w].e] = "acked"]
  /\ Finish(w)
  /\ UNCHANGED <<batch, event, session, received, edge, drift, crashes>>

-----------------------------------------------------------------------------
(* POST /events: the event, the batch and its counter are three commits.   *)

\* Another transaction has inserted the event and not committed yet.
HeldBack(w) == \E v \in Workers \ {w} : At(v, "commit") /\ req[v].e = req[w].e

Store(e) == event' = [event EXCEPT ![e].stored = TRUE]

Insert(w) ==
  /\ At(w, "insert") /\ ~HeldBack(w) /\ ~Stored(req[w].e)
  /\ Store(req[w].e)
  /\ Goto(w, "fetch")
  /\ UNCHANGED <<batch, session, received, outbox, edge, drift, crashes>>

\* The unique edge_event_id refuses the row: in the batch endpoint, "failed".
InsertRefused(w) ==
  /\ \/ At(w, "insert")
     \/ At(w, "load")
  /\ ~HeldBack(w) /\ Stored(req[w].e)
  /\ Finish(w)
  /\ UNCHANGED <<batch, event, session, received, outbox, edge, drift, crashes>>

\* Bug: the new row counts the event that is about to be added.
FreshRow_Counted == [NoRow EXCEPT !.status = "pending", !.count = 1]

FreshRow == [NoRow EXCEPT !.status = "pending"]

\* get_or_create, whatever the status of the batch.
Found(b) == IF batch[b].status = "none" THEN FreshRow ELSE batch[b]

Fetch(w) ==
  LET b == req[w].b IN
  /\ At(w, "fetch")
  /\ batch' = [batch EXCEPT ![b] = Found(b)]
  /\ req' = [req EXCEPT ![w].pc = "tally", ![w].count = Found(b).count]
  /\ UNCHANGED <<event, session, received, outbox, edge, drift, crashes>>

\* What the save of a batch finds changed under the row it had loaded.
LostUpdate(w) == batch[req[w].b].count # req[w].count

SaveCount(w) ==
  /\ batch' = [batch EXCEPT ![req[w].b].count = req[w].count + 1]
  /\ drift' = [drift EXCEPT ![req[w].b] = @ \/ LostUpdate(w)]
  /\ Goto(w, "answer")

Tally(w) ==
  /\ At(w, "tally") /\ SaveCount(w)
  /\ UNCHANGED <<event, session, received, outbox, edge, crashes>>

-----------------------------------------------------------------------------
(* POST /events/batch: one transaction for each event.                     *)

\* A batch of which there is no row yet is inserted and held until the commit: other
\* uploads to it wait, so the whole transaction is one step.
CommitFirst(w) ==
  LET b == req[w].b IN
  /\ At(w, "load") /\ ~HeldBack(w) /\ ~Stored(req[w].e)
  /\ batch[b].status = "none"
  /\ Store(req[w].e)
  /\ batch' = [batch EXCEPT ![b] = [FreshRow EXCEPT !.count = @ + 1]]
  /\ Goto(w, "answer")
  /\ UNCHANGED <<session, received, outbox, edge, drift, crashes>>

\* Otherwise the event is inserted, unseen by others, and the batch is read.
Load(w) ==
  LET b == req[w].b IN
  /\ At(w, "load") /\ ~HeldBack(w) /\ ~Stored(req[w].e)
  /\ batch[b].status # "none"
  /\ req' = [req EXCEPT ![w].pc = "commit", ![w].count = batch[b].count]
  /\ UNCHANGED <<batch, event, session, received, outbox, edge, drift, crashes>>

Commit(w) ==
  /\ At(w, "commit") /\ Store(req[w].e) /\ SaveCount(w)
  /\ UNCHANGED <<session, received, outbox, edge, crashes>>

-----------------------------------------------------------------------------
(* POST /offline-batches/ack.                                              *)

\* Bug: the row is inserted without a look for an earlier one.
AckStep_NoQuery(b) == "acknowledge"

\* "already_received", or the insert.
AckStep(b) == IF received[b] THEN "confirm" ELSE "acknowledge"

Uploaded(b) ==
  /\ \E e \in EventsOf(b) : outbox[e] = "acked"
  /\ \A e \in EventsOf(b) : outbox[e] # "queued"

SendAck(w, b) ==
  /\ edge[b] # "done" /\ Uploaded(b)
  /\ edge' = [edge EXCEPT ![b] = "sent"]
  /\ Begin(w, [Idle EXCEPT !.pc = AckStep(b), !.b = b])
  /\ UNCHANGED <<batch, event, session, received, outbox, drift, crashes>>

\* batch_id is unique: the second of two inserts is answered with an error.
Acknowledge(w) ==
  LET b == req[w].b IN
  /\ At(w, "acknowledge")
  /\ received' = [received EXCEPT ![b] = TRUE]
  /\ IF received[b] THEN Finish(w) ELSE Goto(w, "confirm")
  /\ UNCHANGED <<batch, event, session, outbox, edge, drift, crashes>>

Confirm(w) ==
  /\ At(w, "confirm")
  /\ edge' = [edge EXCEPT ![req[w].b] = "done"]
  /\ Finish(w)
  /\ UNCHANGED <<batch, event, session, received, outbox, drift, crashes>>

-----------------------------------------------------------------------------
(* OrphanedBatchReconcileView.post.                                        *)

\* The view loads a batch that is pending; it looks at no acknowledgement.
Reconcile(w, b) ==
  /\ batch[b].status = "pending"
  /\ Begin(w, [Idle EXCEPT !.pc = "reconcile", !.b = b, !.count = batch[b].count])
  /\ UNCHANGED <<batch, event, session, received, outbox, edge, drift, crashes>>

\* Bugs: the first page of events is moved alone, or the events without a session.
Moved_Page(b)       == IF StoredOf(b) = {} THEN {} ELSE {CHOOSE e \in StoredOf(b) : TRUE}
Moved_Unassigned(b) == {e \in StoredOf(b) : event[e].session = NoSession}

\* filter(offline_batch_id=..., is_active=True), at the time of the UPDATE.  All events of
\* the model are active: ScaleEvents has the corrections that make one inactive.
Moved(b) == StoredOf(b)

\* Bug: the first session stays the batch's.
Closed_First(row, s) ==
  [row EXCEPT !.status = "reconciled", !.session = IF @ = NoSession THEN s ELSE @]

\* save(update_fields=["status", "reconciled_to_session", ...]): the count stays.
Closed(row, s) == [row EXCEPT !.status = "reconciled", !.session = s]

\* One transaction: the session takes the count as loaded and the events as they are.
SaveReconciled(w) ==
  LET b == req[w].b IN
  /\ At(w, "reconcile")
  /\ \E s \in Sessions :
       /\ session[s].batch = NoBatch
       /\ session' = [session EXCEPT ![s] = [batch |-> b, count |-> req[w].count,
                                             sealed |-> received[b]]]
       /\ event' = [e \in Events |-> IF e \in Moved(b) THEN [event[e] EXCEPT !.session = s]
                                     ELSE event[e]]
       /\ batch' = [batch EXCEPT ![b] = Closed(batch[b], s)]
  /\ Finish(w)
  /\ UNCHANGED <<received, outbox, edge, drift, crashes>>

-----------------------------------------------------------------------------
\* A worker dies between two queries; what it has not committed is rolled back.  The
\* edge reads no answer, and uploads or acknowledges again.
Crash(w) ==
  /\ ~At(w, "idle") /\ crashes < MaxCrashes
  /\ crashes' = crashes + 1
  /\ drift' = IF req[w].pc \in {"fetch", "tally"} THEN [drift EXCEPT ![req[w].b] = TRUE] ELSE drift
  /\ Finish(w)
  /\ UNCHANGED <<batch, event, session, received, outbox, edge>>

Step(w) ==
  Insert(w) \/ InsertRefused(w) \/ Fetch(w) \/ Tally(w) \/ CommitFirst(w) \/ Load(w) \/ Commit(w)
  \/ Answer(w) \/ Acknowledge(w) \/ Confirm(w) \/ SaveReconciled(w)

Next ==
  \/ \E e \in Events : Capture(e)
  \/ \E w \in Workers :
       \/ \E e \in Events : Post(w, e) \/ PostBatch(w, e)
       \/ \E b \in Batches : SendAck(w, b) \/ Reconcile(w, b)
       \/ Step(w) \/ Crash(w)

Spec == Init /\ [][Next]_vars

\* Requests go on; the edge uploads and acknowledges until it reads an answer, and a
\* free worker takes its request in the end, whatever else there is to serve.
Fairness ==
  /\ \A w \in Workers : WF_vars(Step(w))
  /\ \A e \in Events : SF_vars(\E w \in Workers : Post(w, e) \/ PostBatch(w, e))
  /\ \A b \in Batches : SF_vars(\E w \in Workers : SendAck(w, b))

FairSpec == Spec /\ Fairness

-----------------------------------------------------------------------------
(* Properties.                                                             *)

\* Events that are stored and whose upload has still to count them.
Uncounted(b) ==
  {e \in StoredOf(b) : \E w \in Workers : req[w].pc \in {"fetch", "tally"} /\ req[w].e = e}

\* The counter of a batch is the number of its stored events, those apart that are just
\* being counted, unless two uploads overlapped on the counter or a worker died between
\* the event and its count (the offline branch of both upload endpoints).
CountExactUnlessDrift ==
  \A b \in Batches : drift[b] \/ batch[b].count = Cardinality(StoredOf(b) \ Uncounted(b))

\* However many operators reconcile a batch at once, its events are in one session, the
\* one the batch points to, or in none (OrphanedBatchReconcileView).
EventsInBatchSession ==
  \A e \in Events : event[e].session \in {NoSession, batch[BatchOf[e]].session}

\* Lost updates and late events only lose weight: the session of a batch never reports
\* more events than it has, though count and events are read at different times.
SessionNeverOvercounts ==
  \A b \in Batches, s \in Sessions : batch[b].session = s =>
    session[s].count <= Cardinality({e \in Events : event[e].session = s})

\* A batch that is reconciled after its acknowledgement is complete: no event weighed in
\* it is left outside its session, for good, whatever was retried or died before (the
\* view does not ask for the acknowledgement; without it, late events have no session).
CompleteWhenSealed ==
  \A s \in Sessions : session[s].sealed =>
    \A e \in EventsOf(session[s].batch) :
      outbox[e] # "none" => Stored(e) /\ event[e].session = batch[BatchOf[e]].session

\* The upload by batches keeps what EventLedger promises, a batch in place of a session:
\* each event is recorded once and never lost, and acknowledged only when it is.
Weighed      == {<<e, BatchOf[e]>> : e \in {x \in Events : outbox[x] # "none"}}
Recorded     == {<<e, BatchOf[e]>> : e \in {x \in Events : Stored(x)}}
Acknowledged == {<<e, BatchOf[e]>> : e \in {x \in Events : outbox[x] = "acked"}}

Ledger == INSTANCE EventLedger
            WITH Sessions <- Batches, NoSession <- NoBatch,
                 weighed <- Weighed, recorded <- Recorded, acknowledged <- Acknowledged

ImplementsLedger == Ledger!Spec

\* A batch in which something was weighed is uploaded, acknowledged and off the edge's
\* list in the end, however often its uploads or its acknowledgement are retried.
EventuallyDone == \A e \in Events : (outbox[e] = "queued") ~> (edge[BatchOf[e]] = "done")
=============================================================================
