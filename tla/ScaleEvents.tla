----------------------------- MODULE ScaleEvents -----------------------------
(***************************************************************************)
(* Weighing events of a disassembly session: their upload by the edge      *)
(* (scales/api_views.py, POST /events and POST /events/batch), their       *)
(* correction by an operator (scales/views.py, edit, delete, reactivate)   *)
(* and the session's own life (create, close, cancel).                     *)
(*                                                                         *)
(* A request runs on a worker thread (gunicorn runs eight in a process)    *)
(* and, because the project sets no ATOMIC_REQUESTS, each of its queries   *)
(* commits on its own unless a view opens a transaction.  A request is     *)
(* therefore a record whose pc names the query it does next, and other     *)
(* requests run between two queries.  What a request has read stays in its *)
(* record: session.save() writes back the row that was loaded, not the row *)
(* the table holds by then.                                                *)
(*                                                                         *)
(* Only events with a cloudSessionId, or with neither session nor batch,   *)
(* are here: an event of an offline batch carries a null session and takes *)
(* the other branch of the same handlers.  maybe_mark_event_animals_       *)
(* disassembled, called after the insert, writes animals alone.            *)
(***************************************************************************)
EXTENDS Integers, FiniteSets, Functions

CONSTANTS
  Sessions, Events, Devices, Workers,
  DeviceOf,     \* the scale each session is for
  Weights,      \* grams an event can weigh, or be corrected to
  Ops,          \* the endpoints in use
  MaxCrashes,   \* requests that may die between two queries
  MaxEdits,     \* correction requests in a behaviour
  NoSession, NoEvent, NoWeight

AllOps == {"post", "batch", "create", "close", "cancel", "edit", "delete", "reactivate"}

ASSUME ConstantsOK ==
  /\ DeviceOf \in [Sessions -> Devices]
  /\ Weights \subseteq Nat
  /\ Ops \subseteq AllOps
  /\ MaxCrashes \in Nat /\ MaxEdits \in Nat
  /\ NoSession \notin Sessions /\ NoEvent \notin Events /\ NoWeight \notin Nat
  /\ IsFiniteSet(Events) /\ IsFiniteSet(Workers)

VARIABLES
  session,   \* DisassemblySession rows
  event,     \* WeighingEvent rows, by edge_event_id
  outbox,    \* the edge's own store: what it has weighed and what was acknowledged
  req,       \* the request each worker thread runs
  drift,     \* history: something has happened that can leave the totals wrong
  crashes, edits

vars == <<session, event, outbox, req, drift, crashes, edits>>

-----------------------------------------------------------------------------
\* "paused" and "auto_closed" are choices of the field that no code writes.
Open   == {"pending", "active"}
Closed == {"completed", "cancelled"}
Row    == [status : {"none"} \cup Open \cup Closed, count : Nat, total : Int]
NoRow  == [status |-> "none", count |-> 0, total |-> 0]

EventRow == [state : {"absent", "active", "inactive"},
             session : Sessions \cup {NoSession}, weight : Nat]
NoEventRow == [state |-> "absent", session |-> NoSession, weight |-> 0]

Payload == [state : {"none", "queued", "acked"},
            session : Sessions \cup {NoSession}, weight : Nat]
NoPayload == [state |-> "none", session |-> NoSession, weight |-> 0]

Labels == {"idle", "insert", "tally", "commit", "answer", "create", "complete", "cancel",
           "edit", "reweigh", "retotal", "assign", "delete", "deactivate", "subtract",
           "reactivate", "restore", "addback"}

Request == [pc : Labels, e : Events \cup {NoEvent}, s : Sessions \cup {NoSession},
            row : Row, seen : EventRow, new : Nat \cup {NoWeight}]
Idle == [pc |-> "idle", e |-> NoEvent, s |-> NoSession,
         row |-> NoRow, seen |-> NoEventRow, new |-> NoWeight]

TypeOK ==
  /\ session \in [Sessions -> Row]
  /\ event \in [Events -> EventRow]
  /\ outbox \in [Events -> Payload]
  /\ req \in [Workers -> Request]
  /\ drift \in [Sessions -> BOOLEAN]
  /\ crashes \in Nat /\ edits \in Nat

Init ==
  /\ session = [s \in Sessions |-> NoRow]
  /\ event = [e \in Events |-> NoEventRow]
  /\ outbox = [e \in Events |-> NoPayload]
  /\ req = [w \in Workers |-> Idle]
  /\ drift = [s \in Sessions |-> FALSE]
  /\ crashes = 0 /\ edits = 0

-----------------------------------------------------------------------------
Begin(w, r) == req[w].pc = "idle" /\ req' = [req EXCEPT ![w] = r]
At(w, l)    == req[w].pc = l
Goto(w, l)  == req' = [req EXCEPT ![w].pc = l]
Finish(w)   == req' = [req EXCEPT ![w] = Idle]

RowOf(s)  == IF s = NoSession THEN NoRow ELSE session[s]
Stored(e) == event[e].state # "absent"

\* Bug: the index lists the active sessions alone.
DeviceFree_ActiveOnly(s, status) ==
  status \in Open => \A t \in Sessions \ {s} :
                        DeviceOf[t] = DeviceOf[s] => session[t].status # "active"

\* unique_active_session_per_device, the partial unique index on open sessions.
DeviceFree(s, status) ==
  status \in Open => \A t \in Sessions \ {s} :
                        DeviceOf[t] = DeviceOf[s] => session[t].status \notin Open

\* What the save of a session finds changed under the row it had loaded.
LostUpdate(w) ==
  LET s == req[w].s IN
    \/ session[s].count # req[w].row.count
    \/ session[s].total # req[w].row.total

SetDrift(s, cause) == drift' = [drift EXCEPT ![s] = @ \/ cause]

-----------------------------------------------------------------------------
(* The edge, which is not part of the repository: it weighs with the       *)
(* session of its last poll, or with none, and uploads until it reads an   *)
(* answer of status accepted or duplicate.                                 *)

Capture(e) ==
  /\ outbox[e].state = "none"
  /\ \E s \in {t \in Sessions : session[t].status \in Open} \cup {NoSession}, g \in Weights :
        outbox' = [outbox EXCEPT ![e] = [state |-> "queued", session |-> s, weight |-> g]]
  /\ UNCHANGED <<session, event, req, drift, crashes, edits>>

\* Bugs: ids are remembered when a request arrives; the query is left out; a known
\* event updates the totals once more.
FirstStep_OnReceipt(e, l) ==
  IF Stored(e) \/ \E v \in Workers : req[v].e = e THEN "answer" ELSE l
FirstStep_NoQuery(e, l) == l
FirstStep_Retally(e, l) == IF Stored(e) /\ outbox[e].session # NoSession THEN "tally" ELSE l

\* The deduplication query: a known event is answered at once.
FirstStep(e, l) == IF Stored(e) THEN "answer" ELSE l

Receive(w, e, l) ==
  /\ outbox[e].state = "queued"
  /\ Begin(w, [Idle EXCEPT !.pc = FirstStep(e, l), !.e = e, !.s = outbox[e].session,
                           !.row = RowOf(outbox[e].session)])
  /\ UNCHANGED <<session, event, outbox, drift, crashes, edits>>

Post(w, e)      == "post" \in Ops /\ Receive(w, e, "insert")
PostBatch(w, e) == "batch" \in Ops /\ Receive(w, e, "commit")

\* Bug: the event is stored without its session.
NewEvent_NoSession(e) == [state |-> "active", session |-> NoSession, weight |-> outbox[e].weight]

NewEvent(e) == [state |-> "active", session |-> outbox[e].session, weight |-> outbox[e].weight]

\* Bug: an event makes its session active, whatever its status.
Tallied_AlwaysActive(row, g) ==
  [status |-> "active", count |-> row.count + 1, total |-> row.total + g]

Tallied(row, g) ==
  [status |-> IF row.status = "pending" THEN "active" ELSE row.status,
   count |-> row.count + 1, total |-> row.total + g]

\* WeighingEvent.objects.create: the unique edge_event_id refuses a second row.
Insert(w) ==
  /\ At(w, "insert") /\ ~Stored(req[w].e)
  /\ event' = [event EXCEPT ![req[w].e] = NewEvent(req[w].e)]
  /\ Goto(w, IF req[w].s = NoSession THEN "answer" ELSE "tally")
  /\ UNCHANGED <<session, outbox, drift, crashes, edits>>

InsertRefused(w) ==
  /\ At(w, "insert") /\ Stored(req[w].e)
  /\ Finish(w)
  /\ UNCHANGED <<session, event, outbox, drift, crashes, edits>>

\* session.save(update_fields=[..., "status", ...]), with the status it had loaded.
Tally(w) ==
  LET s == req[w].s
      row == Tallied(req[w].row, outbox[req[w].e].weight)
  IN  /\ At(w, "tally") /\ DeviceFree(s, row.status)
      /\ session' = [session EXCEPT ![s] = row]
      /\ SetDrift(s, LostUpdate(w))
      /\ Goto(w, "answer")
      /\ UNCHANGED <<event, outbox, crashes, edits>>

\* The event is committed, the session is not, and the edge reads a 500.
TallyRefused(w) ==
  LET s == req[w].s IN
  /\ At(w, "tally") /\ ~DeviceFree(s, Tallied(req[w].row, 0).status)
  /\ SetDrift(s, TRUE)
  /\ Finish(w)
  /\ UNCHANGED <<session, event, outbox, crashes, edits>>

\* The batch endpoint does the insert and the save in one transaction.
CanCommit(w) ==
  /\ ~Stored(req[w].e)
  /\ req[w].s # NoSession => DeviceFree(req[w].s, Tallied(req[w].row, 0).status)

Commit(w) ==
  LET e == req[w].e
      s == req[w].s
  IN  /\ At(w, "commit") /\ CanCommit(w)
      /\ event' = [event EXCEPT ![e] = NewEvent(e)]
      /\ IF s = NoSession
           THEN UNCHANGED <<session, drift>>
           ELSE /\ session' = [session EXCEPT ![s] = Tallied(req[w].row, outbox[e].weight)]
                /\ SetDrift(s, LostUpdate(w))
      /\ Goto(w, "answer")
      /\ UNCHANGED <<outbox, crashes, edits>>

Rollback(w) ==
  /\ At(w, "commit") /\ ~CanCommit(w)
  /\ Finish(w)
  /\ UNCHANGED <<session, event, outbox, drift, crashes, edits>>

Answer(w) ==
  /\ At(w, "answer")
  /\ outbox' = [outbox EXCEPT ![req[w].e].state = "acked"]
  /\ Finish(w)
  /\ UNCHANGED <<session, event, drift, crashes, edits>>

-----------------------------------------------------------------------------
(* The session's life.                                                     *)

Create(w, s) ==
  /\ "create" \in Ops
  /\ session[s].status = "none" /\ \A v \in Workers : req[v].s # s   \* s is a fresh uuid
  /\ DeviceFree(s, "pending")
  /\ Begin(w, [Idle EXCEPT !.pc = "create", !.s = s])
  /\ UNCHANGED <<session, event, outbox, drift, crashes, edits>>

CreateSave(w) ==
  LET s == req[w].s IN
  /\ At(w, "create")
  /\ session' = IF DeviceFree(s, "pending")
                  THEN [session EXCEPT ![s].status = "pending"] ELSE session
  /\ Finish(w)
  /\ UNCHANGED <<event, outbox, drift, crashes, edits>>

\* A request for a session that is not open is answered without a write.
End(w, s, l) ==
  /\ session[s].status \in Open
  /\ Begin(w, [Idle EXCEPT !.pc = l, !.s = s])
  /\ UNCHANGED <<session, event, outbox, drift, crashes, edits>>

Close(w, s)  == "close" \in Ops /\ End(w, s, "complete")
Cancel(w, s) == "cancel" \in Ops /\ End(w, s, "cancel")

EndSave(w) ==
  /\ req[w].pc \in {"complete", "cancel"}
  /\ session' = [session EXCEPT ![req[w].s].status =
                   IF At(w, "complete") THEN "completed" ELSE "cancelled"]
  /\ Finish(w)
  /\ UNCHANGED <<event, outbox, drift, crashes, edits>>

-----------------------------------------------------------------------------
(* Corrections.  Each view loads the session, then the event of that       *)
(* session, and none of them looks at the session's status.                *)

View(w, e, l, g) ==
  /\ l \in Ops /\ edits < MaxEdits
  /\ event[e].session # NoSession
  /\ Begin(w, [Idle EXCEPT !.pc = l, !.e = e, !.s = event[e].session,
                           !.row = session[event[e].session], !.new = g])
  /\ edits' = edits + 1
  /\ UNCHANGED <<session, event, outbox, drift, crashes>>

Edit(w, e)       == \E g \in Weights \cup {NoWeight} : View(w, e, "edit", g)
Delete(w, e)     == View(w, e, "delete", NoWeight)
Reactivate(w, e) == View(w, e, "reactivate", NoWeight)

LoadEvent(w, l) ==
  /\ req' = [req EXCEPT ![w].pc = l, ![w].seen = event[req[w].e]]
  /\ UNCHANGED <<session, event, outbox, drift, crashes, edits>>

LoadForEdit(w) ==
  At(w, "edit") /\ LoadEvent(w, IF req[w].new = NoWeight THEN "assign" ELSE "reweigh")

LoadForDelete(w) ==
  At(w, "delete") /\ event[req[w].e].state = "active" /\ LoadEvent(w, "deactivate")

LoadForReactivate(w) ==
  At(w, "reactivate") /\ event[req[w].e].state = "inactive" /\ LoadEvent(w, "restore")

\* "This event is already deleted", "This event is already active".
NothingToDo(w) ==
  /\ \/ At(w, "delete") /\ event[req[w].e].state = "inactive"
     \/ At(w, "reactivate") /\ event[req[w].e].state = "active"
  /\ Finish(w)
  /\ UNCHANGED <<session, event, outbox, drift, crashes, edits>>

\* What the save of an event finds changed under the row it had loaded.
EventMoved(w) ==
  LET e == req[w].e IN
    \/ event[e].state # req[w].seen.state
    \/ event[e].weight # req[w].seen.weight

SaveEvent(w, e, state, weight, cause, l) ==
  /\ event' = [event EXCEPT ![e].state = state, ![e].weight = weight]
  /\ SetDrift(req[w].s, cause)
  /\ IF l = "idle" THEN Finish(w) ELSE Goto(w, l)
  /\ UNCHANGED <<session, outbox, crashes, edits>>

\* The counters do not hold the event that is taken out of them.
Clamped(w) ==
  /\ At(w, "subtract")
  /\ req[w].row.count = 0 \/ req[w].row.total < req[w].seen.weight

SaveTotals(w, count, total, l) ==
  /\ session' = [session EXCEPT ![req[w].s].count = count, ![req[w].s].total = total]
  /\ SetDrift(req[w].s, LostUpdate(w) \/ Clamped(w))
  /\ IF l = "idle" THEN Finish(w) ELSE Goto(w, l)
  /\ UNCHANGED <<event, outbox, crashes, edits>>

Reweigh(w) ==
  LET e == req[w].e IN
  At(w, "reweigh") /\ SaveEvent(w, e, event[e].state, req[w].new, EventMoved(w), "retotal")

\* Bug: the weight before the correction stays in the total.
Retotal_KeepsOld(w) ==
  LET r == req[w] IN
  /\ At(w, "retotal")
  /\ IF r.seen.state = "inactive"
       THEN SaveTotals(w, r.row.count + 1, r.row.total + r.new, "assign")
       ELSE SaveTotals(w, r.row.count, r.row.total + r.new, "assign")

Retotal(w) ==
  LET r == req[w] IN
  /\ At(w, "retotal")
  /\ IF r.seen.state = "inactive"
       THEN SaveTotals(w, r.row.count + 1, r.row.total + r.new, "assign")
       ELSE SaveTotals(w, r.row.count, r.row.total - r.seen.weight + r.new, "assign")

\* The last save of the view: the animal the event is for, and, when it was
\* inactive as loaded, its reactivation, whether or not a weight was given: what the
\* total got at the retotal may not be what the event weighs.
Assign(w) ==
  LET r == req[w]
      e == r.e
  IN  /\ At(w, "assign")
      /\ IF r.seen.state = "inactive"
           THEN SaveEvent(w, e, "active", event[e].weight,
                          event[e].state = "active" \/ event[e].weight # r.new, "idle")
           ELSE SaveEvent(w, e, event[e].state, event[e].weight, FALSE, "idle")

Deactivate(w) ==
  LET e == req[w].e IN
  At(w, "deactivate") /\ SaveEvent(w, e, "inactive", event[e].weight, EventMoved(w), "subtract")

LessOne(n) == IF n > 0 THEN n - 1 ELSE 0
Less(t, g) == IF t > g THEN t - g ELSE 0

Subtract(w) ==
  LET r == req[w] IN
  At(w, "subtract") /\ SaveTotals(w, LessOne(r.row.count), Less(r.row.total, r.seen.weight), "idle")

Restore(w) ==
  LET e == req[w].e IN
  At(w, "restore") /\ SaveEvent(w, e, "active", event[e].weight, EventMoved(w), "addback")

AddBack(w) ==
  LET r == req[w] IN
  At(w, "addback") /\ SaveTotals(w, r.row.count + 1, r.row.total + r.seen.weight, "idle")

-----------------------------------------------------------------------------
\* Between its two writes a request has changed the event and not the session.
HalfDone(r) ==
  \/ r.pc \in {"tally", "retotal", "subtract", "addback"}
  \/ r.pc = "assign" /\ r.seen.state = "inactive" /\ r.new # NoWeight

\* The process stops, or the answer is lost on its way.
Crash(w) ==
  /\ req[w].pc # "idle" /\ crashes < MaxCrashes
  /\ crashes' = crashes + 1
  /\ Finish(w)
  /\ drift' = [s \in Sessions |-> drift[s] \/ (s = req[w].s /\ HalfDone(req[w]))]
  /\ UNCHANGED <<session, event, outbox, edits>>

Upload(w)  == Insert(w) \/ InsertRefused(w) \/ Tally(w) \/ TallyRefused(w)
              \/ Commit(w) \/ Rollback(w) \/ Answer(w)
Correct(w) == LoadForEdit(w) \/ LoadForDelete(w) \/ LoadForReactivate(w) \/ NothingToDo(w)
              \/ Reweigh(w) \/ Retotal(w) \/ Assign(w)
              \/ Deactivate(w) \/ Subtract(w) \/ Restore(w) \/ AddBack(w)
Step(w)    == Upload(w) \/ CreateSave(w) \/ EndSave(w) \/ Correct(w)

Send(e) == \E w \in Workers : Post(w, e) \/ PostBatch(w, e)

Arrive(w) ==
  \/ \E s \in Sessions : Create(w, s) \/ Close(w, s) \/ Cancel(w, s)
  \/ \E e \in Events : Edit(w, e) \/ Delete(w, e) \/ Reactivate(w, e)

Next ==
  \/ \E e \in Events : Capture(e) \/ Send(e)
  \/ \E w \in Workers : Arrive(w) \/ Step(w) \/ Crash(w)

Spec == Init /\ [][Next]_vars

\* A request that is running goes on (the threads are scheduled by the kernel),
\* and the edge keeps sending what is not acknowledged: a thread that is free
\* again and again takes the upload sooner or later.
Fairness == /\ \A w \in Workers : WF_vars(Step(w))
            /\ \A e \in Events : SF_vars(Send(e))

FairSpec == Spec /\ Fairness

-----------------------------------------------------------------------------
(* Properties.                                                             *)

\* A scale never has two open sessions, whatever order creations, closings and
\* late tallies that write an open status back run in: the index refuses the
\* second, and every path that opens a session goes through it.
OneOpenSessionPerDevice ==
  \A s, t \in Sessions :
    s # t /\ session[s].status \in Open /\ session[t].status \in Open
      => DeviceOf[s] # DeviceOf[t]

\* What the edge was told is accepted, or a duplicate, is in the database, under
\* the session it was weighed with: the edge drops it from its store for good.
AckedEventKept ==
  \A e \in Events : outbox[e].state = "acked" =>
    Stored(e) /\ event[e].session = outbox[e].session

EventsOf(s)    == {e \in Events : event[e].session = s /\ Stored(e)}
ActiveOf(s)    == {e \in EventsOf(s) : event[e].state = "active"}
WeightOf(S)    == SumFunctionOnSet([e \in Events |-> event[e].weight], S)
Quiet(s)       == \A w \in Workers : req[w].s = s => req[w].pc \in {"idle", "answer"}

\* The cached counters of a session are exact, unless one of these happened to it:
\* a save lost another's update, or was refused; a request died between its two
\* writes, or acted on an event another had changed; a deletion came before the
\* tally of its event; an inactive event was edited without a weight.  No other
\* sequence of calls makes them drift.
TotalsExactUnlessDrift ==
  \A s \in Sessions : Quiet(s) /\ ~drift[s] =>
    /\ session[s].count = Cardinality(ActiveOf(s))
    /\ session[s].total = WeightOf(ActiveOf(s))

\* A closed session is open again only by a tally of a request that had loaded it
\* while it was open: closing ends what new requests can do to its status.
ReopenedOnlyByStaleTally ==
  [][\A s \in Sessions :
       session[s].status \in Closed /\ session'[s].status \in Open
         => \E w \in Workers : /\ req[w].s = s /\ req[w].row.status \in Open
                               /\ req[w].pc \in {"tally", "commit"}]_vars

\* Lost updates, crashes and refused saves only ever lose weight: as long as nobody
\* corrects events, no session reports more than was weighed for it.
CountNeverExceedsEvents ==
  edits = 0 => \A s \in Sessions : session[s].count <= Cardinality(EventsOf(s))

\* The requests, retried and interrupted as they are, implement the ledger: an event
\* is stored once, with the session it was weighed for, whatever is corrected it stays
\* stored under that session, and it is acknowledged only after.
Weighed      == {<<e, outbox[e].session>> : e \in {x \in Events : outbox[x].state # "none"}}
Recorded     == {<<e, event[e].session>> : e \in {x \in Events : Stored(x)}}
Acknowledged == {<<e, outbox[e].session>> : e \in {x \in Events : outbox[x].state = "acked"}}

Ledger == INSTANCE EventLedger
            WITH weighed <- Weighed, recorded <- Recorded, acknowledged <- Acknowledged

ImplementsLedger == Ledger!Spec

\* Every event the edge has weighed is acknowledged in the end, and so stored.
EventuallyAcked == \A e \in Events : (outbox[e].state = "queued") ~> (outbox[e].state = "acked")
=============================================================================
