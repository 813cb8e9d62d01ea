-------------------------- MODULE ScaleEventsProofs --------------------------
(* Proofs about ScaleEvents, for every number of sessions, events, workers, *)
(* crashes and corrections, and for every choice of the endpoints in use.   *)
EXTENDS ScaleEvents, Sums, TLAPS, FiniteSetTheorems

\* The fields of a request's record stay in their sets whatever the label it goes to.
LEMMA GotoType ==
  ASSUME TypeOK, NEW w \in Workers, NEW l \in Labels, Goto(w, l)
  PROVE  req' \in [Workers -> Request]
BY DEF TypeOK, Goto, Request

\* The record of a thread that serves no request.
LEMMA IdleType ==
  /\ Idle \in Request
  /\ Idle.pc = "idle" /\ Idle.row = NoRow
BY DEF Idle, Request, NoRow, NoEventRow, Row, EventRow, Labels

LEMMA FinishType ==
  ASSUME TypeOK, NEW w \in Workers, Finish(w)
  PROVE  req' \in [Workers -> Request]
BY DEF TypeOK, Finish, Request, Idle, NoRow, NoEventRow, Row, EventRow, Labels

LEMMA BeginType ==
  ASSUME TypeOK, NEW w \in Workers, NEW r \in Request, Begin(w, r)
  PROVE  req' \in [Workers -> Request]
BY DEF TypeOK, Begin

LEMMA DriftType ==
  ASSUME TypeOK, NEW s \in Sessions, NEW c \in BOOLEAN, SetDrift(s, c)
  PROVE  drift' \in [Sessions -> BOOLEAN]
BY Zenon DEF TypeOK, SetDrift

LEMMA TalliedType ==
  ASSUME NEW row \in Row, NEW g \in Nat
  PROVE  Tallied(row, g) \in Row
BY DEF Tallied, Row, Open

LEMMA RowOfType ==
  ASSUME TypeOK, NEW s \in Sessions \cup {NoSession}
  PROVE  RowOf(s) \in Row
BY DEF TypeOK, RowOf, NoRow, Row

(***************************************************************************)
(* Type correctness.  Requests that work on a session or an event have one: *)
(* TypeOK alone does not say it, so it is proved together with it.          *)
(***************************************************************************)
SessionLabels == {"tally", "create", "complete", "cancel", "edit", "reweigh", "retotal", "assign",
                  "delete", "deactivate", "subtract", "reactivate", "restore", "addback"}
EventLabels   == {"insert", "tally", "commit", "answer", "edit", "reweigh", "retotal", "assign",
                  "delete", "deactivate", "subtract", "reactivate", "restore", "addback"}

Operands ==
  \A w \in Workers :
    /\ req[w].pc \in SessionLabels => req[w].s \in Sessions
    /\ req[w].pc \in EventLabels => req[w].e \in Events
    /\ req[w].pc \in {"reweigh", "retotal"} => req[w].new \in Nat

Typed == TypeOK /\ Operands

LEMMA InitTyped == Init => Typed
BY ConstantsOK DEF Init, Typed, TypeOK, Operands, Idle, NoRow, NoEventRow, NoPayload,
   Row, EventRow, Payload, Request, Labels, SessionLabels, EventLabels

LEMMA CaptureTyped ==
  ASSUME Typed, NEW e \in Events, Capture(e) PROVE Typed'
BY ConstantsOK DEF Typed, TypeOK, Operands, Capture, Payload

LEMMA ReceiveTyped ==
  ASSUME Typed, NEW w \in Workers, NEW e \in Events, NEW l \in {"insert", "commit"},
         Receive(w, e, l)
  PROVE  Typed'
<1> DEFINE r == [Idle EXCEPT !.pc = FirstStep(e, l), !.e = e, !.s = outbox[e].session,
                             !.row = RowOf(outbox[e].session)]
<1>1. outbox[e].session \in Sessions \cup {NoSession}
  BY DEF Typed, TypeOK, Payload
<1>2. RowOf(outbox[e].session) \in Row
  BY <1>1, RowOfType DEF Typed
<1>3. FirstStep(e, l) \in {"insert", "commit", "answer"}
  BY DEF FirstStep
<1>4. /\ r \in Request
      /\ r.pc = FirstStep(e, l) /\ r.e = e
  BY <1>1, <1>2, <1>3 DEF Request, Idle, NoEventRow, EventRow, Labels
<1>5. Begin(w, r) /\ UNCHANGED <<session, event, outbox, drift, crashes, edits>>
  BY DEF Receive
<1> HIDE DEF r
<1>6. req' \in [Workers -> Request]
  BY <1>4, <1>5, BeginType DEF Typed
<1>7. TypeOK'
  BY <1>5, <1>6 DEF Typed, TypeOK
<1>8. Operands'
  BY <1>3, <1>4, <1>5 DEF Typed, TypeOK, Operands, Begin, SessionLabels, EventLabels
<1> QED BY <1>7, <1>8 DEF Typed

LEMMA InsertTyped ==
  ASSUME Typed, NEW w \in Workers, Insert(w) PROVE Typed'
<1> DEFINE l == IF req[w].s = NoSession THEN "answer" ELSE "tally"
<1>1. /\ req[w] \in Request /\ req[w].pc = "insert" /\ req[w].e \in Events
      /\ l \in Labels /\ Goto(w, l)
  BY DEF Typed, TypeOK, Operands, Insert, At, EventLabels, Labels
<1>2. NewEvent(req[w].e) \in EventRow
  BY <1>1 DEF Typed, TypeOK, NewEvent, EventRow, Payload
<1>3. TypeOK'
  BY <1>1, <1>2, GotoType DEF Typed, TypeOK, Insert
<1>4. Operands'
  BY <1>1 DEF Typed, TypeOK, Operands, Goto, Request, SessionLabels, EventLabels
<1> QED BY <1>3, <1>4 DEF Typed

\* Actions that end a request, or leave it idle, and change no other row.
LEMMA FinishOperands ==
  ASSUME Typed, NEW w \in Workers, Finish(w) PROVE Operands'
BY DEF Typed, TypeOK, Operands, Finish, Idle, SessionLabels, EventLabels

LEMMA TallyTyped ==
  ASSUME Typed, NEW w \in Workers, Tally(w) PROVE Typed'
<1> DEFINE s == req[w].s
           row == Tallied(req[w].row, outbox[req[w].e].weight)
<1>1. /\ req[w] \in Request /\ req[w].pc = "tally" /\ req[w].e \in Events /\ s \in Sessions
      /\ req[w].row \in Row /\ outbox[req[w].e].weight \in Nat
  BY DEF Typed, TypeOK, Operands, Tally, At, EventLabels, SessionLabels, Request, Payload
<1>2. row \in Row
  BY <1>1, TalliedType
<1>3. drift' \in [Sessions -> BOOLEAN]
  BY <1>1, DriftType DEF Tally, Typed, LostUpdate
<1>4. Goto(w, "answer") /\ "answer" \in Labels
  BY DEF Tally, Labels
<1>5. TypeOK'
  BY <1>1, <1>2, <1>3, <1>4, GotoType DEF Typed, TypeOK, Tally
<1>6. Operands'
  BY <1>1, <1>4 DEF Typed, TypeOK, Operands, Goto, SessionLabels, EventLabels
<1> QED BY <1>5, <1>6 DEF Typed

LEMMA CommitTyped ==
  ASSUME Typed, NEW w \in Workers, Commit(w) PROVE Typed'
<1> DEFINE s == req[w].s
           e == req[w].e
           row == Tallied(req[w].row, outbox[e].weight)
<1>1. /\ req[w] \in Request /\ req[w].pc = "commit" /\ e \in Events
      /\ s \in Sessions \cup {NoSession}
      /\ req[w].row \in Row /\ outbox[e].weight \in Nat
  BY DEF Typed, TypeOK, Operands, Commit, At, EventLabels, Request, Payload
<1>2. row \in Row /\ NewEvent(e) \in EventRow
  BY <1>1, TalliedType DEF Typed, TypeOK, NewEvent, EventRow, Payload
<1>3. drift' \in [Sessions -> BOOLEAN]
  BY <1>1, DriftType DEF Commit, Typed, TypeOK, LostUpdate
<1>4. Goto(w, "answer") /\ "answer" \in Labels
  BY DEF Commit, Labels
<1>5. session' \in [Sessions -> Row]
  BY <1>1, <1>2 DEF Typed, TypeOK, Commit
<1>6. TypeOK'
  BY <1>1, <1>2, <1>3, <1>4, <1>5, GotoType DEF Typed, TypeOK, Commit
<1>7. Operands'
  BY <1>1, <1>4 DEF Typed, TypeOK, Operands, Goto, SessionLabels, EventLabels
<1> QED BY <1>6, <1>7 DEF Typed

LEMMA AnswerTyped ==
  ASSUME Typed, NEW w \in Workers, Answer(w) PROVE Typed'
<1>1. req[w].e \in Events
  BY DEF Typed, Operands, Answer, At, EventLabels
<1>2. TypeOK'
  BY <1>1, FinishType DEF Typed, TypeOK, Answer, Payload
<1> QED BY <1>2, FinishOperands DEF Typed, Answer

\* The actions in which a request ends without a write.
LEMMA RefusalTyped ==
  ASSUME Typed, NEW w \in Workers,
         InsertRefused(w) \/ TallyRefused(w) \/ Rollback(w) \/ NothingToDo(w) \/ Crash(w)
  PROVE  Typed'
<1>1. Finish(w)
  BY DEF InsertRefused, TallyRefused, Rollback, NothingToDo, Crash
<1>2. drift' \in [Sessions -> BOOLEAN]
  <2>1. CASE TallyRefused(w)
    BY <2>1, DriftType DEF TallyRefused, Typed, Operands, At, SessionLabels
  <2>2. CASE Crash(w)
    BY <2>2, Zenon DEF Crash, Typed, TypeOK, HalfDone
  <2> QED BY <2>1, <2>2 DEF InsertRefused, Rollback, NothingToDo, Typed, TypeOK
<1>3. crashes' \in Nat
  <2>1. crashes' = crashes + 1 \/ crashes' = crashes
    BY Zenon DEF InsertRefused, TallyRefused, Rollback, NothingToDo, Crash
  <2> QED BY <2>1 DEF Typed, TypeOK
<1>4. UNCHANGED <<session, event, outbox, edits>>
  BY DEF InsertRefused, TallyRefused, Rollback, NothingToDo, Crash
<1>5. TypeOK'
  BY <1>1, <1>2, <1>3, <1>4, FinishType DEF Typed, TypeOK
<1> QED BY <1>1, <1>5, FinishOperands DEF Typed

LEMMA SessionStepTyped ==
  ASSUME Typed, NEW w \in Workers, CreateSave(w) \/ EndSave(w) PROVE Typed'
<1>1. req[w].s \in Sessions /\ Finish(w)
  BY DEF Typed, Operands, CreateSave, EndSave, At, SessionLabels
<1>2. session' \in [Sessions -> Row]
  BY <1>1 DEF Typed, TypeOK, CreateSave, EndSave, Row, Open, Closed
<1>3. TypeOK'
  BY <1>1, <1>2, FinishType DEF Typed, TypeOK, CreateSave, EndSave
<1> QED BY <1>1, <1>3, FinishOperands DEF Typed

LEMMA SessionArrivalTyped ==
  ASSUME Typed, NEW w \in Workers, NEW s \in Sessions,
         Create(w, s) \/ Close(w, s) \/ Cancel(w, s)
  PROVE  Typed'
<1>1. PICK l \in {"create", "complete", "cancel"} : Begin(w, [Idle EXCEPT !.pc = l, !.s = s])
  BY DEF Create, Close, Cancel, End
<1> DEFINE r == [Idle EXCEPT !.pc = l, !.s = s]
<1>2. r \in Request /\ r.pc = l /\ r.s = s
  <2>1. l \in Labels
    BY DEF Labels
  <2> QED BY <2>1, IdleType DEF Request
<1>7. Begin(w, r)
  BY <1>1
<1> HIDE DEF r
<1>3. UNCHANGED <<session, event, outbox, drift, crashes, edits>>
  BY DEF Create, Close, Cancel, End
<1>4. req' \in [Workers -> Request]
  BY <1>2, <1>7, BeginType DEF Typed
<1>5. TypeOK'
  BY <1>3, <1>4 DEF Typed, TypeOK
<1>6. Operands'
  BY <1>2, <1>7 DEF Typed, TypeOK, Operands, Begin, SessionLabels, EventLabels
<1> QED BY <1>5, <1>6 DEF Typed

LEMMA ViewTyped ==
  ASSUME Typed, NEW w \in Workers, NEW e \in Events,
         NEW l \in {"edit", "delete", "reactivate"}, NEW g \in Nat \cup {NoWeight},
         View(w, e, l, g)
  PROVE  Typed'
<1> DEFINE s == event[e].session
           r == [Idle EXCEPT !.pc = l, !.e = e, !.s = s, !.row = session[s], !.new = g]
<1>1. s \in Sessions /\ session[s] \in Row
  BY DEF Typed, TypeOK, View, EventRow
<1>2. r \in Request /\ r.pc = l /\ r.e = e /\ r.s = s
  <2>1. l \in Labels
    BY DEF Labels
  <2> HIDE DEF s
  <2> QED BY <1>1, <2>1, IdleType DEF Request
<1>3. Begin(w, r) /\ edits' = edits + 1 /\ UNCHANGED <<session, event, outbox, drift, crashes>>
  BY DEF View
<1> HIDE DEF r, s
<1>4. TypeOK'
  BY <1>2, <1>3, BeginType DEF Typed, TypeOK
<1>5. Operands'
  BY <1>1, <1>2, <1>3 DEF Typed, TypeOK, Operands, Begin, SessionLabels, EventLabels
<1> QED BY <1>4, <1>5 DEF Typed

\* A request that has an event and a session keeps them as it goes on.
LEMMA GotoOperands ==
  ASSUME Typed, NEW w \in Workers, NEW l \in Labels, Goto(w, l),
         l \in SessionLabels => req[w].pc \in SessionLabels,
         l \in EventLabels => req[w].pc \in EventLabels,
         l \in {"reweigh", "retotal"} => req[w].new \in Nat
  PROVE  Operands'
BY DEF Typed, TypeOK, Operands, Goto, Request

LEMMA LoadTyped ==
  ASSUME Typed, NEW w \in Workers,
         LoadForEdit(w) \/ LoadForDelete(w) \/ LoadForReactivate(w)
  PROVE  Typed'
<1>1. PICK l \in {"assign", "reweigh", "deactivate", "restore"} :
        LoadEvent(w, l) /\ (l = "reweigh" => req[w].new # NoWeight)
  BY DEF LoadForEdit, LoadForDelete, LoadForReactivate
<1>2. /\ req[w] \in Request /\ req[w].e \in Events /\ req[w].s \in Sessions
      /\ event[req[w].e] \in EventRow /\ l \in Labels
      /\ l = "reweigh" => req[w].new \in Nat
  BY <1>1 DEF Typed, TypeOK, Operands, LoadForEdit, LoadForDelete, LoadForReactivate, At,
     SessionLabels, EventLabels, Request, Labels
<1>3. /\ req' = [req EXCEPT ![w].pc = l, ![w].seen = event[req[w].e]]
      /\ UNCHANGED <<session, event, outbox, drift, crashes, edits>>
  BY <1>1 DEF LoadEvent
<1>4. req' \in [Workers -> Request]
  BY <1>2, <1>3 DEF Typed, TypeOK, Request
<1>5. TypeOK'
  BY <1>3, <1>4 DEF Typed, TypeOK
<1>6. Operands'
  BY <1>2, <1>3 DEF Typed, TypeOK, Operands, Request, SessionLabels, EventLabels
<1> QED BY <1>5, <1>6 DEF Typed

\* A save of an event, and a save of a session's totals, in a correction.
CorrectionLabels == {"reweigh", "retotal", "assign", "deactivate", "subtract", "restore", "addback"}

LEMMA SaveEventTyped ==
  ASSUME Typed, NEW w \in Workers, req[w].pc \in CorrectionLabels,
         NEW state \in {"active", "inactive", "absent"}, NEW g \in Nat, NEW cause \in BOOLEAN,
         NEW l \in Labels, l \in {"idle"} \cup CorrectionLabels,
         l \in {"reweigh", "retotal"} => req[w].new \in Nat,
         SaveEvent(w, req[w].e, state, g, cause, l)
  PROVE  Typed'
<1> DEFINE e == req[w].e
<1>1. e \in Events /\ req[w].s \in Sessions
  BY DEF Typed, Operands, CorrectionLabels, SessionLabels, EventLabels
<1>2. /\ event' = [event EXCEPT ![e].state = state, ![e].weight = g]
      /\ SetDrift(req[w].s, cause)
      /\ UNCHANGED <<session, outbox, crashes, edits>>
  BY DEF SaveEvent
<1>3. event' \in [Events -> EventRow]
  BY <1>1, <1>2 DEF Typed, TypeOK, EventRow
<1>4. drift' \in [Sessions -> BOOLEAN]
  BY <1>1, <1>2, DriftType DEF Typed
<1>5. req' \in [Workers -> Request] /\ Operands'
  <2>1. CASE l = "idle"
    BY <2>1, FinishType, FinishOperands DEF SaveEvent, Typed
  <2>2. CASE l # "idle"
    <3>1. Goto(w, l)
      BY <2>2 DEF SaveEvent
    <3>2. req[w].pc \in SessionLabels /\ req[w].pc \in EventLabels
      BY DEF CorrectionLabels, SessionLabels, EventLabels
    <3> QED BY <3>1, <3>2, GotoType, GotoOperands DEF Typed
  <2> QED BY <2>1, <2>2
<1>6. TypeOK'
  BY <1>2, <1>3, <1>4, <1>5 DEF Typed, TypeOK
<1> QED BY <1>5, <1>6 DEF Typed

LEMMA SaveTotalsTyped ==
  ASSUME Typed, NEW w \in Workers, req[w].pc \in CorrectionLabels,
         NEW count \in Nat, NEW total \in Int, NEW l \in {"idle", "assign"},
         SaveTotals(w, count, total, l)
  PROVE  Typed'
<1> DEFINE s == req[w].s
<1>1. s \in Sessions
  BY DEF Typed, Operands, CorrectionLabels, SessionLabels
<1>2. /\ session' = [session EXCEPT ![s].count = count, ![s].total = total]
      /\ SetDrift(s, LostUpdate(w) \/ Clamped(w))
      /\ UNCHANGED <<event, outbox, crashes, edits>>
  BY DEF SaveTotals
<1>3. session' \in [Sessions -> Row]
  BY <1>1, <1>2 DEF Typed, TypeOK, Row
<1>4. drift' \in [Sessions -> BOOLEAN]
  <2>1. (LostUpdate(w) \/ Clamped(w)) \in BOOLEAN
    BY DEF LostUpdate, Clamped, At
  <2> QED BY <1>1, <1>2, <2>1, DriftType DEF Typed
<1>5. req' \in [Workers -> Request] /\ Operands'
  <2>1. CASE l = "idle"
    BY <2>1, FinishType, FinishOperands DEF SaveTotals, Typed
  <2>2. CASE l = "assign"
    <3>1. Goto(w, l) /\ l \in Labels
      BY <2>2 DEF SaveTotals, Labels
    <3>2. req[w].pc \in SessionLabels /\ req[w].pc \in EventLabels
      BY DEF CorrectionLabels, SessionLabels, EventLabels
    <3> QED BY <2>2, <3>1, <3>2, GotoType, GotoOperands DEF Typed
  <2> QED BY <2>1, <2>2
<1>6. TypeOK'
  BY <1>2, <1>3, <1>4, <1>5 DEF Typed, TypeOK
<1> QED BY <1>5, <1>6 DEF Typed

\* What a request in a correction has read.
LEMMA CorrectionReads ==
  ASSUME Typed, NEW w \in Workers, req[w].pc \in CorrectionLabels
  PROVE  /\ req[w].e \in Events /\ event[req[w].e] \in EventRow
         /\ req[w].row \in Row /\ req[w].seen \in EventRow
         /\ event[req[w].e].weight \in Nat /\ req[w].seen.weight \in Nat
         /\ event[req[w].e].state \in {"active", "inactive", "absent"}
         /\ req[w].row.count \in Nat /\ req[w].row.total \in Int
         /\ req[w].pc \in {"reweigh", "retotal"} => req[w].new \in Nat
<1>1. req[w] \in Request /\ req[w].e \in Events
  BY DEF Typed, TypeOK, Operands, CorrectionLabels, EventLabels
<1>2. req[w].row \in Row /\ req[w].seen \in EventRow /\ event[req[w].e] \in EventRow
  BY <1>1 DEF Typed, TypeOK, Request
<1> QED BY <1>1, <1>2 DEF Typed, Operands, Row, EventRow

LEMMA CorrectTyped ==
  ASSUME Typed, NEW w \in Workers,
         Reweigh(w) \/ Retotal(w) \/ Assign(w) \/ Deactivate(w) \/ Subtract(w)
           \/ Restore(w) \/ AddBack(w)
  PROVE  Typed'
<1> DEFINE r == req[w]
           e == r.e
<1>0. r.pc \in CorrectionLabels
  BY DEF Reweigh, Retotal, Assign, Deactivate, Subtract, Restore, AddBack, At, CorrectionLabels
<1>1. /\ event[e].weight \in Nat /\ r.seen.weight \in Nat
      /\ event[e].state \in {"active", "inactive", "absent"}
      /\ r.row.count \in Nat /\ r.row.total \in Int
      /\ r.pc \in {"reweigh", "retotal"} => r.new \in Nat
  BY <1>0, CorrectionReads
<1>2. EventMoved(w) \in BOOLEAN
  BY DEF EventMoved
<1>3. /\ {"assign", "retotal", "subtract", "addback", "idle"} \subseteq Labels
      /\ {"assign", "retotal", "subtract", "addback"} \subseteq CorrectionLabels
  BY DEF Labels, CorrectionLabels
<1>4. CASE Reweigh(w)
  <2>1. r.new \in Nat /\ SaveEvent(w, e, event[e].state, r.new, EventMoved(w), "retotal")
    BY <1>1, <1>4 DEF Reweigh, At
  <2> QED BY <1>0, <1>1, <1>2, <1>3, <2>1, SaveEventTyped
<1>5. CASE Retotal(w)
  <2>1. r.new \in Nat
    BY <1>1, <1>5 DEF Retotal, At
  <2>2. CASE r.seen.state = "inactive"
    <3>1. /\ SaveTotals(w, r.row.count + 1, r.row.total + r.new, "assign")
          /\ r.row.count + 1 \in Nat /\ r.row.total + r.new \in Int
      BY <1>1, <1>5, <2>1, <2>2 DEF Retotal
    <3> QED BY <1>0, <3>1, SaveTotalsTyped
  <2>3. CASE r.seen.state # "inactive"
    <3>1. /\ SaveTotals(w, r.row.count, r.row.total - r.seen.weight + r.new, "assign")
          /\ r.row.total - r.seen.weight + r.new \in Int
      BY <1>1, <1>5, <2>1, <2>3 DEF Retotal
    <3> QED BY <1>0, <1>1, <3>1, SaveTotalsTyped
  <2> QED BY <2>2, <2>3
<1>6. CASE Assign(w)
  <2>1. CASE r.seen.state = "inactive"
    <3> DEFINE c == event[e].state = "active" \/ event[e].weight # r.new
    <3>1. SaveEvent(w, e, "active", event[e].weight, c, "idle") /\ c \in BOOLEAN
      BY <1>6, <2>1 DEF Assign
    <3> HIDE DEF c
    <3> QED BY <1>0, <1>1, <1>3, <3>1, SaveEventTyped
  <2>2. CASE r.seen.state # "inactive"
    <3>1. SaveEvent(w, e, event[e].state, event[e].weight, FALSE, "idle")
      BY <1>6, <2>2 DEF Assign
    <3> QED BY <1>0, <1>1, <1>3, <3>1, SaveEventTyped
  <2> QED BY <2>1, <2>2
<1>7. CASE Deactivate(w)
  <2>1. SaveEvent(w, e, "inactive", event[e].weight, EventMoved(w), "subtract")
    BY <1>7 DEF Deactivate
  <2> QED BY <1>0, <1>1, <1>2, <1>3, <2>1, SaveEventTyped
<1>8. CASE Subtract(w)
  <2>1. /\ SaveTotals(w, LessOne(r.row.count), Less(r.row.total, r.seen.weight), "idle")
        /\ LessOne(r.row.count) \in Nat /\ Less(r.row.total, r.seen.weight) \in Int
    BY <1>1, <1>8 DEF Subtract, LessOne, Less
  <2> QED BY <1>0, <2>1, SaveTotalsTyped
<1>9. CASE Restore(w)
  <2>1. SaveEvent(w, e, "active", event[e].weight, EventMoved(w), "addback")
    BY <1>9 DEF Restore
  <2> QED BY <1>0, <1>1, <1>2, <1>3, <2>1, SaveEventTyped
<1>10. CASE AddBack(w)
  <2>1. /\ SaveTotals(w, r.row.count + 1, r.row.total + r.seen.weight, "idle")
        /\ r.row.count + 1 \in Nat /\ r.row.total + r.seen.weight \in Int
    BY <1>1, <1>10 DEF AddBack
  <2> QED BY <1>0, <2>1, SaveTotalsTyped
<1> QED BY <1>4, <1>5, <1>6, <1>7, <1>8, <1>9, <1>10

LEMMA TypedStep == ASSUME Typed, [Next]_vars PROVE Typed'
<1>1. ASSUME NEW e \in Events, Capture(e) PROVE Typed'
  BY <1>1, CaptureTyped
<1>2. ASSUME NEW e \in Events, Send(e) PROVE Typed'
  <2>1. PICK w \in Workers, l \in {"insert", "commit"} : Receive(w, e, l)
    BY <1>2 DEF Send, Post, PostBatch
  <2> QED BY <2>1, ReceiveTyped
<1>3. ASSUME NEW w \in Workers, Arrive(w) PROVE Typed'
  <2>1. ASSUME NEW s \in Sessions, Create(w, s) \/ Close(w, s) \/ Cancel(w, s) PROVE Typed'
    BY <2>1, SessionArrivalTyped
  <2>2. ASSUME NEW e \in Events, Edit(w, e) \/ Delete(w, e) \/ Reactivate(w, e) PROVE Typed'
    <3>1. PICK l \in {"edit", "delete", "reactivate"}, g \in Nat \cup {NoWeight} : View(w, e, l, g)
      BY <2>2, ConstantsOK DEF Edit, Delete, Reactivate
    <3> QED BY <3>1, ViewTyped
  <2> QED BY <1>3, <2>1, <2>2 DEF Arrive
<1>4. ASSUME NEW w \in Workers, Step(w) \/ Crash(w) PROVE Typed'
  BY <1>4, InsertTyped, TallyTyped, CommitTyped, AnswerTyped, RefusalTyped, SessionStepTyped,
     LoadTyped, CorrectTyped DEF Step, Upload, Correct
<1>5. CASE UNCHANGED vars
  BY <1>5 DEF vars, Typed, TypeOK, Operands
<1> QED BY <1>1, <1>2, <1>3, <1>4, <1>5 DEF Next

\* Every reachable state is typed, and requests have the operands they use.
THEOREM TypedAlways == Spec => []Typed
<1>1. Init => Typed
  BY InitTyped
<1>2. Typed /\ [Next]_vars => Typed'
  BY TypedStep
<1> QED BY <1>1, <1>2, PTL DEF Spec

\* Rows, requests and the edge's store keep their types: the counters never become
\* negative, however deletions, edits and tallies that lose each other's updates
\* follow one another (the floors of SessionEventDeleteView).
THEOREM TypeCorrect == Spec => []TypeOK
BY TypedAlways, PTL DEF Typed

(***************************************************************************)
(* One open session per scale.  It is inductive with Typed: every write of  *)
(* an open status to a row comes with the check of the unique index.        *)
(***************************************************************************)

LEMMA DeviceKept ==
  ASSUME Typed, Typed', OneOpenSessionPerDevice, NEW s \in Sessions,
         \A t \in Sessions \ {s} : session'[t].status = session[t].status,
         DeviceFree(s, session'[s].status)
  PROVE  OneOpenSessionPerDevice'
BY DEF DeviceFree, OneOpenSessionPerDevice

\* What a tally writes is open exactly if the row it loaded is.
LEMMA TalliedStatus ==
  ASSUME NEW row, NEW g
  PROVE  /\ Tallied(row, g).status \in Open <=> row.status \in Open
         /\ Tallied(row, g).status = Tallied(row, 0).status
BY DEF Tallied, Open

LEMMA OneOpenStep ==
  ASSUME Typed, Typed', OneOpenSessionPerDevice, [Next]_vars
  PROVE  OneOpenSessionPerDevice'
<1>1. CASE UNCHANGED session
  BY <1>1 DEF OneOpenSessionPerDevice
<1>2. ASSUME NEW w \in Workers, Tally(w) PROVE OneOpenSessionPerDevice'
  <2> DEFINE s == req[w].s
             row == Tallied(req[w].row, outbox[req[w].e].weight)
  <2>1. s \in Sessions /\ session' = [session EXCEPT ![s] = row] /\ DeviceFree(s, row.status)
    BY <1>2 DEF Typed, Operands, Tally, At, SessionLabels
  <2> HIDE DEF s, row
  <2>2. session'[s].status = row.status /\ \A t \in Sessions \ {s} : session'[t] = session[t]
    BY <2>1 DEF Typed, TypeOK
  <2> QED BY <2>1, <2>2, DeviceKept
<1>3. ASSUME NEW w \in Workers, Commit(w) PROVE OneOpenSessionPerDevice'
  <2> DEFINE s == req[w].s
             row == Tallied(req[w].row, outbox[req[w].e].weight)
  <2>1. CASE s = NoSession
    BY <1>1, <1>3, <2>1 DEF Commit
  <2>2. CASE s # NoSession
    <3>1. s \in Sessions /\ session' = [session EXCEPT ![s] = row]
      BY <1>3, <2>2 DEF Typed, TypeOK, Request, Commit
    <3>2. DeviceFree(s, row.status)
      BY <1>3, <2>2, TalliedStatus DEF Commit, CanCommit
    <3> HIDE DEF s, row
    <3>3. session'[s].status = row.status /\ \A t \in Sessions \ {s} : session'[t] = session[t]
      BY <3>1 DEF Typed, TypeOK
    <3> QED BY <3>1, <3>2, <3>3, DeviceKept
  <2> QED BY <2>1, <2>2
<1>4. ASSUME NEW w \in Workers, CreateSave(w) PROVE OneOpenSessionPerDevice'
  <2> DEFINE s == req[w].s
  <2>1. s \in Sessions
    BY <1>4 DEF Typed, Operands, CreateSave, At, SessionLabels
  <2>2. CASE DeviceFree(s, "pending")
    <3>1. session'[s].status = "pending" /\ \A t \in Sessions \ {s} : session'[t] = session[t]
      BY <1>4, <2>1, <2>2 DEF Typed, TypeOK, CreateSave, Row
    <3> QED BY <2>1, <2>2, <3>1, DeviceKept
  <2>3. CASE ~DeviceFree(s, "pending")
    BY <1>1, <1>4, <2>3 DEF CreateSave
  <2> QED BY <2>2, <2>3
<1>5. ASSUME NEW w \in Workers, EndSave(w) PROVE OneOpenSessionPerDevice'
  <2> DEFINE s == req[w].s
  <2>1. s \in Sessions
    BY <1>5 DEF Typed, Operands, EndSave, SessionLabels
  <2>2. /\ session'[s].status \in Closed
        /\ \A t \in Sessions \ {s} : session'[t] = session[t]
    BY <1>5, <2>1 DEF Typed, TypeOK, EndSave, Row, Closed
  <2>3. DeviceFree(s, session'[s].status)
    BY <2>2 DEF DeviceFree, Open, Closed
  <2> QED BY <2>1, <2>2, <2>3, DeviceKept
<1>6. ASSUME NEW w \in Workers, NEW c, NEW t, NEW l, SaveTotals(w, c, t, l)
      PROVE OneOpenSessionPerDevice'
  <2>1. \A s \in Sessions : session'[s].status = session[s].status
    BY <1>6 DEF SaveTotals, Typed, TypeOK, Row
  <2> QED BY <2>1 DEF OneOpenSessionPerDevice
<1> QED
  BY <1>1, <1>2, <1>3, <1>4, <1>5, <1>6
  DEF Next, vars, Capture, Send, Post, PostBatch, Receive, Arrive, Create, Close, Cancel, End,
      Edit, Delete, Reactivate, View, Step, Upload, Correct, Crash, Insert, InsertRefused,
      TallyRefused, Rollback, Answer, LoadForEdit, LoadForDelete, LoadForReactivate, LoadEvent,
      NothingToDo, Reweigh, Retotal, Assign, Deactivate, Subtract, Restore, AddBack, SaveEvent

\* Two sessions that are open at the same time are for two scales.
THEOREM OneOpenSession == Spec => []OneOpenSessionPerDevice
<1>1. Init => OneOpenSessionPerDevice
  BY DEF Init, OneOpenSessionPerDevice, NoRow, Open
<1>2. OneOpenSessionPerDevice /\ Typed /\ Typed' /\ [Next]_vars => OneOpenSessionPerDevice'
  BY OneOpenStep
<1> QED BY <1>1, <1>2, TypedAlways, PTL DEF Spec

(***************************************************************************)
(* Acknowledged events are kept.  An upload in progress is for an event the *)
(* edge has captured, a row holds what the edge sent, and a request answers *)
(* only for an event that is stored: rows are never removed.                *)
(***************************************************************************)
UploadLabels == {"insert", "tally", "commit", "answer"}

Sent ==
  \A e \in Events :
    /\ outbox[e].state = "none" => ~Stored(e)
    /\ ~Stored(e) => event[e].session = NoSession
    /\ Stored(e) => event[e].session = outbox[e].session
    /\ outbox[e].state = "acked" => Stored(e)

Grounded(r) ==
  /\ r.pc \in UploadLabels => outbox[r.e].state # "none" /\ r.s = outbox[r.e].session
  /\ r.pc \in {"answer", "tally"} => Stored(r.e)
  /\ r.pc \in CorrectionLabels \cup {"edit", "delete", "reactivate"} =>
       Stored(r.e) /\ r.s = event[r.e].session

Served == \A w \in Workers : Grounded(req[w])

Kept == Sent /\ Served

\* Steps that write no event and nothing of the edge's keep what is said of events.
LEMMA SentKept ==
  ASSUME Sent, UNCHANGED <<event, outbox>> PROVE Sent'
BY DEF Sent, Stored

LEMMA GroundedKept ==
  ASSUME NEW r, Grounded(r), UNCHANGED <<event, outbox>>
  PROVE  Grounded(r)'
BY DEF Grounded, Stored

LEMMA IdleGrounded == Grounded(Idle) /\ Grounded(Idle)'
<1>1. Idle.pc \notin UploadLabels \cup CorrectionLabels \cup {"edit", "delete", "reactivate"}
  BY IdleType DEF UploadLabels, CorrectionLabels
<1> QED BY <1>1 DEF Grounded, UploadLabels

\* A step of one request that leaves events and the edge alone.
LEMMA ServedKept ==
  ASSUME Typed, Kept, NEW w \in Workers, NEW r, UNCHANGED <<event, outbox>>,
         req' = [req EXCEPT ![w] = r], Grounded(r)
  PROVE  Kept'
<1>1. Sent'
  BY SentKept DEF Kept
<1>2. ASSUME NEW v \in Workers PROVE Grounded(req[v])'
  <2>1. CASE v # w
    <3>1. req'[v] = req[v] /\ Grounded(req[v])
      BY <2>1 DEF Kept, Served
    <3> QED BY <3>1 DEF Grounded, Stored
  <2>2. CASE v = w
    <3>1. req'[v] = r
      BY <2>2 DEF Typed, TypeOK
    <3> QED BY <3>1 DEF Grounded, Stored
  <2> QED BY <2>1, <2>2
<1> QED BY <1>1, <1>2 DEF Kept, Served

LEMMA CaptureKept ==
  ASSUME Typed, Kept, NEW e \in Events, Capture(e) PROVE Kept'
<1>1. /\ outbox[e].state = "none" /\ ~Stored(e) /\ event[e].session = NoSession
      /\ UNCHANGED <<event, req>>
      /\ outbox'[e].state = "queued"
      /\ \A d \in Events \ {e} : outbox'[d] = outbox[d]
  BY DEF Capture, Kept, Sent, Typed, TypeOK
<1>2. Sent'
  BY <1>1 DEF Kept, Sent, Stored
<1>3. ASSUME NEW v \in Workers PROVE Grounded(req[v])'
  <2>1. Grounded(req[v]) /\ (req[v].pc \in EventLabels => req[v].e \in Events)
    BY DEF Kept, Served, Typed, Operands
  <2>2. UploadLabels \subseteq EventLabels /\ CorrectionLabels \subseteq EventLabels
    BY DEF UploadLabels, EventLabels, CorrectionLabels
  <2> QED BY <1>1, <2>1, <2>2 DEF Grounded, Stored
<1> QED BY <1>2, <1>3 DEF Kept, Served

LEMMA ReceiveKept ==
  ASSUME Typed, Kept, NEW w \in Workers, NEW e \in Events, NEW l \in {"insert", "commit"},
         Receive(w, e, l)
  PROVE  Kept'
<1> DEFINE r == [Idle EXCEPT !.pc = FirstStep(e, l), !.e = e, !.s = outbox[e].session,
                             !.row = RowOf(outbox[e].session)]
<1>1. /\ r.pc \in {"insert", "commit", "answer"} /\ r.e = e /\ r.s = outbox[e].session
      /\ r.pc = "answer" => Stored(e)
  BY DEF FirstStep, Idle
<1>2. outbox[e].state = "queued" /\ req' = [req EXCEPT ![w] = r] /\ UNCHANGED <<event, outbox>>
  BY DEF Receive, Begin
<1> HIDE DEF r
<1>3. Grounded(r)
  BY <1>1, <1>2 DEF Grounded, UploadLabels, CorrectionLabels
<1> QED BY <1>2, <1>3, ServedKept

\* The first write of an upload: the row holds what the edge sent.
LEMMA StoreKept ==
  ASSUME Typed, Kept, NEW w \in Workers, NEW l \in {"answer", "tally"},
         req[w].pc \in {"insert", "commit"}, ~Stored(req[w].e),
         event' = [event EXCEPT ![req[w].e] = NewEvent(req[w].e)], UNCHANGED outbox,
         Goto(w, l)
  PROVE  Kept'
<1> DEFINE e == req[w].e
<1>1. /\ e \in Events /\ req[w].pc \in UploadLabels /\ Grounded(req[w])
      /\ outbox[e].state # "none" /\ req[w].s = outbox[e].session
  BY DEF Typed, Operands, EventLabels, UploadLabels, Kept, Served, Grounded
<1>2. /\ event'[e].state = "active" /\ event'[e].session = outbox[e].session
      /\ \A d \in Events \ {e} : event'[d] = event[d]
  BY <1>1 DEF Typed, TypeOK, NewEvent
<1>3. Sent'
  BY <1>1, <1>2 DEF Kept, Sent, Stored
<1>4. ASSUME NEW v \in Workers PROVE Grounded(req[v])'
  <2>1. Grounded(req[v]) /\ (req[v].pc \in EventLabels => req[v].e \in Events)
    BY DEF Kept, Served, Typed, Operands
  <2>2. UploadLabels \subseteq EventLabels /\ CorrectionLabels \subseteq EventLabels
        /\ {"edit", "delete", "reactivate", "answer", "tally"} \subseteq EventLabels
    BY DEF UploadLabels, EventLabels, CorrectionLabels
  <2>3. CASE v # w
    <3>1. req'[v] = req[v]
      BY <2>3 DEF Goto, Typed, TypeOK
    <3> QED BY <1>2, <2>1, <2>2, <3>1 DEF Grounded, Stored
  <2>4. CASE v = w
    <3>1. req'[v].pc = l /\ req'[v].e = e /\ req'[v].s = req[w].s
      BY <2>4 DEF Goto, Typed, TypeOK, Request
    <3> QED BY <1>1, <1>2, <3>1 DEF Grounded, Stored, UploadLabels, CorrectionLabels
  <2> QED BY <2>3, <2>4
<1> QED BY <1>3, <1>4 DEF Kept, Served

LEMMA AnswerKept ==
  ASSUME Typed, Kept, NEW w \in Workers, Answer(w) PROVE Kept'
<1> DEFINE e == req[w].e
<1>1. e \in Events /\ Stored(e) /\ outbox[e].state # "none"
  BY DEF Answer, At, Typed, Operands, EventLabels, Kept, Served, Grounded, UploadLabels
<1>2. /\ UNCHANGED event /\ outbox'[e].state = "acked" /\ outbox'[e].session = outbox[e].session
      /\ \A d \in Events \ {e} : outbox'[d] = outbox[d]
      /\ req' = [req EXCEPT ![w] = Idle]
  BY <1>1 DEF Answer, Finish, Typed, TypeOK, Payload
<1>3. Sent'
  BY <1>1, <1>2 DEF Kept, Sent, Stored
<1>4. ASSUME NEW v \in Workers PROVE Grounded(req[v])'
  <2>1. Grounded(req[v]) /\ (req[v].pc \in EventLabels => req[v].e \in Events)
    BY DEF Kept, Served, Typed, Operands
  <2>2. UploadLabels \subseteq EventLabels
    BY DEF UploadLabels, EventLabels
  <2>3. CASE v # w
    <3>1. req'[v] = req[v]
      BY <1>2, <2>3 DEF Typed, TypeOK
    <3> QED BY <1>2, <2>1, <2>2, <3>1 DEF Grounded, Stored
  <2>4. CASE v = w
    <3>1. req'[v] = Idle
      BY <1>2, <2>4 DEF Typed, TypeOK
    <3> QED BY <3>1, IdleType DEF Grounded, UploadLabels, CorrectionLabels
  <2> QED BY <2>3, <2>4
<1> QED BY <1>3, <1>4 DEF Kept, Served

LEMMA ViewKept ==
  ASSUME Typed, Kept, NEW w \in Workers, NEW e \in Events,
         NEW l \in {"edit", "delete", "reactivate"}, NEW g, View(w, e, l, g)
  PROVE  Kept'
<1> DEFINE r == [Idle EXCEPT !.pc = l, !.e = e, !.s = event[e].session,
                             !.row = session[event[e].session], !.new = g]
<1>1. r.pc = l /\ r.e = e /\ r.s = event[e].session
  BY DEF Idle
<1>2. /\ Stored(e) /\ req' = [req EXCEPT ![w] = r] /\ UNCHANGED <<event, outbox>>
  BY DEF View, Begin, Kept, Sent
<1> HIDE DEF r
<1>3. Grounded(r)
  BY <1>1, <1>2 DEF Grounded, UploadLabels, CorrectionLabels
<1> QED BY <1>2, <1>3, ServedKept

LEMMA SaveEventKept ==
  ASSUME Typed, Kept, NEW w \in Workers, req[w].pc \in CorrectionLabels,
         NEW state, state # "absent", NEW g, NEW cause,
         NEW l \in {"idle"} \cup CorrectionLabels,
         SaveEvent(w, req[w].e, state, g, cause, l)
  PROVE  Kept'
<1> DEFINE e == req[w].e
<1>1. e \in Events /\ Stored(e) /\ req[w].s = event[e].session
  BY DEF Typed, Operands, EventLabels, CorrectionLabels, Kept, Served, Grounded
<1>2. /\ UNCHANGED outbox /\ event'[e].state = state /\ event'[e].session = event[e].session
      /\ \A d \in Events \ {e} : event'[d] = event[d]
  BY <1>1 DEF SaveEvent, Typed, TypeOK, EventRow
<1>3. Sent'
  BY <1>1, <1>2 DEF Kept, Sent, Stored
<1>4. ASSUME NEW v \in Workers PROVE Grounded(req[v])'
  <2>1. Grounded(req[v]) /\ (req[v].pc \in EventLabels => req[v].e \in Events)
    BY DEF Kept, Served, Typed, Operands
  <2>2. UploadLabels \subseteq EventLabels /\ CorrectionLabels \subseteq EventLabels
        /\ {"edit", "delete", "reactivate", "answer", "tally"} \subseteq EventLabels
    BY DEF UploadLabels, EventLabels, CorrectionLabels
  <2>3. CASE req'[v] = req[v]
    BY <1>1, <1>2, <2>1, <2>2, <2>3 DEF Grounded, Stored
  <2>4. CASE req'[v] # req[v] /\ l = "idle"
    <3>1. req'[v] = Idle
      BY <2>4 DEF SaveEvent, Finish, Typed, TypeOK
    <3> QED BY <3>1, IdleType DEF Grounded, UploadLabels, CorrectionLabels
  <2>5. CASE req'[v] # req[v] /\ l # "idle"
    <3>1. v = w /\ req'[v].pc = l /\ req'[v].e = e /\ req'[v].s = req[w].s
      BY <2>5 DEF SaveEvent, Goto, Typed, TypeOK, Request
    <3>2. l \in CorrectionLabels /\ l \notin UploadLabels
      BY <2>5 DEF CorrectionLabels, UploadLabels
    <3> QED BY <1>1, <1>2, <3>1, <3>2 DEF Grounded, Stored, UploadLabels
  <2> QED BY <2>3, <2>4, <2>5
<1> QED BY <1>3, <1>4 DEF Kept, Served

\* Requests that end, and sessions that are created or closed.
LEMMA EndKept ==
  ASSUME Typed, Kept, NEW w \in Workers, Finish(w), UNCHANGED <<event, outbox>> PROVE Kept'
BY IdleGrounded, ServedKept DEF Finish

LEMMA SessionArrivalKept ==
  ASSUME Typed, Kept, NEW w \in Workers, NEW s \in Sessions,
         Create(w, s) \/ Close(w, s) \/ Cancel(w, s)
  PROVE  Kept'
<1>1. PICK l \in {"create", "complete", "cancel"} : Begin(w, [Idle EXCEPT !.pc = l, !.s = s])
  BY DEF Create, Close, Cancel, End
<1> DEFINE r == [Idle EXCEPT !.pc = l, !.s = s]
<1>2. Grounded(r)
  <2>1. r.pc = l
    BY DEF Idle
  <2> QED BY <2>1 DEF Grounded, UploadLabels, CorrectionLabels
<1>3. req' = [req EXCEPT ![w] = r] /\ UNCHANGED <<event, outbox>>
  BY <1>1 DEF Begin, Create, Close, Cancel, End
<1> HIDE DEF r
<1> QED BY <1>2, <1>3, ServedKept

\* A request that goes on without a write of an event.
LEMMA GoesOnKept ==
  ASSUME Typed, Kept, NEW w \in Workers, UNCHANGED <<event, outbox>>,
         NEW r, req' = [req EXCEPT ![w] = r], r.e = req[w].e, r.s = req[w].s,
         \/ req[w].pc \in {"tally"} /\ r.pc = "answer"
         \/ req[w].pc \in CorrectionLabels \cup {"edit", "delete", "reactivate"}
              /\ r.pc \in CorrectionLabels
  PROVE  Kept'
<1>1. Grounded(req[w])
  BY DEF Kept, Served
<1>2. Grounded(r)
  BY <1>1 DEF Grounded, UploadLabels, CorrectionLabels
<1> QED BY <1>2, ServedKept

LEMMA SaveTotalsKept ==
  ASSUME Typed, Kept, NEW w \in Workers, req[w].pc \in CorrectionLabels,
         NEW c, NEW t, NEW l \in {"idle", "assign"}, SaveTotals(w, c, t, l)
  PROVE  Kept'
<1>1. CASE l = "idle"
  BY <1>1, EndKept DEF SaveTotals
<1>2. CASE l = "assign"
  <2> DEFINE r == [req[w] EXCEPT !.pc = l]
  <2>1. r.e = req[w].e /\ r.s = req[w].s /\ r.pc = "assign"
    BY <1>2 DEF Typed, TypeOK, Request
  <2>2. req' = [req EXCEPT ![w] = r] /\ UNCHANGED <<event, outbox>>
    BY <1>2 DEF SaveTotals, Goto
  <2>3. r.pc \in CorrectionLabels
    BY <2>1 DEF CorrectionLabels
  <2> HIDE DEF r
  <2> QED BY <2>1, <2>2, <2>3, GoesOnKept
<1> QED BY <1>1, <1>2

LEMMA UploadKept ==
  ASSUME Typed, Kept, NEW w \in Workers, Upload(w) PROVE Kept'
<1>1. CASE Insert(w)
  <2>1. PICK l \in {"answer", "tally"} : Goto(w, l)
    BY <1>1 DEF Insert
  <2> QED BY <1>1, <2>1, StoreKept DEF Insert, At
<1>2. CASE Commit(w)
  <2>1. /\ event' = [event EXCEPT ![req[w].e] = NewEvent(req[w].e)] /\ UNCHANGED outbox
        /\ Goto(w, "answer") /\ req[w].pc = "commit" /\ ~Stored(req[w].e)
    BY <1>2 DEF Commit, CanCommit, At
  <2> QED BY <2>1, StoreKept
<1>3. CASE Tally(w)
  <2> DEFINE r == [req[w] EXCEPT !.pc = "answer"]
  <2>1. /\ r.e = req[w].e /\ r.s = req[w].s /\ r.pc = "answer" /\ req[w].pc = "tally"
        /\ req' = [req EXCEPT ![w] = r] /\ UNCHANGED <<event, outbox>>
    BY <1>3 DEF Tally, Goto, At, Typed, TypeOK, Request
  <2> HIDE DEF r
  <2> QED BY <2>1, GoesOnKept
<1>4. CASE Answer(w)
  BY <1>4, AnswerKept
<1>5. CASE InsertRefused(w) \/ TallyRefused(w) \/ Rollback(w)
  BY <1>5, EndKept DEF InsertRefused, TallyRefused, Rollback
<1> QED BY <1>1, <1>2, <1>3, <1>4, <1>5 DEF Upload

LEMMA CorrectKept ==
  ASSUME Typed, Kept, NEW w \in Workers, Correct(w) PROVE Kept'
<1> DEFINE e == req[w].e
           s == req[w].s
<1>1. CASE LoadForEdit(w) \/ LoadForDelete(w) \/ LoadForReactivate(w)
  <2>1. PICK l \in {"assign", "reweigh", "deactivate", "restore"} : LoadEvent(w, l)
    BY <1>1 DEF LoadForEdit, LoadForDelete, LoadForReactivate
  <2>2. req[w].pc \in {"edit", "delete", "reactivate"}
    BY <1>1 DEF LoadForEdit, LoadForDelete, LoadForReactivate, At
  <2> DEFINE r == [req[w] EXCEPT !.pc = l, !.seen = event[e]]
  <2>3. /\ r.e = e /\ r.s = s /\ r.pc = l
        /\ req' = [req EXCEPT ![w] = r] /\ UNCHANGED <<event, outbox>>
    BY <2>1 DEF LoadEvent, Typed, TypeOK, Request
  <2>4. l \in CorrectionLabels
    BY DEF CorrectionLabels
  <2> HIDE DEF r
  <2> QED BY <2>2, <2>3, <2>4, GoesOnKept
<1>2. CASE NothingToDo(w)
  BY <1>2, EndKept DEF NothingToDo
<1>3. CASE Retotal(w) \/ Subtract(w) \/ AddBack(w)
  <2>1. req[w].pc \in CorrectionLabels
    BY <1>3 DEF Retotal, Subtract, AddBack, At, CorrectionLabels
  <2> QED BY <1>3, <2>1, SaveTotalsKept DEF Retotal, Subtract, AddBack
<1>4. CASE Reweigh(w) \/ Assign(w) \/ Deactivate(w) \/ Restore(w)
  <2>1. req[w].pc \in CorrectionLabels
    BY <1>4 DEF Reweigh, Assign, Deactivate, Restore, At, CorrectionLabels
  <2>2. event[e].state # "absent"
    BY <2>1 DEF Kept, Served, Grounded, Stored
  <2>3. {"retotal", "subtract", "addback"} \subseteq CorrectionLabels
    BY DEF CorrectionLabels
  <2>4. ASSUME NEW state \in {event[e].state, "active", "inactive"}, NEW g, NEW cause,
               NEW l \in {"idle", "retotal", "subtract", "addback"},
               SaveEvent(w, e, state, g, cause, l)
        PROVE  Kept'
    BY <2>1, <2>2, <2>3, <2>4, SaveEventKept
  <2>5. CASE Reweigh(w)
    BY <2>4, <2>5 DEF Reweigh
  <2>6. CASE Assign(w)
    BY <2>4, <2>6 DEF Assign
  <2>7. CASE Deactivate(w) \/ Restore(w)
    BY <2>4, <2>7 DEF Deactivate, Restore
  <2> QED BY <1>4, <2>5, <2>6, <2>7
<1> QED BY <1>1, <1>2, <1>3, <1>4 DEF Correct

LEMMA KeptStep == ASSUME Typed, Kept, [Next]_vars PROVE Kept'
<1>1. ASSUME NEW e \in Events, Capture(e) PROVE Kept'
  BY <1>1, CaptureKept
<1>2. ASSUME NEW e \in Events, Send(e) PROVE Kept'
  <2>1. PICK w \in Workers, l \in {"insert", "commit"} : Receive(w, e, l)
    BY <1>2 DEF Send, Post, PostBatch
  <2> QED BY <2>1, ReceiveKept
<1>3. ASSUME NEW w \in Workers, Arrive(w) PROVE Kept'
  <2>1. ASSUME NEW s \in Sessions, Create(w, s) \/ Close(w, s) \/ Cancel(w, s) PROVE Kept'
    BY <2>1, SessionArrivalKept
  <2>2. ASSUME NEW e \in Events, Edit(w, e) \/ Delete(w, e) \/ Reactivate(w, e) PROVE Kept'
    <3>1. PICK l \in {"edit", "delete", "reactivate"} : \E g : View(w, e, l, g)
      BY <2>2 DEF Edit, Delete, Reactivate
    <3> QED BY <3>1, ViewKept
  <2> QED BY <1>3, <2>1, <2>2 DEF Arrive
<1>4. ASSUME NEW w \in Workers, Step(w) \/ Crash(w) PROVE Kept'
  <2>1. CASE Upload(w)
    BY <2>1, UploadKept
  <2>2. CASE CreateSave(w) \/ EndSave(w) \/ Crash(w)
    BY <2>2, EndKept DEF CreateSave, EndSave, Crash
  <2>3. CASE Correct(w)
    BY <2>3, CorrectKept
  <2> QED BY <1>4, <2>1, <2>2, <2>3 DEF Step
<1>5. CASE UNCHANGED vars
  BY <1>5 DEF vars, Kept, Sent, Served, Grounded, Stored
<1> QED BY <1>1, <1>2, <1>3, <1>4, <1>5 DEF Next

\* In every reachable state requests are grounded in what was sent and stored.
THEOREM KeptAlways == Spec => []Kept
<1>1. Init => Kept
  BY IdleGrounded DEF Init, Kept, Sent, Served, Stored, NoEventRow, NoPayload
<1>2. Typed /\ Kept /\ [Next]_vars => Kept'
  BY KeptStep
<1> QED BY <1>1, <1>2, TypedAlways, PTL DEF Spec

\* An event the edge has dropped from its store after an answer is in the database,
\* under the session it was weighed with, and stays there whatever operators do.
THEOREM AckedKept == Spec => []AckedEventKept
<1>1. Kept => AckedEventKept
  <2>1. ASSUME Sent, NEW e \in Events, outbox[e].state = "acked"
        PROVE  Stored(e) /\ event[e].session = outbox[e].session
    BY <2>1 DEF Sent
  <2> QED BY <2>1 DEF Kept, AckedEventKept
<1> QED BY <1>1, KeptAlways, PTL

(***************************************************************************)
(* Closed sessions.  What a step does to the rows of sessions, and to the   *)
(* requests, is stated first: a session is written by a request for it, and *)
(* a request keeps its session and the row it has loaded until it ends.     *)
(***************************************************************************)
Writes(w) ==
  LET s == req[w].s IN
  /\ s \in Sessions /\ req'[w].pc # "create"
  /\ \A t \in Sessions \ {s} : session'[t] = session[t]
  /\ \/ session'[s].status = session[s].status
     \/ req[w].pc \in {"tally", "commit"}
          /\ session'[s].status = Tallied(req[w].row, 0).status
     \/ req[w].pc = "create" /\ session'[s].status = "pending"
     \/ req[w].pc \in {"complete", "cancel"} /\ session'[s].status \in Closed

LEMMA SaveTotalsWrites ==
  ASSUME Typed, NEW w \in Workers, req[w].s \in Sessions, NEW c, NEW t,
         NEW l \in {"idle", "assign"}, SaveTotals(w, c, t, l)
  PROVE  Writes(w)
<1>1. req'[w].pc # "create"
  BY IdleType DEF SaveTotals, Goto, Finish, Typed, TypeOK, Request
<1> QED BY <1>1 DEF SaveTotals, Writes, Typed, TypeOK, Row

LEMMA TallyWrites ==
  ASSUME Typed, NEW w \in Workers, Tally(w) \/ Commit(w)
  PROVE  UNCHANGED session \/ Writes(w)
<1> DEFINE s == req[w].s
           row == Tallied(req[w].row, outbox[req[w].e].weight)
<1>1. CASE UNCHANGED session
  BY <1>1
<1>2. CASE ~UNCHANGED session
  <2>1. /\ s \in Sessions /\ req[w].pc \in {"tally", "commit"}
        /\ session' = [session EXCEPT ![s] = row]
    BY <1>2 DEF Tally, Commit, At, Typed, TypeOK, Operands, SessionLabels, Request
  <2>2. row.status = Tallied(req[w].row, 0).status
    BY TalliedStatus
  <2> HIDE DEF row
  <2>3. session'[s].status = row.status /\ \A t \in Sessions \ {s} : session'[t] = session[t]
    BY <2>1 DEF Typed, TypeOK
  <2>4. req'[w].pc # "create"
    BY DEF Tally, Commit, Goto, Typed, TypeOK, Request
  <2> QED BY <2>1, <2>2, <2>3, <2>4 DEF Writes
<1> QED BY <1>1, <1>2

LEMMA SessionStep ==
  ASSUME Typed, [Next]_vars
  PROVE  UNCHANGED session \/ \E w \in Workers : Writes(w)
<1>1. CASE UNCHANGED session
  BY <1>1
<1>2. ASSUME NEW w \in Workers, Tally(w) \/ Commit(w) PROVE UNCHANGED session \/ Writes(w)
  BY <1>2, TallyWrites
<1>3. ASSUME NEW w \in Workers, CreateSave(w) \/ EndSave(w) PROVE UNCHANGED session \/ Writes(w)
  <2>1. req[w].s \in Sessions
    BY <1>3 DEF Typed, Operands, CreateSave, EndSave, At, SessionLabels
  <2>2. req'[w].pc # "create"
    BY <1>3, IdleType DEF CreateSave, EndSave, Finish, Typed, TypeOK
  <2> QED BY <1>3, <2>1, <2>2 DEF CreateSave, EndSave, At, Writes, Typed, TypeOK, Row, Closed
<1>4. ASSUME NEW w \in Workers, Retotal(w) \/ Subtract(w) \/ AddBack(w) PROVE Writes(w)
  <2>1. req[w].s \in Sessions
    BY <1>4 DEF Typed, Operands, Retotal, Subtract, AddBack, At, SessionLabels
  <2>2. \E c, t : \E l \in {"idle", "assign"} : SaveTotals(w, c, t, l)
    BY <1>4 DEF Retotal, Subtract, AddBack
  <2> QED BY <2>1, <2>2, SaveTotalsWrites
<1> QED
  BY <1>1, <1>2, <1>3, <1>4
  DEF Next, vars, Capture, Send, Post, PostBatch, Receive, Arrive, Create, Close, Cancel, End,
      Edit, Delete, Reactivate, View, Step, Upload, Correct, Crash, Insert, InsertRefused,
      TallyRefused, Rollback, Answer, LoadForEdit, LoadForDelete, LoadForReactivate, LoadEvent,
      NothingToDo, Reweigh, Assign, Deactivate, Restore, SaveEvent

\* A session that is being created is nobody else's yet, sessions that have a row keep
\* one, and an upload has loaded a row.
Born(s) == session[s].status # "none"

Fresh ==
  /\ \A e \in Events : outbox[e].session \in Sessions => Born(outbox[e].session)
  /\ \A w \in Workers :
       /\ req[w].pc = "create" =>
            ~Born(req[w].s) /\ \A v \in Workers \ {w} : req[v].s # req[w].s
       /\ req[w].pc \in {"insert", "tally", "commit"} /\ req[w].s \in Sessions =>
            req[w].row.status # "none"

\* The three ways a request can change: it begins, goes on, or ends.
Begins(w) ==
  LET r == req'[w] IN
  \/ r.pc = "create" /\ ~Born(r.s) /\ \A v \in Workers : req[v].s # r.s
  \/ /\ r.pc # "create"
     /\ r.s \in Sessions => Born(r.s)
     /\ r.pc \in {"insert", "tally", "commit"} /\ r.s \in Sessions => r.row.status # "none"

GoesOn(w) ==
  /\ req[w].pc # "create" /\ req'[w].pc # "create"
  /\ req'[w].s = req[w].s /\ req'[w].row = req[w].row
  /\ req'[w].pc \in {"insert", "tally", "commit"} =>
       req[w].pc \in {"insert", "tally", "commit"}

Changes(w) ==
  /\ \A v \in Workers \ {w} : req'[v] = req[v]
  /\ Begins(w) \/ GoesOn(w) \/ req'[w] = Idle

LEMMA ReceiveBegins ==
  ASSUME Typed, Fresh, NEW w \in Workers, NEW e \in Events, NEW l \in {"insert", "commit"},
         Receive(w, e, l)
  PROVE  Changes(w)
<1> DEFINE r == [Idle EXCEPT !.pc = FirstStep(e, l), !.e = e, !.s = outbox[e].session,
                             !.row = RowOf(outbox[e].session)]
<1>1. /\ r.pc # "create" /\ r.s = outbox[e].session /\ r.row = RowOf(r.s)
  BY DEF FirstStep, Idle
<1>2. req' = [req EXCEPT ![w] = r]
  BY DEF Receive, Begin
<1> HIDE DEF r
<1>3. req'[w] = r /\ \A v \in Workers \ {w} : req'[v] = req[v]
  BY <1>2 DEF Typed, TypeOK
<1>4. r.s \in Sessions => Born(r.s) /\ r.row.status # "none"
  BY <1>1, ConstantsOK DEF Fresh, Born, RowOf
<1> QED BY <1>1, <1>3, <1>4 DEF Changes, Begins

LEMMA ArriveBegins ==
  ASSUME Typed, Kept, Fresh, NEW w \in Workers, Arrive(w)
  PROVE  Changes(w)
<1>1. ASSUME NEW s \in Sessions, Create(w, s) PROVE Changes(w)
  <2> DEFINE r == [Idle EXCEPT !.pc = "create", !.s = s]
  <2>1. r.pc = "create" /\ r.s = s /\ ~Born(s) /\ \A v \in Workers : req[v].s # s
    BY <1>1 DEF Create, Idle, Born
  <2>2. req' = [req EXCEPT ![w] = r]
    BY <1>1 DEF Create, Begin
  <2> HIDE DEF r
  <2>3. req'[w] = r /\ \A v \in Workers \ {w} : req'[v] = req[v]
    BY <2>2 DEF Typed, TypeOK
  <2> QED BY <2>1, <2>3 DEF Changes, Begins
<1>2. ASSUME NEW s \in Sessions, NEW l \in {"complete", "cancel"}, End(w, s, l) PROVE Changes(w)
  <2> DEFINE r == [Idle EXCEPT !.pc = l, !.s = s]
  <2>1. r.pc = l /\ r.s = s /\ Born(s)
    BY <1>2 DEF End, Idle, Born, Open
  <2>2. req' = [req EXCEPT ![w] = r]
    BY <1>2 DEF End, Begin
  <2> HIDE DEF r
  <2>3. req'[w] = r /\ \A v \in Workers \ {w} : req'[v] = req[v]
    BY <2>2 DEF Typed, TypeOK
  <2> QED BY <2>1, <2>3 DEF Changes, Begins
<1>3. ASSUME NEW e \in Events, NEW l \in {"edit", "delete", "reactivate"}, NEW g, View(w, e, l, g)
      PROVE  Changes(w)
  <2> DEFINE r == [Idle EXCEPT !.pc = l, !.e = e, !.s = event[e].session,
                               !.row = session[event[e].session], !.new = g]
  <2>1. r.pc = l /\ r.s = event[e].session
    BY DEF Idle
  <2>2. req' = [req EXCEPT ![w] = r]
    BY <1>3 DEF View, Begin
  <2> HIDE DEF r
  <2>3. req'[w] = r /\ \A v \in Workers \ {w} : req'[v] = req[v]
    BY <2>2 DEF Typed, TypeOK
  <2>4. r.s \in Sessions => Born(r.s)
    BY <1>3, <2>1 DEF View, Kept, Sent, Fresh
  <2> QED BY <2>1, <2>3, <2>4 DEF Changes, Begins
<1> QED
  BY <1>1, <1>2, <1>3
  DEF Arrive, Close, Cancel, Edit, Delete, Reactivate

LEMMA GotoGoesOn ==
  ASSUME Typed, NEW w \in Workers, NEW l, Goto(w, l), req[w].pc # "create", l # "create",
         l \in {"insert", "tally", "commit"} => req[w].pc \in {"insert", "tally", "commit"}
  PROVE  Changes(w)
BY DEF Typed, TypeOK, Request, Goto, Changes, GoesOn

LEMMA FinishChanges ==
  ASSUME Typed, NEW w \in Workers, Finish(w) PROVE Changes(w)
BY DEF Typed, TypeOK, Finish, Changes

LEMMA SaveChanges ==
  ASSUME Typed, NEW w \in Workers, req[w].pc # "create",
         NEW l \in {"idle", "retotal", "assign", "subtract", "addback"},
         IF l = "idle" THEN Finish(w) ELSE Goto(w, l)
  PROVE  Changes(w)
BY FinishChanges, GotoGoesOn

LEMMA StepChanges ==
  ASSUME Typed, NEW w \in Workers, Step(w) \/ Crash(w) PROVE Changes(w)
<1>1. CASE Insert(w) \/ Tally(w) \/ Commit(w)
  <2>1. PICK l \in {"answer", "tally"} : Goto(w, l) /\ (l = "tally" => req[w].pc = "insert")
    BY <1>1 DEF Insert, Tally, Commit, At
  <2>2. req[w].pc \in {"insert", "tally", "commit"}
    BY <1>1 DEF Insert, Tally, Commit, At
  <2> QED BY <2>1, <2>2, GotoGoesOn
<1>2. CASE \/ InsertRefused(w) \/ TallyRefused(w) \/ Rollback(w) \/ Answer(w) \/ NothingToDo(w)
           \/ CreateSave(w) \/ EndSave(w) \/ Crash(w)
  BY <1>2, FinishChanges
  DEF InsertRefused, TallyRefused, Rollback, Answer, NothingToDo, CreateSave, EndSave, Crash
<1>3. CASE LoadForEdit(w) \/ LoadForDelete(w) \/ LoadForReactivate(w)
  <2>1. PICK l \in {"assign", "reweigh", "deactivate", "restore"} : LoadEvent(w, l)
    BY <1>3 DEF LoadForEdit, LoadForDelete, LoadForReactivate
  <2>2. req[w].pc # "create"
    BY <1>3 DEF LoadForEdit, LoadForDelete, LoadForReactivate, At
  <2> QED BY <2>1, <2>2 DEF LoadEvent, Typed, TypeOK, Request, Changes, GoesOn
<1>4. CASE \/ Reweigh(w) \/ Retotal(w) \/ Assign(w) \/ Deactivate(w) \/ Subtract(w)
           \/ Restore(w) \/ AddBack(w)
  <2>1. req[w].pc # "create"
    BY <1>4 DEF Reweigh, Retotal, Assign, Deactivate, Subtract, Restore, AddBack, At
  <2>2. \E l \in {"idle", "retotal", "assign", "subtract", "addback"} :
          IF l = "idle" THEN Finish(w) ELSE Goto(w, l)
    BY <1>4 DEF Reweigh, Retotal, Assign, Deactivate, Subtract, Restore, AddBack,
       SaveEvent, SaveTotals
  <2> QED BY <2>1, <2>2, SaveChanges
<1> QED BY <1>1, <1>2, <1>3, <1>4 DEF Step, Upload, Correct

LEMMA RequestStep ==
  ASSUME Typed, Kept, Fresh, [Next]_vars
  PROVE  UNCHANGED req \/ \E w \in Workers : Changes(w)
<1>1. ASSUME NEW e \in Events, Capture(e) PROVE UNCHANGED req
  BY <1>1 DEF Capture
<1>2. ASSUME NEW e \in Events, Send(e) PROVE \E w \in Workers : Changes(w)
  <2>1. PICK w \in Workers, l \in {"insert", "commit"} : Receive(w, e, l)
    BY <1>2 DEF Send, Post, PostBatch
  <2> QED BY <2>1, ReceiveBegins
<1> QED BY <1>1, <1>2, ArriveBegins, StepChanges DEF Next, vars

\* No step takes a session's row away: it writes a status a row has.
LEMMA BornKept ==
  ASSUME Typed, Fresh, [Next]_vars, NEW s \in Sessions, Born(s) PROVE Born(s)'
<1>1. CASE UNCHANGED session
  BY <1>1 DEF Born
<1>2. ASSUME NEW w \in Workers, Writes(w) PROVE Born(s)'
  <2>1. CASE s # req[w].s
    BY <1>2, <2>1 DEF Writes, Born
  <2>2. CASE s = req[w].s
    BY <1>2, <2>2 DEF Writes, Born, Fresh, Tallied, Closed
  <2> QED BY <2>1, <2>2
<1> QED BY <1>1, <1>2, SessionStep

\* The row of a session that another request creates stays absent.
LEMMA UnbornKept ==
  ASSUME Typed, [Next]_vars, NEW s \in Sessions, ~Born(s),
         \A v \in Workers : req[v].s # s
  PROVE  ~Born(s)'
<1>1. CASE UNCHANGED session
  BY <1>1 DEF Born
<1>2. ASSUME NEW w \in Workers, Writes(w) PROVE ~Born(s)'
  BY <1>2 DEF Writes, Born
<1> QED BY <1>1, <1>2, SessionStep

\* The edge takes its session from an open one.
LEMMA OutboxBorn ==
  ASSUME Typed, Fresh, [Next]_vars, NEW e \in Events, outbox'[e].session \in Sessions
  PROVE  Born(outbox'[e].session)
<1>1. CASE outbox'[e].session = outbox[e].session
  BY <1>1 DEF Fresh
<1>2. ASSUME NEW d \in Events, Capture(d) PROVE Born(outbox'[e].session)
  <2>1. CASE e = d
    BY <1>2, <2>1, ConstantsOK DEF Capture, Typed, TypeOK, Born, Open
  <2>2. CASE e # d
    BY <1>1, <1>2, <2>2 DEF Capture, Typed, TypeOK
  <2> QED BY <2>1, <2>2
<1>3. ASSUME NEW w \in Workers, Answer(w) PROVE outbox'[e].session = outbox[e].session
  BY <1>3 DEF Answer, Typed, TypeOK, Payload
<1>4. ASSUME NEW w \in Workers, NEW d \in Events, Post(w, d) \/ PostBatch(w, d)
      PROVE  UNCHANGED outbox
  BY <1>4 DEF Post, PostBatch, Receive
<1>5. ASSUME NEW w \in Workers, Arrive(w) PROVE UNCHANGED outbox
  BY <1>5 DEF Arrive, Create, Close, Cancel, End, Edit, Delete, Reactivate, View
<1>6. ASSUME NEW w \in Workers, Upload(w) PROVE Answer(w) \/ UNCHANGED outbox
  BY <1>6 DEF Upload, Insert, InsertRefused, Tally, TallyRefused, Commit, Rollback
<1>7. ASSUME NEW w \in Workers, CreateSave(w) \/ EndSave(w) \/ Crash(w) PROVE UNCHANGED outbox
  BY <1>7 DEF CreateSave, EndSave, Crash
<1>8. ASSUME NEW w \in Workers, Correct(w) PROVE UNCHANGED outbox
  BY <1>8 DEF Correct, LoadForEdit, LoadForDelete, LoadForReactivate, LoadEvent, NothingToDo,
     Reweigh, Retotal, Assign, Deactivate, Subtract, Restore, AddBack, SaveEvent, SaveTotals
<1>9. \/ \E d \in Events : Capture(d)
      \/ \E w \in Workers : Answer(w)
      \/ UNCHANGED outbox
  BY <1>4, <1>5, <1>6, <1>7, <1>8 DEF Next, vars, Send, Step
<1> QED BY <1>1, <1>2, <1>3, <1>9

\* A session that is being created: no other request can have come to hold it.
LEMMA CreatorAlone ==
  ASSUME Typed, Typed', Kept, Fresh, [Next]_vars, NEW v \in Workers, req'[v].pc = "create"
  PROVE  ~Born(req[v].s)' /\ \A u \in Workers \ {v} : req'[u].s # req'[v].s
<1>1. PICK s \in Sessions : s = req'[v].s
  BY DEF Typed, Operands, SessionLabels
<1>2. CASE req'[v] = req[v]
  <2>1. ~Born(s) /\ \A u \in Workers \ {v} : req[u].s # s
    BY <1>1, <1>2 DEF Fresh
  <2>2. ~Born(s)'
    <3>1. ASSUME NEW w \in Workers, Writes(w) PROVE session'[s] = session[s]
      BY <1>1, <1>2, <2>1, <3>1 DEF Writes
    <3> QED BY <2>1, <3>1, SessionStep DEF Born
  <2>3. ASSUME NEW u \in Workers \ {v}, NEW w \in Workers, Changes(w) PROVE req'[u].s # s
    <3>1. CASE u # w
      BY <2>1, <2>3, <3>1 DEF Changes
    <3>2. CASE u = w /\ Begins(w)
      BY <1>1, <1>2, <2>1, <3>2 DEF Begins
    <3>3. CASE u = w /\ GoesOn(w)
      BY <2>1, <3>3 DEF GoesOn
    <3>4. CASE u = w /\ req'[w] = Idle
      BY <1>1, <3>4, ConstantsOK DEF Idle
    <3> QED BY <2>3, <3>1, <3>2, <3>3, <3>4 DEF Changes
  <2> QED BY <1>1, <2>1, <2>2, <2>3, RequestStep DEF Born
<1>3. CASE req'[v] # req[v]
  <2>1. PICK w \in Workers : Changes(w)
    BY <1>3, RequestStep
  <2>2. v = w /\ Begins(w)
    BY <1>3, <2>1, IdleType DEF Changes, GoesOn
  <2>3. ~Born(s) /\ \A u \in Workers : req[u].s # s
    BY <1>1, <2>2 DEF Begins
  <2>4. ~Born(s)'
    BY <2>3, UnbornKept
  <2> QED BY <1>1, <2>1, <2>2, <2>3, <2>4 DEF Changes, Born
<1> QED BY <1>2, <1>3

LEMMA FreshStep == ASSUME Typed, Typed', Kept, Fresh, [Next]_vars PROVE Fresh'
<1>1. ASSUME NEW e \in Events, outbox'[e].session \in Sessions PROVE Born(outbox[e].session)'
  <2>1. PICK s \in Sessions : s = outbox'[e].session
    BY <1>1
  <2>2. Born(s)
    BY <1>1, <2>1, OutboxBorn
  <2>3. Born(s)'
    BY <2>2, BornKept
  <2> QED BY <2>1, <2>3 DEF Born
<1>2. ASSUME NEW v \in Workers,
             req'[v].pc \in {"insert", "tally", "commit"}, req'[v].s \in Sessions
      PROVE  req'[v].row.status # "none"
  <2>1. CASE req'[v] = req[v]
    BY <1>2, <2>1 DEF Fresh
  <2>2. CASE req'[v] # req[v]
    <3>1. PICK w \in Workers : Changes(w)
      BY <2>2, RequestStep
    <3>2. v = w /\ (Begins(w) \/ GoesOn(w))
      BY <1>2, <2>2, <3>1, IdleType DEF Changes
    <3> QED BY <1>2, <3>2 DEF Begins, GoesOn, Fresh
  <2> QED BY <2>1, <2>2
<1> QED BY <1>1, <1>2, CreatorAlone DEF Fresh

\* In every reachable state a row an upload has loaded can only have gone out of date.
THEOREM FreshAlways == Spec => []Fresh
<1>1. Init => Fresh
  BY IdleType, ConstantsOK DEF Init, Fresh, NoPayload
<1>2. Typed /\ Typed' /\ Kept /\ Fresh /\ [Next]_vars => Fresh'
  BY FreshStep
<1> QED BY <1>1, <1>2, TypedAlways, KeptAlways, PTL DEF Spec

LEMMA ReopenedStep ==
  ASSUME Typed, Fresh, [Next]_vars, NEW s \in Sessions,
         session[s].status \in Closed, session'[s].status \in Open
  PROVE  \E w \in Workers : /\ req[w].s = s /\ req[w].row.status \in Open
                            /\ req[w].pc \in {"tally", "commit"}
<1>1. PICK w \in Workers : Writes(w)
  BY SessionStep DEF Open, Closed
<1>2. req[w].s = s /\ session'[s].status # session[s].status
  BY <1>1 DEF Writes, Open, Closed
<1>3. req[w].pc # "create"
  BY <1>2 DEF Fresh, Born, Closed
<1>4. req[w].pc \in {"tally", "commit"} /\ session'[s].status = Tallied(req[w].row, 0).status
  BY <1>1, <1>2, <1>3 DEF Writes, Open, Closed
<1> QED BY <1>2, <1>4, TalliedStatus

\* Nothing but a tally of an upload that had loaded the session while it was open makes
\* a closed session open again: not a creation, a correction, a retry or a second close.
THEOREM ReopenedByStaleTally == Spec => ReopenedOnlyByStaleTally
<1>1. Typed /\ Fresh /\ [Next]_vars =>
        [\A s \in Sessions :
           session[s].status \in Closed /\ session'[s].status \in Open
             => \E w \in Workers : /\ req[w].s = s /\ req[w].row.status \in Open
                                   /\ req[w].pc \in {"tally", "commit"}]_vars
  BY ReopenedStep
<1> QED BY <1>1, TypedAlways, FreshAlways, PTL DEF Spec, ReopenedOnlyByStaleTally

(***************************************************************************)
(* A session never counts more than was weighed for it.  A row that an      *)
(* upload has loaded counts at most the events stored by then; the tally    *)
(* adds one, and by then the upload's own event is one more.                *)
(***************************************************************************)
Stock(s) == Cardinality(EventsOf(s))

Room(r) ==
  /\ r.pc \notin CorrectionLabels \cup {"edit", "delete", "reactivate"}
  /\ r.s \in Sessions /\ r.pc \in {"insert", "commit"} => r.row.count <= Stock(r.s)
  /\ r.s \in Sessions /\ r.pc = "tally" => r.row.count + 1 <= Stock(r.s)

Counted ==
  edits = 0 => /\ \A s \in Sessions : session[s].count <= Stock(s)
               /\ \A w \in Workers : Room(req[w])

LEMMA StockType == ASSUME NEW s PROVE IsFiniteSet(EventsOf(s)) /\ Stock(s) \in Nat
<1>1. EventsOf(s) \subseteq Events
  BY DEF EventsOf
<1>2. IsFiniteSet(EventsOf(s))
  BY <1>1, ConstantsOK, FS_Subset
<1> QED BY <1>2, FS_CardinalityType DEF Stock

\* A step that stores no event leaves the stock of every session.
LEMMA StockSame == ASSUME UNCHANGED event, NEW s PROVE Stock(s)' = Stock(s)
BY DEF Stock, EventsOf, Stored

\* A step that stores an event adds one to its session's, and takes from none.
LEMMA StockMore ==
  ASSUME Typed, NEW e \in Events, ~Stored(e), event[e].session = NoSession,
         event' = [event EXCEPT ![e] = NewEvent(e)], NEW s \in Sessions
  PROVE  Stock(s)' = IF outbox[e].session = s THEN Stock(s) + 1 ELSE Stock(s)
<1>1. /\ event'[e].state = "active" /\ event'[e].session = outbox[e].session
      /\ \A d \in Events \ {e} : event'[d] = event[d]
  BY DEF NewEvent, Typed, TypeOK
<1>2. CASE outbox[e].session = s
  <2>1. EventsOf(s)' = EventsOf(s) \cup {e} /\ e \notin EventsOf(s)
    BY <1>1, <1>2 DEF EventsOf, Stored
  <2>2. Cardinality(EventsOf(s) \cup {e}) = Cardinality(EventsOf(s)) + 1
    BY <2>1, StockType, FS_AddElement
  <2> QED BY <1>2, <2>1, <2>2 DEF Stock
<1>3. CASE outbox[e].session # s
  <2>1. EventsOf(s)' = EventsOf(s)
    BY <1>1, <1>3, ConstantsOK DEF EventsOf, Stored
  <2> QED BY <1>3, <2>1, StockType DEF Stock
<1> QED BY <1>2, <1>3

\* A step of one request that stores no event.
LEMMA RoomKept ==
  ASSUME Typed, UNCHANGED event, \A v \in Workers : Room(req[v]),
         NEW w \in Workers, NEW r, Room(r), req' = [req EXCEPT ![w] = r],
         \A s \in Sessions : session'[s].count <= Stock(s)
  PROVE  Counted'
<1>1. ASSUME NEW v \in Workers PROVE Room(req[v])'
  <2>1. Room(req'[v])
    BY DEF Typed, TypeOK
  <2> QED BY <2>1, StockSame DEF Room
<1>2. ASSUME NEW s \in Sessions PROVE session'[s].count <= Stock(s)'
  BY StockSame
<1> QED BY <1>1, <1>2 DEF Counted

LEMMA IdleRoom == Room(Idle)
<1>1. Idle.pc \notin CorrectionLabels \cup {"edit", "delete", "reactivate", "insert", "commit", "tally"}
  BY IdleType DEF CorrectionLabels
<1> QED BY <1>1 DEF Room

LEMMA ReceiveCounted ==
  ASSUME Typed, Counted, edits = 0, NEW w \in Workers, NEW e \in Events,
         NEW l \in {"insert", "commit"}, Receive(w, e, l)
  PROVE  Counted'
<1> DEFINE r == [Idle EXCEPT !.pc = FirstStep(e, l), !.e = e, !.s = outbox[e].session,
                             !.row = RowOf(outbox[e].session)]
<1>1. r.pc \in {"insert", "commit", "answer"} /\ r.s = outbox[e].session /\ r.row = RowOf(r.s)
  BY DEF FirstStep, Idle
<1>2. req' = [req EXCEPT ![w] = r] /\ UNCHANGED <<session, event>>
  BY DEF Receive, Begin
<1> HIDE DEF r
<1>3. r.s \in Sessions => r.row.count <= Stock(r.s)
  BY <1>1, ConstantsOK DEF Counted, RowOf
<1>4. Room(r)
  BY <1>1, <1>3 DEF Room, CorrectionLabels
<1> QED BY <1>2, <1>4, RoomKept DEF Counted

\* The write of an event, with or without the tally in the same transaction.
LEMMA StoreCounted ==
  ASSUME Typed, Kept, Counted, edits = 0, NEW w \in Workers, Insert(w) \/ Commit(w)
  PROVE  Counted'
<1> DEFINE e == req[w].e
           s == req[w].s
<1>1. /\ e \in Events /\ ~Stored(e) /\ event[e].session = NoSession /\ s = outbox[e].session
      /\ event' = [event EXCEPT ![e] = NewEvent(e)]
  BY DEF Insert, Commit, CanCommit, At, Typed, Operands, EventLabels, Kept, Sent, Served,
     Grounded, UploadLabels
<1>2. ASSUME NEW t \in Sessions
      PROVE  /\ Stock(t) \in Nat /\ Stock(t)' \in Nat /\ Stock(t) <= Stock(t)'
             /\ t = s => Stock(t)' = Stock(t) + 1
             /\ session[t].count \in Nat
  <2>1. Stock(t) \in Nat
    BY StockType
  <2>2. Stock(t)' = IF outbox[e].session = t THEN Stock(t) + 1 ELSE Stock(t)
    BY <1>1, StockMore
  <2>3. session[t].count \in Nat
    BY DEF Typed, TypeOK, Row
  <2> HIDE DEF s
  <2> QED BY <1>1, <2>1, <2>2, <2>3
<1>3. req[w].row.count \in Nat /\ s \in Sessions \cup {NoSession} /\ req[w] \in Request
  BY DEF Typed, TypeOK, Request, Row
<1>4. ASSUME NEW v \in Workers PROVE Room(req[v])'
  <2>1. Room(req[v]) /\ req[v].row.count \in Nat
    BY DEF Counted, Typed, TypeOK, Request, Row
  <2>2. CASE v # w
    <3>1. req'[v] = req[v]
      BY <2>2 DEF Insert, Commit, Goto, Typed, TypeOK
    <3> QED BY <1>2, <2>1, <3>1 DEF Room
  <2>3. CASE v = w
    <3>1. /\ req'[v].s = s /\ req'[v].row = req[w].row
          /\ req'[v].pc \in {"answer", "tally"}
          /\ req[w].pc \in {"insert", "commit"}
      BY <1>3, <2>3 DEF Insert, Commit, At, Goto, Typed, TypeOK, Request
    <3> QED BY <1>2, <1>3, <2>1, <2>3, <3>1 DEF Room, CorrectionLabels
  <2> QED BY <2>2, <2>3
<1>5. ASSUME NEW t \in Sessions PROVE session'[t].count <= Stock(t)'
  <2>1. CASE session'[t] = session[t]
    BY <1>2, <2>1 DEF Counted
  <2>2. CASE session'[t] # session[t]
    <3>1. t = s /\ session'[t].count = req[w].row.count + 1 /\ req[w].pc = "commit"
      BY <1>3, <2>2 DEF Insert, Commit, At, Tallied, Typed, TypeOK
    <3> QED BY <1>2, <1>3, <3>1 DEF Counted, Room
  <2> QED BY <2>1, <2>2
<1> QED BY <1>4, <1>5 DEF Counted

LEMMA TallyCounted ==
  ASSUME Typed, Counted, edits = 0, NEW w \in Workers, Tally(w) PROVE Counted'
<1> DEFINE s == req[w].s
           r == [req[w] EXCEPT !.pc = "answer"]
           row == Tallied(req[w].row, outbox[req[w].e].weight)
<1>1. /\ s \in Sessions /\ session' = [session EXCEPT ![s] = row]
      /\ row.count = req[w].row.count + 1 /\ req[w].pc = "tally"
      /\ req' = [req EXCEPT ![w] = r] /\ UNCHANGED event
  BY DEF Tally, At, Goto, Tallied, Typed, Operands, SessionLabels
<1>2. r.pc = "answer"
  BY DEF Typed, TypeOK, Request
<1>3. Room(r)
  BY <1>2 DEF Room, CorrectionLabels
<1>4. row.count <= Stock(s)
  BY <1>1 DEF Counted, Room
<1> HIDE DEF s, r, row
<1>5. \A t \in Sessions : session'[t].count <= Stock(t)
  BY <1>1, <1>4 DEF Counted, Typed, TypeOK
<1> QED BY <1>1, <1>3, <1>5, RoomKept DEF Counted

\* A request ends; it may have written the status of a session.
LEMMA EndCounted ==
  ASSUME Typed, Counted, edits = 0, NEW w \in Workers, Finish(w), UNCHANGED event,
         \A s \in Sessions : session'[s].count = session[s].count
  PROVE  Counted'
<1>1. \A s \in Sessions : session'[s].count <= Stock(s)
  BY DEF Counted
<1> QED BY <1>1, IdleRoom, RoomKept DEF Counted, Finish

LEMMA SessionArrivalCounted ==
  ASSUME Typed, Counted, edits = 0, NEW w \in Workers, NEW s \in Sessions,
         Create(w, s) \/ Close(w, s) \/ Cancel(w, s)
  PROVE  Counted'
<1>1. PICK l \in {"create", "complete", "cancel"} : Begin(w, [Idle EXCEPT !.pc = l, !.s = s])
  BY DEF Create, Close, Cancel, End
<1> DEFINE r == [Idle EXCEPT !.pc = l, !.s = s]
<1>2. Room(r)
  <2>1. r.pc = l
    BY DEF Idle
  <2> QED BY <2>1 DEF Room, CorrectionLabels
<1>3. req' = [req EXCEPT ![w] = r] /\ UNCHANGED <<session, event>>
  BY <1>1 DEF Begin, Create, Close, Cancel, End
<1> HIDE DEF r
<1> QED BY <1>2, <1>3, RoomKept DEF Counted

\* No request is in a correction while none has been made.
LEMMA NoCorrection ==
  ASSUME Counted, edits = 0, NEW w \in Workers, Correct(w) PROVE FALSE
<1>1. Room(req[w])
  BY DEF Counted
<1> QED BY <1>1 DEF Room, CorrectionLabels, Correct, LoadForEdit, LoadForDelete,
   LoadForReactivate, NothingToDo, Reweigh, Retotal, Assign, Deactivate, Subtract, Restore,
   AddBack, At

\* A step that leaves no correction made was taken when none had been made.
LEMMA EditsGrow ==
  ASSUME Typed, [Next]_vars, edits' = 0
  PROVE  edits = 0 /\ \A w \in Workers, e \in Events : ~(Edit(w, e) \/ Delete(w, e) \/ Reactivate(w, e))
<1>1. ASSUME NEW w \in Workers, NEW e \in Events, Edit(w, e) \/ Delete(w, e) \/ Reactivate(w, e)
      PROVE  edits' = edits + 1
  BY <1>1 DEF Edit, Delete, Reactivate, View
<1>2. edits' = edits \/ edits' = edits + 1
  <2>1. ASSUME NEW w \in Workers, Arrive(w) PROVE edits' = edits \/ edits' = edits + 1
    BY <1>1, <2>1 DEF Arrive, Create, Close, Cancel, End
  <2>2. ASSUME NEW w \in Workers, Upload(w) \/ CreateSave(w) \/ EndSave(w) \/ Crash(w)
        PROVE  edits' = edits
    BY <2>2 DEF Upload, Insert, InsertRefused, Tally, TallyRefused, Commit, Rollback, Answer,
       CreateSave, EndSave, Crash
  <2>3. ASSUME NEW w \in Workers, Correct(w) PROVE edits' = edits
    BY <2>3 DEF Correct, LoadForEdit, LoadForDelete, LoadForReactivate, LoadEvent, NothingToDo,
       Reweigh, Retotal, Assign, Deactivate, Subtract, Restore, AddBack, SaveEvent, SaveTotals
  <2>4. ASSUME NEW e \in Events, Capture(e) \/ Send(e) PROVE edits' = edits
    BY <2>4 DEF Capture, Send, Post, PostBatch, Receive
  <2> QED BY <2>1, <2>2, <2>3, <2>4 DEF Next, vars, Step
<1> QED BY <1>1, <1>2 DEF Typed, TypeOK

LEMMA CountedStep == ASSUME Typed, Kept, Counted, [Next]_vars PROVE Counted'
<1> SUFFICES ASSUME edits' = 0 PROVE Counted'
  BY DEF Counted
<1>0. edits = 0
  BY EditsGrow
<1>1. ASSUME NEW e \in Events, Capture(e) PROVE Counted'
  BY <1>0, <1>1, StockSame DEF Capture, Counted, Room
<1>2. ASSUME NEW e \in Events, Send(e) PROVE Counted'
  <2>1. PICK w \in Workers, l \in {"insert", "commit"} : Receive(w, e, l)
    BY <1>2 DEF Send, Post, PostBatch
  <2> QED BY <1>0, <2>1, ReceiveCounted
<1>3. ASSUME NEW w \in Workers, Arrive(w) PROVE Counted'
  BY <1>0, <1>3, SessionArrivalCounted, EditsGrow DEF Arrive
<1>4. ASSUME NEW w \in Workers, Upload(w) PROVE Counted'
  <2>1. CASE Insert(w) \/ Commit(w)
    BY <1>0, <2>1, StoreCounted
  <2>2. CASE Tally(w)
    BY <1>0, <2>2, TallyCounted
  <2>3. CASE InsertRefused(w) \/ TallyRefused(w) \/ Rollback(w) \/ Answer(w)
    BY <1>0, <2>3, EndCounted DEF InsertRefused, TallyRefused, Rollback, Answer
  <2> QED BY <1>4, <2>1, <2>2, <2>3 DEF Upload
<1>5. ASSUME NEW w \in Workers, CreateSave(w) \/ EndSave(w) \/ Crash(w) PROVE Counted'
  <2>1. \A s \in Sessions : session'[s].count = session[s].count
    BY <1>5 DEF CreateSave, EndSave, Crash, Typed, TypeOK, Row
  <2> QED BY <1>0, <1>5, <2>1, EndCounted DEF CreateSave, EndSave, Crash
<1>6. ASSUME NEW w \in Workers, Correct(w) PROVE Counted'
  BY <1>0, <1>6, NoCorrection
<1>7. CASE UNCHANGED vars
  BY <1>7, StockSame DEF vars, Counted, Room
<1> QED BY <1>1, <1>2, <1>3, <1>4, <1>5, <1>6, <1>7 DEF Next, Step

\* Retries, crashes, refused saves and updates lost between workers never make a session
\* report more events than were stored for it, until somebody corrects events.
THEOREM CountBounded == Spec => []CountNeverExceedsEvents
<1>1. Init => Counted
  <2>1. ASSUME NEW s PROVE 0 <= Stock(s)
    BY StockType
  <2> QED BY <2>1, IdleRoom DEF Init, Counted, NoRow
<1>2. Typed /\ Kept /\ Counted /\ [Next]_vars => Counted'
  BY CountedStep
<1>3. Counted => CountNeverExceedsEvents
  BY DEF Counted, CountNeverExceedsEvents, Stock
<1> QED BY <1>1, <1>2, <1>3, TypedAlways, KeptAlways, PTL DEF Spec
(***************************************************************************)
(* Refinement.  The writes of events and of the edge's store are, step by   *)
(* step, those of EventLedger; every other step leaves the ledger alone.    *)
(***************************************************************************)
LEMMA WeighStep ==
  ASSUME Typed, Kept, NEW e \in Events, Capture(e) PROVE Ledger!Next
<1>1. PICK s \in Sessions \cup {NoSession} :
        /\ UNCHANGED event
        /\ outbox'[e].state = "queued" /\ outbox'[e].session = s
        /\ \A d \in Events \ {e} : outbox'[d] = outbox[d]
  BY DEF Capture, Typed, TypeOK
<1>2. outbox[e].state = "none" /\ UNCHANGED <<Recorded, Acknowledged>>
  BY <1>1 DEF Capture, Recorded, Acknowledged, Stored
<1>3. Weighed' = Weighed \cup {<<e, s>>}
  BY <1>1, <1>2 DEF Weighed
<1>4. \A q \in Weighed : q[1] # e
  BY <1>2 DEF Weighed
<1>5. Ledger!Weigh(<<e, s>>)
  BY <1>2, <1>3, <1>4 DEF Ledger!Weigh
<1> QED BY <1>5 DEF Ledger!Next, Ledger!Entries

LEMMA RecordStep ==
  ASSUME Typed, Kept, NEW w \in Workers, req[w].pc \in {"insert", "commit"},
         ~Stored(req[w].e), UNCHANGED outbox,
         event' = [event EXCEPT ![req[w].e] = NewEvent(req[w].e)]
  PROVE  Ledger!Next
<1> DEFINE e == req[w].e
           s == outbox[e].session
<1>1. e \in Events /\ outbox[e].state # "none" /\ s \in Sessions \cup {NoSession}
  BY DEF Typed, TypeOK, Operands, EventLabels, Kept, Served, Grounded, UploadLabels, Payload
<1>2. /\ event'[e].state = "active" /\ event'[e].session = s
      /\ \A d \in Events \ {e} : event'[d] = event[d]
  BY <1>1 DEF Typed, TypeOK, NewEvent
<1>3. UNCHANGED <<Weighed, Acknowledged>> /\ <<e, s>> \in Weighed
  BY <1>1 DEF Weighed, Acknowledged
<1>4. Recorded' = Recorded \cup {<<e, s>>} /\ <<e, s>> \notin Recorded
  BY <1>1, <1>2 DEF Recorded, Stored
<1>5. Ledger!Record(<<e, s>>)
  BY <1>3, <1>4 DEF Ledger!Record
<1> QED BY <1>1, <1>5 DEF Ledger!Next, Ledger!Entries

LEMMA AcknowledgeStep ==
  ASSUME Typed, Kept, NEW w \in Workers, Answer(w)
  PROVE  Ledger!Next \/ UNCHANGED <<Weighed, Recorded, Acknowledged>>
<1> DEFINE e == req[w].e
           s == outbox[e].session
<1>1. /\ e \in Events /\ Stored(e) /\ outbox[e].state # "none"
      /\ s \in Sessions \cup {NoSession} /\ event[e].session = s
  BY DEF Answer, At, Typed, TypeOK, Operands, EventLabels, Kept, Sent, Served, Grounded,
     UploadLabels, Payload
<1>2. /\ UNCHANGED event /\ outbox'[e].state = "acked" /\ outbox'[e].session = s
      /\ \A d \in Events \ {e} : outbox'[d] = outbox[d]
  BY <1>1 DEF Answer, Typed, TypeOK, Payload
<1>3. UNCHANGED <<Weighed, Recorded>> /\ <<e, s>> \in Recorded
  BY <1>1, <1>2 DEF Weighed, Recorded, Stored
<1>4. Acknowledged' = Acknowledged \cup {<<e, s>>}
  BY <1>1, <1>2 DEF Acknowledged
<1>5. CASE <<e, s>> \in Acknowledged
  BY <1>3, <1>4, <1>5
<1>6. CASE <<e, s>> \notin Acknowledged
  <2>1. Ledger!Acknowledge(<<e, s>>)
    BY <1>3, <1>4, <1>6 DEF Ledger!Acknowledge
  <2> QED BY <1>1, <2>1 DEF Ledger!Next, Ledger!Entries
<1> QED BY <1>5, <1>6

\* A correction leaves the event stored, and in its session.
LEMMA CorrectionStutters ==
  ASSUME Typed, Kept, NEW w \in Workers, req[w].pc \in CorrectionLabels,
         NEW state, state # "absent", NEW g, NEW cause, NEW l,
         SaveEvent(w, req[w].e, state, g, cause, l)
  PROVE  UNCHANGED <<Weighed, Recorded, Acknowledged>>
<1> DEFINE e == req[w].e
<1>1. e \in Events /\ Stored(e)
  BY DEF Typed, Operands, EventLabels, CorrectionLabels, Kept, Served, Grounded
<1>2. /\ UNCHANGED outbox /\ event'[e].state = state /\ event'[e].session = event[e].session
      /\ \A d \in Events \ {e} : event'[d] = event[d]
  BY <1>1 DEF SaveEvent, Typed, TypeOK, EventRow
<1>3. UNCHANGED <<Weighed, Acknowledged>>
  BY <1>2 DEF Weighed, Acknowledged
<1>4. \A d \in Events : event'[d].session = event[d].session /\ (Stored(d)' <=> Stored(d))
  BY <1>1, <1>2 DEF Stored
<1>5. UNCHANGED Recorded
  BY <1>4 DEF Recorded
<1> QED BY <1>3, <1>5

LEMMA QuietStutters ==
  ASSUME UNCHANGED <<event, outbox>> PROVE UNCHANGED <<Weighed, Recorded, Acknowledged>>
BY DEF Weighed, Recorded, Acknowledged, Stored

LEMMA LedgerStep ==
  ASSUME Typed, Kept, [Next]_vars
  PROVE  [Ledger!Next]_<<Weighed, Recorded, Acknowledged>>
<1> DEFINE Same == UNCHANGED <<event, outbox>>
           Goal == [Ledger!Next]_<<Weighed, Recorded, Acknowledged>>
<1> SUFFICES Goal OBVIOUS
<1>1. ASSUME NEW e \in Events, Capture(e) PROVE Goal
  BY <1>1, WeighStep
<1>2. ASSUME NEW e \in Events, Send(e) PROVE Same
  BY <1>2 DEF Send, Post, PostBatch, Receive
<1>3. ASSUME NEW w \in Workers, Arrive(w) PROVE Same
  BY <1>3 DEF Arrive, Create, Close, Cancel, End, Edit, Delete, Reactivate, View
<1>4. ASSUME NEW w \in Workers, Upload(w) PROVE Goal
  <2>1. CASE Insert(w)
    BY <2>1, RecordStep DEF Insert, At
  <2>2. CASE Commit(w)
    <3>1. /\ event' = [event EXCEPT ![req[w].e] = NewEvent(req[w].e)] /\ UNCHANGED outbox
          /\ req[w].pc = "commit" /\ ~Stored(req[w].e)
      BY <2>2 DEF Commit, CanCommit, At
    <3> QED BY <3>1, RecordStep
  <2>3. CASE Answer(w)
    BY <2>3, AcknowledgeStep
  <2>4. CASE InsertRefused(w) \/ Tally(w) \/ TallyRefused(w) \/ Rollback(w)
    <3>1. Same
      BY <2>4 DEF InsertRefused, Tally, TallyRefused, Rollback
    <3> QED BY <3>1, QuietStutters
  <2> QED BY <1>4, <2>1, <2>2, <2>3, <2>4 DEF Upload
<1>5. ASSUME NEW w \in Workers, Correct(w) PROVE Goal
  <2>1. CASE Reweigh(w) \/ Assign(w) \/ Deactivate(w) \/ Restore(w)
    <3>1. req[w].pc \in CorrectionLabels
      BY <2>1 DEF Reweigh, Assign, Deactivate, Restore, At, CorrectionLabels
    <3>2. event[req[w].e].state # "absent"
      BY <3>1 DEF Kept, Served, Grounded, Stored
    <3>3. \E state, g, cause, l : state # "absent" /\ SaveEvent(w, req[w].e, state, g, cause, l)
      BY <2>1, <3>2 DEF Reweigh, Assign, Deactivate, Restore
    <3> QED BY <3>1, <3>3, CorrectionStutters
  <2>2. CASE ~(Reweigh(w) \/ Assign(w) \/ Deactivate(w) \/ Restore(w))
    <3>1. Same
      BY <1>5, <2>2 DEF Correct, LoadForEdit, LoadForDelete, LoadForReactivate, LoadEvent,
         NothingToDo, Retotal, Subtract, AddBack, SaveTotals
    <3> QED BY <3>1, QuietStutters
  <2> QED BY <2>1, <2>2
<1>6. ASSUME NEW w \in Workers, CreateSave(w) \/ EndSave(w) \/ Crash(w) PROVE Same
  BY <1>6 DEF CreateSave, EndSave, Crash
<1>7. CASE UNCHANGED vars
  BY <1>7, QuietStutters DEF vars
<1>8. Same => Goal
  BY QuietStutters
<1> HIDE DEF Same, Goal
<1>9. ASSUME NEW w \in Workers, Step(w) PROVE Goal
  BY <1>4, <1>5, <1>6, <1>8, <1>9 DEF Step
<1>10. CASE Next
  BY <1>1, <1>2, <1>3, <1>6, <1>8, <1>9, <1>10 DEF Next
<1> QED BY <1>7, <1>10 DEF Next, vars

\* The upload protocol implements the ledger: each weighing is stored once, under the
\* session it was weighed for, is never lost, and is acknowledged only after.
THEOREM LedgerImplemented == Spec => ImplementsLedger
<1>1. Init => Ledger!Init
  BY DEF Init, Ledger!Init, Weighed, Recorded, Acknowledged, Stored, NoEventRow, NoPayload
<1>2. Typed /\ Kept /\ [Next]_vars => [Ledger!Next]_<<Weighed, Recorded, Acknowledged>>
  BY LedgerStep
<1> QED BY <1>1, <1>2, TypedAlways, KeptAlways, PTL DEF Spec, ImplementsLedger, Ledger!Spec

\* What the ledger promises, of uploads with retries and crashes: an edge is told only of
\* events that are stored as weighed, and none of them is ever lost (edge_post_event,
\* edge_post_event_batch).
THEOREM UploadsHonest == Spec => []Ledger!Honest /\ Ledger!NothingLost
<1>1. Ledger!Init => Ledger!Honest
  BY DEF Ledger!Init, Ledger!Honest
<1>2. /\ Ledger!Honest
      /\ [Ledger!Next]_<<Weighed, Recorded, Acknowledged>>
      => Ledger!Honest'
  <2> SUFFICES ASSUME Ledger!Honest, [Ledger!Next]_<<Weighed, Recorded, Acknowledged>>
               PROVE  Ledger!Honest'
    OBVIOUS
  <2>1. CASE UNCHANGED <<Weighed, Recorded, Acknowledged>>
    BY <2>1 DEF Ledger!Honest
  <2>2. ASSUME NEW p \in Ledger!Entries,
               Ledger!Weigh(p) \/ Ledger!Record(p) \/ Ledger!Acknowledge(p)
        PROVE  Ledger!Honest'
    BY <2>2 DEF Ledger!Honest, Ledger!Weigh, Ledger!Record, Ledger!Acknowledge
  <2> QED BY <2>1, <2>2 DEF Ledger!Next
<1>3. [Ledger!Next]_<<Weighed, Recorded, Acknowledged>> =>
        [/\ Weighed \subseteq Weighed' /\ Recorded \subseteq Recorded'
         /\ Acknowledged \subseteq Acknowledged']_<<Weighed, Recorded, Acknowledged>>
  BY DEF Ledger!Next, Ledger!Weigh, Ledger!Record, Ledger!Acknowledge
<1> QED BY <1>1, <1>2, <1>3, LedgerImplemented, PTL DEF ImplementsLedger, Ledger!Spec, Ledger!NothingLost

(***************************************************************************)
(* The totals are exact.  What a session's row holds and what the requests *)
(* between their two writes still owe it make up what its active events    *)
(* weigh (Even), however many requests there are: a save that does not     *)
(* find the row changed pays what its request owes.                        *)
(***************************************************************************)
CountOwed(r) ==
  IF r.pc \in {"tally", "addback"} THEN 1
  ELSE IF r.pc = "subtract" \/ (r.pc = "assign" /\ r.seen.state = "inactive" /\ r.new # NoWeight)
         THEN -1 ELSE 0

WeightOwed(r) ==
  IF r.pc = "tally" THEN outbox[r.e].weight
  ELSE IF r.pc = "addback" THEN r.seen.weight
  ELSE IF r.pc = "subtract" THEN -r.seen.weight
  ELSE IF r.pc = "retotal" /\ r.seen.state # "inactive" THEN r.new - r.seen.weight
  ELSE IF r.pc = "assign" /\ r.seen.state = "inactive" /\ r.new # NoWeight THEN -r.new
  ELSE 0

CountOwes(w, s)  == IF req[w].s = s THEN CountOwed(req[w]) ELSE 0
WeightOwes(w, s) == IF req[w].s = s THEN WeightOwed(req[w]) ELSE 0

CountOwing(s)  == SumFunctionOnSet([w \in Workers |-> CountOwes(w, s)], Workers)
WeightOwing(s) == SumFunctionOnSet([w \in Workers |-> WeightOwes(w, s)], Workers)

Even(s) ==
  /\ session[s].count + CountOwing(s) = Cardinality(ActiveOf(s))
  /\ session[s].total + WeightOwing(s) = WeightOf(ActiveOf(s))

\* What a request that saves an event as (in)active has seen.
Seen(r) ==
  /\ r.pc = "deactivate" => r.seen.state = "active"
  /\ r.pc = "restore" => r.seen.state = "inactive"

Balanced ==
  /\ \A w \in Workers : Seen(req[w])
  /\ \A s \in Sessions : ~drift[s] => Even(s)

\* What a request owes a session is an integer.
LEMMA OwesType ==
  ASSUME Typed, NEW w \in Workers, NEW s
  PROVE  CountOwes(w, s) \in Int /\ WeightOwes(w, s) \in Int
<1>1. /\ req[w] \in Request /\ req[w].seen.weight \in Nat
      /\ req[w].new # NoWeight => req[w].new \in Nat
  BY DEF Typed, TypeOK, Request, EventRow
<1>2. req[w].pc = "tally" => outbox[req[w].e].weight \in Nat
  BY DEF Typed, TypeOK, Operands, EventLabels, Payload
<1>3. req[w].pc = "retotal" => req[w].new \in Nat
  BY DEF Typed, Operands
<1>4. WeightOwed(req[w]) \in Int
  BY <1>1, <1>2, <1>3 DEF WeightOwed
<1> QED BY <1>4 DEF CountOwes, WeightOwes, CountOwed

\* The same, for all of them.
LEMMA OwesTypes ==
  Typed => \A s : \A w \in Workers : CountOwes(w, s) \in Int /\ WeightOwes(w, s) \in Int
BY OwesType

\* And after a step.
LEMMA OwesTypesNext ==
  Typed' => (\A s : \A w \in Workers : CountOwes(w, s) \in Int /\ WeightOwes(w, s) \in Int)'
BY OwesTypes, PTL

\* The arithmetic of a step: the row pays b - a less, the events change by n - m.
LEMMA Rebalance ==
  ASSUME NEW c \in Int, NEW d \in Int, NEW m \in Int, NEW n \in Int,
         NEW a \in Int, NEW b \in Int, NEW x \in Int, NEW y \in Int,
         c + x = m, d + b + m = c + a + n, y = x - a + b
  PROVE  d + y = n
OBVIOUS

\* The active events of a session in a table of events, and what one row adds to them.
Active(ev, s)     == {e \in Events : ev[e].session = s /\ ev[e].state = "active"}
ActiveWeight(ev, s) == SumFunctionOnSet([e \in Events |-> ev[e].weight], Active(ev, s))
CountIn(row, s)   == IF row.session = s /\ row.state = "active" THEN 1 ELSE 0
WeightIn(row, s)  == IF row.session = s /\ row.state = "active" THEN row.weight ELSE 0

\* The active events of a session, as they are counted here.
LEMMA ActiveIs ==
  ASSUME NEW s
  PROVE  /\ ActiveOf(s) = Active(event, s) /\ ActiveOf(s)' = Active(event', s)
         /\ WeightOf(ActiveOf(s)) = ActiveWeight(event, s)
         /\ WeightOf(ActiveOf(s))' = ActiveWeight(event', s)
<1>1. ActiveOf(s) = Active(event, s) /\ ActiveOf(s)' = Active(event', s)
  BY DEF ActiveOf, EventsOf, Stored, Active
<1> QED BY <1>1 DEF WeightOf, ActiveWeight

\* The number and the weight of the active events are sums over all events.
LEMMA ActiveSums ==
  ASSUME NEW ev \in [Events -> EventRow], NEW s
  PROVE  /\ Cardinality(Active(ev, s)) \in Int /\ ActiveWeight(ev, s) \in Int
         /\ Cardinality(Active(ev, s)) = SumFunctionOnSet([e \in Events |-> CountIn(ev[e], s)], Events)
         /\ ActiveWeight(ev, s) = SumFunctionOnSet([e \in Events |-> WeightIn(ev[e], s)], Events)
<1> DEFINE A == Active(ev, s)
           ones == [e \in Events |-> 1]
           weights == [e \in Events |-> ev[e].weight]
           counted == [e \in Events |-> CountIn(ev[e], s)]
           weighed == [e \in Events |-> WeightIn(ev[e], s)]
<1>1. Events \cap A = A /\ IsFiniteSet(A) /\ IsFiniteSet(Events)
  BY ConstantsOK, FS_Subset DEF Active
<1>2. \A e \in Events : ones[e] = 1 /\ weights[e] \in Int
  BY DEF EventRow
<1>3. \A e \in Events : /\ counted[e] = IF e \in A THEN ones[e] ELSE 0
                        /\ weighed[e] = IF e \in A THEN weights[e] ELSE 0
  BY DEF Active, CountIn, WeightIn
<1>4. \A e \in A : ones[e] = 1 /\ weights[e] \in Int
  BY <1>2 DEF Active
<1>5. ActiveWeight(ev, s) = SumFunctionOnSet(weights, A)
  BY DEF ActiveWeight
<1> HIDE DEF A, ones, weights, counted, weighed
<1>6. SumFunctionOnSet(counted, Events) = SumFunctionOnSet(ones, Events \cap A)
  BY <1>1, <1>2, <1>3, SumMasked
<1>7. SumFunctionOnSet(weighed, Events) = SumFunctionOnSet(weights, Events \cap A)
  BY <1>1, <1>2, <1>3, SumMasked
<1>8. SumFunctionOnSet(ones, A) = Cardinality(A) /\ Cardinality(A) \in Int
  BY <1>1, <1>4, SumOnes, FS_CardinalityType
<1>9. SumFunctionOnSet(weights, A) \in Int
  BY <1>1, <1>4, SumInt
<1> QED BY <1>1, <1>5, <1>6, <1>7, <1>8, <1>9 DEF A, counted, weighed

\* When one event changes, the number and the weight change by what it adds to them.
LEMMA ActiveChange ==
  ASSUME NEW ev \in [Events -> EventRow], NEW ew \in [Events -> EventRow], NEW e \in Events,
         \A d \in Events \ {e} : ew[d] = ev[d], NEW s
  PROVE  /\ Cardinality(Active(ew, s)) = Cardinality(Active(ev, s)) - CountIn(ev[e], s) + CountIn(ew[e], s)
         /\ ActiveWeight(ew, s) = ActiveWeight(ev, s) - WeightIn(ev[e], s) + WeightIn(ew[e], s)
<1> DEFINE f == [d \in Events |-> CountIn(ev[d], s)]
           h == [d \in Events |-> CountIn(ew[d], s)]
           g == [d \in Events |-> WeightIn(ev[d], s)]
           k == [d \in Events |-> WeightIn(ew[d], s)]
<1>1. \A d \in Events : f[d] \in Int /\ h[d] \in Int /\ g[d] \in Int /\ k[d] \in Int
  BY DEF CountIn, WeightIn, EventRow
<1>2. \A d \in Events \ {e} : h[d] = f[d] /\ k[d] = g[d]
  OBVIOUS
<1>3. /\ f[e] = CountIn(ev[e], s) /\ h[e] = CountIn(ew[e], s)
      /\ g[e] = WeightIn(ev[e], s) /\ k[e] = WeightIn(ew[e], s)
  OBVIOUS
<1>4. /\ Cardinality(Active(ev, s)) = SumFunctionOnSet(f, Events)
      /\ Cardinality(Active(ew, s)) = SumFunctionOnSet(h, Events)
      /\ ActiveWeight(ev, s) = SumFunctionOnSet(g, Events)
      /\ ActiveWeight(ew, s) = SumFunctionOnSet(k, Events)
  BY ActiveSums
<1> HIDE DEF f, h, g, k
<1>5. IsFiniteSet(Events)
  BY ConstantsOK
<1>6. SumFunctionOnSet(h, Events) = SumFunctionOnSet(f, Events) - f[e] + h[e]
  BY <1>1, <1>2, <1>5, SumChange
<1>7. SumFunctionOnSet(k, Events) = SumFunctionOnSet(g, Events) - g[e] + k[e]
  BY <1>1, <1>2, <1>5, SumChange
<1> QED BY <1>3, <1>4, <1>6, <1>7

\* A step of one request keeps a session even when what it changes in the row and in
\* what the request owes is what it changes in the active events.
LEMMA EvenKept ==
  ASSUME Typed, Typed', NEW w \in Workers, NEW s \in Sessions, Even(s),
         \A v \in Workers \ {w} :
            CountOwes(v, s)' = CountOwes(v, s) /\ WeightOwes(v, s)' = WeightOwes(v, s),
         session'[s].count + CountOwes(w, s)' + Cardinality(ActiveOf(s))
           = session[s].count + CountOwes(w, s) + Cardinality(ActiveOf(s))',
         session'[s].total + WeightOwes(w, s)' + WeightOf(ActiveOf(s))
           = session[s].total + WeightOwes(w, s) + WeightOf(ActiveOf(s))'
  PROVE  Even(s)'
<1> DEFINE f == [v \in Workers |-> CountOwes(v, s)]
           h == [v \in Workers |-> CountOwes(v, s)']
           g == [v \in Workers |-> WeightOwes(v, s)]
           k == [v \in Workers |-> WeightOwes(v, s)']
<1>1. \A v \in Workers : f[v] \in Int /\ g[v] \in Int
  BY OwesType
<1>2. ASSUME NEW v \in Workers PROVE CountOwes(v, s)' \in Int /\ WeightOwes(v, s)' \in Int
  BY OwesTypesNext
<1>3. h[w] \in Int /\ k[w] \in Int
  BY <1>2
<1>4. \A v \in Workers \ {w} : h[v] = f[v] /\ k[v] = g[v]
  OBVIOUS
<1>5. /\ session[s].count \in Int /\ session[s].total \in Int
      /\ session'[s].count \in Int /\ session'[s].total \in Int
  BY DEF Typed, TypeOK, Row
<1>6. /\ Cardinality(ActiveOf(s)) \in Int /\ WeightOf(ActiveOf(s)) \in Int
      /\ Cardinality(ActiveOf(s))' \in Int /\ WeightOf(ActiveOf(s))' \in Int
  BY ActiveIs, ActiveSums DEF Typed, TypeOK
<1>7. IsFiniteSet(Workers)
  BY ConstantsOK
<1>8. /\ CountOwing(s) = SumFunctionOnSet(f, Workers) /\ CountOwing(s)' = SumFunctionOnSet(h, Workers)
      /\ WeightOwing(s) = SumFunctionOnSet(g, Workers) /\ WeightOwing(s)' = SumFunctionOnSet(k, Workers)
  BY DEF CountOwing, WeightOwing
<1>9. f[w] = CountOwes(w, s) /\ h[w] = CountOwes(w, s)' /\ g[w] = WeightOwes(w, s) /\ k[w] = WeightOwes(w, s)'
  OBVIOUS
<1> HIDE DEF f, h, g, k
<1>10. PICK c \in Int, d \in Int, m \in Int, n \in Int :
         /\ c = session[s].count /\ d = session'[s].count
         /\ m = Cardinality(ActiveOf(s)) /\ n = Cardinality(ActiveOf(s))'
  BY <1>5, <1>6
<1>11. c + SumFunctionOnSet(f, Workers) = m /\ d + h[w] + m = c + f[w] + n
  BY <1>8, <1>9, <1>10 DEF Even
<1>12. d + SumFunctionOnSet(h, Workers) = n
  <2>1. SumFunctionOnSet(h, Workers) = SumFunctionOnSet(f, Workers) - f[w] + h[w]
    BY <1>1, <1>3, <1>4, <1>7, SumChange
  <2>2. SumFunctionOnSet(f, Workers) \in Int
    BY <1>1, <1>7, SumInt
  <2>3. PICK a \in Int, b \in Int, i \in Int, j \in Int :
          /\ a = f[w] /\ b = h[w]
          /\ i = SumFunctionOnSet(f, Workers) /\ j = SumFunctionOnSet(h, Workers)
    BY <1>1, <1>3, <2>1, <2>2
  <2> QED BY <1>11, <2>1, <2>3, Rebalance
<1>13. PICK x \in Int, y \in Int, p \in Int, q \in Int :
         /\ x = session[s].total /\ y = session'[s].total
         /\ p = WeightOf(ActiveOf(s)) /\ q = WeightOf(ActiveOf(s))'
  BY <1>5, <1>6
<1>14. x + SumFunctionOnSet(g, Workers) = p /\ y + k[w] + p = x + g[w] + q
  BY <1>8, <1>9, <1>13 DEF Even
<1>15. y + SumFunctionOnSet(k, Workers) = q
  <2>1. SumFunctionOnSet(k, Workers) = SumFunctionOnSet(g, Workers) - g[w] + k[w]
    BY <1>1, <1>3, <1>4, <1>7, SumChange
  <2>2. SumFunctionOnSet(g, Workers) \in Int
    BY <1>1, <1>7, SumInt
  <2>3. PICK a \in Int, b \in Int, i \in Int, j \in Int :
          /\ a = g[w] /\ b = k[w]
          /\ i = SumFunctionOnSet(g, Workers) /\ j = SumFunctionOnSet(k, Workers)
    BY <1>1, <1>3, <2>1, <2>2
  <2> QED BY <1>14, <2>1, <2>3, Rebalance
<1>16. session'[s].count + CountOwing(s)' = Cardinality(ActiveOf(s))'
  BY <1>8, <1>10, <1>12
<1>17. session'[s].total + WeightOwing(s)' = WeightOf(ActiveOf(s))'
  BY <1>8, <1>13, <1>15
<1> QED BY <1>16, <1>17 DEF Even

Owing == {"tally", "addback", "subtract", "retotal", "assign"}

\* A request that is not between two writes owes nothing.
LEMMA NoneOwed ==
  ASSUME NEW r, r.pc \notin Owing PROVE CountOwed(r) = 0 /\ WeightOwed(r) = 0 /\ WeightOwed(r)' = 0
BY DEF Owing, CountOwed, WeightOwed

\* What another request owes depends on its record and on what the edge has sent.
LEMMA OthersOwe ==
  ASSUME Typed, Kept, NEW v \in Workers, NEW s, req'[v] = req[v],
         \A e \in Events : outbox[e].state # "none" => outbox'[e].weight = outbox[e].weight
  PROVE  CountOwes(v, s)' = CountOwes(v, s) /\ WeightOwes(v, s)' = WeightOwes(v, s)
<1>1. req[v].pc = "tally" => outbox'[req[v].e].weight = outbox[req[v].e].weight
  BY DEF Kept, Served, Grounded, UploadLabels, Typed, Operands, EventLabels
<1> QED BY <1>1 DEF CountOwes, WeightOwes, CountOwed, WeightOwed

\* A step that writes no event.
LEMMA RowBalanced ==
  ASSUME Typed, Typed', Kept, Balanced, NEW w \in Workers, UNCHANGED event,
         \A e \in Events : outbox[e].state # "none" => outbox'[e].weight = outbox[e].weight,
         \A v \in Workers \ {w} : req'[v] = req[v], Seen(req'[w]),
         \A s \in Sessions : ~drift'[s] =>
           /\ ~drift[s]
           /\ session'[s].count + CountOwes(w, s)' = session[s].count + CountOwes(w, s)
           /\ session'[s].total + WeightOwes(w, s)' = session[s].total + WeightOwes(w, s)
  PROVE  Balanced'
<1>1. ASSUME NEW s \in Sessions, ~drift'[s] PROVE Even(s)'
  <2>1. \A v \in Workers \ {w} :
          CountOwes(v, s)' = CountOwes(v, s) /\ WeightOwes(v, s)' = WeightOwes(v, s)
    BY OthersOwe
  <2>2. Cardinality(ActiveOf(s))' = Cardinality(ActiveOf(s)) /\ WeightOf(ActiveOf(s))' = WeightOf(ActiveOf(s))
    BY DEF ActiveOf, EventsOf, Stored, WeightOf
  <2>3. Even(s)
    BY <1>1 DEF Balanced
  <2>4. /\ session'[s].count + CountOwes(w, s)' + Cardinality(ActiveOf(s))
             = session[s].count + CountOwes(w, s) + Cardinality(ActiveOf(s))'
        /\ session'[s].total + WeightOwes(w, s)' + WeightOf(ActiveOf(s))
             = session[s].total + WeightOwes(w, s) + WeightOf(ActiveOf(s))'
    BY <1>1, <2>2
  <2> QED BY <2>1, <2>3, <2>4, EvenKept
<1>2. \A v \in Workers : Seen(req'[v])
  BY DEF Balanced
<1> QED BY <1>1, <1>2 DEF Balanced, Seen

\* A step that writes one event.
LEMMA EventBalanced ==
  ASSUME Typed, Typed', Kept, Balanced, NEW w \in Workers, NEW e \in Events,
         \A d \in Events \ {e} : event'[d] = event[d], UNCHANGED outbox,
         \A v \in Workers \ {w} : req'[v] = req[v], Seen(req'[w]),
         \A s \in Sessions : ~drift'[s] =>
           /\ ~drift[s]
           /\ session'[s].count + CountOwes(w, s)' + CountIn(event[e], s)
                = session[s].count + CountOwes(w, s) + CountIn(event'[e], s)
           /\ session'[s].total + WeightOwes(w, s)' + WeightIn(event[e], s)
                = session[s].total + WeightOwes(w, s) + WeightIn(event'[e], s)
  PROVE  Balanced'
<1>1. event \in [Events -> EventRow] /\ event' \in [Events -> EventRow]
  BY DEF Typed, TypeOK
<1>2. ASSUME NEW s \in Sessions, ~drift'[s] PROVE Even(s)'
  <2>1. \A v \in Workers \ {w} :
          CountOwes(v, s)' = CountOwes(v, s) /\ WeightOwes(v, s)' = WeightOwes(v, s)
    BY OthersOwe
  <2>2. /\ Cardinality(ActiveOf(s))' = Cardinality(ActiveOf(s)) - CountIn(event[e], s) + CountIn(event'[e], s)
        /\ WeightOf(ActiveOf(s))' = WeightOf(ActiveOf(s)) - WeightIn(event[e], s) + WeightIn(event'[e], s)
    BY <1>1, ActiveIs, ActiveChange
  <2>3. Even(s)
    BY <1>2 DEF Balanced
  <2>4. /\ session[s].count \in Int /\ session[s].total \in Int
        /\ session'[s].count \in Int /\ session'[s].total \in Int
    BY DEF Typed, TypeOK, Row
  <2>5. /\ Cardinality(ActiveOf(s)) \in Int /\ WeightOf(ActiveOf(s)) \in Int
    BY <1>1, ActiveIs, ActiveSums
  <2>6. /\ CountOwes(w, s) \in Int /\ WeightOwes(w, s) \in Int
        /\ CountOwes(w, s)' \in Int /\ WeightOwes(w, s)' \in Int
    BY OwesType, OwesTypesNext
  <2>7. /\ CountIn(event[e], s) \in Int /\ CountIn(event'[e], s) \in Int
        /\ WeightIn(event[e], s) \in Int /\ WeightIn(event'[e], s) \in Int
    BY <1>1 DEF CountIn, WeightIn, EventRow
  <2>8. session'[s].count + CountOwes(w, s)' + Cardinality(ActiveOf(s))
          = session[s].count + CountOwes(w, s) + Cardinality(ActiveOf(s))'
    <3>1. session'[s].count + CountOwes(w, s)' + CountIn(event[e], s)
            = session[s].count + CountOwes(w, s) + CountIn(event'[e], s)
      BY <1>2
    <3>2. PICK x \in Int, y \in Int, a \in Int, b \in Int, m \in Int, n \in Int, p \in Int :
            /\ x = session'[s].count /\ y = session[s].count /\ m = Cardinality(ActiveOf(s))
            /\ a = CountOwes(w, s)' /\ b = CountOwes(w, s)
            /\ n = CountIn(event'[e], s) /\ p = CountIn(event[e], s)
      BY <2>4, <2>5, <2>6, <2>7
    <3>3. x + a + p = y + b + n /\ Cardinality(ActiveOf(s))' = m - p + n
      BY <2>2, <3>1, <3>2
    <3>4. x + a + m = y + b + (m - p + n)
      BY <3>3
    <3> QED BY <3>2, <3>3, <3>4
  <2>9. session'[s].total + WeightOwes(w, s)' + WeightOf(ActiveOf(s))
          = session[s].total + WeightOwes(w, s) + WeightOf(ActiveOf(s))'
    <3>1. session'[s].total + WeightOwes(w, s)' + WeightIn(event[e], s)
            = session[s].total + WeightOwes(w, s) + WeightIn(event'[e], s)
      BY <1>2
    <3>2. PICK x \in Int, y \in Int, a \in Int, b \in Int, m \in Int, n \in Int, p \in Int :
            /\ x = session'[s].total /\ y = session[s].total /\ m = WeightOf(ActiveOf(s))
            /\ a = WeightOwes(w, s)' /\ b = WeightOwes(w, s)
            /\ n = WeightIn(event'[e], s) /\ p = WeightIn(event[e], s)
      BY <2>4, <2>5, <2>6, <2>7
    <3>3. x + a + p = y + b + n /\ WeightOf(ActiveOf(s))' = m - p + n
      BY <2>2, <3>1, <3>2
    <3>4. x + a + m = y + b + (m - p + n)
      BY <3>3
    <3> QED BY <3>2, <3>3, <3>4
  <2> QED BY <2>1, <2>3, <2>8, <2>9, EvenKept
<1>3. \A v \in Workers : Seen(req'[v])
  BY DEF Balanced
<1> QED BY <1>2, <1>3 DEF Balanced, Seen

\* A session that has not drifted had not, and nothing has happened to it.
LEMMA DriftGrows ==
  ASSUME Typed, NEW t \in Sessions, NEW c, SetDrift(t, c), NEW s \in Sessions, ~drift'[s]
  PROVE  ~drift[s] /\ (s = t => ~c)
BY DEF SetDrift, Typed, TypeOK

\* A step of a request that owes nothing before and after it, and writes no totals.
LEMMA FreeBalanced ==
  ASSUME Typed, Typed', Kept, Balanced, NEW w \in Workers, UNCHANGED <<event, drift>>,
         \A e \in Events : outbox[e].state # "none" => outbox'[e].weight = outbox[e].weight,
         \A s \in Sessions : session'[s].count = session[s].count /\ session'[s].total = session[s].total,
         NEW r, req' = [req EXCEPT ![w] = r], Seen(r), CountOwed(r) = 0, WeightOwed(r)' = 0,
         CountOwed(req[w]) = 0, WeightOwed(req[w]) = 0
  PROVE  Balanced'
<1>1. req'[w] = r /\ \A v \in Workers \ {w} : req'[v] = req[v]
  BY DEF Typed, TypeOK
<1>2. \A s \in Sessions : /\ CountOwes(w, s)' = 0 /\ WeightOwes(w, s)' = 0
                          /\ CountOwes(w, s) = 0 /\ WeightOwes(w, s) = 0
  <2>1. CountOwed(req'[w]) = 0 /\ WeightOwed(req[w])' = 0
    BY <1>1 DEF WeightOwed
  <2> QED BY <2>1 DEF CountOwes, WeightOwes, CountOwed, WeightOwed
<1>3. ASSUME NEW s \in Sessions, ~drift'[s]
      PROVE  /\ ~drift[s]
             /\ session'[s].count + CountOwes(w, s)' = session[s].count + CountOwes(w, s)
             /\ session'[s].total + WeightOwes(w, s)' = session[s].total + WeightOwes(w, s)
  BY <1>2, <1>3
<1> QED BY <1>1, <1>3, RowBalanced

\* The edge weighs; a request comes in, is answered, or ends without having written.
LEMMA CaptureBalanced ==
  ASSUME Typed, Typed', Kept, Balanced, NEW e \in Events, Capture(e) PROVE Balanced'
<1>1. /\ UNCHANGED <<session, event, req, drift>>
      /\ \A d \in Events : outbox[d].state # "none" => outbox'[d].weight = outbox[d].weight
  BY DEF Capture, Typed, TypeOK
<1>2. \A v \in Workers : Seen(req'[v])
  BY <1>1 DEF Balanced
<1>3. ASSUME NEW s \in Sessions, ~drift'[s] PROVE Even(s)'
  <2>1. \A v \in Workers : CountOwes(v, s)' = CountOwes(v, s) /\ WeightOwes(v, s)' = WeightOwes(v, s)
    BY <1>1, OthersOwe
  <2>2. CountOwing(s)' = CountOwing(s) /\ WeightOwing(s)' = WeightOwing(s)
    <3>1. [v \in Workers |-> CountOwes(v, s)'] = [v \in Workers |-> CountOwes(v, s)]
      BY <2>1
    <3>2. [v \in Workers |-> WeightOwes(v, s)'] = [v \in Workers |-> WeightOwes(v, s)]
      BY <2>1
    <3> QED BY <3>1, <3>2 DEF CountOwing, WeightOwing
  <2>3. ActiveOf(s)' = ActiveOf(s) /\ WeightOf(ActiveOf(s))' = WeightOf(ActiveOf(s))
    BY <1>1 DEF ActiveOf, EventsOf, Stored, WeightOf
  <2> QED BY <1>1, <1>3, <2>2, <2>3 DEF Balanced, Even
<1> QED BY <1>2, <1>3 DEF Balanced, Seen

\* A thread that serves no request owes nothing.
LEMMA IdleOwes == CountOwed(Idle) = 0 /\ WeightOwed(Idle) = 0 /\ WeightOwed(Idle)' = 0 /\ Seen(Idle)
<1>1. Idle.pc = "idle"
  BY IdleType
<1> QED BY <1>1, NoneOwed DEF Owing, Seen

\* An upload comes in.
LEMMA ReceiveBalanced ==
  ASSUME Typed, Typed', Kept, Balanced, NEW w \in Workers, NEW e \in Events,
         NEW l \in {"insert", "commit"}, Receive(w, e, l)
  PROVE  Balanced'
<1>1. req[w].pc = "idle" /\ UNCHANGED <<session, event, outbox, drift>>
  BY DEF Receive, Begin
<1>2. PICK r : req' = [req EXCEPT ![w] = r] /\ r.pc \in {"insert", "commit", "answer"}
  <2>1. PICK r : /\ req' = [req EXCEPT ![w] = r]
                 /\ r = [Idle EXCEPT !.pc = FirstStep(e, l), !.e = e, !.s = outbox[e].session,
                                     !.row = RowOf(outbox[e].session)]
    BY DEF Receive, Begin
  <2>2. r.pc = FirstStep(e, l)
    BY <2>1 DEF Idle
  <2> QED BY <2>1, <2>2 DEF FirstStep
<1>3. CountOwed(r) = 0 /\ WeightOwed(r)' = 0 /\ Seen(r)
  BY <1>2, NoneOwed DEF Owing, Seen
<1>4. CountOwed(req[w]) = 0 /\ WeightOwed(req[w]) = 0
  BY <1>1, NoneOwed DEF Owing
<1> QED BY <1>1, <1>2, <1>3, <1>4, FreeBalanced

\* A request of an operator comes in.
LEMMA ArriveBalanced ==
  ASSUME Typed, Typed', Kept, Balanced, NEW w \in Workers, Arrive(w) PROVE Balanced'
<1>1. PICK r : /\ req[w].pc = "idle" /\ req' = [req EXCEPT ![w] = r]
               /\ r.pc \in {"create", "complete", "cancel", "edit", "delete", "reactivate"}
               /\ UNCHANGED <<session, event, outbox, drift>>
  <2>1. ASSUME NEW s \in Sessions, Create(w, s) \/ Close(w, s) \/ Cancel(w, s)
        PROVE  \E r : /\ req[w].pc = "idle" /\ req' = [req EXCEPT ![w] = r]
                      /\ r.pc \in {"create", "complete", "cancel"}
                      /\ UNCHANGED <<session, event, outbox, drift>>
    <3>1. PICK l \in {"create", "complete", "cancel"} : Begin(w, [Idle EXCEPT !.pc = l, !.s = s])
      BY <2>1 DEF Create, Close, Cancel, End
    <3>2. [Idle EXCEPT !.pc = l, !.s = s].pc = l
      BY DEF Idle
    <3> QED BY <2>1, <3>1, <3>2 DEF Begin, Create, Close, Cancel, End
  <2>2. ASSUME NEW e \in Events, Edit(w, e) \/ Delete(w, e) \/ Reactivate(w, e)
        PROVE  \E r : /\ req[w].pc = "idle" /\ req' = [req EXCEPT ![w] = r]
                      /\ r.pc \in {"edit", "delete", "reactivate"}
                      /\ UNCHANGED <<session, event, outbox, drift>>
    <3>1. PICK l \in {"edit", "delete", "reactivate"}, g \in Nat \cup {NoWeight} : View(w, e, l, g)
      BY <2>2, ConstantsOK DEF Edit, Delete, Reactivate
    <3>2. [Idle EXCEPT !.pc = l, !.e = e, !.s = event[e].session,
                       !.row = session[event[e].session], !.new = g].pc = l
      BY DEF Idle
    <3> QED BY <3>1, <3>2 DEF View, Begin
  <2> QED BY <2>1, <2>2 DEF Arrive
<1>2. CountOwed(r) = 0 /\ WeightOwed(r)' = 0 /\ Seen(r)
  BY <1>1, NoneOwed DEF Owing, Seen
<1>3. CountOwed(req[w]) = 0 /\ WeightOwed(req[w]) = 0
  BY <1>1, NoneOwed DEF Owing
<1> QED BY <1>1, <1>2, <1>3, FreeBalanced

\* A request that owes nothing ends.
LEMMA EndBalanced ==
  ASSUME Typed, Typed', Kept, Balanced, NEW w \in Workers,
         InsertRefused(w) \/ Rollback(w) \/ Answer(w) \/ CreateSave(w) \/ EndSave(w) \/ NothingToDo(w)
  PROVE  Balanced'
<1>1. req[w].pc \notin Owing
  BY DEF InsertRefused, Rollback, Answer, CreateSave, EndSave, NothingToDo, At, Owing
<1>2. req' = [req EXCEPT ![w] = Idle] /\ UNCHANGED <<event, drift>>
  BY DEF InsertRefused, Rollback, Answer, CreateSave, EndSave, NothingToDo, Finish
<1>3. \A s \in Sessions : session'[s].count = session[s].count /\ session'[s].total = session[s].total
  BY DEF InsertRefused, Rollback, Answer, CreateSave, EndSave, NothingToDo, Typed, TypeOK, Row
<1>4. \A e \in Events : outbox'[e].weight = outbox[e].weight
  BY DEF InsertRefused, Rollback, Answer, CreateSave, EndSave, NothingToDo, Typed, TypeOK, Payload
<1> QED BY <1>1, <1>2, <1>3, <1>4, IdleOwes, NoneOwed, FreeBalanced

\* A request that ends owing something leaves a session that has drifted.
LEMMA BreakBalanced ==
  ASSUME Typed, Typed', Kept, Balanced, NEW w \in Workers, TallyRefused(w) \/ Crash(w)
  PROVE  Balanced'
<1>1. req' = [req EXCEPT ![w] = Idle] /\ UNCHANGED <<session, event, outbox>>
  BY DEF TallyRefused, Crash, Finish
<1>2. req'[w] = Idle /\ \A v \in Workers \ {w} : req'[v] = req[v]
  BY <1>1 DEF Typed, TypeOK
<1>3. ASSUME NEW s \in Sessions, ~drift'[s]
      PROVE  /\ ~drift[s]
             /\ CountOwes(w, s) = 0 /\ WeightOwes(w, s) = 0
  <2>1. CASE TallyRefused(w)
    <3>1. req[w].s \in Sessions /\ SetDrift(req[w].s, TRUE)
      BY <2>1 DEF TallyRefused, At, Typed, Operands, SessionLabels
    <3>2. ~drift[s] /\ s # req[w].s
      BY <1>3, <3>1 DEF SetDrift, Typed, TypeOK
    <3> QED BY <3>2 DEF CountOwes, WeightOwes
  <2>2. CASE Crash(w)
    <3>1. ~drift[s] /\ ~(s = req[w].s /\ HalfDone(req[w]))
      BY <1>3, <2>2 DEF Crash
    <3>2. ~HalfDone(req[w]) => CountOwed(req[w]) = 0 /\ WeightOwed(req[w]) = 0
      BY DEF HalfDone, CountOwed, WeightOwed
    <3> QED BY <3>1, <3>2 DEF CountOwes, WeightOwes
  <2> QED BY <2>1, <2>2
<1>4. \A s : CountOwes(w, s)' = 0 /\ WeightOwes(w, s)' = 0
  <2>1. CountOwed(req'[w]) = 0
    BY <1>2, IdleOwes
  <2>2. WeightOwed(req[w])' = 0
    BY <1>2, IdleType DEF WeightOwed
  <2> QED BY <2>1, <2>2 DEF CountOwes, WeightOwes, CountOwed
<1>5. ASSUME NEW s \in Sessions, ~drift'[s]
      PROVE  /\ ~drift[s]
             /\ session'[s].count + CountOwes(w, s)' = session[s].count + CountOwes(w, s)
             /\ session'[s].total + WeightOwes(w, s)' = session[s].total + WeightOwes(w, s)
  BY <1>1, <1>3, <1>4, <1>5
<1>6. Seen(req'[w])
  BY <1>2, IdleOwes
<1> QED BY <1>1, <1>2, <1>5, <1>6, RowBalanced

\* A correction loads its event.
LEMMA LoadBalanced ==
  ASSUME Typed, Typed', Kept, Balanced, NEW w \in Workers,
         LoadForEdit(w) \/ LoadForDelete(w) \/ LoadForReactivate(w)
  PROVE  Balanced'
<1>1. PICK l \in {"assign", "reweigh", "deactivate", "restore"} :
        /\ LoadEvent(w, l) /\ (l = "assign" => req[w].new = NoWeight)
        /\ l = "deactivate" => event[req[w].e].state = "active"
        /\ l = "restore" => event[req[w].e].state = "inactive"
  BY DEF LoadForEdit, LoadForDelete, LoadForReactivate
<1>2. UNCHANGED <<session, event, outbox, drift>>
  BY <1>1 DEF LoadEvent
<1>3. PICK r : /\ req' = [req EXCEPT ![w] = r] /\ r.pc = l
               /\ r.seen.state = event[req[w].e].state
               /\ l = "assign" => r.new = NoWeight
  <2>1. PICK r : r = [req[w] EXCEPT !.pc = l, !.seen = event[req[w].e]]
    OBVIOUS
  <2>2. r.pc = l /\ r.seen = event[req[w].e] /\ r.new = req[w].new
    BY <2>1 DEF Typed, TypeOK, Request
  <2> QED BY <1>1, <2>1, <2>2 DEF LoadEvent, Typed, TypeOK
<1>4. CountOwed(r) = 0 /\ WeightOwed(r)' = 0 /\ Seen(r)
  BY <1>1, <1>3 DEF CountOwed, WeightOwed, Seen
<1>5. CountOwed(req[w]) = 0 /\ WeightOwed(req[w]) = 0
  BY NoneOwed DEF LoadForEdit, LoadForDelete, LoadForReactivate, At, Owing
<1> QED BY <1>2, <1>3, <1>4, <1>5, FreeBalanced

\* The session a request works on, and the others.
LEMMA OwnOwes ==
  ASSUME NEW w \in Workers, NEW s, req[w].s = s
  PROVE  CountOwes(w, s) = CountOwed(req[w]) /\ WeightOwes(w, s) = WeightOwed(req[w])
BY DEF CountOwes, WeightOwes

\* A request owes nothing to the sessions it does not work on.
LEMMA NotOwnOwes ==
  ASSUME NEW w \in Workers, NEW s, req[w].s # s
  PROVE  CountOwes(w, s) = 0 /\ WeightOwes(w, s) = 0
BY DEF CountOwes, WeightOwes

\* The same, after a step.
LEMMA NotOwnOwesNext ==
  ASSUME NEW w \in Workers, NEW s, req'[w].s # s
  PROVE  CountOwes(w, s)' = 0 /\ WeightOwes(w, s)' = 0
BY DEF CountOwes, WeightOwes

\* The event of a request that corrects it: it is stored, for the session of the request.
LEMMA CorrectionEvent ==
  ASSUME Typed, Kept, NEW w \in Workers, req[w].pc \in CorrectionLabels
  PROVE  /\ req[w].s \in Sessions /\ req[w].e \in Events
         /\ event[req[w].e].session = req[w].s
         /\ event[req[w].e].state \in {"active", "inactive"}
         /\ event[req[w].e].weight \in Nat /\ req[w].seen.weight \in Nat
         /\ req[w].new \in Nat \cup {NoWeight} /\ (req[w].pc = "retotal" => req[w].new \in Nat)
<1>1. req[w].s \in Sessions /\ req[w].e \in Events
  BY DEF Typed, Operands, CorrectionLabels, SessionLabels, EventLabels
<1>2. event[req[w].e].session = req[w].s /\ event[req[w].e].state # "absent"
  BY DEF Kept, Served, Grounded, Stored
<1>3. /\ event[req[w].e].state \in {"absent", "active", "inactive"} /\ event[req[w].e].weight \in Nat
      /\ req[w].seen.weight \in Nat /\ req[w].new \in Nat \cup {NoWeight}
  BY <1>1 DEF Typed, TypeOK, EventRow, Request
<1>4. req[w].pc = "retotal" => req[w].new \in Nat
  BY DEF Typed, Operands
<1> QED BY <1>1, <1>2, <1>3, <1>4

\* A correction that writes its event: what it then owes the session makes up for it.
LEMMA CorrectionBalanced ==
  ASSUME Typed, Typed', Kept, Balanced, NEW w \in Workers, req[w].pc \in CorrectionLabels,
         UNCHANGED <<session, outbox>>,
         \A d \in Events \ {req[w].e} : event'[d] = event[d],
         event'[req[w].e].session = event[req[w].e].session,
         \A v \in Workers \ {w} : req'[v] = req[v], Seen(req'[w]),
         req'[w].s \in {req[w].s, NoSession},
         \A s \in Sessions : ~drift'[s] => ~drift[s],
         \A s \in Sessions : s = req[w].s /\ ~drift'[s] =>
           /\ CountOwes(w, s)' + CountIn(event[req[w].e], s)
                = CountOwed(req[w]) + CountIn(event'[req[w].e], s)
           /\ WeightOwes(w, s)' + WeightIn(event[req[w].e], s)
                = WeightOwed(req[w]) + WeightIn(event'[req[w].e], s)
  PROVE  Balanced'
<1>1. /\ req[w].s \in Sessions /\ req[w].e \in Events
      /\ event[req[w].e].session = req[w].s /\ event'[req[w].e].session = req[w].s
  BY CorrectionEvent
<1>2. PICK e \in Events : e = req[w].e
  BY <1>1
<1>3. ASSUME NEW s \in Sessions, ~drift'[s]
      PROVE  /\ ~drift[s]
             /\ session'[s].count + CountOwes(w, s)' + CountIn(event[e], s)
                  = session[s].count + CountOwes(w, s) + CountIn(event'[e], s)
             /\ session'[s].total + WeightOwes(w, s)' + WeightIn(event[e], s)
                  = session[s].total + WeightOwes(w, s) + WeightIn(event'[e], s)
  <2>1. CASE s = req[w].s
    <3>1. CountOwes(w, s) = CountOwed(req[w]) /\ WeightOwes(w, s) = WeightOwed(req[w])
      BY <2>1, OwnOwes
    <3>2. /\ CountOwes(w, s)' + CountIn(event[e], s) = CountOwes(w, s) + CountIn(event'[e], s)
          /\ WeightOwes(w, s)' + WeightIn(event[e], s) = WeightOwes(w, s) + WeightIn(event'[e], s)
      BY <1>2, <1>3, <2>1, <3>1
    <3>3. /\ CountOwes(w, s) \in Int /\ WeightOwes(w, s) \in Int
          /\ CountOwes(w, s)' \in Int /\ WeightOwes(w, s)' \in Int
      BY OwesType, OwesTypesNext
    <3>4. /\ session[s].count \in Int /\ session[s].total \in Int
      BY DEF Typed, TypeOK, Row
    <3>5. event[e] \in EventRow /\ event'[e] \in EventRow
      BY DEF Typed, TypeOK
    <3>6. /\ CountIn(event[e], s) \in Int /\ CountIn(event'[e], s) \in Int
          /\ WeightIn(event[e], s) \in Int /\ WeightIn(event'[e], s) \in Int
      BY <3>5 DEF CountIn, WeightIn, EventRow
    <3>7. PICK a \in Int, b \in Int, c \in Int, d \in Int, m \in Int, n \in Int, p \in Int, q \in Int :
            /\ a = CountOwes(w, s)' /\ b = CountOwes(w, s)
            /\ c = CountIn(event[e], s) /\ d = CountIn(event'[e], s)
            /\ m = WeightOwes(w, s)' /\ n = WeightOwes(w, s)
            /\ p = WeightIn(event[e], s) /\ q = WeightIn(event'[e], s)
      BY <3>3, <3>6
    <3> QED BY <1>3, <3>2, <3>4, <3>7
  <2>2. CASE s # req[w].s
    <3>1. req'[w].s # s
      BY <2>2, ConstantsOK
    <3>2. /\ CountOwes(w, s) = 0 /\ WeightOwes(w, s) = 0
          /\ CountOwes(w, s)' = 0 /\ WeightOwes(w, s)' = 0
      BY <2>2, <3>1, NotOwnOwes, NotOwnOwesNext
    <3>3. /\ CountIn(event[e], s) = 0 /\ CountIn(event'[e], s) = 0
          /\ WeightIn(event[e], s) = 0 /\ WeightIn(event'[e], s) = 0
      BY <1>1, <1>2, <2>2 DEF CountIn, WeightIn
    <3> QED BY <1>3, <3>2, <3>3
  <2> QED BY <2>1, <2>2
<1> QED BY <1>2, <1>3, EventBalanced

\* What a save of an event does to the event, to the request and to the history.
LEMMA Saved ==
  ASSUME Typed, Kept, NEW w \in Workers, req[w].pc \in CorrectionLabels, NEW e, e = req[w].e,
         NEW state \in {"active", "inactive"}, NEW g \in Nat, NEW cause \in BOOLEAN, NEW l \in Labels,
         SaveEvent(w, req[w].e, state, g, cause, l)
  PROVE  /\ UNCHANGED <<session, outbox>>
         /\ \A d \in Events \ {e} : event'[d] = event[d]
         /\ event'[e].session = event[e].session
         /\ event'[e].state = state /\ event'[e].weight = g
         /\ \A v \in Workers \ {w} : req'[v] = req[v]
         /\ l = "idle" => req'[w] = Idle
         /\ l # "idle" => /\ req'[w].pc = l /\ req'[w].s = req[w].s /\ req'[w].e = req[w].e
                          /\ req'[w].seen = req[w].seen /\ req'[w].new = req[w].new
         /\ \A s \in Sessions : ~drift'[s] => ~drift[s] /\ (s = req[w].s => ~cause)
<1>1. req[w].s \in Sessions /\ e \in Events
  BY CorrectionEvent
<1>2. /\ UNCHANGED <<session, outbox>> /\ SetDrift(req[w].s, cause)
      /\ event' = [event EXCEPT ![e].state = state, ![e].weight = g]
      /\ IF l = "idle" THEN req' = [req EXCEPT ![w] = Idle] ELSE req' = [req EXCEPT ![w].pc = l]
  BY DEF SaveEvent, Finish, Goto
<1>3. /\ \A d \in Events \ {e} : event'[d] = event[d]
      /\ event'[e].session = event[e].session
      /\ event'[e].state = state /\ event'[e].weight = g
  BY <1>1, <1>2 DEF Typed, TypeOK, EventRow
<1>4. /\ \A v \in Workers \ {w} : req'[v] = req[v]
      /\ l = "idle" => req'[w] = Idle
      /\ l # "idle" => req'[w] = [req[w] EXCEPT !.pc = l]
  BY <1>2 DEF Typed, TypeOK
<1>5. l # "idle" => /\ req'[w].pc = l /\ req'[w].s = req[w].s /\ req'[w].e = req[w].e
                    /\ req'[w].seen = req[w].seen /\ req'[w].new = req[w].new
  BY <1>4 DEF Typed, TypeOK, Request
<1>6. ASSUME NEW s \in Sessions, ~drift'[s] PROVE ~drift[s] /\ (s = req[w].s => ~cause)
  BY <1>1, <1>2, <1>6 DEF SetDrift, Typed, TypeOK
<1> QED BY <1>2, <1>3, <1>4, <1>5, <1>6

\* The weight of an event is corrected: its session owes the difference, if it counts the event.
LEMMA ReweighBalanced ==
  ASSUME Typed, Typed', Kept, Balanced, NEW w \in Workers, Reweigh(w) PROVE Balanced'
<1>1. req[w].pc = "reweigh" /\ req[w].pc \in CorrectionLabels
  BY DEF Reweigh, At, CorrectionLabels
<1>2. PICK e \in Events, t \in Sessions : e = req[w].e /\ t = req[w].s
  BY <1>1, CorrectionEvent
<1>3. /\ SaveEvent(w, req[w].e, event[req[w].e].state, req[w].new, EventMoved(w), "retotal")
      /\ EventMoved(w) \in BOOLEAN
  <2>1. EventMoved(w) \in BOOLEAN
    BY DEF EventMoved
  <2> QED BY <2>1 DEF Reweigh
<1>4. /\ event[e].session = t /\ event[e].state \in {"active", "inactive"}
      /\ event[e].weight \in Nat /\ req[w].seen.weight \in Nat /\ req[w].new \in Nat
  BY <1>1, <1>2, CorrectionEvent DEF Typed, Operands
<1>5. /\ UNCHANGED <<session, outbox>>
      /\ \A d \in Events \ {e} : event'[d] = event[d]
      /\ event'[e].session = t /\ event'[e].state = event[e].state /\ event'[e].weight = req[w].new
      /\ \A v \in Workers \ {w} : req'[v] = req[v]
      /\ req'[w].pc = "retotal" /\ req'[w].s = t
      /\ req'[w].seen = req[w].seen /\ req'[w].new = req[w].new
      /\ \A s \in Sessions : ~drift'[s] => ~drift[s] /\ (s = t => ~EventMoved(w))
  <2>1. "retotal" \in Labels
    BY DEF Labels
  <2> QED BY <1>1, <1>2, <1>3, <1>4, <2>1, Saved
<1>6. ASSUME ~drift'[t]
      PROVE  /\ CountOwes(w, t)' + CountIn(event[e], t) = CountOwed(req[w]) + CountIn(event'[e], t)
             /\ WeightOwes(w, t)' + WeightIn(event[e], t) = WeightOwed(req[w]) + WeightIn(event'[e], t)
  <2>1. req[w].seen.state = event[e].state /\ req[w].seen.weight = event[e].weight
    BY <1>2, <1>3, <1>5, <1>6 DEF EventMoved
  <2>2. CountOwed(req[w]) = 0 /\ WeightOwed(req[w]) = 0
    BY <1>1, NoneOwed DEF Owing
  <2>3. /\ CountOwes(w, t)' = 0
        /\ WeightOwes(w, t)' = IF event[e].state = "inactive" THEN 0 ELSE req[w].new - event[e].weight
    BY <1>5, <2>1 DEF CountOwes, CountOwed, WeightOwes, WeightOwed
  <2> QED BY <1>2, <1>4, <1>5, <2>2, <2>3 DEF CountIn, WeightIn
<1>7. Seen(req'[w])
  BY <1>5 DEF Seen
<1> QED BY <1>1, <1>2, <1>4, <1>5, <1>6, <1>7, CorrectionBalanced

\* A deletion takes the event out of the active ones, and has to take it out of the totals.
LEMMA DeactivateBalanced ==
  ASSUME Typed, Typed', Kept, Balanced, NEW w \in Workers, Deactivate(w) PROVE Balanced'
<1>1. req[w].pc = "deactivate" /\ req[w].pc \in CorrectionLabels
  BY DEF Deactivate, At, CorrectionLabels
<1>2. PICK e \in Events, t \in Sessions : e = req[w].e /\ t = req[w].s
  BY <1>1, CorrectionEvent
<1>3. /\ SaveEvent(w, req[w].e, "inactive", event[req[w].e].weight, EventMoved(w), "subtract")
      /\ EventMoved(w) \in BOOLEAN
  <2>1. EventMoved(w) \in BOOLEAN
    BY DEF EventMoved
  <2> QED BY <2>1 DEF Deactivate
<1>4. /\ event[e].session = t /\ event[e].weight \in Nat /\ req[w].seen.weight \in Nat
  BY <1>1, <1>2, CorrectionEvent
<1>5. /\ UNCHANGED <<session, outbox>>
      /\ \A d \in Events \ {e} : event'[d] = event[d]
      /\ event'[e].session = t /\ event'[e].state = "inactive" /\ event'[e].weight = event[e].weight
      /\ \A v \in Workers \ {w} : req'[v] = req[v]
      /\ req'[w].pc = "subtract" /\ req'[w].s = t /\ req'[w].seen = req[w].seen
      /\ \A s \in Sessions : ~drift'[s] => ~drift[s] /\ (s = t => ~EventMoved(w))
  <2>1. "subtract" \in Labels
    BY DEF Labels
  <2> QED BY <1>1, <1>2, <1>3, <1>4, <2>1, Saved
<1>6. ASSUME ~drift'[t]
      PROVE  /\ CountOwes(w, t)' + CountIn(event[e], t) = CountOwed(req[w]) + CountIn(event'[e], t)
             /\ WeightOwes(w, t)' + WeightIn(event[e], t) = WeightOwed(req[w]) + WeightIn(event'[e], t)
  <2>1. /\ event[e].state = "active" /\ req[w].seen.weight = event[e].weight
    BY <1>1, <1>2, <1>5, <1>6 DEF EventMoved, Balanced, Seen
  <2>2. CountOwed(req[w]) = 0 /\ WeightOwed(req[w]) = 0
    BY <1>1, NoneOwed DEF Owing
  <2>3. CountOwes(w, t)' = -1 /\ WeightOwes(w, t)' = -event[e].weight
    BY <1>5, <2>1 DEF CountOwes, CountOwed, WeightOwes, WeightOwed
  <2>4. /\ CountIn(event[e], t) = 1 /\ CountIn(event'[e], t) = 0
        /\ WeightIn(event[e], t) = event[e].weight /\ WeightIn(event'[e], t) = 0
    BY <1>4, <1>5, <2>1 DEF CountIn, WeightIn
  <2> QED BY <1>4, <2>2, <2>3, <2>4
<1>7. Seen(req'[w])
  BY <1>5 DEF Seen
<1> QED BY <1>1, <1>2, <1>4, <1>5, <1>6, <1>7, CorrectionBalanced

\* A reactivation puts the event back, and has to add it to the totals.
LEMMA RestoreBalanced ==
  ASSUME Typed, Typed', Kept, Balanced, NEW w \in Workers, Restore(w) PROVE Balanced'
<1>1. req[w].pc = "restore" /\ req[w].pc \in CorrectionLabels
  BY DEF Restore, At, CorrectionLabels
<1>2. PICK e \in Events, t \in Sessions : e = req[w].e /\ t = req[w].s
  BY <1>1, CorrectionEvent
<1>3. /\ SaveEvent(w, req[w].e, "active", event[req[w].e].weight, EventMoved(w), "addback")
      /\ EventMoved(w) \in BOOLEAN
  <2>1. EventMoved(w) \in BOOLEAN
    BY DEF EventMoved
  <2> QED BY <2>1 DEF Restore
<1>4. /\ event[e].session = t /\ event[e].weight \in Nat /\ req[w].seen.weight \in Nat
  BY <1>1, <1>2, CorrectionEvent
<1>5. /\ UNCHANGED <<session, outbox>>
      /\ \A d \in Events \ {e} : event'[d] = event[d]
      /\ event'[e].session = t /\ event'[e].state = "active" /\ event'[e].weight = event[e].weight
      /\ \A v \in Workers \ {w} : req'[v] = req[v]
      /\ req'[w].pc = "addback" /\ req'[w].s = t /\ req'[w].seen = req[w].seen
      /\ \A s \in Sessions : ~drift'[s] => ~drift[s] /\ (s = t => ~EventMoved(w))
  <2>1. "addback" \in Labels
    BY DEF Labels
  <2> QED BY <1>1, <1>2, <1>3, <1>4, <2>1, Saved
<1>6. ASSUME ~drift'[t]
      PROVE  /\ CountOwes(w, t)' + CountIn(event[e], t) = CountOwed(req[w]) + CountIn(event'[e], t)
             /\ WeightOwes(w, t)' + WeightIn(event[e], t) = WeightOwed(req[w]) + WeightIn(event'[e], t)
  <2>1. /\ event[e].state = "inactive" /\ req[w].seen.weight = event[e].weight
    BY <1>1, <1>2, <1>5, <1>6 DEF EventMoved, Balanced, Seen
  <2>2. CountOwed(req[w]) = 0 /\ WeightOwed(req[w]) = 0
    BY <1>1, NoneOwed DEF Owing
  <2>3. CountOwes(w, t)' = 1 /\ WeightOwes(w, t)' = event[e].weight
    BY <1>5, <2>1 DEF CountOwes, CountOwed, WeightOwes, WeightOwed
  <2>4. /\ CountIn(event[e], t) = 0 /\ CountIn(event'[e], t) = 1
        /\ WeightIn(event[e], t) = 0 /\ WeightIn(event'[e], t) = event[e].weight
    BY <1>4, <1>5, <2>1 DEF CountIn, WeightIn
  <2> QED BY <1>4, <2>2, <2>3, <2>4
<1>7. Seen(req'[w])
  BY <1>5 DEF Seen
<1> QED BY <1>1, <1>2, <1>4, <1>5, <1>6, <1>7, CorrectionBalanced

\* The last save of an edit makes an event it had seen deleted active: its session has
\* counted it since the retotal.
LEMMA AssignBalanced ==
  ASSUME Typed, Typed', Kept, Balanced, NEW w \in Workers, Assign(w) PROVE Balanced'
<1>1. req[w].pc = "assign" /\ req[w].pc \in CorrectionLabels
  BY DEF Assign, At, CorrectionLabels
<1>2. PICK e \in Events, t \in Sessions : e = req[w].e /\ t = req[w].s
  BY <1>1, CorrectionEvent
<1>3. /\ event[e].session = t /\ event[e].state \in {"active", "inactive"}
      /\ event[e].weight \in Nat /\ req[w].new \in Nat \cup {NoWeight}
  BY <1>1, <1>2, CorrectionEvent
<1>4. "idle" \in Labels
  BY DEF Labels
<1> DEFINE back == req[w].seen.state = "inactive"
           moved == event[req[w].e].state = "active" \/ event[req[w].e].weight # req[w].new
<1>5. /\ UNCHANGED <<session, outbox>>
      /\ \A d \in Events \ {e} : event'[d] = event[d]
      /\ event'[e].session = t /\ event'[e].weight = event[e].weight
      /\ event'[e].state = IF back THEN "active" ELSE event[e].state
      /\ \A v \in Workers \ {w} : req'[v] = req[v]
      /\ req'[w] = Idle
      /\ \A s \in Sessions : ~drift'[s] => ~drift[s] /\ (s = t => ~(back /\ moved))
  <2>1. CASE back
    <3>1. SaveEvent(w, req[w].e, "active", event[req[w].e].weight, moved, "idle")
      BY <2>1 DEF Assign
    <3>2. moved \in BOOLEAN
      OBVIOUS
    <3> HIDE DEF moved
    <3>3. /\ UNCHANGED <<session, outbox>>
          /\ \A d \in Events \ {e} : event'[d] = event[d]
          /\ event'[e].session = event[e].session
          /\ event'[e].state = "active" /\ event'[e].weight = event[e].weight
          /\ \A v \in Workers \ {w} : req'[v] = req[v]
          /\ req'[w] = Idle
          /\ \A s \in Sessions : ~drift'[s] => ~drift[s] /\ (s = req[w].s => ~moved)
      BY <1>1, <1>2, <1>3, <1>4, <3>1, <3>2, Saved
    <3> QED BY <1>2, <1>3, <2>1, <3>3
  <2>2. CASE ~back
    <3> DEFINE never == FALSE
    <3>1. SaveEvent(w, req[w].e, event[req[w].e].state, event[req[w].e].weight, never, "idle")
      BY <2>2 DEF Assign
    <3>3. never \in BOOLEAN
      OBVIOUS
    <3> HIDE DEF never
    <3>2. /\ UNCHANGED <<session, outbox>>
          /\ \A d \in Events \ {e} : event'[d] = event[d]
          /\ event'[e].session = event[e].session
          /\ event'[e].state = event[e].state /\ event'[e].weight = event[e].weight
          /\ \A v \in Workers \ {w} : req'[v] = req[v]
          /\ req'[w] = Idle
          /\ \A s \in Sessions : ~drift'[s] => ~drift[s]
      BY <1>1, <1>2, <1>3, <1>4, <3>1, <3>3, Saved
    <3> QED BY <1>3, <2>2, <3>2
  <2> QED BY <2>1, <2>2
<1>6. ASSUME ~drift'[t]
      PROVE  /\ CountOwes(w, t)' + CountIn(event[e], t) = CountOwed(req[w]) + CountIn(event'[e], t)
             /\ WeightOwes(w, t)' + WeightIn(event[e], t) = WeightOwed(req[w]) + WeightIn(event'[e], t)
  <2>1. CountOwes(w, t)' = 0 /\ WeightOwes(w, t)' = 0
    <3>1. req'[w].s # t
      BY <1>5, ConstantsOK DEF Idle
    <3> QED BY <3>1, NotOwnOwesNext
  <2>2. CASE back
    <3>1. event[e].state = "inactive" /\ event[e].weight = req[w].new /\ req[w].new # NoWeight
      BY <1>2, <1>3, <1>5, <1>6, <2>2, ConstantsOK
    <3>2. CountOwed(req[w]) = -1 /\ WeightOwed(req[w]) = -event[e].weight
      BY <1>1, <2>2, <3>1 DEF CountOwed, WeightOwed
    <3>3. /\ CountIn(event[e], t) = 0 /\ CountIn(event'[e], t) = 1
          /\ WeightIn(event[e], t) = 0 /\ WeightIn(event'[e], t) = event[e].weight
      BY <1>5, <2>2, <3>1 DEF CountIn, WeightIn
    <3> QED BY <1>3, <2>1, <3>2, <3>3
  <2>3. CASE ~back
    <3>1. CountOwed(req[w]) = 0 /\ WeightOwed(req[w]) = 0
      BY <1>1, <2>3 DEF CountOwed, WeightOwed
    <3>2. /\ CountIn(event'[e], t) = CountIn(event[e], t)
          /\ WeightIn(event'[e], t) = WeightIn(event[e], t)
      BY <1>3, <1>5, <2>3 DEF CountIn, WeightIn
    <3> QED BY <2>1, <3>1, <3>2
  <2> QED BY <2>2, <2>3
<1>7. Seen(req'[w]) /\ req'[w].s = NoSession
  BY <1>5, IdleOwes DEF Idle
<1> QED BY <1>1, <1>2, <1>3, <1>5, <1>6, <1>7, CorrectionBalanced

\* A save of the totals of one session pays what its request owes it.
LEMMA PaidBalanced ==
  ASSUME Typed, Typed', Kept, Balanced, NEW w \in Workers, NEW t \in Sessions, t = req[w].s,
         UNCHANGED <<event, outbox>>,
         \A s \in Sessions \ {t} : session'[s] = session[s],
         \A v \in Workers \ {w} : req'[v] = req[v], Seen(req'[w]),
         req'[w].s \in {t, NoSession},
         \A s \in Sessions : ~drift'[s] => ~drift[s],
         ~drift'[t] =>
           /\ session'[t].count + CountOwes(w, t)' = session[t].count + CountOwed(req[w])
           /\ session'[t].total + WeightOwes(w, t)' = session[t].total + WeightOwed(req[w])
  PROVE  Balanced'
<1>1. ASSUME NEW s \in Sessions, ~drift'[s]
      PROVE  /\ ~drift[s]
             /\ session'[s].count + CountOwes(w, s)' = session[s].count + CountOwes(w, s)
             /\ session'[s].total + WeightOwes(w, s)' = session[s].total + WeightOwes(w, s)
  <2>1. CASE s = t
    BY <1>1, <2>1, OwnOwes
  <2>2. CASE s # t
    <3>1. req'[w].s # s
      BY <2>2, ConstantsOK
    <3>2. /\ CountOwes(w, s) = 0 /\ WeightOwes(w, s) = 0
          /\ CountOwes(w, s)' = 0 /\ WeightOwes(w, s)' = 0
      BY <2>2, <3>1, NotOwnOwes, NotOwnOwesNext
    <3> QED BY <1>1, <2>2, <3>2
  <2> QED BY <2>1, <2>2
<1> QED BY <1>1, RowBalanced

\* What a save of the totals does to the session, to the request and to the history.
LEMMA Paid ==
  ASSUME Typed, NEW w \in Workers, NEW t \in Sessions, t = req[w].s,
         NEW count, NEW total, NEW l \in Labels, SaveTotals(w, count, total, l)
  PROVE  /\ UNCHANGED <<event, outbox>>
         /\ \A s \in Sessions \ {t} : session'[s] = session[s]
         /\ session'[t].count = count /\ session'[t].total = total
         /\ \A v \in Workers \ {w} : req'[v] = req[v]
         /\ l = "idle" => req'[w] = Idle
         /\ l # "idle" => /\ req'[w].pc = l /\ req'[w].s = t
                          /\ req'[w].seen = req[w].seen /\ req'[w].new = req[w].new
         /\ \A s \in Sessions : ~drift'[s] => ~drift[s]
         /\ ~drift'[t] => ~Clamped(w) /\ session[t].count = req[w].row.count
                                      /\ session[t].total = req[w].row.total
<1>1. /\ UNCHANGED <<event, outbox>>
      /\ session' = [session EXCEPT ![t].count = count, ![t].total = total]
      /\ IF l = "idle" THEN req' = [req EXCEPT ![w] = Idle] ELSE req' = [req EXCEPT ![w].pc = l]
  BY DEF SaveTotals, Finish, Goto
<1>2. /\ \A s \in Sessions \ {t} : session'[s] = session[s]
      /\ session'[t].count = count /\ session'[t].total = total
  BY <1>1 DEF Typed, TypeOK, Row
<1>3. /\ \A v \in Workers \ {w} : req'[v] = req[v]
      /\ l = "idle" => req'[w] = Idle
      /\ l # "idle" => req'[w] = [req[w] EXCEPT !.pc = l]
  BY <1>1 DEF Typed, TypeOK
<1>4. l # "idle" => /\ req'[w].pc = l /\ req'[w].s = t
                    /\ req'[w].seen = req[w].seen /\ req'[w].new = req[w].new
  BY <1>3 DEF Typed, TypeOK, Request
<1>5. /\ \A s \in Sessions : ~drift'[s] => ~drift[s]
      /\ ~drift'[t] => ~(LostUpdate(w) \/ Clamped(w))
  BY DEF SaveTotals, SetDrift, Typed, TypeOK
<1>6. ~LostUpdate(w) => session[t].count = req[w].row.count /\ session[t].total = req[w].row.total
  BY DEF LostUpdate
<1> QED BY <1>1, <1>2, <1>3, <1>4, <1>5, <1>6

\* The tally pays for the event the upload has stored.
LEMMA TallyBalanced ==
  ASSUME Typed, Typed', Kept, Balanced, NEW w \in Workers, Tally(w) PROVE Balanced'
<1>1. /\ req[w].pc = "tally" /\ req[w].e \in Events
      /\ outbox[req[w].e].weight \in Nat
      /\ req[w].row.count \in Nat /\ req[w].row.total \in Int
  BY DEF Tally, At, Typed, TypeOK, Operands, EventLabels, Payload, Request, Row
<1>2. PICK t \in Sessions : t = req[w].s
  BY <1>1 DEF Typed, Operands, SessionLabels
<1>3. PICK g \in Nat : g = outbox[req[w].e].weight
  BY <1>1
<1>4. /\ session' = [session EXCEPT ![t] = Tallied(req[w].row, g)]
      /\ SetDrift(t, LostUpdate(w)) /\ Goto(w, "answer") /\ UNCHANGED <<event, outbox>>
  BY <1>2, <1>3 DEF Tally, SetDrift
<1>5. /\ \A s \in Sessions \ {t} : session'[s] = session[s]
      /\ session'[t].count = req[w].row.count + 1 /\ session'[t].total = req[w].row.total + g
  BY <1>4 DEF Typed, TypeOK, Tallied
<1>6. /\ \A v \in Workers \ {w} : req'[v] = req[v]
      /\ req'[w].pc = "answer" /\ req'[w].s = t
  BY <1>2, <1>4 DEF Goto, Typed, TypeOK, Request
<1>7. \A s \in Sessions : ~drift'[s] => ~drift[s]
  BY <1>4 DEF SetDrift, Typed, TypeOK
<1>8. ASSUME ~drift'[t]
      PROVE  /\ session'[t].count + CountOwes(w, t)' = session[t].count + CountOwed(req[w])
             /\ session'[t].total + WeightOwes(w, t)' = session[t].total + WeightOwed(req[w])
  <2>1. ~LostUpdate(w)
    BY <1>4, <1>8 DEF SetDrift, Typed, TypeOK
  <2>2. session[t].count = req[w].row.count /\ session[t].total = req[w].row.total
    BY <1>2, <2>1 DEF LostUpdate
  <2>3. CountOwed(req[w]) = 1 /\ WeightOwed(req[w]) = g
    BY <1>1, <1>3 DEF CountOwed, WeightOwed
  <2>4. CountOwes(w, t)' = 0 /\ WeightOwes(w, t)' = 0
    BY <1>6 DEF CountOwes, WeightOwes, CountOwed, WeightOwed
  <2> QED BY <1>1, <1>5, <2>2, <2>3, <2>4
<1>9. Seen(req'[w])
  BY <1>6 DEF Seen
<1> QED BY <1>2, <1>4, <1>5, <1>6, <1>7, <1>8, <1>9, PaidBalanced

\* What a correction that saves the totals has read.
LEMMA PaidReads ==
  ASSUME Typed, Kept, NEW w \in Workers, req[w].pc \in CorrectionLabels
  PROVE  /\ \E t \in Sessions : t = req[w].s
         /\ req[w].row.count \in Nat /\ req[w].row.total \in Int /\ req[w].seen.weight \in Nat
         /\ req[w].pc = "retotal" => req[w].new \in Nat
BY CorrectionEvent, CorrectionReads

\* The totals follow the corrected weight; an event that was deleted is counted again, early.
LEMMA RetotalBalanced ==
  ASSUME Typed, Typed', Kept, Balanced, NEW w \in Workers, Retotal(w) PROVE Balanced'
<1>1. req[w].pc = "retotal" /\ req[w].pc \in CorrectionLabels
  BY DEF Retotal, At, CorrectionLabels
<1>2. PICK t \in Sessions : t = req[w].s
  BY <1>1, PaidReads
<1>3. /\ req[w].row.count \in Nat /\ req[w].row.total \in Int
      /\ req[w].seen.weight \in Nat /\ req[w].new \in Nat /\ req[w].new # NoWeight
  BY <1>1, PaidReads, ConstantsOK
<1> DEFINE back == req[w].seen.state = "inactive"
           count == IF back THEN req[w].row.count + 1 ELSE req[w].row.count
           total == IF back THEN req[w].row.total + req[w].new
                            ELSE req[w].row.total - req[w].seen.weight + req[w].new
<1>4. SaveTotals(w, count, total, "assign") /\ "assign" \in Labels
  <2>1. CASE back
    BY <2>1 DEF Retotal, Labels
  <2>2. CASE ~back
    BY <2>2 DEF Retotal, Labels
  <2> QED BY <2>1, <2>2
<1> HIDE DEF count, total
<1>5. /\ UNCHANGED <<event, outbox>>
      /\ \A s \in Sessions \ {t} : session'[s] = session[s]
      /\ session'[t].count = count /\ session'[t].total = total
      /\ \A v \in Workers \ {w} : req'[v] = req[v]
      /\ req'[w].pc = "assign" /\ req'[w].s = t
      /\ req'[w].seen = req[w].seen /\ req'[w].new = req[w].new
      /\ \A s \in Sessions : ~drift'[s] => ~drift[s]
      /\ ~drift'[t] => session[t].count = req[w].row.count /\ session[t].total = req[w].row.total
  BY <1>2, <1>4, Paid
<1>6. ASSUME ~drift'[t]
      PROVE  /\ session'[t].count + CountOwes(w, t)' = session[t].count + CountOwed(req[w])
             /\ session'[t].total + WeightOwes(w, t)' = session[t].total + WeightOwed(req[w])
  <2>1. CASE back
    <3>1. CountOwed(req[w]) = 0 /\ WeightOwed(req[w]) = 0
      BY <1>1, <2>1 DEF CountOwed, WeightOwed
    <3>2. CountOwes(w, t)' = -1 /\ WeightOwes(w, t)' = -req[w].new
      BY <1>3, <1>5, <2>1 DEF CountOwes, WeightOwes, CountOwed, WeightOwed
    <3> QED BY <1>3, <1>5, <1>6, <2>1, <3>1, <3>2 DEF count, total
  <2>2. CASE ~back
    <3>1. CountOwed(req[w]) = 0 /\ WeightOwed(req[w]) = req[w].new - req[w].seen.weight
      BY <1>1, <2>2 DEF CountOwed, WeightOwed
    <3>2. CountOwes(w, t)' = 0 /\ WeightOwes(w, t)' = 0
      BY <1>5, <2>2 DEF CountOwes, WeightOwes, CountOwed, WeightOwed
    <3> QED BY <1>3, <1>5, <1>6, <2>2, <3>1, <3>2 DEF count, total
  <2> QED BY <2>1, <2>2
<1>7. Seen(req'[w])
  BY <1>5 DEF Seen
<1> QED BY <1>2, <1>5, <1>6, <1>7, PaidBalanced

\* The two saves that end a deletion and a reactivation.
LEMMA LastSaveBalanced ==
  ASSUME Typed, Typed', Kept, Balanced, NEW w \in Workers, NEW t \in Sessions, t = req[w].s,
         NEW count, NEW total, SaveTotals(w, count, total, "idle"),
         ~Clamped(w) => count = req[w].row.count + CountOwed(req[w])
                        /\ total = req[w].row.total + WeightOwed(req[w]),
         CountOwed(req[w]) \in Int, WeightOwed(req[w]) \in Int
  PROVE  Balanced'
<1>1. "idle" \in Labels
  BY DEF Labels
<1>2. /\ UNCHANGED <<event, outbox>>
      /\ \A s \in Sessions \ {t} : session'[s] = session[s]
      /\ session'[t].count = count /\ session'[t].total = total
      /\ \A v \in Workers \ {w} : req'[v] = req[v]
      /\ req'[w] = Idle
      /\ \A s \in Sessions : ~drift'[s] => ~drift[s]
      /\ ~drift'[t] => ~Clamped(w) /\ session[t].count = req[w].row.count
                                   /\ session[t].total = req[w].row.total
  BY <1>1, Paid
<1>3. Seen(req'[w]) /\ req'[w].s = NoSession
  BY <1>2, IdleOwes DEF Idle
<1>4. CountOwes(w, t)' = 0 /\ WeightOwes(w, t)' = 0
  BY <1>3, NotOwnOwesNext, ConstantsOK
<1>5. session'[t].count \in Int /\ session'[t].total \in Int
  BY DEF Typed, TypeOK, Row
<1>6. ASSUME ~drift'[t]
      PROVE  /\ session'[t].count + CountOwes(w, t)' = session[t].count + CountOwed(req[w])
             /\ session'[t].total + WeightOwes(w, t)' = session[t].total + WeightOwed(req[w])
  BY <1>2, <1>4, <1>5, <1>6
<1> QED BY <1>2, <1>3, <1>6, PaidBalanced

\* The totals of a deletion, when they hold what is taken out of them.
LEMMA SubtractBalanced ==
  ASSUME Typed, Typed', Kept, Balanced, NEW w \in Workers, Subtract(w) PROVE Balanced'
<1>1. req[w].pc = "subtract" /\ req[w].pc \in CorrectionLabels
  BY DEF Subtract, At, CorrectionLabels
<1>2. PICK t \in Sessions : t = req[w].s
  BY <1>1, PaidReads
<1>3. /\ req[w].row.count \in Nat /\ req[w].row.total \in Int /\ req[w].seen.weight \in Nat
  BY <1>1, PaidReads
<1>4. PICK count \in Nat, total \in Int :
        /\ count = LessOne(req[w].row.count)
        /\ total = Less(req[w].row.total, req[w].seen.weight)
  BY <1>3 DEF LessOne, Less
<1>5. SaveTotals(w, count, total, "idle")
  BY <1>4 DEF Subtract
<1>6. CountOwed(req[w]) = -1 /\ WeightOwed(req[w]) = -req[w].seen.weight
  BY <1>1 DEF CountOwed, WeightOwed
<1>7. ~Clamped(w) => req[w].row.count # 0 /\ ~(req[w].row.total < req[w].seen.weight)
  BY <1>1 DEF Clamped, At
<1>8. ~Clamped(w) => count = req[w].row.count + CountOwed(req[w])
                     /\ total = req[w].row.total + WeightOwed(req[w])
  BY <1>3, <1>4, <1>6, <1>7 DEF LessOne, Less
<1>9. CountOwed(req[w]) \in Int /\ WeightOwed(req[w]) \in Int
  BY <1>3, <1>6
<1> QED BY <1>2, <1>5, <1>8, <1>9, LastSaveBalanced

\* The totals of a reactivation.
LEMMA AddBackBalanced ==
  ASSUME Typed, Typed', Kept, Balanced, NEW w \in Workers, AddBack(w) PROVE Balanced'
<1>1. req[w].pc = "addback" /\ req[w].pc \in CorrectionLabels
  BY DEF AddBack, At, CorrectionLabels
<1>2. PICK t \in Sessions : t = req[w].s
  BY <1>1, PaidReads
<1>3. /\ req[w].row.count \in Nat /\ req[w].row.total \in Int /\ req[w].seen.weight \in Nat
  BY <1>1, PaidReads
<1>4. PICK count \in Nat, total \in Int :
        /\ count = req[w].row.count + 1
        /\ total = req[w].row.total + req[w].seen.weight
  BY <1>3
<1>5. SaveTotals(w, count, total, "idle")
  BY <1>4 DEF AddBack
<1>6. CountOwed(req[w]) = 1 /\ WeightOwed(req[w]) = req[w].seen.weight
  BY <1>1 DEF CountOwed, WeightOwed
<1> QED BY <1>2, <1>3, <1>4, <1>5, <1>6, LastSaveBalanced

\* The event an upload stores was not there; the request that stores it owes its tally.
LEMMA InsertBalanced ==
  ASSUME Typed, Typed', Kept, Balanced, NEW w \in Workers, Insert(w) PROVE Balanced'
<1>1. /\ req[w].pc = "insert" /\ req[w].e \in Events
      /\ req[w].s \in Sessions \cup {NoSession}
  BY DEF Insert, At, Typed, TypeOK, Operands, EventLabels, Request
<1>2. PICK e \in Events, t \in Sessions \cup {NoSession}, g \in Nat :
        e = req[w].e /\ t = req[w].s /\ g = outbox[req[w].e].weight
  BY <1>1 DEF Typed, TypeOK, Payload
<1>3. outbox[e].session = t /\ event[e].state = "absent"
  BY <1>1, <1>2 DEF Insert, Stored, Kept, Served, Grounded, UploadLabels
<1>4. /\ event' = [event EXCEPT ![e] = NewEvent(e)]
      /\ Goto(w, IF t = NoSession THEN "answer" ELSE "tally")
      /\ UNCHANGED <<session, outbox, drift>>
  BY <1>2 DEF Insert
<1>5. /\ \A d \in Events \ {e} : event'[d] = event[d]
      /\ event'[e].state = "active" /\ event'[e].session = t /\ event'[e].weight = g
  BY <1>2, <1>3, <1>4 DEF Typed, TypeOK, NewEvent
<1>6. /\ \A v \in Workers \ {w} : req'[v] = req[v]
      /\ req'[w].pc = IF t = NoSession THEN "answer" ELSE "tally"
      /\ req'[w].s = t /\ req'[w].e = e
  BY <1>2, <1>4 DEF Goto, Typed, TypeOK, Request
<1>7. ASSUME NEW s \in Sessions, ~drift'[s]
      PROVE  /\ ~drift[s]
             /\ session'[s].count + CountOwes(w, s)' + CountIn(event[e], s)
                  = session[s].count + CountOwes(w, s) + CountIn(event'[e], s)
             /\ session'[s].total + WeightOwes(w, s)' + WeightIn(event[e], s)
                  = session[s].total + WeightOwes(w, s) + WeightIn(event'[e], s)
  <2>1. /\ CountIn(event[e], s) = 0 /\ WeightIn(event[e], s) = 0
    BY <1>3 DEF CountIn, WeightIn
  <2>2. CountOwes(w, s) = 0 /\ WeightOwes(w, s) = 0
    BY <1>1 DEF CountOwes, WeightOwes, CountOwed, WeightOwed
  <2>3. session[s].count \in Int /\ session[s].total \in Int /\ UNCHANGED session /\ ~drift[s]
    BY <1>4, <1>7 DEF Typed, TypeOK, Row
  <2>4. CASE s = t
    <3>1. CountIn(event'[e], s) = 1 /\ WeightIn(event'[e], s) = g
      BY <1>5, <2>4 DEF CountIn, WeightIn
    <3>2. CountOwes(w, s)' = 1 /\ WeightOwes(w, s)' = g
      <4>1. req'[w].pc = "tally" /\ outbox'[e].weight = g
        BY <1>2, <1>4, <1>6, <2>4, ConstantsOK
      <4> QED BY <1>6, <2>4, <4>1 DEF CountOwes, WeightOwes, CountOwed, WeightOwed
    <3> QED BY <2>1, <2>2, <2>3, <3>1, <3>2
  <2>5. CASE s # t
    <3>1. CountIn(event'[e], s) = 0 /\ WeightIn(event'[e], s) = 0
      BY <1>5, <2>5 DEF CountIn, WeightIn
    <3>2. CountOwes(w, s)' = 0 /\ WeightOwes(w, s)' = 0
      BY <1>6, <2>5, NotOwnOwesNext
    <3> QED BY <2>1, <2>2, <2>3, <3>1, <3>2
  <2> QED BY <2>4, <2>5
<1>8. Seen(req'[w])
  BY <1>6 DEF Seen
<1> QED BY <1>4, <1>5, <1>6, <1>7, <1>8, EventBalanced

\* In the batch endpoint the event and the totals change in one step.
LEMMA CommitBalanced ==
  ASSUME Typed, Typed', Kept, Balanced, NEW w \in Workers, Commit(w) PROVE Balanced'
<1>1. /\ req[w].pc = "commit" /\ req[w].e \in Events
      /\ req[w].s \in Sessions \cup {NoSession}
      /\ req[w].row.count \in Nat /\ req[w].row.total \in Int
  BY DEF Commit, At, Typed, TypeOK, Operands, EventLabels, Request, Row
<1>2. PICK e \in Events, t \in Sessions \cup {NoSession}, g \in Nat :
        e = req[w].e /\ t = req[w].s /\ g = outbox[req[w].e].weight
  BY <1>1 DEF Typed, TypeOK, Payload
<1>3. outbox[e].session = t /\ event[e].state = "absent"
  BY <1>1, <1>2 DEF Commit, CanCommit, Stored, Kept, Served, Grounded, UploadLabels
<1>4. /\ event' = [event EXCEPT ![e] = NewEvent(e)] /\ Goto(w, "answer") /\ UNCHANGED outbox
  BY <1>2 DEF Commit
<1>5. /\ \A d \in Events \ {e} : event'[d] = event[d]
      /\ event'[e].state = "active" /\ event'[e].session = t /\ event'[e].weight = g
  BY <1>2, <1>3, <1>4 DEF Typed, TypeOK, NewEvent
<1>6. /\ \A v \in Workers \ {w} : req'[v] = req[v]
      /\ req'[w].pc = "answer"
  BY <1>4 DEF Goto, Typed, TypeOK, Request
<1>7. /\ t = NoSession => UNCHANGED <<session, drift>>
      /\ t # NoSession => /\ session' = [session EXCEPT ![t] = Tallied(req[w].row, g)]
                          /\ SetDrift(t, LostUpdate(w))
  BY <1>2 DEF Commit, SetDrift
<1>8. ASSUME NEW s \in Sessions, ~drift'[s]
      PROVE  /\ ~drift[s]
             /\ session'[s].count + CountOwes(w, s)' + CountIn(event[e], s)
                  = session[s].count + CountOwes(w, s) + CountIn(event'[e], s)
             /\ session'[s].total + WeightOwes(w, s)' + WeightIn(event[e], s)
                  = session[s].total + WeightOwes(w, s) + WeightIn(event'[e], s)
  <2>1. /\ CountIn(event[e], s) = 0 /\ WeightIn(event[e], s) = 0
    BY <1>3 DEF CountIn, WeightIn
  <2>2. CountOwes(w, s) = 0 /\ WeightOwes(w, s) = 0
    BY <1>1 DEF CountOwes, WeightOwes, CountOwed, WeightOwed
  <2>3. CountOwes(w, s)' = 0 /\ WeightOwes(w, s)' = 0
    BY <1>6 DEF CountOwes, WeightOwes, CountOwed, WeightOwed
  <2>4. session[s].count \in Int /\ session[s].total \in Int
    BY DEF Typed, TypeOK, Row
  <2>5. CASE s = t
    <3>1. CountIn(event'[e], s) = 1 /\ WeightIn(event'[e], s) = g
      BY <1>5, <2>5 DEF CountIn, WeightIn
    <3>2. t # NoSession
      BY <2>5, ConstantsOK
    <3>3. session'[s].count = req[w].row.count + 1 /\ session'[s].total = req[w].row.total + g
      BY <1>7, <2>5, <3>2 DEF Typed, TypeOK, Tallied
    <3>4. ~LostUpdate(w) /\ ~drift[s]
      BY <1>7, <1>8, <2>5, <3>2 DEF SetDrift, Typed, TypeOK
    <3>5. session[s].count = req[w].row.count /\ session[s].total = req[w].row.total
      BY <1>2, <2>5, <3>4 DEF LostUpdate
    <3> QED BY <1>1, <2>1, <2>2, <2>3, <3>1, <3>3, <3>4, <3>5
  <2>6. CASE s # t
    <3>1. CountIn(event'[e], s) = 0 /\ WeightIn(event'[e], s) = 0
      BY <1>5, <2>6 DEF CountIn, WeightIn
    <3>2. session'[s] = session[s] /\ drift'[s] = drift[s]
      BY <1>2, <1>7, <2>6 DEF SetDrift, Typed, TypeOK
    <3> QED BY <1>8, <2>1, <2>2, <2>3, <2>4, <3>1, <3>2
  <2> QED BY <2>5, <2>6
<1>9. Seen(req'[w])
  BY <1>6 DEF Seen
<1> QED BY <1>4, <1>5, <1>6, <1>8, <1>9, EventBalanced

\* A step that changes nothing.
LEMMA StillBalanced == ASSUME Balanced, UNCHANGED vars PROVE Balanced'
<1>1. UNCHANGED <<session, event, outbox, req, drift>>
  BY DEF vars
<1>2. ASSUME NEW s \in Sessions, ~drift'[s] PROVE Even(s)'
  <2>1. \A v \in Workers : CountOwes(v, s)' = CountOwes(v, s) /\ WeightOwes(v, s)' = WeightOwes(v, s)
    BY <1>1 DEF CountOwes, WeightOwes, CountOwed, WeightOwed
  <2>2. /\ [v \in Workers |-> CountOwes(v, s)'] = [v \in Workers |-> CountOwes(v, s)]
        /\ [v \in Workers |-> WeightOwes(v, s)'] = [v \in Workers |-> WeightOwes(v, s)]
    BY <2>1
  <2>3. CountOwing(s)' = CountOwing(s) /\ WeightOwing(s)' = WeightOwing(s)
    BY <2>2 DEF CountOwing, WeightOwing
  <2>4. ActiveOf(s)' = ActiveOf(s) /\ WeightOf(ActiveOf(s))' = WeightOf(ActiveOf(s))
    BY <1>1 DEF ActiveOf, EventsOf, Stored, WeightOf
  <2> QED BY <1>1, <1>2, <2>3, <2>4 DEF Balanced, Even
<1> QED BY <1>1, <1>2 DEF Balanced, Seen

\* Every step keeps the books.
LEMMA BalancedStep ==
  ASSUME Typed, Typed', Kept, Balanced, [Next]_vars PROVE Balanced'
<1>1. ASSUME NEW e \in Events, Capture(e) PROVE Balanced'
  BY <1>1, CaptureBalanced
<1>2. ASSUME NEW e \in Events, Send(e) PROVE Balanced'
  <2>1. PICK w \in Workers, l \in {"insert", "commit"} : Receive(w, e, l)
    BY <1>2 DEF Send, Post, PostBatch
  <2> QED BY <2>1, ReceiveBalanced
<1>3. ASSUME NEW w \in Workers, Arrive(w) PROVE Balanced'
  BY <1>3, ArriveBalanced
<1>4. ASSUME NEW w \in Workers, Upload(w) PROVE Balanced'
  BY <1>4, InsertBalanced, TallyBalanced, BreakBalanced, CommitBalanced, EndBalanced DEF Upload
<1>5. ASSUME NEW w \in Workers, CreateSave(w) \/ EndSave(w) PROVE Balanced'
  BY <1>5, EndBalanced
<1>6. ASSUME NEW w \in Workers, Correct(w) PROVE Balanced'
  BY <1>6, LoadBalanced, EndBalanced, ReweighBalanced, RetotalBalanced, AssignBalanced,
     DeactivateBalanced, SubtractBalanced, RestoreBalanced, AddBackBalanced DEF Correct
<1>7. ASSUME NEW w \in Workers, Crash(w) PROVE Balanced'
  BY <1>7, BreakBalanced
<1> QED BY <1>1, <1>2, <1>3, <1>4, <1>5, <1>6, <1>7, StillBalanced DEF Next, Step

\* No session has been used yet.
LEMMA InitBalanced == Init => Balanced
<1> SUFFICES ASSUME Init PROVE Balanced
  OBVIOUS
<1>1. \A w \in Workers : req[w] = Idle
  BY DEF Init
<1>2. ASSUME NEW s \in Sessions PROVE Even(s)
  <2>1. \A w \in Workers : CountOwes(w, s) = 0 /\ WeightOwes(w, s) = 0
    BY <1>1, IdleOwes DEF CountOwes, WeightOwes
  <2> DEFINE f == [w \in Workers |-> CountOwes(w, s)]
             g == [w \in Workers |-> WeightOwes(w, s)]
  <2>2. (\A w \in Workers : f[w] = 0) /\ (\A w \in Workers : g[w] = 0)
    BY <2>1
  <2>3. CountOwing(s) = SumFunctionOnSet(f, Workers) /\ WeightOwing(s) = SumFunctionOnSet(g, Workers)
    BY DEF CountOwing, WeightOwing
  <2> HIDE DEF f, g
  <2>4. CountOwing(s) = 0 /\ WeightOwing(s) = 0
    BY <2>2, <2>3, SumZero, ConstantsOK
  <2>5. ActiveOf(s) = {}
    BY DEF Init, ActiveOf, EventsOf, Stored, NoEventRow
  <2>6. Cardinality(ActiveOf(s)) = 0 /\ WeightOf(ActiveOf(s)) = 0
    BY <2>5, FS_EmptySet, SumEmpty DEF WeightOf
  <2>7. session[s].count = 0 /\ session[s].total = 0
    BY DEF Init, NoRow
  <2> QED BY <2>4, <2>6, <2>7 DEF Even
<1>3. \A w \in Workers : Seen(req[w])
  BY <1>1, IdleOwes
<1> QED BY <1>2, <1>3 DEF Balanced

\* The books are even in every reachable state.
THEOREM BalancedAlways == Spec => []Balanced
<1>1. Init => Balanced
  BY InitBalanced
<1>2. Typed /\ Typed' /\ Kept /\ Balanced /\ [Next]_vars => Balanced'
  BY BalancedStep
<1> QED BY <1>1, <1>2, TypedAlways, KeptAlways, PTL DEF Spec

\* While no request works on a session, nothing is owed to it.
LEMMA QuietOwesNothing ==
  ASSUME NEW s \in Sessions, Quiet(s) PROVE CountOwing(s) = 0 /\ WeightOwing(s) = 0
<1>1. \A w \in Workers : CountOwes(w, s) = 0 /\ WeightOwes(w, s) = 0
  BY NoneOwed DEF Quiet, CountOwes, WeightOwes, Owing
<1> DEFINE f == [w \in Workers |-> CountOwes(w, s)]
           g == [w \in Workers |-> WeightOwes(w, s)]
<1>2. (\A w \in Workers : f[w] = 0) /\ (\A w \in Workers : g[w] = 0)
  BY <1>1
<1>3. CountOwing(s) = SumFunctionOnSet(f, Workers) /\ WeightOwing(s) = SumFunctionOnSet(g, Workers)
  BY DEF CountOwing, WeightOwing
<1> HIDE DEF f, g
<1> QED BY <1>2, <1>3, SumZero, ConstantsOK

\* The totals a session caches are those of its active events, unless something the code
\* does not guard against has happened to it.
THEOREM TotalsExact == Spec => []TotalsExactUnlessDrift
<1>1. Typed /\ Balanced => TotalsExactUnlessDrift
  <2> SUFFICES ASSUME Typed, Balanced, NEW s \in Sessions, Quiet(s), ~drift[s]
               PROVE  /\ session[s].count = Cardinality(ActiveOf(s))
                      /\ session[s].total = WeightOf(ActiveOf(s))
    BY DEF TotalsExactUnlessDrift
  <2>1. Even(s) /\ CountOwing(s) = 0 /\ WeightOwing(s) = 0
    BY QuietOwesNothing DEF Balanced
  <2>2. session[s].count \in Int /\ session[s].total \in Int
    BY DEF Typed, TypeOK, Row
  <2> QED BY <2>1, <2>2 DEF Even
<1> QED BY <1>1, TypedAlways, BalancedAlways, PTL
=============================================================================
