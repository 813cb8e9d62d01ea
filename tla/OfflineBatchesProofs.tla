------------------------ MODULE OfflineBatchesProofs ------------------------
(***************************************************************************)
(* Proofs about OfflineBatches, for any number of batches, events, threads *)
(* and crashes: types; the counts; the sessions that reconciliations make; *)
(* and the ledger of the uploads.                                          *)
(*                                                                         *)
(* Each part of the inductive invariant uses the parts before it.          *)
(***************************************************************************)
EXTENDS OfflineBatches, FiniteSetTheorems, TLAPS

(***************************************************************************)
(* What a request has in hand, by where it is.                             *)
(***************************************************************************)
Uploads   == {"insert", "fetch", "tally", "load", "commit", "answer"}
OnBatch   == {"acknowledge", "confirm", "reconcile"}
Holding   == {"fetch", "tally", "commit"}

Served(r) ==
  /\ r.pc \in Uploads => r.e \in Events /\ r.b = BatchOf[r.e] /\ outbox[r.e] # "none"
  /\ r.pc \in OnBatch => r.b \in Batches /\ r.e = NoEvent
  /\ r.pc \in {"fetch", "tally", "answer"} => Stored(r.e)
  /\ r.pc = "commit" => ~Stored(r.e)
  /\ r.pc \in {"tally", "commit", "reconcile"} => batch[r.b].status # "none"

\* An event is added to its batch by one request.
OneAdds ==
  \A v, w \in Workers :
    v # w /\ req[v].pc \in Holding /\ req[w].pc \in Holding => req[v].e # req[w].e

Blank ==
  /\ \A b \in Batches :
       batch[b].status = "none" => batch[b].count = 0 /\ batch[b].session = NoSession
  /\ \A e \in Events : ~Stored(e) => event[e].session = NoSession
  /\ \A e \in Events : outbox[e] = "none" => ~Stored(e)
  /\ \A e \in Events : outbox[e] = "acked" => Stored(e)

Typed == TypeOK /\ (\A w \in Workers : Served(req[w])) /\ OneAdds /\ Blank

LEMMA BatchTyped == ASSUME NEW e \in Events PROVE BatchOf[e] \in Batches
BY OfflineConstants

\* Another request of the same thread.
LEMMA Becomes ==
  ASSUME TypeOK, NEW w \in Workers, NEW r \in Request, req' = [req EXCEPT ![w] = r]
  PROVE  /\ req' \in [Workers -> Request] /\ req'[w] = r
         /\ \A v \in Workers \ {w} : req'[v] = req[v]
BY DEF TypeOK

LEMMA FinishChanges ==
  ASSUME TypeOK, NEW w \in Workers, Finish(w)
  PROVE  /\ req' \in [Workers -> Request] /\ req'[w] = Idle
         /\ \A v \in Workers \ {w} : req'[v] = req[v]
<1>1. Idle \in Request BY DEF Idle, Request, Labels
<1> QED BY <1>1, Becomes DEF Finish

LEMMA GotoChanges ==
  ASSUME TypeOK, NEW w \in Workers, NEW l \in Labels, Goto(w, l)
  PROVE  /\ req' \in [Workers -> Request]
         /\ req'[w].pc = l /\ req'[w].e = req[w].e /\ req'[w].b = req[w].b
         /\ req'[w].count = req[w].count
         /\ \A v \in Workers \ {w} : req'[v] = req[v]
BY DEF TypeOK, Goto, Request

\* Requests other than w's stay served when no event is unstored, no batch forgotten and
\* nothing they hold is stored.
LEMMA OthersServed ==
  ASSUME Typed, NEW w \in Workers, NEW v \in Workers \ {w}, req'[v] = req[v],
         \A e \in Events : outbox[e] # "none" => outbox'[e] # "none",
         \A e \in Events : Stored(e) => Stored(e)',
         \A b \in Batches : batch[b].status # "none" => batch'[b].status # "none",
         req[v].pc = "commit" => (Stored(req[v].e)' <=> Stored(req[v].e))
  PROVE  Served(req[v])'
BY BatchTyped DEF Typed, TypeOK, Served, Uploads, OnBatch, Request

\* The parts of Typed, from what w's request has become.
LEMMA TypedKept ==
  ASSUME Typed, TypeOK', NEW w \in Workers, Served(req[w])', Blank',
         \A v \in Workers \ {w} : req'[v] = req[v],
         \A e \in Events : outbox[e] # "none" => outbox'[e] # "none",
         \A e \in Events : Stored(e) => Stored(e)',
         \A b \in Batches : batch[b].status # "none" => batch'[b].status # "none",
         \A v \in Workers \ {w} : req[v].pc = "commit" => (Stored(req[v].e)' <=> Stored(req[v].e)),
         req'[w].pc \in Holding =>
           \A v \in Workers \ {w} : req[v].pc \in Holding => req[v].e # req'[w].e
  PROVE  Typed'
<1>1. \A v \in Workers : Served(req[v])'
  BY OthersServed
<1>2. OneAdds'
  BY DEF Typed, OneAdds
<1> QED BY <1>1, <1>2 DEF Typed

LEMMA IdleServed == Served(Idle)'
BY DEF Served, Idle, Uploads, OnBatch

\* A request that only ends.
LEMMA EndTyped ==
  ASSUME Typed, NEW w \in Workers, Finish(w), UNCHANGED <<batch, event, session, received>>,
         \A e \in Events : outbox[e] # "none" => outbox'[e] # "none",
         Blank', outbox' \in [Events -> {"none", "queued", "acked"}],
         edge' \in [Batches -> {"open", "sent", "done"}],
         drift' \in [Batches -> BOOLEAN], crashes' \in Nat
  PROVE  Typed'
<1>1. /\ req' \in [Workers -> Request] /\ req'[w] = Idle
      /\ \A v \in Workers \ {w} : req'[v] = req[v]
  BY FinishChanges DEF Typed
<1>2. TypeOK'
  BY <1>1 DEF Typed, TypeOK
<1>3. Served(req[w])'
  BY <1>1, IdleServed
<1>4. req'[w].pc \notin Holding
  BY <1>1 DEF Idle, Holding
<1> QED BY <1>1, <1>2, <1>3, <1>4, TypedKept DEF Stored

LEMMA CaptureTyped == ASSUME Typed, NEW e \in Events, Capture(e) PROVE Typed'
<1>1. /\ outbox' \in [Events -> {"none", "queued", "acked"}]
      /\ outbox'[e] = "queued" /\ \A d \in Events \ {e} : outbox'[d] = outbox[d]
      /\ UNCHANGED <<batch, event, session, received, edge, req, drift, crashes>>
  BY DEF Capture, Typed, TypeOK
<1>2. TypeOK'
  BY <1>1 DEF Typed, TypeOK
<1>3. \A w \in Workers : Served(req[w])'
  BY <1>1, BatchTyped DEF Typed, TypeOK, Served, Stored, Uploads
<1>4. Blank'
  BY <1>1 DEF Typed, Blank, Stored
<1>5. OneAdds'
  BY <1>1 DEF Typed, OneAdds
<1> QED BY <1>2, <1>3, <1>4, <1>5 DEF Typed

LEMMA UploadTyped ==
  ASSUME Typed, NEW w \in Workers, NEW e \in Events, NEW l \in {"insert", "load"}, Upload(w, e, l)
  PROVE  Typed'
<1> DEFINE r == [Idle EXCEPT !.pc = FirstStep(e, l), !.e = e, !.b = BatchOf[e]]
<1>1. r \in Request /\ r.pc = FirstStep(e, l) /\ r.e = e /\ r.b = BatchOf[e]
  BY BatchTyped DEF Idle, Request, Labels, FirstStep
<1>2. /\ req' \in [Workers -> Request] /\ req'[w] = r
      /\ \A v \in Workers \ {w} : req'[v] = req[v]
  BY <1>1, Becomes DEF Upload, Begin, Typed
<1> HIDE DEF r
<1>3. TypeOK' /\ Blank'
  BY <1>2 DEF Upload, Typed, TypeOK, Blank, Stored
<1>4. (r.pc = "answer" /\ Stored(e)) \/ r.pc \in {"insert", "load"}
  BY <1>1 DEF FirstStep
<1>5. outbox[e] # "none" /\ UNCHANGED <<batch, event, outbox>>
  BY DEF Upload
<1>6. Served(req[w])'
  BY <1>1, <1>2, <1>4, <1>5 DEF Served, Stored, Uploads, OnBatch
<1>7. req'[w].pc \notin Holding
  BY <1>2, <1>4 DEF Holding
<1> QED BY <1>2, <1>3, <1>5, <1>6, <1>7, TypedKept DEF Stored

LEMMA AnswerTyped == ASSUME Typed, NEW w \in Workers, Answer(w) PROVE Typed'
<1> DEFINE e == req[w].e
<1>1. e \in Events /\ Stored(e)
  BY DEF Answer, At, Typed, Served, Uploads
<1>2. /\ outbox' \in [Events -> {"none", "queued", "acked"}]
      /\ outbox'[e] = "acked" /\ \A d \in Events \ {e} : outbox'[d] = outbox[d]
  BY <1>1 DEF Answer, Typed, TypeOK
<1>3. Blank'
  BY <1>1, <1>2 DEF Answer, Typed, Blank, Stored
<1> QED BY <1>2, <1>3, EndTyped DEF Answer, Typed, TypeOK

\* Requests that end with nothing else changed, or nothing that matters here.
LEMMA QuitTyped ==
  ASSUME Typed, NEW w \in Workers, InsertRefused(w) \/ Confirm(w) \/ Crash(w)
  PROVE  Typed'
<1>1. /\ Finish(w) /\ UNCHANGED <<batch, event, session, received, outbox>>
  BY DEF InsertRefused, Confirm, Crash
<1>2. edge' \in [Batches -> {"open", "sent", "done"}]
  BY DEF InsertRefused, Confirm, Crash, Typed, TypeOK
<1>3. drift' \in [Batches -> BOOLEAN] /\ crashes' \in Nat
  <2>1. CASE UNCHANGED <<drift, crashes>>
    BY <2>1 DEF Typed, TypeOK
  <2>2. CASE Crash(w)
    <3>1. drift' = drift \/ drift' = [drift EXCEPT ![req[w].b] = TRUE]
      BY <2>2 DEF Crash
    <3>2. drift' \in [Batches -> BOOLEAN]
      BY <3>1 DEF Typed, TypeOK
    <3> QED BY <2>2, <3>2 DEF Crash, Typed, TypeOK
  <2> QED BY <2>1, <2>2 DEF InsertRefused, Confirm
<1>4. Blank'
  BY <1>1 DEF Typed, Blank, Stored
<1> QED BY <1>1, <1>2, <1>3, <1>4, EndTyped DEF Typed, TypeOK

\* What storing an event changes.
LEMMA StoreChanges ==
  ASSUME Typed, NEW e \in Events, Store(e)
  PROVE  /\ event' \in [Events -> EventRow]
         /\ Stored(e)' /\ event'[e].session = event[e].session
         /\ \A d \in Events \ {e} : event'[d] = event[d]
BY DEF Store, Stored, Typed, TypeOK, EventRow

\* An event that nobody had stored and nobody else holds is stored by w's request.
LEMMA StoredTyped ==
  ASSUME Typed, TypeOK', NEW w \in Workers, req[w].pc \in {"insert", "load", "commit"},
         Store(req[w].e), ~Stored(req[w].e),
         \A v \in Workers \ {w} : req[v].pc = "commit" => req[v].e # req[w].e,
         UNCHANGED outbox,
         \A b \in Batches : batch'[b].status = "none" => batch'[b] = batch[b],
         \A v \in Workers \ {w} : req'[v] = req[v],
         req'[w].e = req[w].e, req'[w].b = req[w].b,
         req'[w].pc \in {"fetch", "answer"}
  PROVE  Typed'
<1> DEFINE e == req[w].e
<1>1. e \in Events /\ req[w].b = BatchOf[e] /\ outbox[e] # "none"
  BY DEF Typed, Served, Uploads
<1>2. /\ Stored(e)' /\ event'[e].session = event[e].session
      /\ \A d \in Events \ {e} : event'[d] = event[d]
  BY <1>1, StoreChanges
<1>3. /\ \A d \in Events : Stored(d) => Stored(d)'
      /\ \A d \in Events \ {e} : Stored(d)' <=> Stored(d)
  BY <1>2 DEF Stored
<1>4. Blank'
  BY <1>1, <1>2, <1>3 DEF Typed, Blank
<1>5. Served(req[w])'
  BY <1>1, <1>2 DEF Served, Uploads, OnBatch
<1>6. \A v \in Workers \ {w} : req[v].pc = "commit" => (Stored(req[v].e)' <=> Stored(req[v].e))
  BY <1>3 DEF Typed, Served, Uploads
<1>7. \A v \in Workers \ {w} : req[v].pc \in Holding => req[v].e # e
  BY DEF Typed, Served, Holding
<1>8. \A b \in Batches : batch[b].status # "none" => batch'[b].status # "none"
  OBVIOUS
<1> QED BY <1>3, <1>4, <1>5, <1>6, <1>7, <1>8, TypedKept

LEMMA NotHeldBack ==
  ASSUME NEW w \in Workers, ~HeldBack(w)
  PROVE  \A v \in Workers \ {w} : req[v].pc = "commit" => req[v].e # req[w].e
BY DEF HeldBack, At

LEMMA InsertTyped == ASSUME Typed, NEW w \in Workers, Insert(w) PROVE Typed'
<1>1. req[w].e \in Events
  BY DEF Insert, At, Typed, Served, Uploads
<1>2. /\ req' \in [Workers -> Request]
      /\ req'[w].pc = "fetch" /\ req'[w].e = req[w].e /\ req'[w].b = req[w].b
      /\ \A v \in Workers \ {w} : req'[v] = req[v]
  BY GotoChanges DEF Insert, Typed, Labels
<1>3. TypeOK'
  BY <1>1, <1>2, StoreChanges DEF Insert, Typed, TypeOK
<1> QED BY <1>2, <1>3, StoredTyped, NotHeldBack DEF Insert, At

LEMMA FoundTyped ==
  ASSUME TypeOK, NEW b \in Batches
  PROVE  /\ Found(b) \in BatchRow /\ Found(b).status # "none"
         /\ batch[b].status # "none" => Found(b) = batch[b]
         /\ batch[b].status = "none" => Found(b).count = 0 /\ Found(b).session = NoSession
BY DEF TypeOK, Found, FreshRow, NoRow, BatchRow

LEMMA FetchTyped == ASSUME Typed, NEW w \in Workers, Fetch(w) PROVE Typed'
<1> DEFINE b == req[w].b
<1>1. /\ b \in Batches /\ req[w].e \in Events /\ b = BatchOf[req[w].e]
      /\ outbox[req[w].e] # "none" /\ Stored(req[w].e)
  BY BatchTyped DEF Fetch, At, Typed, Served, Uploads
<1>2. /\ batch' \in [Batches -> BatchRow] /\ batch'[b] = Found(b)
      /\ \A c \in Batches \ {b} : batch'[c] = batch[c]
  BY <1>1, FoundTyped DEF Fetch, Typed, TypeOK
<1>3. Found(b).count \in Nat
  BY <1>1, FoundTyped DEF Typed, BatchRow
<1>4. /\ req' \in [Workers -> Request]
      /\ req'[w].pc = "tally" /\ req'[w].e = req[w].e /\ req'[w].b = b
      /\ \A v \in Workers \ {w} : req'[v] = req[v]
  BY <1>3 DEF Fetch, Typed, TypeOK, Request, Labels
<1>5. TypeOK'
  BY <1>2, <1>4 DEF Fetch, Typed, TypeOK
<1>6. batch'[b].status # "none"
  BY <1>1, <1>2, FoundTyped DEF Typed
<1>7. Blank'
  BY <1>2, <1>6 DEF Fetch, Typed, Blank, Stored
<1>8. Served(req[w])'
  BY <1>1, <1>4, <1>6 DEF Fetch, Served, Stored, Uploads, OnBatch
<1>9. \A v \in Workers \ {w} : req[v].pc \in Holding => req[v].e # req'[w].e
  BY <1>4 DEF Fetch, At, Typed, OneAdds, Holding
<1> QED BY <1>2, <1>4, <1>5, <1>6, <1>7, <1>8, <1>9, TypedKept DEF Fetch, Stored

LEMMA SaveCountChanges ==
  ASSUME Typed, NEW w \in Workers, req[w].pc \in {"tally", "commit"}, SaveCount(w)
  PROVE  /\ req[w].b \in Batches
         /\ batch' \in [Batches -> BatchRow]
         /\ batch'[req[w].b].count = req[w].count + 1
         /\ batch'[req[w].b].status = batch[req[w].b].status
         /\ batch'[req[w].b].session = batch[req[w].b].session
         /\ \A c \in Batches \ {req[w].b} : batch'[c] = batch[c]
         /\ drift' \in [Batches -> BOOLEAN]
         /\ drift'[req[w].b] <=> drift[req[w].b] \/ LostUpdate(w)
         /\ \A c \in Batches \ {req[w].b} : drift'[c] <=> drift[c]
         /\ req' \in [Workers -> Request]
         /\ req'[w].pc = "answer" /\ req'[w].e = req[w].e /\ req'[w].b = req[w].b
         /\ \A v \in Workers \ {w} : req'[v] = req[v]
<1>1. req[w].b \in Batches
  BY BatchTyped DEF Typed, Served, Uploads
<1>2. req[w].count \in Nat
  BY DEF Typed, TypeOK, Request
<1>3. LostUpdate(w) \in BOOLEAN
  BY DEF LostUpdate
<1>4. /\ drift' \in [Batches -> BOOLEAN]
      /\ drift'[req[w].b] = (drift[req[w].b] \/ LostUpdate(w))
      /\ \A c \in Batches \ {req[w].b} : drift'[c] = drift[c]
  <2>1. drift' = [drift EXCEPT ![req[w].b] = drift[req[w].b] \/ LostUpdate(w)]
    BY DEF SaveCount
  <2> QED BY <1>1, <2>1, Zenon DEF Typed, TypeOK
<1>5. /\ batch' \in [Batches -> BatchRow]
      /\ batch'[req[w].b].count = req[w].count + 1
      /\ batch'[req[w].b].status = batch[req[w].b].status
      /\ batch'[req[w].b].session = batch[req[w].b].session
      /\ \A c \in Batches \ {req[w].b} : batch'[c] = batch[c]
  BY <1>1, <1>2 DEF SaveCount, Typed, TypeOK, BatchRow
<1>6. Goto(w, "answer") /\ "answer" \in Labels
  BY DEF SaveCount, Labels
<1>7. /\ req' \in [Workers -> Request]
      /\ req'[w].pc = "answer" /\ req'[w].e = req[w].e /\ req'[w].b = req[w].b
      /\ \A v \in Workers \ {w} : req'[v] = req[v]
  BY <1>6, GotoChanges DEF Typed
<1> QED BY <1>1, <1>4, <1>5, <1>7

LEMMA TallyTyped == ASSUME Typed, NEW w \in Workers, Tally(w) PROVE Typed'
<1> DEFINE b == req[w].b
<1>1. req[w].pc = "tally" /\ SaveCount(w)
  BY DEF Tally, At
<1>2. /\ b \in Batches /\ batch' \in [Batches -> BatchRow]
      /\ batch'[b].status = batch[b].status
      /\ \A c \in Batches \ {b} : batch'[c] = batch[c]
      /\ drift' \in [Batches -> BOOLEAN]
      /\ req' \in [Workers -> Request]
      /\ req'[w].pc = "answer" /\ req'[w].e = req[w].e /\ req'[w].b = req[w].b
      /\ \A v \in Workers \ {w} : req'[v] = req[v]
  BY <1>1, SaveCountChanges
<1>3. TypeOK'
  BY <1>2 DEF Tally, Typed, TypeOK
<1>4. /\ req[w].e \in Events /\ b = BatchOf[req[w].e] /\ outbox[req[w].e] # "none"
      /\ Stored(req[w].e) /\ batch[b].status # "none"
  BY <1>1 DEF Typed, Served, Uploads
<1>5. Served(req[w])'
  BY <1>2, <1>4 DEF Tally, Served, Stored, Uploads, OnBatch
<1>6. Blank'
  BY <1>2, <1>4 DEF Tally, Typed, Blank, Stored
<1>7. req'[w].pc \notin Holding
  BY <1>2 DEF Holding
<1>8. \A c \in Batches : batch[c].status # "none" => batch'[c].status # "none"
  BY <1>2
<1> QED BY <1>2, <1>3, <1>5, <1>6, <1>7, <1>8, TypedKept DEF Tally, Stored

LEMMA CommitTyped == ASSUME Typed, NEW w \in Workers, Commit(w) PROVE Typed'
<1> DEFINE b == req[w].b
<1>1. req[w].pc = "commit" /\ SaveCount(w) /\ Store(req[w].e) /\ UNCHANGED outbox
  BY DEF Commit, At
<1>2. /\ b \in Batches /\ batch' \in [Batches -> BatchRow]
      /\ batch'[b].status = batch[b].status
      /\ \A c \in Batches \ {b} : batch'[c] = batch[c]
      /\ drift' \in [Batches -> BOOLEAN]
      /\ req' \in [Workers -> Request]
      /\ req'[w].pc = "answer" /\ req'[w].e = req[w].e /\ req'[w].b = req[w].b
      /\ \A v \in Workers \ {w} : req'[v] = req[v]
  BY <1>1, SaveCountChanges
<1>3. req[w].e \in Events /\ ~Stored(req[w].e) /\ batch[b].status # "none"
  BY <1>1 DEF Typed, Served, Uploads
<1>4. TypeOK'
  BY <1>1, <1>2, <1>3, StoreChanges DEF Commit, Typed, TypeOK
<1>5. \A v \in Workers \ {w} : req[v].pc = "commit" => req[v].e # req[w].e
  BY <1>1 DEF Typed, OneAdds, Holding
<1>6. \A c \in Batches : batch'[c].status = "none" => batch'[c] = batch[c]
  BY <1>2, <1>3
<1> QED BY <1>1, <1>2, <1>3, <1>4, <1>5, <1>6, StoredTyped

LEMMA CommitFirstTyped == ASSUME Typed, NEW w \in Workers, CommitFirst(w) PROVE Typed'
<1> DEFINE b == req[w].b
<1>1. /\ b \in Batches /\ req[w].e \in Events
  BY BatchTyped DEF CommitFirst, At, Typed, Served, Uploads
<1> DEFINE row == [FreshRow EXCEPT !.count = @ + 1]
<1>6. /\ FreshRow \in BatchRow
      /\ FreshRow.status = "pending" /\ FreshRow.count = 0 /\ FreshRow.session = NoSession
  BY DEF FreshRow, NoRow, BatchRow
<1>7. row \in BatchRow /\ row.status = "pending" /\ row.count = 1 /\ row.session = NoSession
  BY <1>6 DEF BatchRow
<1>8. batch' = [batch EXCEPT ![b] = row]
  BY DEF CommitFirst
<1> HIDE DEF row
<1>2. /\ batch' \in [Batches -> BatchRow] /\ batch'[b].status = "pending"
      /\ batch'[b].count = 1 /\ batch'[b].session = NoSession
      /\ \A c \in Batches \ {b} : batch'[c] = batch[c]
  BY <1>1, <1>7, <1>8 DEF Typed, TypeOK
<1>3. /\ req' \in [Workers -> Request]
      /\ req'[w].pc = "answer" /\ req'[w].e = req[w].e /\ req'[w].b = b
      /\ \A v \in Workers \ {w} : req'[v] = req[v]
  BY GotoChanges DEF CommitFirst, Typed, Labels
<1>4. TypeOK'
  BY <1>1, <1>2, <1>3, StoreChanges DEF CommitFirst, Typed, TypeOK
<1>5. \A c \in Batches : batch'[c].status = "none" => batch'[c] = batch[c]
  BY <1>2
<1> QED BY <1>3, <1>4, <1>5, StoredTyped, NotHeldBack DEF CommitFirst, At

LEMMA LoadTyped == ASSUME Typed, NEW w \in Workers, Load(w) PROVE Typed'
<1> DEFINE b == req[w].b
<1>1. /\ req[w].e \in Events /\ b = BatchOf[req[w].e] /\ b \in Batches
      /\ outbox[req[w].e] # "none" /\ ~Stored(req[w].e) /\ batch[b].status # "none"
  BY BatchTyped DEF Load, At, Typed, Served, Uploads
<1>2. batch[b].count \in Nat
  BY <1>1 DEF Typed, TypeOK, BatchRow
<1>3. /\ req' \in [Workers -> Request]
      /\ req'[w].pc = "commit" /\ req'[w].e = req[w].e /\ req'[w].b = b
      /\ \A v \in Workers \ {w} : req'[v] = req[v]
  BY <1>2 DEF Load, Typed, TypeOK, Request, Labels
<1>4. TypeOK' /\ Blank'
  BY <1>3 DEF Load, Typed, TypeOK, Blank, Stored
<1>5. Served(req[w])'
  BY <1>1, <1>3 DEF Load, Served, Stored, Uploads, OnBatch
<1>6. \A v \in Workers \ {w} : req[v].pc \in Holding => req[v].e # req'[w].e
  BY <1>1, <1>3, NotHeldBack DEF Load, Typed, Served, Holding, Uploads
<1> QED BY <1>3, <1>4, <1>5, <1>6, TypedKept DEF Load, Stored

\* A request about a whole batch begins.
LEMMA BatchBeginTyped ==
  ASSUME Typed, NEW w \in Workers, NEW b \in Batches, NEW r \in Request,
         r.pc \in OnBatch, r.e = NoEvent, r.b = b, r.pc = "reconcile" => batch[b].status # "none",
         Begin(w, r), UNCHANGED <<batch, event, session, received, outbox, drift, crashes>>,
         edge' \in [Batches -> {"open", "sent", "done"}]
  PROVE  Typed'
<1>1. /\ req' \in [Workers -> Request] /\ req'[w] = r
      /\ \A v \in Workers \ {w} : req'[v] = req[v]
  BY Becomes DEF Begin, Typed
<1>2. TypeOK' /\ Blank'
  BY <1>1 DEF Typed, TypeOK, Blank, Stored
<1>3. Served(req[w])'
  BY <1>1 DEF Served, Stored, Uploads, OnBatch
<1>4. req'[w].pc \notin Holding
  BY <1>1 DEF Holding, OnBatch
<1> QED BY <1>1, <1>2, <1>3, <1>4, TypedKept DEF Stored

LEMMA SendAckTyped ==
  ASSUME Typed, NEW w \in Workers, NEW b \in Batches, SendAck(w, b) PROVE Typed'
<1> DEFINE r == [Idle EXCEPT !.pc = AckStep(b), !.b = b]
<1>1. r \in Request /\ r.pc \in {"confirm", "acknowledge"} /\ r.e = NoEvent /\ r.b = b
  BY DEF Idle, Request, Labels, AckStep
<1>2. edge' \in [Batches -> {"open", "sent", "done"}]
  BY DEF SendAck, Typed, TypeOK
<1>3. Begin(w, r) /\ UNCHANGED <<batch, event, session, received, outbox, drift, crashes>>
  BY DEF SendAck
<1> HIDE DEF r
<1> QED BY <1>1, <1>2, <1>3, BatchBeginTyped DEF OnBatch

LEMMA ReconcileTyped ==
  ASSUME Typed, NEW w \in Workers, NEW b \in Batches, Reconcile(w, b) PROVE Typed'
<1> DEFINE r == [Idle EXCEPT !.pc = "reconcile", !.b = b, !.count = batch[b].count]
<1>1. batch[b].count \in Nat /\ batch[b].status # "none"
  BY DEF Reconcile, Typed, TypeOK, BatchRow
<1>2. r \in Request /\ r.pc = "reconcile" /\ r.e = NoEvent /\ r.b = b
  BY <1>1 DEF Idle, Request, Labels
<1>3. Begin(w, r) /\ UNCHANGED <<batch, event, session, received, outbox, edge, drift, crashes>>
  BY DEF Reconcile
<1> HIDE DEF r
<1> QED BY <1>1, <1>2, <1>3, BatchBeginTyped DEF OnBatch, Typed, TypeOK

LEMMA AcknowledgeTyped == ASSUME Typed, NEW w \in Workers, Acknowledge(w) PROVE Typed'
<1>1. req[w].b \in Batches /\ req[w].e = NoEvent
  BY DEF Acknowledge, At, Typed, Served, OnBatch
<1>2. received' \in [Batches -> BOOLEAN]
  BY DEF Acknowledge, Typed, TypeOK
<1>3. UNCHANGED <<batch, event, session, outbox, edge, drift, crashes>>
  BY DEF Acknowledge
<1>4. \/ Finish(w)
      \/ Goto(w, "confirm")
  BY DEF Acknowledge
<1>5. /\ req' \in [Workers -> Request] /\ \A v \in Workers \ {w} : req'[v] = req[v]
      /\ \/ req'[w] = Idle
         \/ req'[w].pc = "confirm" /\ req'[w].e = NoEvent /\ req'[w].b \in Batches
  BY <1>1, <1>4, FinishChanges, GotoChanges DEF Typed, Labels
<1>6. TypeOK' /\ Blank'
  BY <1>2, <1>3, <1>5 DEF Typed, TypeOK, Blank, Stored
<1>7. Served(req[w])' /\ req'[w].pc \notin Holding
  BY <1>5 DEF Served, Stored, Uploads, OnBatch, Holding, Idle
<1> QED BY <1>3, <1>5, <1>6, <1>7, TypedKept DEF Stored

\* What the transaction of a reconciliation writes.
LEMMA ReconciledChanges ==
  ASSUME Typed, NEW w \in Workers, SaveReconciled(w)
  PROVE  \E s \in Sessions :
           LET b == req[w].b IN
           /\ b \in Batches /\ req[w].pc = "reconcile" /\ session[s].batch = NoBatch
           /\ session' \in [Sessions -> SessionRow]
           /\ session'[s].batch = b /\ session'[s].count = req[w].count
           /\ session'[s].sealed <=> received[b]
           /\ \A t \in Sessions \ {s} : session'[t] = session[t]
           /\ event' \in [Events -> EventRow]
           /\ \A e \in Events : Stored(e)' <=> Stored(e)
           /\ \A e \in Events : event'[e].session = IF e \in StoredOf(b) THEN s ELSE event[e].session
           /\ batch' \in [Batches -> BatchRow]
           /\ batch'[b].status = "reconciled" /\ batch'[b].session = s
           /\ batch'[b].count = batch[b].count
           /\ \A c \in Batches \ {b} : batch'[c] = batch[c]
<1> DEFINE b == req[w].b
<1>1. b \in Batches /\ req[w].pc = "reconcile" /\ req[w].count \in Nat
  BY DEF SaveReconciled, At, Typed, TypeOK, Served, OnBatch, Request
<1>2. PICK s \in Sessions :
        /\ session[s].batch = NoBatch
        /\ session' = [session EXCEPT ![s] = [batch |-> b, count |-> req[w].count,
                                              sealed |-> received[b]]]
        /\ event' = [e \in Events |-> IF e \in Moved(b) THEN [event[e] EXCEPT !.session = s]
                                      ELSE event[e]]
        /\ batch' = [batch EXCEPT ![b] = Closed(batch[b], s)]
  BY DEF SaveReconciled
<1>3. [batch |-> b, count |-> req[w].count, sealed |-> received[b]] \in SessionRow
  BY <1>1 DEF SessionRow, Typed, TypeOK
<1>4. /\ session' \in [Sessions -> SessionRow]
      /\ session'[s].batch = b /\ session'[s].count = req[w].count
      /\ session'[s].sealed <=> received[b]
      /\ \A t \in Sessions \ {s} : session'[t] = session[t]
  BY <1>2, <1>3 DEF Typed, TypeOK
<1>5. /\ event' \in [Events -> EventRow]
      /\ \A e \in Events : Stored(e)' <=> Stored(e)
      /\ \A e \in Events : event'[e].session = IF e \in StoredOf(b) THEN s ELSE event[e].session
  BY <1>2 DEF Typed, TypeOK, EventRow, Stored, Moved
<1>6. /\ batch' \in [Batches -> BatchRow]
      /\ batch'[b].status = "reconciled" /\ batch'[b].session = s
      /\ batch'[b].count = batch[b].count
      /\ \A c \in Batches \ {b} : batch'[c] = batch[c]
  BY <1>1, <1>2 DEF Typed, TypeOK, BatchRow, Closed
<1> QED BY <1>1, <1>2, <1>4, <1>5, <1>6

LEMMA SaveReconciledTyped == ASSUME Typed, NEW w \in Workers, SaveReconciled(w) PROVE Typed'
<1>1. PICK s \in Sessions :
        LET b == req[w].b IN
        /\ b \in Batches
        /\ session' \in [Sessions -> SessionRow]
        /\ event' \in [Events -> EventRow]
        /\ \A e \in Events : Stored(e)' <=> Stored(e)
        /\ \A e \in Events : event'[e].session = IF e \in StoredOf(b) THEN s ELSE event[e].session
        /\ batch' \in [Batches -> BatchRow]
        /\ batch'[b].status = "reconciled"
        /\ \A c \in Batches \ {b} : batch'[c] = batch[c]
  BY ReconciledChanges
<1>2. Finish(w) /\ UNCHANGED <<received, outbox, edge, drift, crashes>>
  BY DEF SaveReconciled
<1>3. /\ req' \in [Workers -> Request] /\ req'[w] = Idle
      /\ \A v \in Workers \ {w} : req'[v] = req[v]
  BY <1>2, FinishChanges DEF Typed
<1>4. TypeOK'
  BY <1>1, <1>2, <1>3 DEF Typed, TypeOK
<1>5. Blank'
  BY <1>1, <1>2 DEF Typed, Blank, StoredOf
<1>6. Served(req[w])' /\ req'[w].pc \notin Holding
  BY <1>3, IdleServed DEF Holding, Idle
<1>7. \A c \in Batches : batch[c].status # "none" => batch'[c].status # "none"
  BY <1>1
<1>8. \A v \in Workers \ {w} : req[v].pc = "commit" => (Stored(req[v].e)' <=> Stored(req[v].e))
  BY <1>1, <1>3 DEF Typed, Served, Uploads
<1> QED BY <1>1, <1>2, <1>3, <1>4, <1>5, <1>6, <1>7, <1>8, TypedKept

LEMMA TypedStep == ASSUME Typed, [Next]_vars PROVE Typed'
<1>1. ASSUME NEW w \in Workers, Step(w) PROVE Typed'
  BY <1>1, InsertTyped, QuitTyped, FetchTyped, TallyTyped, CommitFirstTyped, LoadTyped, CommitTyped,
     AnswerTyped, AcknowledgeTyped, SaveReconciledTyped DEF Step
<1>2. ASSUME NEW w \in Workers, NEW e \in Events, Post(w, e) \/ PostBatch(w, e) PROVE Typed'
  BY <1>2, UploadTyped DEF Post, PostBatch
<1>3. CASE UNCHANGED vars
  <2>1. UNCHANGED <<batch, event, session, received, outbox, edge, req, drift, crashes>>
    BY <1>3 DEF vars
  <2>2. TypeOK' /\ Blank' /\ OneAdds'
    BY <2>1 DEF Typed, TypeOK, Blank, OneAdds, Stored
  <2>3. \A w \in Workers : Served(req[w])'
    BY <2>1 DEF Typed, Served, Stored
  <2> QED BY <2>2, <2>3 DEF Typed
<1> QED BY <1>1, <1>2, <1>3, CaptureTyped, SendAckTyped, ReconcileTyped, QuitTyped DEF Next

LEMMA TypedInit == Init => Typed
<1> SUFFICES ASSUME Init PROVE Typed OBVIOUS
<1>1. \A w \in Workers : req[w] = Idle
  BY DEF Init
<1>2. TypeOK
  BY <1>1 DEF Init, TypeOK, BatchRow, NoRow, EventRow, SessionRow, Idle, Request, Labels
<1>3. Blank
  BY DEF Init, Blank, NoRow, Stored
<1>4. (\A w \in Workers : Served(req[w])) /\ OneAdds
  BY <1>1 DEF Idle, Served, OneAdds, Uploads, OnBatch, Holding
<1> QED BY <1>2, <1>3, <1>4 DEF Typed

\* Types and what requests hold, in every state, whatever uploads and acks overlap or crash.
THEOREM TypedAlways == Spec => []Typed
<1>1. Typed /\ [Next]_vars => Typed'
  BY TypedStep
<1> QED BY <1>1, TypedInit, PTL DEF Spec

\* Batches, events, sessions and requests keep their types, on every schedule.
THEOREM OfflineTyped == Spec => []TypeOK
<1>1. Typed => TypeOK
  BY DEF Typed
<1> QED BY <1>1, TypedAlways, PTL

(***************************************************************************)
(* Sessions of batches.  Only a reconciliation moves events or points a    *)
(* batch to a session; everything else at most stores an event that waits  *)
(* in the edge's store.                                                    *)
(***************************************************************************)
Unmoved ==
  /\ UNCHANGED session
  /\ \A b \in Batches : batch'[b].session = batch[b].session
  /\ \A e \in Events : event'[e].session = event[e].session
  /\ \A e \in Events : Stored(e)' => Stored(e) \/ outbox[e] = "queued"

LEMMA UnmovedSame ==
  ASSUME UNCHANGED <<event, session>>,
         \A b \in Batches : batch'[b].session = batch[b].session
  PROVE  Unmoved
BY DEF Unmoved, Stored

LEMMA UnmovedStore ==
  ASSUME Typed, NEW w \in Workers, req[w].pc \in {"insert", "load", "commit"},
         Store(req[w].e), ~Stored(req[w].e), UNCHANGED session,
         \A b \in Batches : batch'[b].session = batch[b].session
  PROVE  Unmoved
<1>1. req[w].e \in Events /\ outbox[req[w].e] = "queued"
  BY DEF Typed, TypeOK, Served, Uploads, Blank
<1>2. /\ event'[req[w].e].session = event[req[w].e].session
      /\ \A d \in Events \ {req[w].e} : event'[d] = event[d]
  BY <1>1, StoreChanges
<1> QED BY <1>1, <1>2 DEF Unmoved, Stored

LEMMA StepUnmoved ==
  ASSUME Typed, NEW w \in Workers, Step(w), ~SaveReconciled(w) PROVE Unmoved
<1>1. CASE Insert(w)
  BY <1>1, UnmovedStore DEF Insert, At
<1>2. CASE Fetch(w)
  <2>1. req[w].b \in Batches
    BY <1>2, BatchTyped DEF Fetch, At, Typed, Served, Uploads
  <2>2. Found(req[w].b).session = batch[req[w].b].session
    BY <2>1, FoundTyped DEF Typed, Blank
  <2>3. \A b \in Batches : batch'[b].session = batch[b].session
    BY <1>2, <2>1, <2>2 DEF Fetch, Typed, TypeOK
  <2> QED BY <1>2, <2>3, UnmovedSame DEF Fetch
<1>3. CASE Tally(w)
  <2>1. \A b \in Batches : batch'[b].session = batch[b].session
    BY <1>3, SaveCountChanges DEF Tally, At
  <2> QED BY <1>3, <2>1, UnmovedSame DEF Tally
<1>4. CASE CommitFirst(w)
  <2>1. req[w].b \in Batches
    BY <1>4, BatchTyped DEF CommitFirst, At, Typed, Served, Uploads
  <2>2. batch[req[w].b].session = NoSession
    BY <1>4, <2>1 DEF CommitFirst, Typed, Blank
  <2>3. [FreshRow EXCEPT !.count = @ + 1].session = NoSession
    BY DEF FreshRow, NoRow
  <2>4. \A b \in Batches : batch'[b].session = batch[b].session
    BY <1>4, <2>1, <2>2, <2>3 DEF CommitFirst, Typed, TypeOK
  <2> QED BY <1>4, <2>4, UnmovedStore DEF CommitFirst, At
<1>5. CASE Commit(w)
  <2>1. \A b \in Batches : batch'[b].session = batch[b].session
    BY <1>5, SaveCountChanges DEF Commit, At
  <2>2. req[w].pc = "commit" /\ ~Stored(req[w].e)
    BY <1>5 DEF Commit, At, Typed, Served
  <2> QED BY <1>5, <2>1, <2>2, UnmovedStore DEF Commit
<1>6. CASE InsertRefused(w) \/ Load(w) \/ Answer(w) \/ Acknowledge(w) \/ Confirm(w)
  BY <1>6, UnmovedSame DEF InsertRefused, Load, Answer, Acknowledge, Confirm
<1> QED BY <1>1, <1>2, <1>3, <1>4, <1>5, <1>6 DEF Step

\* What the edge has given up stays off its list.
Given ==
  /\ \A b \in Batches : edge[b] # "open" => \A e \in EventsOf(b) : outbox[e] # "queued"
  /\ \A b \in Batches : received[b] => edge[b] # "open"
  /\ \A w \in Workers : req[w].pc \in {"acknowledge", "confirm"} => edge[req[w].b] # "open"

Placed ==
  /\ \A b \in Batches : batch[b].session # NoSession =>
       batch[b].session \in Sessions /\ session[batch[b].session].batch = b
  /\ \A e \in Events : event[e].session \in {NoSession, batch[BatchOf[e]].session}
  /\ \A s \in Sessions : session[s].sealed =>
       /\ session[s].batch \in Batches /\ received[session[s].batch]
       /\ \A e \in EventsOf(session[s].batch) :
            Stored(e) => event[e].session = batch[session[s].batch].session

LEMMA GivenStep == ASSUME Typed, Given, [Next]_vars PROVE Given'
<1> DEFINE Same == UNCHANGED <<outbox, edge, received>>
           Calm(w) == /\ req'[w].pc \notin {"acknowledge", "confirm"}
                      /\ \A v \in Workers \ {w} : req'[v] = req[v]
<1>0. ASSUME NEW w \in Workers, Same, Calm(w) PROVE Given'
  BY <1>0 DEF Given, EventsOf
<1>1. ASSUME NEW e \in Events, Capture(e) PROVE Given'
  <2>1. /\ edge[BatchOf[e]] = "open" /\ UNCHANGED <<edge, received, req>>
        /\ \A d \in Events \ {e} : outbox'[d] = outbox[d]
    BY <1>1 DEF Capture, Typed, TypeOK
  <2> QED BY <2>1 DEF Given, EventsOf
<1>2. ASSUME NEW w \in Workers, NEW e \in Events, Post(w, e) \/ PostBatch(w, e) PROVE Given'
  <2>1. PICK l \in {"insert", "load"} : Upload(w, e, l)
    BY <1>2 DEF Post, PostBatch
  <2> DEFINE r == [Idle EXCEPT !.pc = FirstStep(e, l), !.e = e, !.b = BatchOf[e]]
  <2>2. req' = [req EXCEPT ![w] = r] /\ Same
    BY <2>1 DEF Upload, Begin
  <2>3. r.pc \notin {"acknowledge", "confirm"}
    BY DEF Idle, FirstStep
  <2> HIDE DEF r
  <2>4. Calm(w)
    BY <2>2, <2>3 DEF Typed, TypeOK
  <2> QED BY <1>0, <2>2, <2>4
<1>3. ASSUME NEW w \in Workers, NEW b \in Batches, SendAck(w, b) PROVE Given'
  <2> DEFINE r == [Idle EXCEPT !.pc = AckStep(b), !.b = b]
  <2>1. req' = [req EXCEPT ![w] = r] /\ UNCHANGED <<outbox, received>>
    BY <1>3 DEF SendAck, Begin
  <2>2. r.b = b
    BY DEF Idle
  <2> HIDE DEF r
  <2>3. /\ \A e \in EventsOf(b) : outbox[e] # "queued"
        /\ edge'[b] = "sent" /\ \A c \in Batches \ {b} : edge'[c] = edge[c]
    BY <1>3 DEF SendAck, Uploaded, Typed, TypeOK
  <2>4. req'[w] = r /\ \A v \in Workers \ {w} : req'[v] = req[v]
    BY <2>1 DEF Typed, TypeOK
  <2>5. \A c \in Batches : edge[c] # "open" => edge'[c] # "open"
    BY <2>3
  <2>6. \A v \in Workers : req'[v].pc \in {"acknowledge", "confirm"} => edge'[req'[v].b] # "open"
    <3> SUFFICES ASSUME NEW v \in Workers, req'[v].pc \in {"acknowledge", "confirm"}
                 PROVE  edge'[req'[v].b] # "open"
      OBVIOUS
    <3>1. CASE v = w
      BY <2>2, <2>3, <2>4, <3>1
    <3>2. CASE v # w
      BY <2>4, <2>5, <3>2 DEF Given, Typed, Served, OnBatch
    <3> QED BY <3>1, <3>2
  <2>7. \A c \in Batches : edge'[c] # "open" => \A e \in EventsOf(c) : outbox'[e] # "queued"
    BY <2>1, <2>3 DEF Given
  <2>8. \A c \in Batches : received'[c] => edge'[c] # "open"
    BY <2>1, <2>5 DEF Given
  <2> QED BY <2>6, <2>7, <2>8 DEF Given, EventsOf
<1>4. ASSUME NEW w \in Workers, NEW b \in Batches, Reconcile(w, b) PROVE Given'
  <2> DEFINE r == [Idle EXCEPT !.pc = "reconcile", !.b = b, !.count = batch[b].count]
  <2>1. req' = [req EXCEPT ![w] = r] /\ Same
    BY <1>4 DEF Reconcile, Begin
  <2>2. r.pc = "reconcile"
    BY DEF Idle
  <2> HIDE DEF r
  <2>3. Calm(w)
    BY <2>1, <2>2 DEF Typed, TypeOK
  <2> QED BY <1>0, <2>1, <2>3
<1>5. ASSUME NEW w \in Workers, Answer(w) PROVE Given'
  <2>1. /\ req'[w] = Idle /\ \A v \in Workers \ {w} : req'[v] = req[v]
    BY <1>5, FinishChanges DEF Answer, Typed
  <2>2. /\ UNCHANGED <<edge, received>>
        /\ \A e \in Events : outbox'[e] = "queued" => outbox[e] = "queued"
    BY <1>5 DEF Answer, Typed, TypeOK
  <2> QED BY <2>1, <2>2 DEF Given, EventsOf, Idle
<1>6. ASSUME NEW w \in Workers, Acknowledge(w) PROVE Given'
  <2>1. /\ req[w].pc = "acknowledge" /\ req[w].b \in Batches /\ edge[req[w].b] # "open"
    BY <1>6 DEF Acknowledge, At, Typed, Served, OnBatch, Given
  <2>2. Finish(w) \/ Goto(w, "confirm")
    BY <1>6 DEF Acknowledge
  <2>3. /\ req'[w] = Idle \/ req'[w].b = req[w].b
        /\ \A v \in Workers \ {w} : req'[v] = req[v]
    BY <2>2, FinishChanges, GotoChanges DEF Typed, Labels
  <2>4. UNCHANGED <<outbox, edge>> /\ \A b \in Batches : received'[b] => received[b] \/ b = req[w].b
    BY <1>6 DEF Acknowledge, Typed, TypeOK
  <2> QED BY <2>1, <2>3, <2>4 DEF Given, EventsOf, Idle
<1>7. ASSUME NEW w \in Workers, Confirm(w) PROVE Given'
  <2>1. /\ req'[w] = Idle /\ \A v \in Workers \ {w} : req'[v] = req[v]
    BY <1>7, FinishChanges DEF Confirm, Typed
  <2>2. req[w].b \in Batches /\ edge[req[w].b] # "open"
    BY <1>7 DEF Confirm, At, Typed, Served, OnBatch, Given
  <2>3. /\ UNCHANGED <<outbox, received>>
        /\ \A b \in Batches : edge'[b] # "open" <=> edge[b] # "open"
    BY <1>7, <2>2 DEF Confirm, Typed, TypeOK
  <2> QED BY <2>1, <2>3 DEF Given, EventsOf, Idle, Typed, Served, OnBatch
<1>8. ASSUME NEW w \in Workers, InsertRefused(w) \/ SaveReconciled(w) \/ Crash(w) PROVE Given'
  <2>1. Finish(w) /\ Same
    BY <1>8 DEF InsertRefused, SaveReconciled, Crash
  <2>2. Calm(w)
    BY <2>1, FinishChanges DEF Typed, Idle
  <2> QED BY <1>0, <2>1, <2>2
<1>9. ASSUME NEW w \in Workers, Insert(w) \/ CommitFirst(w) PROVE Given'
  <2>1. (Goto(w, "fetch") \/ Goto(w, "answer")) /\ Same
    BY <1>9 DEF Insert, CommitFirst
  <2>2. Calm(w)
    BY <2>1, GotoChanges DEF Typed, Labels
  <2> QED BY <1>0, <2>1, <2>2
<1>10. ASSUME NEW w \in Workers, Tally(w) \/ Commit(w) PROVE Given'
  <2>1. Calm(w) /\ Same
    BY <1>10, SaveCountChanges DEF Tally, Commit, At
  <2> QED BY <1>0, <2>1
<1>11. ASSUME NEW w \in Workers, Fetch(w) \/ Load(w) PROVE Given'
  <2>1. Calm(w) /\ Same
    BY <1>11 DEF Fetch, Load, Typed, TypeOK, Request
  <2> QED BY <1>0, <2>1
<1>12. CASE UNCHANGED vars
  BY <1>12 DEF vars, Given, EventsOf
<1> QED BY <1>1, <1>2, <1>3, <1>4, <1>5, <1>6, <1>7, <1>8, <1>9, <1>10, <1>11, <1>12 DEF Next, Step

LEMMA ReceivedKept ==
  ASSUME Typed, [Next]_vars, NEW b \in Batches, received[b] PROVE received'[b]
<1>1. ASSUME NEW w \in Workers, Acknowledge(w) PROVE received'[b]
  BY <1>1 DEF Acknowledge, Typed, TypeOK
<1>2. CASE \E w \in Workers : Acknowledge(w)
  BY <1>1, <1>2
<1>3. CASE ~\E w \in Workers : Acknowledge(w)
  <2>1. UNCHANGED received
    BY <1>3 DEF Next, vars, Capture, Post, PostBatch, Upload, SendAck, Reconcile, Step, Crash, Insert,
       InsertRefused, Fetch, Tally, CommitFirst, Load, Commit, Answer, Confirm, SaveReconciled
  <2> QED BY <2>1
<1> QED BY <1>2, <1>3

\* An event of a batch that was acknowledged is no longer stored: it is already.
LEMMA UnmovedPlaced ==
  ASSUME Typed, Given, Placed, Unmoved, \A b \in Batches : received[b] => received'[b]
  PROVE  Placed'
<1>1. \A b \in Batches : batch'[b].session # NoSession =>
        batch'[b].session \in Sessions /\ session'[batch'[b].session].batch = b
  BY DEF Placed, Unmoved
<1>2. \A e \in Events : event'[e].session \in {NoSession, batch'[BatchOf[e]].session}
  BY BatchTyped DEF Placed, Unmoved
<1>3. ASSUME NEW s \in Sessions, session'[s].sealed
      PROVE  /\ session'[s].batch \in Batches /\ received'[session'[s].batch]
             /\ \A e \in EventsOf(session'[s].batch) :
                  Stored(e)' => event'[e].session = batch'[session'[s].batch].session
  <2> DEFINE b == session[s].batch
  <2>1. UNCHANGED session /\ b \in Batches /\ received[b] /\ received'[b]
    BY <1>3 DEF Unmoved, Placed
  <2>2. ASSUME NEW e \in EventsOf(b), Stored(e)' PROVE event'[e].session = batch'[b].session
    <3>1. e \in Events /\ outbox[e] # "queued"
      BY <2>1, <2>2 DEF Given, EventsOf
    <3>2. Stored(e)
      BY <2>2, <3>1 DEF Unmoved
    <3> QED BY <1>3, <2>1, <2>2, <3>1, <3>2 DEF Placed, Unmoved
  <2> QED BY <2>1, <2>2
<1> QED BY <1>1, <1>2, <1>3 DEF Placed, EventsOf

LEMMA ReconciledPlaced ==
  ASSUME Typed, Placed, NEW w \in Workers, SaveReconciled(w) PROVE Placed'
<1> DEFINE b == req[w].b
<1>1. PICK s \in Sessions :
        /\ b \in Batches /\ session[s].batch = NoBatch
        /\ session'[s].batch = b
        /\ session'[s].sealed <=> received[b]
        /\ \A t \in Sessions \ {s} : session'[t] = session[t]
        /\ \A e \in Events : Stored(e)' <=> Stored(e)
        /\ \A e \in Events : event'[e].session = IF e \in StoredOf(b) THEN s ELSE event[e].session
        /\ batch'[b].session = s
        /\ \A c \in Batches \ {b} : batch'[c] = batch[c]
  BY ReconciledChanges
<1>2. UNCHANGED received
  BY DEF SaveReconciled
<1>3. \A c \in Batches : batch'[c].session # NoSession =>
        batch'[c].session \in Sessions /\ session'[batch'[c].session].batch = c
  <2> SUFFICES ASSUME NEW c \in Batches, batch'[c].session # NoSession
               PROVE  batch'[c].session \in Sessions /\ session'[batch'[c].session].batch = c
    OBVIOUS
  <2>1. CASE c = b
    BY <1>1, <2>1
  <2>2. CASE c # b
    <3>1. batch'[c] = batch[c]
      BY <1>1, <2>2
    <3>2. batch[c].session \in Sessions /\ session[batch[c].session].batch = c
      BY <3>1 DEF Placed
    <3>3. batch[c].session # s
      BY <1>1, <3>2, OfflineConstants
    <3> QED BY <1>1, <3>1, <3>2, <3>3
  <2> QED BY <2>1, <2>2
<1>4. \A e \in Events : event'[e].session \in {NoSession, batch'[BatchOf[e]].session}
  BY <1>1, BatchTyped DEF Placed, StoredOf, EventsOf, Typed, Blank
<1>5. ASSUME NEW t \in Sessions, session'[t].sealed
      PROVE  /\ session'[t].batch \in Batches /\ received'[session'[t].batch]
             /\ \A e \in EventsOf(session'[t].batch) :
                  Stored(e)' => event'[e].session = batch'[session'[t].batch].session
  <2>1. CASE session'[t].batch = b
    <3>1. CASE t = s
      <4>1. received[b]
        BY <1>1, <1>5, <3>1
      <4> QED BY <1>1, <1>2, <2>1, <4>1 DEF StoredOf, EventsOf
    <3>2. CASE t # s
      <4>1. session'[t] = session[t]
        BY <1>1, <3>2
      <4>2. received[b]
        BY <1>5, <2>1, <4>1 DEF Placed
      <4> QED BY <1>1, <1>2, <2>1, <4>2 DEF StoredOf, EventsOf
    <3> QED BY <3>1, <3>2
  <2>2. CASE session'[t].batch # b
    <3>1. t # s /\ session'[t] = session[t]
      BY <1>1, <2>2
    <3>2. \A e \in EventsOf(session[t].batch) : e \notin StoredOf(b)
      BY <2>2, <3>1 DEF StoredOf, EventsOf
    <3> QED BY <1>1, <1>2, <1>5, <2>2, <3>1, <3>2 DEF Placed, EventsOf
  <2> QED BY <2>1, <2>2
<1> QED BY <1>3, <1>4, <1>5 DEF Placed, EventsOf

LEMMA PlacedStep == ASSUME Typed, Given, Placed, [Next]_vars PROVE Placed'
<1>1. CASE \E w \in Workers : SaveReconciled(w)
  BY <1>1, ReconciledPlaced
<1>2. CASE ~\E w \in Workers : SaveReconciled(w)
  <2>1. Unmoved
    <3>1. ASSUME NEW w \in Workers, Step(w) PROVE Unmoved
      BY <1>2, <3>1, StepUnmoved
    <3>2. CASE ~\E w \in Workers : Step(w)
      <4>1. UNCHANGED <<batch, event, session>>
        BY <3>2 DEF Next, vars, Capture, Post, PostBatch, Upload, SendAck, Reconcile, Crash
      <4> QED BY <4>1, UnmovedSame
    <3> QED BY <3>1, <3>2
  <2> QED BY <2>1, ReceivedKept, UnmovedPlaced
<1> QED BY <1>1, <1>2

\* Events are stored and requests are held where their batch puts them, in every state.
THEOREM PlacedAlways == Spec => [](Typed /\ Given /\ Placed)
<1>1. Init => Given /\ Placed
  <2> SUFFICES ASSUME Init PROVE Given /\ Placed OBVIOUS
  <2>1. Given
    BY DEF Init, Given, Idle
  <2>2. Placed
    BY BatchTyped DEF Init, Placed, NoRow
  <2> QED BY <2>1, <2>2
<1>2. Typed /\ Given /\ Placed /\ [Next]_vars => Given' /\ Placed'
  BY GivenStep, PlacedStep
<1> QED BY <1>1, <1>2, TypedAlways, PTL DEF Spec

\* However many operators reconcile a batch, its events are in the one session it points to.
THEOREM EventsPlaced == Spec => []EventsInBatchSession
<1>1. Placed => EventsInBatchSession
  BY DEF Placed, EventsInBatchSession
<1> QED BY <1>1, PlacedAlways, PTL

\* A batch that is reconciled after its acknowledgement is complete, and stays so.
THEOREM SealedComplete == Spec => []CompleteWhenSealed
<1>1. Typed /\ Given /\ Placed => CompleteWhenSealed
  <2> SUFFICES ASSUME Typed, Given, Placed, NEW s \in Sessions, session[s].sealed,
                      NEW e \in EventsOf(session[s].batch), outbox[e] # "none"
               PROVE  Stored(e) /\ event[e].session = batch[BatchOf[e]].session
    BY DEF CompleteWhenSealed
  <2>1. e \in Events /\ BatchOf[e] = session[s].batch
    BY DEF EventsOf
  <2>2. outbox[e] = "acked"
    BY <2>1 DEF Placed, Given, Typed, TypeOK
  <2>3. Stored(e)
    BY <2>1, <2>2 DEF Typed, Blank
  <2> QED BY <2>1, <2>3 DEF Placed
<1> QED BY <1>1, PlacedAlways, PTL

(***************************************************************************)
(* Counts.  An event is counted when it is stored and no request is on its *)
(* way to count it.  No count, stored or loaded, is above that number:     *)
(* counted events stay counted, and each save adds the one it counts.      *)
(***************************************************************************)
Awaited(e)  == \E w \in Workers : req[w].pc \in {"fetch", "tally"} /\ req[w].e = e
IsCounted(e) == Stored(e) /\ ~Awaited(e)
Counted(b)  == {e \in EventsOf(b) : IsCounted(e)}

LEMMA CountedIs == ASSUME NEW b \in Batches PROVE StoredOf(b) \ Uncounted(b) = Counted(b)
BY DEF StoredOf, EventsOf, Uncounted, Counted, IsCounted, Awaited

LEMMA FiniteEvents ==
  ASSUME NEW S \in SUBSET Events PROVE IsFiniteSet(S) /\ Cardinality(S) \in Nat
BY OfflineConstants, FS_Subset, FS_CardinalityType

LEMMA CountedFinite ==
  ASSUME NEW b PROVE /\ IsFiniteSet(Counted(b)) /\ Cardinality(Counted(b)) \in Nat
                     /\ Counted(b) \subseteq Events
<1>1. Counted(b) \in SUBSET Events
  BY DEF Counted, EventsOf
<1> QED BY <1>1, FiniteEvents

LEMMA CountedFinite1 ==
  ASSUME NEW b PROVE /\ IsFiniteSet(Counted(b)') /\ Cardinality(Counted(b)') \in Nat
                     /\ Counted(b)' \subseteq Events
<1>1. Counted(b)' \in SUBSET Events
  BY DEF Counted, EventsOf
<1> QED BY <1>1, FiniteEvents

Loaded(r) ==
  r.pc \in {"tally", "commit", "reconcile"} => r.count <= Cardinality(Counted(r.b))

Counting ==
  /\ \A b \in Batches : batch[b].count <= Cardinality(Counted(b))
  /\ \A b \in Batches : drift[b] \/ batch[b].count = Cardinality(Counted(b))
  /\ \A w \in Workers : Loaded(req[w])

LEMMA MoreCounted ==
  ASSUME NEW b, \A e \in Events : IsCounted(e) => IsCounted(e)'
  PROVE  Cardinality(Counted(b)) <= Cardinality(Counted(b)')
<1>1. Counted(b) \subseteq Counted(b)'
  BY DEF Counted, EventsOf
<1> QED BY <1>1, CountedFinite1, FS_Subset

\* Requests other than w's keep what they have loaded as long as no event is uncounted.
LEMMA LoadedKept ==
  ASSUME Typed, Counting, NEW w \in Workers, NEW v \in Workers \ {w}, req'[v] = req[v],
         \A e \in Events : IsCounted(e) => IsCounted(e)'
  PROVE  Loaded(req[v])'
<1> SUFFICES ASSUME req[v].pc \in {"tally", "commit", "reconcile"}
             PROVE  req[v].count <= Cardinality(Counted(req[v].b)')
  BY DEF Loaded, Counted, EventsOf
<1> DEFINE b == req[v].b
<1>1. req[v].count <= Cardinality(Counted(b)) /\ req[v].count \in Nat
  BY DEF Counting, Loaded, Typed, TypeOK, Request
<1>2. Cardinality(Counted(b)) <= Cardinality(Counted(b)')
  BY MoreCounted
<1>3. Cardinality(Counted(b)) \in Nat /\ Cardinality(Counted(b)') \in Nat
  BY CountedFinite, CountedFinite1
<1> QED BY <1>1, <1>2, <1>3

\* No event becomes counted.
LEMMA CountsSame ==
  ASSUME Typed, Counting, NEW w \in Workers,
         \A v \in Workers \ {w} : req'[v] = req[v],
         \A e \in Events : IsCounted(e)' <=> IsCounted(e),
         \A b \in Batches : batch'[b].count = batch[b].count,
         \A b \in Batches : drift[b] => drift'[b],
         req'[w].pc \in {"tally", "commit", "reconcile"} =>
           req'[w].b \in Batches /\ req'[w].count = batch[req'[w].b].count
  PROVE  Counting'
<1>1. ASSUME NEW b \in Batches PROVE Counted(b)' = Counted(b)
  BY DEF Counted, EventsOf
<1>2. \A b \in Batches : batch'[b].count <= Cardinality(Counted(b)')
  BY <1>1 DEF Counting
<1>3. \A b \in Batches : drift'[b] \/ batch'[b].count = Cardinality(Counted(b)')
  BY <1>1 DEF Counting
<1>4. Loaded(req[w])'
  <2> SUFFICES ASSUME NEW b, b = req'[w].b, req'[w].pc \in {"tally", "commit", "reconcile"}
               PROVE  req'[w].count <= Cardinality(Counted(b)')
    BY DEF Loaded, Counted, EventsOf
  <2>1. b \in Batches /\ req'[w].count = batch[b].count
    OBVIOUS
  <2>2. batch[b].count <= Cardinality(Counted(b))
    BY <2>1 DEF Counting
  <2> QED BY <1>1, <2>1, <2>2
<1>5. \A v \in Workers \ {w} : Loaded(req[v])'
  BY LoadedKept
<1> QED BY <1>2, <1>3, <1>4, <1>5 DEF Counting

\* Event e becomes counted: its batch has at most the one more that is saved for it, or
\* what it had, and then its count has drifted.
LEMMA CountsOneMore ==
  ASSUME Typed, Typed', Counting, NEW w \in Workers, NEW e \in Events,
         \A v \in Workers \ {w} : req'[v] = req[v],
         ~IsCounted(e), IsCounted(e)',
         \A d \in Events \ {e} : IsCounted(d)' <=> IsCounted(d),
         \A b \in Batches \ {BatchOf[e]} : batch'[b].count = batch[b].count,
         batch'[BatchOf[e]].count <= Cardinality(Counted(BatchOf[e])) + 1,
         \A b \in Batches : drift[b] => drift'[b],
         \/ drift'[BatchOf[e]]
         \/ batch'[BatchOf[e]].count = Cardinality(Counted(BatchOf[e])) + 1,
         req'[w].pc \notin {"tally", "commit", "reconcile"}
  PROVE  Counting'
<1> DEFINE b == BatchOf[e]
<1>1. b \in Batches /\ e \notin Counted(b) /\ Counted(b)' = Counted(b) \cup {e}
  BY BatchTyped DEF Counted, EventsOf
<1>2. Cardinality(Counted(b)') = Cardinality(Counted(b)) + 1
  BY <1>1, CountedFinite, FS_AddElement
<1>3. ASSUME NEW c \in Batches \ {b} PROVE Counted(c)' = Counted(c)
  BY <1>3 DEF Counted, EventsOf
<1>4. \A c \in Batches : batch'[c].count <= Cardinality(Counted(c)')
  BY <1>1, <1>2, <1>3 DEF Counting
<1>5. ASSUME NEW c \in Batches, ~drift'[c] PROVE batch'[c].count = Cardinality(Counted(c)')
  <2>1. CASE c = b
    BY <1>2, <1>5, <2>1
  <2>2. CASE c # b
    <3>1. ~drift[c]
      BY <1>5
    <3> QED BY <1>3, <2>2, <3>1 DEF Counting
  <2> QED BY <2>1, <2>2
<1>6. \A v \in Workers \ {w} : Loaded(req[v])'
  BY LoadedKept
<1>7. Loaded(req[w])'
  BY DEF Loaded
<1> QED BY <1>4, <1>5, <1>6, <1>7 DEF Counting

\* Nobody else is on the way to count what w holds.
LEMMA AloneWith ==
  ASSUME Typed, NEW w \in Workers, req[w].pc \in Holding
  PROVE  \A v \in Workers \ {w} : req[v].pc \in {"fetch", "tally"} => req[v].e # req[w].e
BY DEF Typed, OneAdds, Holding

\* Away from fetch and tally a request awaits no event.
LEMMA AwaitedSame ==
  ASSUME Typed, NEW w \in Workers, \A v \in Workers \ {w} : req'[v] = req[v],
         req[w].pc \notin {"fetch", "tally"}, req'[w].pc \notin {"fetch", "tally"},
         NEW e
  PROVE  Awaited(e)' <=> Awaited(e)
BY DEF Awaited

LEMMA InsertCounted == ASSUME Typed, Counting, NEW w \in Workers, Insert(w) PROVE Counting'
<1>0. PICK e \in Events : e = req[w].e
  BY DEF Insert, At, Typed, Served, Uploads
<1>1. ~Stored(e)
  BY <1>0 DEF Insert
<1>2. /\ req'[w].pc = "fetch" /\ req'[w].e = e
      /\ \A v \in Workers \ {w} : req'[v] = req[v]
  BY <1>0, GotoChanges DEF Insert, Typed, Labels
<1>3. \A d \in Events \ {e} : Stored(d)' <=> Stored(d)
  BY <1>0, StoreChanges DEF Insert, Stored
<1>4. ~IsCounted(e) /\ ~IsCounted(e)'
  BY <1>1, <1>2 DEF IsCounted, Awaited
<1>5. \A d \in Events \ {e} : Awaited(d)' <=> Awaited(d)
  BY <1>0, <1>2 DEF Awaited, Insert, At
<1>6. \A d \in Events : IsCounted(d)' <=> IsCounted(d)
  BY <1>3, <1>4, <1>5 DEF IsCounted
<1> QED BY <1>2, <1>6, CountsSame DEF Insert

LEMMA FetchCounted == ASSUME Typed, Counting, NEW w \in Workers, Fetch(w) PROVE Counting'
<1> DEFINE b == req[w].b
<1>1. b \in Batches
  BY BatchTyped DEF Fetch, At, Typed, Served, Uploads
<1>2. Found(b).count = batch[b].count
  BY <1>1, FoundTyped DEF Typed, Blank
<1>3. \A c \in Batches : batch'[c].count = batch[c].count
  BY <1>1, <1>2 DEF Fetch, Typed, TypeOK
<1>4. /\ req'[w].pc = "tally" /\ req'[w].e = req[w].e /\ req'[w].b = b
      /\ req'[w].count = batch[b].count
      /\ \A v \in Workers \ {w} : req'[v] = req[v]
  BY <1>2 DEF Fetch, Typed, TypeOK, Request
<1>5. \A d \in Events : Awaited(d)' <=> Awaited(d)
  BY <1>4 DEF Awaited, Fetch, At
<1>6. \A d \in Events : IsCounted(d)' <=> IsCounted(d)
  BY <1>5 DEF IsCounted, Stored, Fetch
<1> QED BY <1>1, <1>3, <1>4, <1>6, CountsSame DEF Fetch

\* The save of a count, for an event that is counted from then on.
LEMMA SaveCountCounted ==
  ASSUME Typed, Typed', Counting, NEW w \in Workers, req[w].pc \in {"tally", "commit"}, SaveCount(w),
         NEW e \in Events, e = req[w].e, ~IsCounted(e), IsCounted(e)',
         \A d \in Events \ {e} : IsCounted(d)' <=> IsCounted(d)
  PROVE  Counting'
<1> DEFINE b == BatchOf[e]
<1>1. req[w].b = b /\ b \in Batches
  BY BatchTyped DEF Typed, Served, Uploads
<1>2. /\ batch'[b].count = req[w].count + 1
      /\ \A c \in Batches \ {b} : batch'[c] = batch[c]
      /\ drift'[b] <=> drift[b] \/ LostUpdate(w)
      /\ \A c \in Batches \ {b} : drift'[c] <=> drift[c]
      /\ req'[w].pc = "answer"
      /\ \A v \in Workers \ {w} : req'[v] = req[v]
  BY <1>1, SaveCountChanges
<1>3. /\ req[w].count <= Cardinality(Counted(b)) /\ req[w].count \in Nat
      /\ Cardinality(Counted(b)) \in Nat
  BY <1>1, CountedFinite DEF Counting, Loaded, Typed, TypeOK, Request
<1>4. batch'[b].count <= Cardinality(Counted(b)) + 1
  BY <1>2, <1>3
<1>5. ASSUME ~drift'[b] PROVE batch'[b].count = Cardinality(Counted(b)) + 1
  <2>1. ~drift[b] /\ batch[b].count = req[w].count
    BY <1>1, <1>2, <1>5 DEF LostUpdate
  <2>2. batch[b].count = Cardinality(Counted(b))
    BY <1>1, <2>1 DEF Counting
  <2> QED BY <1>2, <2>1, <2>2
<1>6. \A c \in Batches : drift[c] => drift'[c]
  BY <1>2
<1> QED BY <1>1, <1>2, <1>4, <1>5, <1>6, CountsOneMore

LEMMA TallyCounted == ASSUME Typed, Typed', Counting, NEW w \in Workers, Tally(w) PROVE Counting'
<1>1. req[w].pc = "tally" /\ SaveCount(w) /\ UNCHANGED event
  BY DEF Tally, At
<1>2. PICK e \in Events : e = req[w].e /\ Stored(e)
  BY <1>1 DEF Typed, Served, Uploads
<1>3. req'[w].pc = "answer" /\ \A v \in Workers \ {w} : req'[v] = req[v]
  BY <1>1, SaveCountChanges
<1>4. Awaited(e)
  BY <1>1, <1>2 DEF Awaited
<1>5. ~Awaited(e)'
  BY <1>1, <1>2, <1>3, AloneWith DEF Awaited, Holding
<1>6. \A d \in Events \ {e} : Awaited(d)' <=> Awaited(d)
  BY <1>1, <1>2, <1>3 DEF Awaited
<1>7. /\ ~IsCounted(e) /\ IsCounted(e)'
      /\ \A d \in Events \ {e} : IsCounted(d)' <=> IsCounted(d)
  BY <1>1, <1>2, <1>4, <1>5, <1>6 DEF IsCounted, Stored
<1> QED BY <1>1, <1>2, <1>7, SaveCountCounted

LEMMA CommitCounted == ASSUME Typed, Typed', Counting, NEW w \in Workers, Commit(w) PROVE Counting'
<1>1. req[w].pc = "commit" /\ SaveCount(w) /\ Store(req[w].e)
  BY DEF Commit, At
<1>2. PICK e \in Events : e = req[w].e /\ ~Stored(e)
  BY <1>1 DEF Typed, Served, Uploads
<1>3. req'[w].pc = "answer" /\ \A v \in Workers \ {w} : req'[v] = req[v]
  BY <1>1, SaveCountChanges
<1>4. \A d \in Events : Awaited(d)' <=> Awaited(d)
  BY <1>1, <1>3 DEF Awaited
<1>5. ~Awaited(e)
  BY <1>1, <1>2, AloneWith DEF Awaited, Holding
<1>6. Stored(e)' /\ \A d \in Events \ {e} : Stored(d)' <=> Stored(d)
  BY <1>1, <1>2, StoreChanges DEF Stored
<1>7. /\ ~IsCounted(e) /\ IsCounted(e)'
      /\ \A d \in Events \ {e} : IsCounted(d)' <=> IsCounted(d)
  BY <1>2, <1>4, <1>5, <1>6 DEF IsCounted
<1> QED BY <1>1, <1>2, <1>7, SaveCountCounted

LEMMA CommitFirstCounted ==
  ASSUME Typed, Typed', Counting, NEW w \in Workers, CommitFirst(w) PROVE Counting'
<1>0. PICK e \in Events : e = req[w].e
  BY DEF CommitFirst, At, Typed, Served, Uploads
<1> DEFINE b == BatchOf[e]
           row == [FreshRow EXCEPT !.count = @ + 1]
<1>1. /\ req[w].pc = "load" /\ Store(e) /\ ~Stored(e)
      /\ req[w].b = b /\ b \in Batches /\ UNCHANGED drift
  BY <1>0, BatchTyped DEF CommitFirst, At, Typed, Served, Uploads
<1>2. /\ req'[w].pc = "answer"
      /\ \A v \in Workers \ {w} : req'[v] = req[v]
  BY GotoChanges DEF CommitFirst, Typed, Labels
<1>3. \A d \in Events : Awaited(d)' <=> Awaited(d)
  BY <1>1, <1>2 DEF Awaited
<1>4. ~Awaited(e)
  BY <1>1 DEF Awaited, Typed, Served
<1>5. Stored(e)' /\ \A d \in Events \ {e} : Stored(d)' <=> Stored(d)
  BY <1>1, StoreChanges DEF Stored
<1>6. /\ ~IsCounted(e) /\ IsCounted(e)'
      /\ \A d \in Events \ {e} : IsCounted(d)' <=> IsCounted(d)
  BY <1>1, <1>3, <1>4, <1>5 DEF IsCounted
<1>7. row.count = 1
  <2>1. FreshRow.count = 0
    BY DEF FreshRow, NoRow
  <2>2. FreshRow \in BatchRow
    BY DEF FreshRow, NoRow, BatchRow
  <2> QED BY <2>1, <2>2 DEF BatchRow
<1>8. batch' = [batch EXCEPT ![b] = row]
  BY <1>1 DEF CommitFirst
<1> HIDE DEF row
<1>9. batch'[b].count = 1 /\ \A c \in Batches \ {b} : batch'[c].count = batch[c].count
  BY <1>1, <1>7, <1>8 DEF Typed, TypeOK
<1>10. batch[b].count = 0
  BY <1>1 DEF CommitFirst, Typed, Blank
<1>11. Cardinality(Counted(b)) \in Nat /\ (drift[b] \/ Cardinality(Counted(b)) = 0)
  BY <1>1, <1>10, CountedFinite DEF Counting
<1>12. batch'[b].count <= Cardinality(Counted(b)) + 1
  BY <1>9, <1>11
<1>13. drift'[b] \/ batch'[b].count = Cardinality(Counted(b)) + 1
  BY <1>1, <1>9, <1>11
<1> QED BY <1>1, <1>2, <1>6, <1>9, <1>12, <1>13, CountsOneMore

\* A request that ends, and awaited no event.
LEMMA EndCounted ==
  ASSUME Typed, Counting, NEW w \in Workers, req[w].pc \notin {"fetch", "tally"}, Finish(w),
         \A e \in Events : Stored(e)' <=> Stored(e),
         \A b \in Batches : batch'[b].count = batch[b].count,
         \A b \in Batches : drift[b] => drift'[b]
  PROVE  Counting'
<1>1. /\ req'[w] = Idle /\ \A v \in Workers \ {w} : req'[v] = req[v]
  BY FinishChanges DEF Typed
<1>2. req'[w].pc = "idle"
  BY <1>1 DEF Idle
<1>3. \A e \in Events : Awaited(e)' <=> Awaited(e)
  BY <1>1, <1>2, AwaitedSame
<1>4. \A e \in Events : IsCounted(e)' <=> IsCounted(e)
  BY <1>3 DEF IsCounted
<1> QED BY <1>1, <1>2, <1>4, CountsSame

\* A worker dies after the event and before its count.
LEMMA CrashCounted ==
  ASSUME Typed, Typed', Counting, NEW w \in Workers, Crash(w) PROVE Counting'
<1>1. Finish(w) /\ UNCHANGED <<batch, event>>
  BY DEF Crash
<1>2. CASE req[w].pc \notin {"fetch", "tally"}
  <2>1. UNCHANGED drift
    BY <1>2 DEF Crash
  <2> QED BY <1>1, <1>2, <2>1, EndCounted DEF Stored
<1>3. CASE req[w].pc \in {"fetch", "tally"}
  <2>0. PICK e \in Events : e = req[w].e
    BY <1>3 DEF Typed, Served, Uploads
  <2> DEFINE b == BatchOf[e]
  <2>1. Stored(e) /\ req[w].b = b /\ b \in Batches
    BY <1>3, <2>0, BatchTyped DEF Typed, Served, Uploads
  <2>2. /\ req'[w] = Idle /\ \A v \in Workers \ {w} : req'[v] = req[v]
    BY <1>1, FinishChanges DEF Typed
  <2>3. req'[w].pc = "idle"
    BY <2>2 DEF Idle
  <2>4. drift' = [drift EXCEPT ![b] = TRUE]
    BY <1>3, <2>1 DEF Crash
  <2>5. drift'[b] /\ \A c \in Batches : drift[c] => drift'[c]
    BY <2>1, <2>4 DEF Typed, TypeOK
  <2>6. Awaited(e)
    BY <1>3, <2>0 DEF Awaited
  <2>7. ~Awaited(e)'
    BY <1>3, <2>0, <2>2, <2>3, AloneWith DEF Awaited, Holding
  <2>8. \A d \in Events \ {e} : Awaited(d)' <=> Awaited(d)
    BY <2>0, <2>2, <2>3 DEF Awaited
  <2>9. /\ ~IsCounted(e) /\ IsCounted(e)'
        /\ \A d \in Events \ {e} : IsCounted(d)' <=> IsCounted(d)
    BY <1>1, <2>1, <2>6, <2>7, <2>8 DEF IsCounted, Stored
  <2>10. /\ batch[b].count <= Cardinality(Counted(b)) /\ batch[b].count \in Nat
         /\ Cardinality(Counted(b)) \in Nat
    BY <2>1, CountedFinite DEF Counting, Typed, TypeOK, BatchRow
  <2>11. batch'[b].count <= Cardinality(Counted(b)) + 1
    BY <1>1, <2>10
  <2> QED BY <1>1, <2>1, <2>2, <2>3, <2>5, <2>9, <2>11, CountsOneMore
<1> QED BY <1>2, <1>3

\* A request begins.
LEMMA BeginCounted ==
  ASSUME Typed, Counting, NEW w \in Workers, NEW r \in Request, Begin(w, r),
         r.pc \notin {"fetch", "tally", "commit"},
         r.pc = "reconcile" => r.b \in Batches /\ r.count = batch[r.b].count,
         UNCHANGED <<batch, event, drift>>
  PROVE  Counting'
<1>1. /\ req'[w] = r /\ \A v \in Workers \ {w} : req'[v] = req[v]
  BY Becomes DEF Begin, Typed
<1>2. \A e \in Events : Awaited(e)' <=> Awaited(e)
  BY <1>1, AwaitedSame DEF Begin
<1>3. \A e \in Events : IsCounted(e)' <=> IsCounted(e)
  BY <1>2 DEF IsCounted, Stored
<1> QED BY <1>1, <1>3, CountsSame

LEMMA ReconciledCounted ==
  ASSUME Typed, Counting, NEW w \in Workers, SaveReconciled(w) PROVE Counting'
<1>1. PICK s \in Sessions :
        LET b == req[w].b IN
        /\ b \in Batches /\ req[w].pc = "reconcile"
        /\ \A e \in Events : Stored(e)' <=> Stored(e)
        /\ batch'[b].count = batch[b].count
        /\ \A c \in Batches \ {b} : batch'[c] = batch[c]
  BY ReconciledChanges
<1>2. \A c \in Batches : batch'[c].count = batch[c].count
  BY <1>1
<1> QED BY <1>1, <1>2, EndCounted DEF SaveReconciled

LEMMA CountingStep == ASSUME Typed, Typed', Counting, [Next]_vars PROVE Counting'
<1>1. ASSUME NEW e \in Events, Capture(e) PROVE Counting'
  <2>1. UNCHANGED <<batch, event, req, drift>>
    BY <1>1 DEF Capture
  <2> QED BY <2>1 DEF Counting, Loaded, Counted, EventsOf, IsCounted, Stored, Awaited
<1>2. ASSUME NEW w \in Workers, NEW e \in Events, Post(w, e) \/ PostBatch(w, e) PROVE Counting'
  <2>1. PICK l \in {"insert", "load"} : Upload(w, e, l)
    BY <1>2 DEF Post, PostBatch
  <2> DEFINE r == [Idle EXCEPT !.pc = FirstStep(e, l), !.e = e, !.b = BatchOf[e]]
  <2>2. Begin(w, r) /\ UNCHANGED <<batch, event, drift>>
    BY <2>1 DEF Upload
  <2>3. r \in Request /\ r.pc \in {"answer", "insert", "load"}
    BY BatchTyped DEF Idle, Request, Labels, FirstStep
  <2> HIDE DEF r
  <2> QED BY <2>2, <2>3, BeginCounted
<1>3. ASSUME NEW w \in Workers, NEW b \in Batches, SendAck(w, b) PROVE Counting'
  <2> DEFINE r == [Idle EXCEPT !.pc = AckStep(b), !.b = b]
  <2>1. Begin(w, r) /\ UNCHANGED <<batch, event, drift>>
    BY <1>3 DEF SendAck
  <2>2. r \in Request /\ r.pc \in {"confirm", "acknowledge"}
    BY DEF Idle, Request, Labels, AckStep
  <2> HIDE DEF r
  <2> QED BY <2>1, <2>2, BeginCounted
<1>4. ASSUME NEW w \in Workers, NEW b \in Batches, Reconcile(w, b) PROVE Counting'
  <2> DEFINE r == [Idle EXCEPT !.pc = "reconcile", !.b = b, !.count = batch[b].count]
  <2>1. Begin(w, r) /\ UNCHANGED <<batch, event, drift>>
    BY <1>4 DEF Reconcile
  <2>2. batch[b].count \in Nat
    BY DEF Typed, TypeOK, BatchRow
  <2>3. r \in Request /\ r.pc = "reconcile" /\ r.b = b /\ r.count = batch[b].count
    BY <2>2 DEF Idle, Request, Labels
  <2> HIDE DEF r
  <2> QED BY <2>1, <2>3, BeginCounted
<1>5. ASSUME NEW w \in Workers, InsertRefused(w) \/ Answer(w) \/ Confirm(w) PROVE Counting'
  <2>1. /\ Finish(w) /\ UNCHANGED <<batch, event, drift>>
        /\ req[w].pc \notin {"fetch", "tally"}
    BY <1>5 DEF InsertRefused, Answer, Confirm, At
  <2> QED BY <2>1, EndCounted DEF Stored
<1>6. ASSUME NEW w \in Workers, Acknowledge(w) PROVE Counting'
  <2>1. Finish(w) \/ Goto(w, "confirm")
    BY <1>6 DEF Acknowledge
  <2>2. /\ \A v \in Workers \ {w} : req'[v] = req[v]
        /\ req'[w] = Idle \/ req'[w].pc = "confirm"
    BY <2>1, FinishChanges, GotoChanges DEF Typed, Labels
  <2>3. req'[w].pc \in {"idle", "confirm"} /\ req[w].pc = "acknowledge"
    BY <1>6, <2>2 DEF Idle, Acknowledge, At
  <2>4. \A e \in Events : Awaited(e)' <=> Awaited(e)
    BY <2>2, <2>3, AwaitedSame
  <2>5. \A e \in Events : IsCounted(e)' <=> IsCounted(e)
    BY <1>6, <2>4 DEF IsCounted, Stored, Acknowledge
  <2> QED BY <1>6, <2>2, <2>3, <2>5, CountsSame DEF Acknowledge
<1>7. ASSUME NEW w \in Workers, Load(w) PROVE Counting'
  <2>1. req[w].b \in Batches
    BY <1>7, BatchTyped DEF Load, At, Typed, Served, Uploads
  <2>2. /\ req'[w].pc = "commit" /\ req'[w].b = req[w].b
        /\ req'[w].count = batch[req[w].b].count
        /\ \A v \in Workers \ {w} : req'[v] = req[v]
    BY <1>7 DEF Load, Typed, TypeOK, Request
  <2>3. \A e \in Events : Awaited(e)' <=> Awaited(e)
    BY <1>7, <2>2, AwaitedSame DEF Load, At
  <2>4. \A e \in Events : IsCounted(e)' <=> IsCounted(e)
    BY <1>7, <2>3 DEF IsCounted, Stored, Load
  <2> QED BY <1>7, <2>1, <2>2, <2>4, CountsSame DEF Load
<1>8. CASE UNCHANGED vars
  BY <1>8 DEF vars, Counting, Loaded, Counted, EventsOf, IsCounted, Stored, Awaited
<1> QED BY <1>1, <1>2, <1>3, <1>4, <1>5, <1>6, <1>7, <1>8, InsertCounted, FetchCounted, TallyCounted,
           CommitFirstCounted, CommitCounted, ReconciledCounted, CrashCounted DEF Next, Step

\* Counts and what requests have read of them fit the stored events, in every state.
THEOREM CountingAlways == Spec => []Counting
<1>1. Init => Counting
  <2> SUFFICES ASSUME Init PROVE Counting OBVIOUS
  <2>1. \A b \in Batches : Counted(b) = {}
    BY DEF Init, Counted, EventsOf, IsCounted, Stored
  <2>2. \A b \in Batches : batch[b].count = 0
    BY DEF Init, NoRow
  <2>3. \A w \in Workers : Loaded(req[w])
    BY DEF Init, Idle, Loaded
  <2>4. Cardinality({}) = 0
    BY FS_EmptySet
  <2>5. \A b \in Batches : batch[b].count = Cardinality(Counted(b))
    BY <2>1, <2>2, <2>4
  <2>6. \A b \in Batches : batch[b].count <= Cardinality(Counted(b))
    BY <2>2, <2>5
  <2> QED BY <2>3, <2>5, <2>6 DEF Counting
<1>2. Typed /\ Typed' /\ Counting /\ [Next]_vars => Counting'
  BY CountingStep
<1> QED BY <1>1, <1>2, TypedAlways, PTL DEF Spec

\* The counter of a batch is the number of its counted events, unless uploads overlapped on
\* it or a worker died between an event and its count.
THEOREM CountExact == Spec => []CountExactUnlessDrift
<1>1. Counting => CountExactUnlessDrift
  BY CountedIs DEF Counting, CountExactUnlessDrift
<1> QED BY <1>1, CountingAlways, PTL

(***************************************************************************)
(* The session of a batch reports at most the events it has.               *)
(***************************************************************************)
EventsIn(s) == {e \in Events : event[e].session = s}

LEMMA OverStep ==
  ASSUME Typed, Placed, Counting, SessionNeverOvercounts, [Next]_vars
  PROVE  SessionNeverOvercounts'
<1>1. ASSUME Unmoved PROVE SessionNeverOvercounts'
  <2>1. \A s : EventsIn(s)' = EventsIn(s)
    BY <1>1 DEF Unmoved, EventsIn
  <2> QED BY <1>1, <2>1 DEF Unmoved, SessionNeverOvercounts, EventsIn
<1>2. ASSUME NEW w \in Workers, SaveReconciled(w) PROVE SessionNeverOvercounts'
  <2>1. PICK b \in Batches : b = req[w].b
    BY <1>2 DEF SaveReconciled, At, Typed, Served, OnBatch
  <2>2. PICK s \in Sessions :
          /\ req[w].pc = "reconcile" /\ session[s].batch = NoBatch
          /\ session'[s].count = req[w].count
          /\ \A t \in Sessions \ {s} : session'[t] = session[t]
          /\ \A e \in Events : event'[e].session = IF e \in StoredOf(b) THEN s ELSE event[e].session
          /\ batch'[b].session = s
          /\ \A c \in Batches \ {b} : batch'[c] = batch[c]
    BY <1>2, <2>1, ReconciledChanges
  <2>3. ASSUME NEW c \in Batches, NEW t \in Sessions, batch'[c].session = t
        PROVE  session'[t].count <= Cardinality(EventsIn(t)')
    <3>1. CASE c = b
      <4>1. t = s
        BY <2>2, <2>3, <3>1
      <4>2. Counted(b) \subseteq EventsIn(t)'
        BY <2>2, <4>1 DEF Counted, EventsOf, IsCounted, StoredOf, EventsIn
      <4>3. EventsIn(t)' \in SUBSET Events
        BY DEF EventsIn
      <4>4. Cardinality(Counted(b)) <= Cardinality(EventsIn(t)')
        BY <4>2, <4>3, FiniteEvents, FS_Subset
      <4>5. req[w].count <= Cardinality(Counted(b)) /\ req[w].count \in Nat
        BY <2>1, <2>2 DEF Counting, Loaded, Typed, TypeOK, Request
      <4>6. Cardinality(Counted(b)) \in Nat /\ Cardinality(EventsIn(t)') \in Nat
        BY <4>3, CountedFinite, FiniteEvents
      <4> QED BY <2>2, <4>1, <4>4, <4>5, <4>6
    <3>2. CASE c # b
      <4>1. batch[c].session = t /\ session[t].batch = c
        BY <2>2, <2>3, <3>2, OfflineConstants DEF Placed
      <4>2. t # s /\ session'[t] = session[t]
        BY <2>2, <4>1, OfflineConstants
      <4>3. \A e \in StoredOf(b) : event[e].session # t
        BY <3>2, <4>1, OfflineConstants DEF Placed, StoredOf, EventsOf
      <4>4. EventsIn(t)' = EventsIn(t)
        BY <2>2, <4>2, <4>3 DEF EventsIn
      <4> QED BY <4>1, <4>2, <4>4 DEF SessionNeverOvercounts, EventsIn
    <3> QED BY <3>1, <3>2
  <2> QED BY <2>3 DEF SessionNeverOvercounts, EventsIn
<1>3. ASSUME NEW w \in Workers, Step(w), ~SaveReconciled(w) PROVE Unmoved
  BY <1>3, StepUnmoved
<1>4. CASE ~\E w \in Workers : Step(w)
  <2>1. UNCHANGED <<batch, event, session>>
    BY <1>4 DEF Next, vars, Capture, Post, PostBatch, Upload, SendAck, Reconcile, Crash
  <2> QED BY <1>1, <2>1, UnmovedSame
<1> QED BY <1>1, <1>2, <1>3, <1>4

\* Events and count of a reconciled batch are read at different times and by uploads that
\* may lose a count; the session never reports an event more than it has.
THEOREM NeverOvercounts == Spec => []SessionNeverOvercounts
<1>1. Init => SessionNeverOvercounts
  BY OfflineConstants DEF Init, NoRow, SessionNeverOvercounts
<1>2. Typed /\ Placed /\ Counting /\ SessionNeverOvercounts /\ [Next]_vars => SessionNeverOvercounts'
  BY OverStep
<1> QED BY <1>1, <1>2, PlacedAlways, CountingAlways, PTL DEF Spec

(***************************************************************************)
(* The ledger: each action maps to a step of EventLedger, or to none.      *)
(***************************************************************************)
LEMMA QuietLedger ==
  ASSUME \A e \in Events : Stored(e)' <=> Stored(e), UNCHANGED outbox
  PROVE  UNCHANGED <<Weighed, Recorded, Acknowledged>>
BY DEF Weighed, Recorded, Acknowledged

LEMMA WeighStep == ASSUME Typed, NEW e \in Events, Capture(e) PROVE Ledger!Next
<1> DEFINE p == <<e, BatchOf[e]>>
<1>1. /\ UNCHANGED event /\ outbox[e] = "none" /\ outbox'[e] = "queued"
      /\ \A d \in Events \ {e} : outbox'[d] = outbox[d]
  BY DEF Capture, Typed, TypeOK
<1>2. UNCHANGED <<Recorded, Acknowledged>> /\ Weighed' = Weighed \cup {p}
  BY <1>1 DEF Weighed, Recorded, Acknowledged, Stored
<1>3. \A q \in Weighed : q[1] # e
  BY <1>1 DEF Weighed
<1>4. Ledger!Weigh(p)
  BY <1>2, <1>3 DEF Ledger!Weigh
<1> QED BY <1>4, BatchTyped DEF Ledger!Next, Ledger!Entries

LEMMA RecordStep ==
  ASSUME Typed, NEW w \in Workers, req[w].pc \in {"insert", "load", "commit"},
         Store(req[w].e), ~Stored(req[w].e), UNCHANGED outbox
  PROVE  Ledger!Next
<1>1. PICK e \in Events : e = req[w].e /\ outbox[e] # "none"
  BY DEF Typed, Served, Uploads
<1> DEFINE p == <<e, BatchOf[e]>>
<1>2. /\ Stored(e)' /\ ~Stored(e)
      /\ \A d \in Events \ {e} : Stored(d)' <=> Stored(d)
  BY <1>1, StoreChanges DEF Stored
<1>3. UNCHANGED <<Weighed, Acknowledged>> /\ p \in Weighed
  BY <1>1 DEF Weighed, Acknowledged
<1>4. Recorded' = Recorded \cup {p} /\ p \notin Recorded
  BY <1>2 DEF Recorded
<1>5. Ledger!Record(p)
  BY <1>3, <1>4 DEF Ledger!Record
<1> QED BY <1>5, BatchTyped DEF Ledger!Next, Ledger!Entries

LEMMA AcknowledgeStep ==
  ASSUME Typed, NEW w \in Workers, Answer(w)
  PROVE  Ledger!Next \/ UNCHANGED <<Weighed, Recorded, Acknowledged>>
<1>1. PICK e \in Events : e = req[w].e /\ Stored(e) /\ outbox[e] # "none"
  BY DEF Answer, At, Typed, Served, Uploads
<1> DEFINE p == <<e, BatchOf[e]>>
<1>2. /\ UNCHANGED event /\ outbox'[e] = "acked" /\ \A d \in Events \ {e} : outbox'[d] = outbox[d]
  BY <1>1 DEF Answer, Typed, TypeOK
<1>3. UNCHANGED <<Weighed, Recorded>> /\ p \in Recorded
  BY <1>1, <1>2 DEF Weighed, Recorded, Stored
<1>4. Acknowledged' = Acknowledged \cup {p}
  BY <1>2 DEF Acknowledged
<1>5. CASE p \in Acknowledged
  BY <1>3, <1>4, <1>5
<1>6. CASE p \notin Acknowledged
  <2>1. Ledger!Acknowledge(p)
    BY <1>3, <1>4, <1>6 DEF Ledger!Acknowledge
  <2> QED BY <2>1, BatchTyped DEF Ledger!Next, Ledger!Entries
<1> QED BY <1>5, <1>6

LEMMA LedgerStep ==
  ASSUME Typed, [Next]_vars PROVE [Ledger!Next]_<<Weighed, Recorded, Acknowledged>>
<1> DEFINE Goal == [Ledger!Next]_<<Weighed, Recorded, Acknowledged>>
           Quiet == UNCHANGED <<event, outbox>>
<1> SUFFICES Goal OBVIOUS
<1>1. ASSUME NEW e \in Events, Capture(e) PROVE Goal
  BY <1>1, WeighStep
<1>2. ASSUME NEW w \in Workers, Insert(w) \/ CommitFirst(w) PROVE Goal
  BY <1>2, RecordStep DEF Insert, CommitFirst, At
<1>3. ASSUME NEW w \in Workers, Commit(w) PROVE Goal
  BY <1>3, RecordStep DEF Commit, At, Typed, Served
<1>4. ASSUME NEW w \in Workers, Answer(w) PROVE Goal
  BY <1>4, AcknowledgeStep
<1>5. ASSUME NEW w \in Workers, SaveReconciled(w) PROVE Goal
  <2>1. \A e \in Events : Stored(e)' <=> Stored(e)
    BY <1>5, ReconciledChanges
  <2> QED BY <1>5, <2>1, QuietLedger DEF SaveReconciled
<1>6. Quiet => Goal
  BY QuietLedger DEF Stored
<1>7. CASE UNCHANGED vars
  BY <1>6, <1>7 DEF vars
<1> HIDE DEF Goal
<1>8. ASSUME NEW w \in Workers,
             InsertRefused(w) \/ Fetch(w) \/ Tally(w) \/ Load(w) \/ Acknowledge(w) \/ Confirm(w)
             \/ Crash(w)
      PROVE  Goal
  BY <1>6, <1>8 DEF InsertRefused, Fetch, Tally, Load, Acknowledge, Confirm, Crash
<1>9. ASSUME NEW w \in Workers, NEW e \in Events, Post(w, e) \/ PostBatch(w, e) PROVE Goal
  BY <1>6, <1>9 DEF Post, PostBatch, Upload
<1>10. ASSUME NEW w \in Workers, NEW b \in Batches, SendAck(w, b) \/ Reconcile(w, b) PROVE Goal
  BY <1>6, <1>10 DEF SendAck, Reconcile
<1> QED BY <1>1, <1>2, <1>3, <1>4, <1>5, <1>7, <1>8, <1>9, <1>10 DEF Next, Step

\* The uploads of batches implement the ledger: each event is stored once, never lost, and
\* acknowledged only after.
THEOREM BatchLedger == Spec => ImplementsLedger
<1>1. Init => Ledger!Init
  BY DEF Init, Ledger!Init, Weighed, Recorded, Acknowledged, Stored
<1>2. Typed /\ [Next]_vars => [Ledger!Next]_<<Weighed, Recorded, Acknowledged>>
  BY LedgerStep
<1> QED BY <1>1, <1>2, TypedAlways, PTL DEF Spec, ImplementsLedger, Ledger!Spec

\* The same of the events of offline batches (edge_post_event, edge_post_event_batch with an
\* offlineBatchId).
THEOREM BatchesHonest == Spec => []Ledger!Honest /\ Ledger!NothingLost
<1>1. Ledger!Init => Ledger!Honest
  BY DEF Ledger!Init, Ledger!Honest
<1>2. /\ Ledger!Honest
      /\ [Ledger!Next]_<<Weighed, Recorded, Acknowledged>>
      => Ledger!Honest'
  <2> SUFFICES ASSUME Ledger!Honest, [Ledger!Next]_<<Weighed, Recorded, Acknowledged>>
               PROVE  Ledger!Honest'
    OBVIOUS
  <2>1. CASE UNCHANGED <<Weighed, Recorded, Acknowledged>>
    BY <2>1 DEF Ledger!Honest
  <2>2. ASSUME NEW p \in Ledger!Entries,
               Ledger!Weigh(p) \/ Ledger!Record(p) \/ Ledger!Acknowledge(p)
        PROVE  Ledger!Honest'
    BY <2>2 DEF Ledger!Honest, Ledger!Weigh, Ledger!Record, Ledger!Acknowledge
  <2> QED BY <2>1, <2>2 DEF Ledger!Next
<1>3. [Ledger!Next]_<<Weighed, Recorded, Acknowledged>> =>
        [/\ Weighed \subseteq Weighed' /\ Recorded \subseteq Recorded'
         /\ Acknowledged \subseteq Acknowledged']_<<Weighed, Recorded, Acknowledged>>
  BY DEF Ledger!Next, Ledger!Weigh, Ledger!Record, Ledger!Acknowledge
<1> QED BY <1>1, <1>2, <1>3, BatchLedger, PTL DEF ImplementsLedger, Ledger!Spec, Ledger!NothingLost
=============================================================================
