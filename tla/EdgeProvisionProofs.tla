------------------------- MODULE EdgeProvisionProofs -------------------------
(***************************************************************************)
(* Proofs about EdgeProvision, for any number of codes, devices and        *)
(* threads.  A step that goes Onward never makes a code usable again, a    *)
(* device unknown or a removed one active; what the requests have in hand  *)
(* is stated so that Onward keeps it.                                      *)
(***************************************************************************)
EXTENDS EdgeProvision, TLAPS

\* A code that makes no more devices.
Dead(c) == code[c].there /\ (~code[c].active \/ code[c].usedBy # NoDevice)

Known(d)   == device[d].status # "none"
Removed(d) == device[d].status = "removed"

Listed(d) ==
  Active(d) => deviceIndex[d] = "active" \/ (deviceIndex[d] = "none" /\ d \in unsynced)

Served(r) ==
  /\ r.pc \in {"index", "activate", "revoke"} => r.code \in Codes
  /\ r.pc \in {"index", "revoke"} => code[r.code].there
  /\ r.pc = "index" /\ ~r.active => Dead(r.code)
  /\ r.pc \in {"upsert", "answer", "sync", "remove", "open"} => r.device \in Devices /\ Known(r.device)
  /\ r.pc = "tally" => r.device \in Devices
  /\ r.pc \in {"upsert", "answer"} => Listed(r.device)
  /\ r.pc = "sync" /\ ~r.active => Removed(r.device)
  /\ r.pc = "remove" => r.idle

Rows ==
  /\ \A c \in Codes : code[c].active => code[c].there
  /\ \A c \in Codes : codeIndex[c] = "consumed" => Dead(c)
  /\ \A d \in Devices : device[d].origin # NoCode => device[d].origin \in Codes /\ Dead(device[d].origin)
  /\ \A d \in Devices : deviceIndex[d] = "inactive" => Removed(d)
  /\ \A d \in told : Known(d) /\ Listed(d)

Inv ==
  /\ TypeOK
  /\ \A w \in Workers : Served(req[w])
  /\ Rows
  /\ CodeMakesOneDevice

Onward ==
  /\ \A c \in Codes : code[c].there => code'[c].there
  /\ \A c \in Codes : Dead(c) => Dead(c)'
  /\ \A d \in Devices : Known(d) => Known(d)'
  /\ \A d \in Devices : Removed(d) => Removed(d)'
  /\ \A d \in Devices : Known(d) /\ Listed(d) => Listed(d)'

LEMMA Becomes ==
  ASSUME TypeOK, NEW w \in Workers, NEW r \in Request, req' = [req EXCEPT ![w] = r]
  PROVE  /\ req' \in [Workers -> Request] /\ req'[w] = r
         /\ \A v \in Workers \ {w} : req'[v] = req[v]
BY DEF TypeOK

LEMMA FinishChanges ==
  ASSUME TypeOK, NEW w \in Workers, Finish(w)
  PROVE  /\ req' \in [Workers -> Request] /\ req'[w].pc = "idle"
         /\ \A v \in Workers \ {w} : req'[v] = req[v]
<1>1. Idle \in Request /\ Idle.pc = "idle"
  BY DEF Idle, Request
<1> QED BY <1>1, Becomes DEF Finish

LEMMA IdleServed == ASSUME NEW w \in Workers, req'[w].pc = "idle" PROVE Served(req[w])'
BY DEF Served

\* Requests other than w's.
LEMMA OthersServed ==
  ASSUME Inv, Onward, NEW w \in Workers, \A v \in Workers \ {w} : req'[v] = req[v],
         Served(req[w])'
  PROVE  \A v \in Workers : Served(req[v])'
<1> SUFFICES ASSUME NEW v \in Workers \ {w} PROVE Served(req[v])' OBVIOUS
<1>1. Served(req[v]) /\ req'[v] = req[v]
  BY DEF Inv
<1> QED BY <1>1 DEF Served, Onward

\* Steps that change nothing but the request.
LEMMA CalmOnward ==
  ASSUME UNCHANGED <<code, codeIndex, device, deviceIndex, told>>, unsynced \subseteq unsynced'
  PROVE  Onward
BY DEF Onward, Dead, Known, Removed, Listed, Active

LEMMA CalmRows ==
  ASSUME Inv, UNCHANGED <<code, codeIndex, device, deviceIndex, told>>, unsynced \subseteq unsynced'
  PROVE  Rows' /\ CodeMakesOneDevice'
BY DEF Inv, TypeOK, Rows, CodeMakesOneDevice, Dead, Known, Removed, Listed, Active

LEMMA CalmStep ==
  ASSUME Inv, NEW w \in Workers, req' \in [Workers -> Request],
         \A v \in Workers \ {w} : req'[v] = req[v], Served(req[w])',
         UNCHANGED <<code, codeIndex, device, deviceIndex, told>>,
         unsynced \subseteq unsynced', unsynced' \in SUBSET Devices,
         session' \in SUBSET Devices, relisted' \in SUBSET Devices, raced' \in SUBSET Devices
  PROVE  Inv'
<1>1. TypeOK'
  BY DEF Inv, TypeOK
<1>2. \A v \in Workers : Served(req[v])'
  BY CalmOnward, OthersServed
<1> QED BY <1>1, <1>2, CalmRows DEF Inv

\* A request begins that has a code, or a device, in hand.
LEMMA BeginStep ==
  ASSUME Inv, NEW w \in Workers, NEW r \in Request, Begin(w, r), Served(r),
         UNCHANGED <<code, codeIndex, device, deviceIndex, told, session, history>>
  PROVE  Inv'
<1>1. req' \in [Workers -> Request] /\ req'[w] = r /\ \A v \in Workers \ {w} : req'[v] = req[v]
  BY Becomes DEF Inv, Begin
<1>2. UNCHANGED <<code, codeIndex, device, deviceIndex, told, session, unsynced, relisted, raced>>
  BY DEF history
<1>3. Served(req[w])'
  BY <1>1, <1>2 DEF Served, Dead, Known, Removed, Listed, Active
<1> QED BY <1>1, <1>2, <1>3, CalmStep DEF Inv, TypeOK

LEMMA RequestStep ==
  ASSUME Inv, NEW w \in Workers,
         \/ \E c \in Codes : LoadRevoke(w, c) \/ LookUp(w, c) \/ Direct(w, c)
         \/ \E d \in Devices : Report(w, d) \/ LoadOpen(w, d) \/ LoadTally(w, d) \/ LoadRemove(w, d)
  PROVE  Inv'
<1>1. ASSUME NEW c \in Codes, LoadRevoke(w, c) PROVE Inv'
  <2> DEFINE r == [Idle EXCEPT !.pc = "revoke", !.code = c]
  <2>1. r \in Request /\ r.pc = "revoke" /\ r.code = c
    BY DEF Idle, Request
  <2>2. Served(r)
    BY <1>1, <2>1 DEF LoadRevoke, Served, Inv, Rows
  <2>3. Begin(w, r) /\ UNCHANGED <<code, codeIndex, device, deviceIndex, told, session, history>>
    BY <1>1 DEF LoadRevoke
  <2> HIDE DEF r
  <2> QED BY <2>1, <2>2, <2>3, BeginStep
<1>2. ASSUME NEW c \in Codes, LookUp(w, c) PROVE Inv'
  <2> DEFINE r == [Idle EXCEPT !.pc = "activate", !.code = c, !.public = TRUE]
  <2>1. r \in Request /\ r.pc = "activate" /\ r.code = c
    BY DEF Idle, Request
  <2>2. Served(r)
    BY <2>1 DEF Served
  <2>3. Begin(w, r) /\ UNCHANGED <<code, codeIndex, device, deviceIndex, told, session, history>>
    BY <1>2 DEF LookUp
  <2> HIDE DEF r
  <2> QED BY <2>1, <2>2, <2>3, BeginStep
<1>3. ASSUME NEW c \in Codes, Direct(w, c) PROVE Inv'
  <2> DEFINE r == [Idle EXCEPT !.pc = "activate", !.code = c]
  <2>1. r \in Request /\ r.pc = "activate" /\ r.code = c
    BY DEF Idle, Request
  <2>2. Served(r)
    BY <2>1 DEF Served
  <2>3. Begin(w, r) /\ UNCHANGED <<code, codeIndex, device, deviceIndex, told, session, history>>
    BY <1>3 DEF Direct
  <2> HIDE DEF r
  <2> QED BY <2>1, <2>2, <2>3, BeginStep
<1>4. ASSUME NEW d \in Devices, Report(w, d) PROVE Inv'
  <2> DEFINE r == [Idle EXCEPT !.pc = "sync", !.device = d, !.active = TRUE]
  <2>1. r \in Request /\ r.pc = "sync" /\ r.device = d /\ r.active
    BY DEF Idle, Request
  <2>2. Served(r)
    BY <1>4, <2>1 DEF Report, Active, Served, Known
  <2>3. Begin(w, r) /\ UNCHANGED <<code, codeIndex, device, deviceIndex, told, session, history>>
    BY <1>4 DEF Report
  <2> HIDE DEF r
  <2> QED BY <2>1, <2>2, <2>3, BeginStep
<1>5. ASSUME NEW d \in Devices, LoadOpen(w, d) PROVE Inv'
  <2> DEFINE r == [Idle EXCEPT !.pc = "open", !.device = d]
  <2>1. r \in Request /\ r.pc = "open" /\ r.device = d
    BY DEF Idle, Request
  <2>2. Served(r)
    BY <1>5, <2>1 DEF LoadOpen, Active, Served, Known
  <2>3. Begin(w, r) /\ UNCHANGED <<code, codeIndex, device, deviceIndex, told, session, history>>
    BY <1>5 DEF LoadOpen
  <2> HIDE DEF r
  <2> QED BY <2>1, <2>2, <2>3, BeginStep
<1>6. ASSUME NEW d \in Devices, LoadRemove(w, d) PROVE Inv'
  <2> DEFINE r == [Idle EXCEPT !.pc = "remove", !.device = d, !.idle = (d \notin session)]
  <2>1. r \in Request /\ r.pc = "remove" /\ r.device = d /\ r.idle = (d \notin session)
    BY DEF Idle, Request
  <2>2. Active(d) /\ d \notin session
    BY <1>6 DEF LoadRemove, Removable
  <2>3. Begin(w, r) /\ UNCHANGED <<code, codeIndex, device, deviceIndex, told, session, history>>
    BY <1>6 DEF LoadRemove
  <2> HIDE DEF r
  <2>4. Served(r)
    BY <2>1, <2>2 DEF Active, Served, Known
  <2> QED BY <2>1, <2>3, <2>4, BeginStep
<1>7. ASSUME NEW d \in Devices, LoadTally(w, d) PROVE Inv'
  <2> DEFINE r == [Idle EXCEPT !.pc = "tally", !.device = d]
  <2>1. r \in Request /\ r.pc = "tally" /\ r.device = d
    BY DEF Idle, Request
  <2>2. Served(r)
    BY <2>1 DEF Served
  <2>3. Begin(w, r) /\ UNCHANGED <<code, codeIndex, device, deviceIndex, told, session, history>>
    BY <1>7 DEF LoadTally
  <2> HIDE DEF r
  <2> QED BY <2>1, <2>2, <2>3, BeginStep
<1> QED BY <1>1, <1>2, <1>3, <1>4, <1>5, <1>6, <1>7

(***************************************************************************)
(* Steps that write a row or an entry.                                     *)
(***************************************************************************)
LEMMA WriteStep ==
  ASSUME Inv, NEW w \in Workers, TypeOK', Onward, Rows', CodeMakesOneDevice', Served(req[w])',
         \A v \in Workers \ {w} : req'[v] = req[v]
  PROVE  Inv'
<1>1. \A v \in Workers : Served(req[v])'
  BY OthersServed
<1> QED BY <1>1 DEF Inv

LEMMA CreateCodeStep == ASSUME Inv, NEW w \in Workers, NEW c \in Codes, CreateCode(w, c) PROVE Inv'
<1> DEFINE r == [Idle EXCEPT !.pc = "index", !.code = c, !.active = TRUE]
<1>1. r \in Request /\ r.pc = "index" /\ r.code = c /\ r.active
  BY DEF Idle, Request
<1>2. /\ Begin(w, r) /\ ~code[c].there
      /\ UNCHANGED <<codeIndex, device, deviceIndex, told, session, unsynced, relisted, raced>>
  BY DEF CreateCode, history
<1> HIDE DEF r
<1>3. /\ code' \in [Codes -> CodeRow] /\ code'[c].there
      /\ \A k \in Codes \ {c} : code'[k] = code[k]
  BY DEF CreateCode, Inv, TypeOK, CodeRow
<1>4. req' \in [Workers -> Request] /\ req'[w] = r /\ \A v \in Workers \ {w} : req'[v] = req[v]
  BY <1>1, <1>2, Becomes DEF Begin, Inv
<1>5. TypeOK'
  BY <1>2, <1>3, <1>4 DEF Inv, TypeOK
<1>6. Onward
  BY <1>2, <1>3 DEF Onward, Dead, Known, Removed, Listed, Active
<1>7. Rows'
  BY <1>2, <1>3 DEF Inv, TypeOK, Rows, Dead, Known, Removed, Listed, Active
<1>8. CodeMakesOneDevice'
  BY <1>2 DEF Inv, CodeMakesOneDevice
<1>9. Served(req[w])'
  BY <1>1, <1>3, <1>4 DEF Served
<1> QED BY <1>4, <1>5, <1>6, <1>7, <1>8, <1>9, WriteStep

LEMMA IndexCodeStep == ASSUME Inv, NEW w \in Workers, IndexCode(w) PROVE Inv'
<1>1. PICK c \in Codes : c = req[w].code /\ (~req[w].active => Dead(c))
  BY DEF IndexCode, At, Inv, Served
<1>2. /\ Finish(w)
      /\ UNCHANGED <<code, device, deviceIndex, told, session, unsynced, relisted, raced>>
  BY DEF IndexCode, history
<1>3. /\ codeIndex' \in [Codes -> {"none", "open", "consumed"}]
      /\ codeIndex'[c] = IF req[w].active THEN "open" ELSE "consumed"
      /\ \A k \in Codes \ {c} : codeIndex'[k] = codeIndex[k]
  BY <1>1 DEF IndexCode, Inv, TypeOK
<1>4. req' \in [Workers -> Request] /\ req'[w].pc = "idle" /\ \A v \in Workers \ {w} : req'[v] = req[v]
  BY <1>2, FinishChanges DEF Inv
<1>5. TypeOK'
  BY <1>2, <1>3, <1>4 DEF Inv, TypeOK
<1>6. Onward
  BY <1>2 DEF Onward, Dead, Known, Removed, Listed, Active
<1>7. Rows'
  BY <1>1, <1>2, <1>3 DEF Inv, TypeOK, Rows, Dead, Known, Removed, Listed, Active
<1>8. CodeMakesOneDevice'
  BY <1>2 DEF Inv, CodeMakesOneDevice
<1> QED BY <1>4, <1>5, <1>6, <1>7, <1>8, IdleServed, WriteStep

LEMMA ExpireStep == ASSUME Inv, NEW c \in Codes, Expire(c) PROVE Inv'
<1>1. UNCHANGED <<codeIndex, device, deviceIndex, told, session, req, unsynced, relisted, raced>>
  BY DEF Expire, history
<1>2. /\ code' \in [Codes -> CodeRow]
      /\ \A k \in Codes : /\ code'[k].there <=> code[k].there
                          /\ code'[k].active <=> code[k].active
                          /\ code'[k].usedBy = code[k].usedBy
  BY DEF Expire, Inv, TypeOK, CodeRow
<1>3. TypeOK'
  BY <1>1, <1>2 DEF Inv, TypeOK
<1>4. Rows' /\ CodeMakesOneDevice'
  BY <1>1, <1>2 DEF Inv, TypeOK, Rows, Dead, Known, Removed, Listed, Active, CodeMakesOneDevice
<1>5. \A w \in Workers : Served(req[w])'
  BY <1>1, <1>2 DEF Inv, Served, Dead, Known, Removed, Listed, Active
<1> QED BY <1>3, <1>4, <1>5 DEF Inv

LEMMA SaveRevokeStep == ASSUME Inv, NEW w \in Workers, SaveRevoke(w) PROVE Inv'
<1>1. PICK c \in Codes : c = req[w].code /\ code[c].there
  BY DEF SaveRevoke, At, Inv, Served
<1>2. UNCHANGED <<codeIndex, device, deviceIndex, told, session, unsynced, relisted, raced>>
  BY DEF SaveRevoke, history
<1>3. /\ code' \in [Codes -> CodeRow] /\ code'[c].there /\ ~code'[c].active
      /\ \A k \in Codes \ {c} : code'[k] = code[k]
  BY <1>1 DEF SaveRevoke, Revoked, Inv, TypeOK, CodeRow
<1>4. /\ req' \in [Workers -> Request]
      /\ req'[w].pc = "index" /\ req'[w].code = c /\ ~req'[w].active
      /\ \A v \in Workers \ {w} : req'[v] = req[v]
  <2> DEFINE r == [req[w] EXCEPT !.pc = "index", !.active = FALSE]
  <2>1. req[w] \in Request
    BY DEF Inv, TypeOK
  <2>2. r \in Request /\ r.pc = "index" /\ r.code = c /\ ~r.active
    BY <1>1, <2>1 DEF Request
  <2>3. req' = [req EXCEPT ![w] = r]
    BY <2>1 DEF SaveRevoke, Inv, TypeOK
  <2> HIDE DEF r
  <2> QED BY <2>2, <2>3, Becomes DEF Inv
<1>5. TypeOK'
  BY <1>2, <1>3, <1>4 DEF Inv, TypeOK
<1>6. Onward
  BY <1>2, <1>3 DEF Onward, Dead, Known, Removed, Listed, Active
<1>7. Rows'
  BY <1>2, <1>3 DEF Inv, TypeOK, Rows, Dead, Known, Removed, Listed, Active
<1>8. CodeMakesOneDevice'
  BY <1>2 DEF Inv, CodeMakesOneDevice
<1>9. Served(req[w])'
  BY <1>3, <1>4 DEF Served, Dead
<1> QED BY <1>4, <1>5, <1>6, <1>7, <1>8, <1>9, WriteStep

\* The device that a code makes is the first one: of every device made before, the code is dead.
LEMMA ActivateStep ==
  ASSUME Inv, NEW w \in Workers, NEW d \in Devices, Activate(w, d) PROVE Inv'
<1>1. PICK c \in Codes : c = req[w].code
  BY DEF Activate, At, Inv, Served
<1>2. UNCHANGED <<told, session, relisted, raced>> /\ Usable(c) /\ ~Known(d)
  BY <1>1 DEF Activate, Known
<1>3. code[c].there /\ ~Dead(c) /\ \A x \in Devices : device[x].origin # c
  BY <1>2, EdgeConstants DEF Usable, Dead, Inv, Rows
<1>4. /\ device' \in [Devices -> DeviceRow] /\ device'[d].status = "active" /\ device'[d].origin = c
      /\ \A x \in Devices \ {d} : device'[x] = device[x]
  BY <1>1 DEF Activate, Inv, TypeOK, DeviceRow
<1>5. /\ deviceIndex' \in [Devices -> {"none", "active", "inactive"}]
      /\ unsynced' \in SUBSET Devices /\ unsynced \subseteq unsynced'
      /\ \A x \in Devices \ {d} : deviceIndex'[x] = deviceIndex[x]
      /\ deviceIndex'[d] = "active" \/ (deviceIndex'[d] \in {"none", "active"} /\ d \in unsynced')
  <2>1. deviceIndex[d] \in {"none", "active"}
    BY <1>2 DEF Inv, TypeOK, Rows, Known, Removed
  <2> QED BY <2>1 DEF Activate, Inv, TypeOK
<1>6. /\ code' \in [Codes -> CodeRow] /\ code'[c].there /\ code'[c].usedBy = d
      /\ \A k \in Codes \ {c} : code'[k] = code[k]
  BY <1>1, <1>3 DEF Activate, Used, Inv, TypeOK, CodeRow
<1>7. /\ codeIndex' \in [Codes -> {"none", "open", "consumed"}]
      /\ \A k \in Codes \ {c} : codeIndex'[k] = codeIndex[k]
  BY <1>1 DEF Activate, Inv, TypeOK
<1>8. /\ req' \in [Workers -> Request]
      /\ req'[w].pc \in {"upsert", "answer"} /\ req'[w].device = d
      /\ \A v \in Workers \ {w} : req'[v] = req[v]
  <2> DEFINE l == IF req[w].public THEN "upsert" ELSE "answer"
             r == [req[w] EXCEPT !.pc = l, !.device = d]
  <2>1. req[w] \in Request /\ l \in {"upsert", "answer"}
    BY DEF Inv, TypeOK
  <2>2. req' = [req EXCEPT ![w] = r]
    BY <2>1 DEF Activate, Inv, TypeOK
  <2> HIDE DEF l
  <2>3. r \in Request /\ r.pc = l /\ r.device = d
    BY <2>1 DEF Request
  <2> HIDE DEF r
  <2> QED BY <2>1, <2>2, <2>3, Becomes DEF Inv
<1>9. TypeOK'
  BY <1>2, <1>4, <1>5, <1>6, <1>7, <1>8 DEF Inv, TypeOK
<1>10. Dead(c)' /\ Known(d)' /\ Listed(d)'
  BY <1>4, <1>5, <1>6, EdgeConstants DEF Dead, Known, Listed
<1>11. Onward
  BY <1>2, <1>4, <1>5, <1>6, <1>10 DEF Onward, Dead, Known, Removed, Listed, Active
<1>12. Rows'
  <2>1. \A k \in Codes : code'[k].active => code'[k].there
    BY <1>6 DEF Inv, Rows
  <2>2. \A k \in Codes : codeIndex'[k] = "consumed" => Dead(k)'
    BY <1>7, <1>10, <1>11 DEF Inv, Rows, Onward
  <2>3. \A x \in Devices : device'[x].origin # NoCode =>
          device'[x].origin \in Codes /\ Dead(device[x].origin)'
    <3> SUFFICES ASSUME NEW x \in Devices, NEW k, k = device'[x].origin, k # NoCode
                 PROVE  k \in Codes /\ Dead(k)'
      BY DEF Dead
    <3>1. CASE x = d
      BY <1>4, <1>10, <3>1
    <3>2. CASE x # d
      BY <1>4, <1>11, <3>2 DEF Inv, Rows, Onward
    <3> QED BY <3>1, <3>2
  <2>4. \A x \in Devices : deviceIndex'[x] = "inactive" => Removed(x)'
    BY <1>5, <1>11 DEF Inv, Rows, Onward
  <2>5. \A x \in told' : Known(x)' /\ Listed(x)'
    BY <1>2, <1>11 DEF Inv, TypeOK, Rows, Onward
  <2> QED BY <2>1, <2>2, <2>3, <2>4, <2>5 DEF Rows
<1>13. CodeMakesOneDevice'
  BY <1>3, <1>4 DEF Inv, CodeMakesOneDevice
<1>14. Served(req[w])'
  BY <1>8, <1>10 DEF Served, Known, Listed, Active
<1> QED BY <1>8, <1>9, <1>11, <1>12, <1>13, <1>14, WriteStep

\* An entry is written.
LEMMA ListChanges ==
  ASSUME Inv, NEW d \in Devices, NEW active, List(d, active)
  PROVE  /\ deviceIndex' \in [Devices -> {"none", "active", "inactive"}]
         /\ deviceIndex'[d] = IF active THEN "active" ELSE "inactive"
         /\ \A x \in Devices \ {d} : deviceIndex'[x] = deviceIndex[x]
         /\ relisted' \in SUBSET Devices
         /\ relisted \subseteq relisted'
         /\ active /\ ~Active(d) => d \in relisted'
BY DEF List, Inv, TypeOK

LEMMA ListOnward ==
  ASSUME Inv, NEW d \in Devices, NEW active, List(d, active), Known(d), ~active => Removed(d),
         UNCHANGED <<code, codeIndex, device, told, unsynced>>
  PROVE  Onward /\ Rows' /\ CodeMakesOneDevice' /\ Listed(d)'
<1>1. /\ deviceIndex'[d] = IF active THEN "active" ELSE "inactive"
      /\ \A x \in Devices \ {d} : deviceIndex'[x] = deviceIndex[x]
  BY ListChanges
<1>2. Listed(d)'
  BY <1>1 DEF Listed, Active, Removed
<1>3. Onward
  BY <1>1, <1>2 DEF Onward, Dead, Known, Removed, Listed, Active
<1>4. \A x \in Devices : deviceIndex'[x] = "inactive" => Removed(x)'
  BY <1>1 DEF Inv, Rows, Removed
<1>5. \A x \in told' : Known(x)' /\ Listed(x)'
  BY <1>3 DEF Inv, TypeOK, Rows, Onward
<1>6. Rows'
  BY <1>4, <1>5 DEF Inv, Rows, Dead
<1> QED BY <1>2, <1>3, <1>6 DEF Inv, CodeMakesOneDevice

LEMMA UpsertStep == ASSUME Inv, NEW w \in Workers, Upsert(w) PROVE Inv'
<1>1. PICK d \in Devices : d = req[w].device /\ Known(d)
  BY DEF Upsert, At, Inv, Served
<1>2. List(d, TRUE) /\ UNCHANGED <<code, codeIndex, device, told, session, unsynced, raced>>
  BY <1>1 DEF Upsert
<1>3. /\ req' \in [Workers -> Request] /\ req'[w].pc = "answer" /\ req'[w].device = d
      /\ \A v \in Workers \ {w} : req'[v] = req[v]
  BY <1>1 DEF Upsert, Inv, TypeOK, Request
<1>4. Onward /\ Rows' /\ CodeMakesOneDevice' /\ Listed(d)'
  BY <1>1, <1>2, ListOnward
<1>5. TypeOK'
  BY <1>2, <1>3, ListChanges DEF Inv, TypeOK
<1>6. Known(d)'
  BY <1>1, <1>4 DEF Onward
<1>7. Served(req[w])'
  BY <1>3, <1>4, <1>6 DEF Served, Known, Listed, Active
<1> QED BY <1>3, <1>4, <1>5, <1>7, WriteStep

\* Where a request goes that has to answer.
LEMMA AfterEntry ==
  ASSUME Inv, NEW w \in Workers,
         IF req[w].answers THEN req' = [req EXCEPT ![w].pc = "answer"] ELSE Finish(w)
  PROVE  /\ req' \in [Workers -> Request] /\ \A v \in Workers \ {w} : req'[v] = req[v]
         /\ req'[w].pc = "idle" \/ (req'[w].pc = "answer" /\ req'[w].device = req[w].device)
<1>1. CASE req[w].answers
  BY <1>1 DEF Inv, TypeOK, Request
<1>2. CASE ~req[w].answers
  BY <1>2, FinishChanges DEF Inv
<1> QED BY <1>1, <1>2

LEMMA SyncStep == ASSUME Inv, NEW w \in Workers, Sync(w) PROVE Inv'
<1>1. PICK d \in Devices : d = req[w].device /\ Known(d) /\ (~req[w].active => Removed(d))
  BY DEF Sync, At, Inv, Served
<1>2. List(d, req[w].active) /\ UNCHANGED <<code, codeIndex, device, told, session, unsynced, raced>>
  BY <1>1 DEF Sync
<1>3. /\ req' \in [Workers -> Request] /\ \A v \in Workers \ {w} : req'[v] = req[v]
      /\ req'[w].pc = "idle" \/ (req'[w].pc = "answer" /\ req'[w].device = d)
  BY <1>1, AfterEntry DEF Sync
<1>4. Onward /\ Rows' /\ CodeMakesOneDevice' /\ Listed(d)'
  BY <1>1, <1>2, ListOnward
<1>5. TypeOK'
  BY <1>2, <1>3, ListChanges DEF Inv, TypeOK
<1>6. Known(d)'
  BY <1>1, <1>4 DEF Onward
<1>7. Served(req[w])'
  BY <1>3, <1>4, <1>6 DEF Served, Known, Listed, Active
<1> QED BY <1>3, <1>4, <1>5, <1>7, WriteStep

LEMMA SyncFailsStep == ASSUME Inv, NEW w \in Workers, SyncFails(w) PROVE Inv'
<1>1. PICK d \in Devices : d = req[w].device /\ Known(d)
  BY DEF SyncFails, At, Inv, Served
<1>2. /\ unsynced' = unsynced \cup {d}
      /\ UNCHANGED <<code, codeIndex, device, deviceIndex, told, session, relisted, raced>>
  BY <1>1 DEF SyncFails
<1>3. /\ req' \in [Workers -> Request] /\ \A v \in Workers \ {w} : req'[v] = req[v]
      /\ req'[w].pc = "idle" \/ (req'[w].pc = "answer" /\ req'[w].device = d)
  BY <1>1, AfterEntry DEF SyncFails
<1>4. Known(d)' /\ Listed(d)'
  BY <1>1, <1>2 DEF Inv, TypeOK, Rows, Known, Listed, Active, Removed
<1>5. Served(req[w])'
  BY <1>3, <1>4 DEF Served, Known, Listed, Active
<1> QED BY <1>2, <1>3, <1>5, CalmStep DEF Inv, TypeOK

LEMMA AnswerStep == ASSUME Inv, NEW w \in Workers, Answer(w) PROVE Inv'
<1>1. PICK d \in Devices : d = req[w].device /\ Known(d) /\ Listed(d)
  BY DEF Answer, At, Inv, Served
<1>2. /\ Finish(w) /\ told' = told \cup {d}
      /\ UNCHANGED <<code, codeIndex, device, deviceIndex, session, unsynced, relisted, raced>>
  BY <1>1 DEF Answer, history
<1>3. req' \in [Workers -> Request] /\ req'[w].pc = "idle" /\ \A v \in Workers \ {w} : req'[v] = req[v]
  BY <1>2, FinishChanges DEF Inv
<1>4. TypeOK'
  BY <1>2, <1>3 DEF Inv, TypeOK
<1>5. Onward
  BY <1>2 DEF Onward, Dead, Known, Removed, Listed, Active
<1>6. Rows' /\ CodeMakesOneDevice'
  BY <1>1, <1>2 DEF Inv, Rows, Dead, Known, Removed, Listed, Active, CodeMakesOneDevice
<1> QED BY <1>3, <1>4, <1>5, <1>6, IdleServed, WriteStep

LEMMA RegisterStep ==
  ASSUME Inv, NEW w \in Workers, NEW d \in Devices, Register(w, d) PROVE Inv'
<1> DEFINE r == [Idle EXCEPT !.pc = AfterSave, !.device = d, !.active = TRUE, !.answers = TRUE]
<1>1. r \in Request /\ r.pc = "sync" /\ r.device = d /\ r.active
  BY DEF Idle, Request, AfterSave
<1>2. /\ Begin(w, r) /\ ~Known(d)
      /\ UNCHANGED <<code, codeIndex, deviceIndex, told, session, unsynced, relisted, raced>>
  BY DEF Register, history, Known
<1> HIDE DEF r
<1>3. /\ device' \in [Devices -> DeviceRow] /\ device'[d].status = "active"
      /\ \A x \in Devices : device'[x].origin = device[x].origin
      /\ \A x \in Devices \ {d} : device'[x] = device[x]
  BY DEF Register, Inv, TypeOK, DeviceRow
<1>4. req' \in [Workers -> Request] /\ req'[w] = r /\ \A v \in Workers \ {w} : req'[v] = req[v]
  BY <1>1, <1>2, Becomes DEF Begin, Inv
<1>5. TypeOK'
  BY <1>2, <1>3, <1>4 DEF Inv, TypeOK
<1>6. Onward
  BY <1>2, <1>3 DEF Onward, Dead, Known, Removed, Listed, Active
<1>7. d \notin told
  BY <1>2 DEF Inv, Rows
<1>8. Rows'
  BY <1>2, <1>3, <1>7 DEF Inv, TypeOK, Rows, Dead, Known, Removed, Listed, Active
<1>9. CodeMakesOneDevice'
  BY <1>3 DEF Inv, CodeMakesOneDevice
<1>10. Served(req[w])'
  BY <1>1, <1>3, <1>4 DEF Served, Known
<1> QED BY <1>4, <1>5, <1>6, <1>8, <1>9, <1>10, WriteStep

LEMMA SaveRemoveStep == ASSUME Inv, NEW w \in Workers, SaveRemove(w) PROVE Inv'
<1>1. PICK d \in Devices : d = req[w].device /\ Known(d)
  BY DEF SaveRemove, At, Inv, Served
<1>2. UNCHANGED <<code, codeIndex, deviceIndex, told, session, unsynced, relisted>>
  BY DEF SaveRemove
<1>3. /\ device' \in [Devices -> DeviceRow] /\ device'[d].status = "removed"
      /\ \A x \in Devices : device'[x].origin = device[x].origin
      /\ \A x \in Devices \ {d} : device'[x] = device[x]
  BY <1>1 DEF SaveRemove, Inv, TypeOK, DeviceRow
<1>4. /\ req' \in [Workers -> Request]
      /\ req'[w].pc = "sync" /\ req'[w].device = d
      /\ \A v \in Workers \ {w} : req'[v] = req[v]
  <2> DEFINE r == [req[w] EXCEPT !.pc = "sync", !.active = FALSE]
  <2>1. req[w] \in Request
    BY DEF Inv, TypeOK
  <2>2. r \in Request /\ r.pc = "sync" /\ r.device = d
    BY <1>1, <2>1 DEF Request
  <2>3. req' = [req EXCEPT ![w] = r]
    BY <2>1 DEF SaveRemove, Delisted, Inv, TypeOK
  <2> HIDE DEF r
  <2> QED BY <2>2, <2>3, Becomes DEF Inv
<1>5. TypeOK'
  <2>1. raced' \in SUBSET Devices
    BY <1>1 DEF SaveRemove, Inv, TypeOK
  <2> QED BY <1>2, <1>3, <1>4, <2>1 DEF Inv, TypeOK
<1>6. Onward
  BY <1>2, <1>3 DEF Onward, Dead, Known, Removed, Listed, Active
<1>7. Rows'
  BY <1>2, <1>3 DEF Inv, TypeOK, Rows, Dead, Known, Removed, Listed, Active
<1>8. CodeMakesOneDevice'
  BY <1>3 DEF Inv, CodeMakesOneDevice
<1>9. Served(req[w])'
  BY <1>3, <1>4 DEF Served, Known, Removed
<1> QED BY <1>4, <1>5, <1>6, <1>7, <1>8, <1>9, WriteStep

\* Requests that end with nothing written but a session or a missed entry.
LEMMA QuitStep ==
  ASSUME Inv, NEW w \in Workers, Refuse(w) \/ Crash(w) \/ Open(w) \/ SaveTally(w) PROVE Inv'
<1>1. Finish(w) /\ UNCHANGED <<code, codeIndex, device, deviceIndex, told>>
  BY DEF Refuse, Crash, Open, SaveTally
<1>2. req' \in [Workers -> Request] /\ req'[w].pc = "idle" /\ \A v \in Workers \ {w} : req'[v] = req[v]
  BY <1>1, FinishChanges DEF Inv
<1>3. /\ unsynced \subseteq unsynced' /\ unsynced' \in SUBSET Devices
      /\ session' \in SUBSET Devices /\ relisted' \in SUBSET Devices /\ raced' \in SUBSET Devices
  BY DEF Refuse, Crash, Open, SaveTally, At, history, Inv, TypeOK, Served
<1> QED BY <1>1, <1>2, <1>3, IdleServed, CalmStep

LEMMA CloseStep == ASSUME Inv, NEW d \in Devices, Close(d) PROVE Inv'
<1>1. /\ session' \in SUBSET Devices
      /\ UNCHANGED <<code, codeIndex, device, deviceIndex, told, req, unsynced, relisted, raced>>
  BY DEF Close, history, Inv, TypeOK
<1>2. \A w \in Workers : Served(req[w])'
  BY <1>1 DEF Inv, Served, Dead, Known, Removed, Listed, Active
<1> QED BY <1>1, <1>2, CalmRows DEF Inv, TypeOK

LEMMA InvStep == ASSUME Inv, [Next]_vars PROVE Inv'
<1>1. CASE UNCHANGED vars
  <2>1. UNCHANGED <<code, codeIndex, device, deviceIndex, told, session, req, unsynced, relisted, raced>>
    BY <1>1 DEF vars
  <2>2. \A w \in Workers : Served(req[w])'
    BY <2>1 DEF Inv, Served, Dead, Known, Removed, Listed, Active
  <2> QED BY <2>1, <2>2, CalmRows DEF Inv, TypeOK
<1> QED BY <1>1, RequestStep, CreateCodeStep, IndexCodeStep, ExpireStep, SaveRevokeStep, ActivateStep,
           UpsertStep, SyncStep, SyncFailsStep, AnswerStep, RegisterStep, SaveRemoveStep, QuitStep,
           CloseStep DEF Next

LEMMA InvInit == Init => Inv
<1> SUFFICES ASSUME Init PROVE Inv OBVIOUS
<1>1. Idle \in Request /\ Idle.pc = "idle"
  BY DEF Idle, Request
<1>2. TypeOK
  BY <1>1 DEF Init, TypeOK, NoCodeRow, CodeRow, DeviceRow
<1>3. Rows /\ CodeMakesOneDevice
  BY DEF Init, Rows, CodeMakesOneDevice, NoCodeRow
<1>4. \A w \in Workers : Served(req[w])
  BY <1>1 DEF Init, Served
<1> QED BY <1>2, <1>3, <1>4 DEF Inv

\* Codes, devices and requests fit each other, in every state.
THEOREM InvAlways == Spec => []Inv
<1>1. Inv /\ [Next]_vars => Inv'
  BY InvStep
<1> QED BY <1>1, InvInit, PTL DEF Spec

\* Codes, devices, their entries and the requests keep their types.
THEOREM EdgeTyped == Spec => []TypeOK
<1>1. Inv => TypeOK
  BY DEF Inv
<1> QED BY <1>1, InvAlways, PTL

\* A setup code makes one device, however many requests send it at once.
THEOREM OneDevice == Spec => []CodeMakesOneDevice
<1>1. Inv => CodeMakesOneDevice
  BY DEF Inv
<1> QED BY <1>1, InvAlways, PTL

\* The public index refuses no code that the tenant would still take.
THEOREM NotConsumed == Spec => []UsableIsNotConsumed
<1>1. Inv => UsableIsNotConsumed
  BY DEF Inv, Rows, Dead, Usable, UsableIsNotConsumed
<1> QED BY <1>1, InvAlways, PTL

\* An edge that was told its id is in the public index, unless it never got an entry.
THEOREM Found == Spec => []KnownIsListed
<1>1. Inv => KnownIsListed
  BY DEF Inv, Rows, Listed, KnownIsListed
<1> QED BY <1>1, InvAlways, PTL

(***************************************************************************)
(* Removal.                                                                *)
(***************************************************************************)

Delisting(w, d) == At(w, "sync") /\ req[w].device = d /\ ~req[w].active

\* Nothing comes of a step that moves no device and no entry, of a thread that writes none.
LEMMA DelistedCalm ==
  ASSUME RemovedIsDelisted, UNCHANGED <<device, deviceIndex>>,
         relisted \subseteq relisted', unsynced \subseteq unsynced',
         \A v \in Workers : At(v, "sync") => req'[v] = req[v]
  PROVE  RemovedIsDelisted'
BY DEF RemovedIsDelisted, At

\* One device is written, or its entry; no removal is left without its request.
LEMMA DelistedWrite ==
  ASSUME Inv, RemovedIsDelisted, NEW w \in Workers, NEW d \in Devices,
         \A v \in Workers \ {w} : req'[v] = req[v],
         \A x \in Devices \ {d} : device'[x] = device[x] /\ deviceIndex'[x] = deviceIndex[x],
         relisted \subseteq relisted', unsynced \subseteq unsynced',
         req[w].pc = "sync" => req[w].device = d,
         \/ d \in relisted' \cup unsynced'
         \/ device'[d].status # "removed"
         \/ deviceIndex'[d] # "active"
         \/ Delisting(w, d)'
  PROVE  RemovedIsDelisted'
<1> SUFFICES ASSUME NEW x \in Devices, x \notin relisted', x \notin unsynced',
                    device'[x].status = "removed", deviceIndex'[x] = "active"
             PROVE  \E v \in Workers : Delisting(v, x)'
  BY DEF RemovedIsDelisted, Delisting
<1>1. CASE x = d
  BY <1>1
<1>2. CASE x # d
  <2>1. PICK v \in Workers : At(v, "sync") /\ req[v].device = x /\ ~req[v].active
    BY <1>2 DEF RemovedIsDelisted
  <2>2. v # w
    BY <1>2, <2>1 DEF At
  <2> QED BY <2>1, <2>2 DEF Delisting, At
<1> QED BY <1>1, <1>2

LEMMA DelistedStep ==
  ASSUME Inv, RemovedIsDelisted, [Next]_vars PROVE RemovedIsDelisted'
<1>1. ASSUME NEW w \in Workers, NEW d \in Devices, Activate(w, d) PROVE RemovedIsDelisted'
  <2>1. /\ device'[d].status = "active" /\ req[w].pc = "activate"
        /\ \A x \in Devices \ {d} : device'[x] = device[x] /\ deviceIndex'[x] = deviceIndex[x]
        /\ \A v \in Workers \ {w} : req'[v] = req[v]
        /\ UNCHANGED relisted /\ unsynced \subseteq unsynced'
    BY <1>1 DEF Activate, At, Inv, TypeOK
  <2> QED BY <2>1, DelistedWrite
<1>2. ASSUME NEW w \in Workers, Sync(w) \/ Upsert(w) PROVE RemovedIsDelisted'
  <2>1. PICK d \in Devices : d = req[w].device
    BY <1>2 DEF Sync, Upsert, At, Inv, Served
  <2>2. PICK active \in BOOLEAN : List(d, active)
    BY <1>2, <2>1 DEF Sync, Upsert, Inv, TypeOK, Request
  <2>3. UNCHANGED <<device, unsynced>> /\ relisted \subseteq relisted'
    BY <1>2, <2>2, ListChanges DEF Sync, Upsert
  <2>4. d \in relisted' \/ device'[d].status # "removed" \/ deviceIndex'[d] # "active"
    BY <2>2, <2>3, ListChanges DEF Active
  <2>5. \A v \in Workers \ {w} : req'[v] = req[v]
    BY <1>2, AfterEntry DEF Sync, Upsert, Inv, TypeOK
  <2> QED BY <2>1, <2>2, <2>3, <2>4, <2>5, ListChanges, DelistedWrite
<1>3. ASSUME NEW w \in Workers, SyncFails(w) PROVE RemovedIsDelisted'
  <2>1. PICK d \in Devices : d = req[w].device
    BY <1>3 DEF SyncFails, At, Inv, Served
  <2>2. /\ d \in unsynced' /\ unsynced \subseteq unsynced'
        /\ UNCHANGED <<device, deviceIndex, relisted>>
    BY <1>3, <2>1 DEF SyncFails
  <2>3. \A v \in Workers \ {w} : req'[v] = req[v]
    BY <1>3, AfterEntry DEF SyncFails
  <2> QED BY <2>1, <2>2, <2>3, DelistedWrite
<1>4. ASSUME NEW w \in Workers, Crash(w) PROVE RemovedIsDelisted'
  <2>1. Finish(w) /\ UNCHANGED <<device, deviceIndex, relisted>> /\ unsynced \subseteq unsynced'
    BY <1>4 DEF Crash
  <2>2. \A v \in Workers \ {w} : req'[v] = req[v]
    BY <2>1, FinishChanges DEF Inv
  <2>3. CASE At(w, "sync")
    <3>1. req[w].device \in Devices /\ req[w].device \in unsynced'
      BY <1>4, <2>3 DEF Crash, At, Inv, Served
    <3> QED BY <2>1, <2>2, <3>1, DelistedWrite
  <2>4. CASE ~At(w, "sync")
    BY <2>1, <2>2, <2>4, DelistedCalm
  <2> QED BY <2>3, <2>4
<1>5. ASSUME NEW w \in Workers, NEW d \in Devices, Register(w, d) PROVE RemovedIsDelisted'
  <2> DEFINE r == [Idle EXCEPT !.pc = AfterSave, !.device = d, !.active = TRUE, !.answers = TRUE]
  <2>1. req' = [req EXCEPT ![w] = r] /\ req[w].pc = "idle" /\ UNCHANGED <<deviceIndex, relisted, unsynced>>
    BY <1>5 DEF Register, Begin, history
  <2> HIDE DEF r
  <2>2. \A v \in Workers \ {w} : req'[v] = req[v]
    BY <2>1 DEF Inv, TypeOK
  <2>3. /\ device'[d].status = "active" /\ \A x \in Devices \ {d} : device'[x] = device[x]
    BY <1>5 DEF Register, Inv, TypeOK, DeviceRow
  <2> QED BY <2>1, <2>2, <2>3, DelistedWrite
<1>6. ASSUME NEW w \in Workers, SaveRemove(w) PROVE RemovedIsDelisted'
  <2>1. PICK d \in Devices : d = req[w].device
    BY <1>6 DEF SaveRemove, At, Inv, Served
  <2>2. \A x \in Devices \ {d} : device'[x] = device[x]
    BY <1>6, <2>1 DEF SaveRemove, Inv, TypeOK
  <2>3. /\ req'[w].pc = "sync" /\ req'[w].device = d /\ ~req'[w].active
        /\ \A v \in Workers \ {w} : req'[v] = req[v]
    BY <1>6, <2>1 DEF SaveRemove, Delisted, Inv, TypeOK, Request
  <2>4. UNCHANGED <<deviceIndex, relisted, unsynced>> /\ req[w].pc = "remove"
    BY <1>6 DEF SaveRemove, At
  <2> QED BY <2>2, <2>3, <2>4, DelistedWrite DEF Delisting, At
<1>7. ASSUME UNCHANGED <<device, deviceIndex, relisted, unsynced>>,
             NEW w \in Workers, ~At(w, "sync"), \A v \in Workers \ {w} : req'[v] = req[v]
      PROVE  RemovedIsDelisted'
  BY <1>7, DelistedCalm
<1>8. ASSUME NEW w \in Workers, Refuse(w) \/ IndexCode(w) \/ Answer(w) \/ Open(w) \/ SaveTally(w)
      PROVE  RemovedIsDelisted'
  <2>1. /\ UNCHANGED <<device, deviceIndex, relisted, unsynced>> /\ ~At(w, "sync") /\ Finish(w)
    BY <1>8 DEF Refuse, IndexCode, Answer, Open, SaveTally, At, history
  <2> QED BY <1>7, <2>1, FinishChanges DEF Inv
<1>9. ASSUME NEW w \in Workers,
             \/ SaveRevoke(w)
             \/ \E c \in Codes : CreateCode(w, c) \/ LoadRevoke(w, c) \/ LookUp(w, c) \/ Direct(w, c)
             \/ \E d \in Devices : Report(w, d) \/ LoadOpen(w, d) \/ LoadTally(w, d) \/ LoadRemove(w, d)
      PROVE  RemovedIsDelisted'
  <2>1. UNCHANGED <<device, deviceIndex, relisted, unsynced>> /\ ~At(w, "sync")
    BY <1>9 DEF SaveRevoke, CreateCode, LoadRevoke, LookUp, Direct, Report, LoadOpen, LoadTally,
       LoadRemove, Begin, At, history
  <2>2. \A v \in Workers \ {w} : req'[v] = req[v]
    BY <1>9 DEF SaveRevoke, CreateCode, LoadRevoke, LookUp, Direct, Report, LoadOpen, LoadTally,
       LoadRemove, Begin, Inv, TypeOK
  <2> QED BY <1>7, <2>1, <2>2
<1>10. ASSUME \/ UNCHANGED vars
              \/ \E c \in Codes : Expire(c)
              \/ \E d \in Devices : Close(d)
       PROVE  RemovedIsDelisted'
  <2>1. UNCHANGED <<device, deviceIndex, relisted, unsynced, req>>
    BY <1>10 DEF vars, Expire, Close, history
  <2> QED BY <2>1, DelistedCalm
<1> QED BY <1>1, <1>2, <1>3, <1>4, <1>5, <1>6, <1>8, <1>9, <1>10 DEF Next

\* A removed edge leaves the public index with its removal, unless an older request writes
\* its entry afterwards or the entry cannot be written.
THEOREM RemovalDelists == Spec => []RemovedIsDelisted
<1>1. Init => RemovedIsDelisted
  BY DEF Init, RemovedIsDelisted
<1>2. Inv /\ RemovedIsDelisted /\ [Next]_vars => RemovedIsDelisted'
  BY DelistedStep
<1> QED BY <1>1, <1>2, InvAlways, PTL DEF Spec

LEMMA SessionStep == ASSUME Inv, RemovedHasNoSession, [Next]_vars PROVE RemovedHasNoSession'
<1>1. ASSUME NEW w \in Workers, SaveRemove(w) PROVE RemovedHasNoSession'
  <2>1. req[w].device \in Devices /\ req[w].idle
    BY <1>1 DEF SaveRemove, At, Inv, Served
  <2>2. /\ UNCHANGED session
        /\ raced' = IF req[w].device \in session THEN raced \cup {req[w].device} ELSE raced
        /\ \A x \in Devices \ {req[w].device} : device'[x] = device[x]
    BY <1>1, <2>1 DEF SaveRemove, Inv, TypeOK
  <2> QED BY <2>1, <2>2 DEF RemovedHasNoSession, Inv, TypeOK
<1>2. ASSUME NEW w \in Workers, Open(w) \/ SaveTally(w) PROVE RemovedHasNoSession'
  BY <1>2 DEF Open, SaveTally, Active, RemovedHasNoSession
<1>3. ASSUME NEW d \in Devices, Close(d) PROVE RemovedHasNoSession'
  BY <1>3 DEF Close, history, RemovedHasNoSession
<1>4. ASSUME NEW w \in Workers, NEW d \in Devices, Activate(w, d) \/ Register(w, d)
      PROVE  RemovedHasNoSession'
  <2>1. /\ UNCHANGED <<session, raced>> /\ device'[d].status = "active"
        /\ \A x \in Devices \ {d} : device'[x] = device[x]
    BY <1>4 DEF Activate, Register, history, Inv, TypeOK, DeviceRow
  <2> QED BY <2>1 DEF RemovedHasNoSession, Inv, TypeOK
<1>5. CASE UNCHANGED <<session, raced, device>>
  BY <1>5 DEF RemovedHasNoSession
<1>6. ASSUME NEW w \in Workers,
             \/ IndexCode(w) \/ SaveRevoke(w) \/ Refuse(w) \/ Upsert(w) \/ Answer(w)
             \/ Sync(w) \/ SyncFails(w) \/ Crash(w)
             \/ \E c \in Codes : CreateCode(w, c) \/ LoadRevoke(w, c) \/ LookUp(w, c) \/ Direct(w, c)
             \/ \E d \in Devices : Report(w, d) \/ LoadOpen(w, d) \/ LoadTally(w, d) \/ LoadRemove(w, d)
      PROVE  UNCHANGED <<session, raced, device>>
  BY <1>6 DEF IndexCode, SaveRevoke, Refuse, Upsert, Answer, Sync, SyncFails, Crash, CreateCode,
     LoadRevoke, LookUp, Direct, Report, LoadOpen, LoadTally, LoadRemove, history
<1>7. ASSUME UNCHANGED vars \/ \E c \in Codes : Expire(c) PROVE UNCHANGED <<session, raced, device>>
  BY <1>7 DEF vars, Expire, history
<1> QED BY <1>1, <1>2, <1>3, <1>4, <1>5, <1>6, <1>7 DEF Next

\* No edge is removed under a session, and none is opened for a removed one, unless the
\* removal crossed the opening, or a tally that opens a closed session again.
THEOREM RemovalKeepsSessions == Spec => []RemovedHasNoSession
<1>1. Init => RemovedHasNoSession
  BY DEF Init, RemovedHasNoSession
<1>2. Inv /\ RemovedHasNoSession /\ [Next]_vars => RemovedHasNoSession'
  BY SessionStep
<1> QED BY <1>1, <1>2, InvAlways, PTL DEF Spec
=============================================================================
