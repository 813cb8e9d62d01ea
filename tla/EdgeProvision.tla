---------------------------- MODULE EdgeProvision ----------------------------
(***************************************************************************)
(* How an edge computer comes to be known to a site, and ceases to be: the *)
(* setup codes of the tenant, its edge devices, and the two indexes of     *)
(* them in the public schema, by which the public API finds the tenant     *)
(* (scales/views.py, scales/api_views.py, tenants/api_views_edge.py).      *)
(*                                                                         *)
(* A row and its entry in the index are written one after the other, the   *)
(* entry from the instance as it was loaded (scales/signals.py): in one    *)
(* transaction while a code is activated, otherwise each on its own.  An   *)
(* entry that cannot be written is logged and missed, in either case.      *)
(***************************************************************************)
EXTENDS Naturals, FiniteSets

CONSTANTS
  Workers, Codes,
  Devices,            \* rows of edge devices; with their scales
  NoCode, NoDevice

ASSUME EdgeConstants == NoCode \notin Codes /\ NoDevice \notin Devices

VARIABLES
  code,         \* the setup codes
  codeIndex,    \* their entries in the public schema
  device,       \* the edge devices
  deviceIndex,  \* their entries in the public schema
  told,         \* devices whose edge computer knows their id
  session,      \* devices with an open weighing session
  req,          \* the request each worker thread runs
  unsynced,     \* history: devices whose entry could not be written
  relisted,     \* history: devices that an entry of the past made active again
  raced         \* history: devices removed while a session was being opened, or tallied

vars == <<code, codeIndex, device, deviceIndex, told, session, req, unsynced, relisted, raced>>
history == <<unsynced, relisted, raced>>

-----------------------------------------------------------------------------
CodeRow   == [there : BOOLEAN, active : BOOLEAN, expired : BOOLEAN, usedBy : Devices \cup {NoDevice}]
DeviceRow == [status : {"none", "active", "removed"}, origin : Codes \cup {NoCode}]

Request == [pc : {"idle", "index", "activate", "upsert", "answer", "sync", "revoke", "remove", "open",
                  "tally"},
            code : Codes \cup {NoCode}, device : Devices \cup {NoDevice},
            public : BOOLEAN,       \* on the host of the public schema
            active : BOOLEAN,       \* what the entry of the code or the device will say
            answers : BOOLEAN,      \* the edge is told the id in the end
            idle : BOOLEAN]         \* the device had no session when it was loaded

TypeOK ==
  /\ code \in [Codes -> CodeRow]
  /\ codeIndex \in [Codes -> {"none", "open", "consumed"}]
  /\ device \in [Devices -> DeviceRow]
  /\ deviceIndex \in [Devices -> {"none", "active", "inactive"}]
  /\ told \in SUBSET Devices /\ session \in SUBSET Devices
  /\ req \in [Workers -> Request]
  /\ unsynced \in SUBSET Devices /\ relisted \in SUBSET Devices /\ raced \in SUBSET Devices

NoCodeRow == [there |-> FALSE, active |-> FALSE, expired |-> FALSE, usedBy |-> NoDevice]
Idle == [pc |-> "idle", code |-> NoCode, device |-> NoDevice, public |-> FALSE,
         active |-> FALSE, answers |-> FALSE, idle |-> FALSE]

Init ==
  /\ code = [c \in Codes |-> NoCodeRow]
  /\ codeIndex = [c \in Codes |-> "none"]
  /\ device = [d \in Devices |-> [status |-> "none", origin |-> NoCode]]
  /\ deviceIndex = [d \in Devices |-> "none"]
  /\ told = {} /\ session = {}
  /\ req = [w \in Workers |-> Idle]
  /\ unsynced = {} /\ relisted = {} /\ raced = {}

-----------------------------------------------------------------------------
Begin(w, r) == req[w].pc = "idle" /\ req' = [req EXCEPT ![w] = r]
At(w, l)    == req[w].pc = l
Finish(w)   == req' = [req EXCEPT ![w] = Idle]
Active(d)   == device[d].status = "active"

\* A connection lost, a process killed: what follows the last commit does not happen.
Crash(w) ==
  /\ ~At(w, "idle")
  /\ Finish(w)
  /\ unsynced' = IF At(w, "sync") THEN unsynced \cup {req[w].device} ELSE unsynced
  /\ UNCHANGED <<code, codeIndex, device, deviceIndex, told, session, relisted, raced>>

-----------------------------------------------------------------------------
(* Setup codes.                                                            *)

\* EdgeSetupCodeCreateView
CreateCode(w, c) ==
  /\ ~code[c].there
  /\ code' = [code EXCEPT ![c].there = TRUE, ![c].active = TRUE]
  /\ Begin(w, [Idle EXCEPT !.pc = "index", !.code = c, !.active = TRUE])
  /\ UNCHANGED <<codeIndex, device, deviceIndex, told, session, history>>

\* sync_setup_code_to_public_index, with the code as this request has it; a failure is
\* logged, and leaves the index as Crash does.
IndexCode(w) ==
  /\ At(w, "index")
  /\ codeIndex' = [codeIndex EXCEPT ![req[w].code] = IF req[w].active THEN "open" ELSE "consumed"]
  /\ Finish(w)
  /\ UNCHANGED <<code, device, deviceIndex, told, session, history>>

Expire(c) ==
  /\ code[c].there /\ ~code[c].expired
  /\ code' = [code EXCEPT ![c].expired = TRUE]
  /\ UNCHANGED <<codeIndex, device, deviceIndex, told, session, req, history>>

LoadRevoke(w, c) ==
  /\ code[c].active /\ code[c].usedBy = NoDevice
  /\ Begin(w, [Idle EXCEPT !.pc = "revoke", !.code = c])
  /\ UNCHANGED <<code, codeIndex, device, deviceIndex, told, session, history>>

\* Bug: only the fields of the activation are written back.
Revoked_Active(row) == [row EXCEPT !.usedBy = NoDevice]

\* soft_delete saves every field as it was loaded: an activation in between is forgotten.
Revoked(row) == [row EXCEPT !.active = FALSE, !.usedBy = NoDevice]

SaveRevoke(w) ==
  LET c == req[w].code IN
  /\ At(w, "revoke")
  /\ code' = [code EXCEPT ![c] = Revoked(@)]
  /\ req' = [req EXCEPT ![w].pc = "index", ![w].active = FALSE]
  /\ UNCHANGED <<codeIndex, device, deviceIndex, told, session, history>>

-----------------------------------------------------------------------------
(* Activation: edge_activate, and public_edge_activate for the edge that   *)
(* knows the code only.                                                    *)

LookUp(w, c) ==
  /\ codeIndex[c] = "open" /\ ~code[c].expired
  /\ Begin(w, [Idle EXCEPT !.pc = "activate", !.code = c, !.public = TRUE])
  /\ UNCHANGED <<code, codeIndex, device, deviceIndex, told, session, history>>

Direct(w, c) ==
  /\ code[c].there
  /\ Begin(w, [Idle EXCEPT !.pc = "activate", !.code = c])
  /\ UNCHANGED <<code, codeIndex, device, deviceIndex, told, session, history>>

\* Bug: the look-up in the index is all that says whether a code was used.
Usable_Indexed(c) == code[c].active /\ ~code[c].expired

\* Under the lock of the row.
Usable(c) == code[c].active /\ code[c].usedBy = NoDevice /\ ~code[c].expired

Used(row, d) == [row EXCEPT !.usedBy = d]

\* One transaction: the device, the code, and the entries of both.  Each entry may fail in
\* its own savepoint; the receivers log the exception, and the transaction goes on.
Activate(w, d) ==
  LET c == req[w].code IN
  /\ At(w, "activate") /\ Usable(c) /\ device[d].status = "none"
  /\ device' = [device EXCEPT ![d] = [status |-> "active", origin |-> c]]
  /\ \/ deviceIndex' = [deviceIndex EXCEPT ![d] = "active"] /\ UNCHANGED unsynced
     \/ unsynced' = unsynced \cup {d} /\ UNCHANGED deviceIndex
  /\ code' = [code EXCEPT ![c] = Used(@, d)]
  /\ codeIndex' \in {[codeIndex EXCEPT ![c] = "consumed"], codeIndex}
  /\ req' = [req EXCEPT ![w].pc = IF req[w].public THEN "upsert" ELSE "answer", ![w].device = d]
  /\ UNCHANGED <<told, session, relisted, raced>>

\* 404, 409 or 410.
Refuse(w) ==
  /\ At(w, "activate") /\ ~Usable(req[w].code)
  /\ Finish(w)
  /\ UNCHANGED <<code, codeIndex, device, deviceIndex, told, session, history>>

\* The entry of the device is written; here whether or not the device has been removed.
List(d, active) ==
  /\ deviceIndex' = [deviceIndex EXCEPT ![d] = IF active THEN "active" ELSE "inactive"]
  /\ relisted' = IF active /\ ~Active(d) THEN relisted \cup {d} ELSE relisted

\* public_edge_activate lists the device once more.
Upsert(w) ==
  /\ At(w, "upsert")
  /\ List(req[w].device, TRUE)
  /\ req' = [req EXCEPT ![w].pc = "answer"]
  /\ UNCHANGED <<code, codeIndex, device, told, session, unsynced, raced>>

Answer(w) ==
  /\ At(w, "answer")
  /\ told' = told \cup {req[w].device}
  /\ Finish(w)
  /\ UNCHANGED <<code, codeIndex, device, deviceIndex, session, history>>

-----------------------------------------------------------------------------
(* Devices.                                                                *)

\* Bug: the edge is answered before the entry is written.
AfterSave_Answer == "answer"

\* Where a saved device takes its request.
AfterSave == "sync"

\* edge_register without an id.
Register(w, d) ==
  /\ device[d].status = "none"
  /\ device' = [device EXCEPT ![d].status = "active"]
  /\ Begin(w, [Idle EXCEPT !.pc = AfterSave, !.device = d, !.active = TRUE, !.answers = TRUE])
  /\ UNCHANGED <<code, codeIndex, deviceIndex, told, session, history>>

\* edge_register with an id, edge_heartbeat: on either host the device itself must be
\* active (require_edge_id, public_require_edge_id).  Fields that matter here are not
\* saved, but the entry is written.
Report(w, d) ==
  /\ d \in told /\ Active(d)
  /\ Begin(w, [Idle EXCEPT !.pc = "sync", !.device = d, !.active = TRUE])
  /\ UNCHANGED <<code, codeIndex, device, deviceIndex, told, session, history>>

\* sync_edge_device_index_on_save
Sync(w) ==
  /\ At(w, "sync")
  /\ List(req[w].device, req[w].active)
  /\ IF req[w].answers THEN req' = [req EXCEPT ![w].pc = "answer"] ELSE Finish(w)
  /\ UNCHANGED <<code, codeIndex, device, told, session, unsynced, raced>>

\* An exception there is logged, and the request goes on.
SyncFails(w) ==
  /\ At(w, "sync")
  /\ unsynced' = unsynced \cup {req[w].device}
  /\ IF req[w].answers THEN req' = [req EXCEPT ![w].pc = "answer"] ELSE Finish(w)
  /\ UNCHANGED <<code, codeIndex, device, deviceIndex, told, session, relisted, raced>>

\* SessionCreateView: the scale is chosen among those that are active ...
LoadOpen(w, d) ==
  /\ Active(d)
  /\ Begin(w, [Idle EXCEPT !.pc = "open", !.device = d])
  /\ UNCHANGED <<code, codeIndex, device, deviceIndex, told, session, history>>

\* ... and the session created unless it has one.
Open(w) ==
  LET d == req[w].device IN
  /\ At(w, "open")
  /\ session' = session \cup {d}
  /\ raced' = IF Active(d) THEN raced ELSE raced \cup {d}
  /\ Finish(w)
  /\ UNCHANGED <<code, codeIndex, device, deviceIndex, told, unsynced, relisted>>

\* edge_post_event, edge_post_event_batch: an edge of the site sends an event, whose session
\* is loaded with its status ...
LoadTally(w, d) ==
  /\ d \in session /\ \E e \in told : Active(e)
  /\ Begin(w, [Idle EXCEPT !.pc = "tally", !.device = d])
  /\ UNCHANGED <<code, codeIndex, device, deviceIndex, told, session, history>>

\* ... and saved with it, beside the tally: a session closed since then is open again.
SaveTally(w) ==
  LET d == req[w].device IN
  /\ At(w, "tally")
  /\ session' = session \cup {d}
  /\ raced' = IF Active(d) THEN raced ELSE raced \cup {d}
  /\ Finish(w)
  /\ UNCHANGED <<code, codeIndex, device, deviceIndex, told, unsynced, relisted>>

Close(d) ==
  /\ d \in session
  /\ session' = session \ {d}
  /\ UNCHANGED <<code, codeIndex, device, deviceIndex, told, req, history>>

\* Bug: an edge with a session is removed like any other.
Removable_Any(d) == Active(d)

Removable(d) == Active(d) /\ d \notin session

\* EdgeDeviceRemoveView, EdgePrepareRelinkView; their print jobs are those of PrintQueue.
LoadRemove(w, d) ==
  /\ Removable(d)
  /\ Begin(w, [Idle EXCEPT !.pc = "remove", !.device = d, !.idle = (d \notin session)])
  /\ UNCHANGED <<code, codeIndex, device, deviceIndex, told, session, history>>

\* Bug: the signal is given the device before it was marked.
Delisted_AsLoaded == TRUE

\* is_active of the device that was saved.
Delisted == FALSE

\* _soft_remove_edge_device; a session opened since then stays with the removed scale.
SaveRemove(w) ==
  LET d == req[w].device IN
  /\ At(w, "remove")
  /\ device' = [device EXCEPT ![d].status = "removed"]
  /\ raced' = IF req[w].idle /\ d \in session THEN raced \cup {d} ELSE raced
  /\ req' = [req EXCEPT ![w].pc = "sync", ![w].active = Delisted]
  /\ UNCHANGED <<code, codeIndex, deviceIndex, told, session, unsynced, relisted>>

Next ==
  \/ \E c \in Codes : Expire(c)
  \/ \E d \in Devices : Close(d)
  \/ \E w \in Workers :
       \/ \E c \in Codes : CreateCode(w, c) \/ LoadRevoke(w, c) \/ LookUp(w, c) \/ Direct(w, c)
       \/ \E d \in Devices :
            Activate(w, d) \/ Register(w, d) \/ Report(w, d) \/ LoadOpen(w, d) \/ LoadTally(w, d)
            \/ LoadRemove(w, d)
       \/ IndexCode(w) \/ SaveRevoke(w) \/ Refuse(w) \/ Upsert(w) \/ Answer(w)
       \/ Sync(w) \/ SyncFails(w) \/ Open(w) \/ SaveTally(w) \/ SaveRemove(w) \/ Crash(w)

Spec == Init /\ [][Next]_vars

-----------------------------------------------------------------------------
(* Properties.                                                             *)

\* A setup code makes one device, however often it is sent and whatever else is done to it
\* in between (edge_activate, public_edge_activate).
CodeMakesOneDevice ==
  \A d, e \in Devices : device[d].origin = device[e].origin /\ d # e => device[d].origin = NoCode

\* A code that could still be activated is not refused by the public index, whatever
\* revocations and activations have written to it (is_consumed).
UsableIsNotConsumed == \A c \in Codes : Usable(c) => codeIndex[c] # "consumed"

\* An edge that was told its id is found by the public API as long as its device is active,
\* unless it never got an entry, because that could not be written when it was made.
KnownIsListed ==
  \A d \in told : Active(d) =>
    deviceIndex[d] = "active" \/ (deviceIndex[d] = "none" /\ d \in unsynced)

\* A removed device is listed as active no longer than its removal takes, unless a request
\* that had loaded it before wrote its entry afterwards, or the entry could not be written.
RemovedIsDelisted ==
  \A d \in Devices \ (relisted \cup unsynced) :
    device[d].status = "removed" /\ deviceIndex[d] = "active" =>
      \E w \in Workers : At(w, "sync") /\ req[w].device = d /\ ~req[w].active

\* An edge is not removed under an open session, nor is one opened for it afterwards, unless
\* the session was opened between the check and the removal, or the edge removed between
\* the form and the session, or while an event was on its way whose session had been loaded
\* before it was closed: the stale tally opens that session again.
RemovedHasNoSession ==
  \A d \in session \ raced : device[d].status # "removed"
=============================================================================
