----------------------------- MODULE EventLedger -----------------------------
(* What the upload of weighing events promises its edge, with no requests,  *)
(* retries or crashes in sight: an event is weighed once, for one session;  *)
(* it is recorded at most once, as it was weighed, and never lost again;    *)
(* and it is acknowledged only when it is recorded.                         *)
CONSTANTS Events, Sessions, NoSession

VARIABLES weighed, recorded, acknowledged    \* sets of <<event, session>>

Entries == Events \X (Sessions \cup {NoSession})

Init == weighed = {} /\ recorded = {} /\ acknowledged = {}

Weigh(p) ==
  /\ \A q \in weighed : q[1] # p[1]
  /\ weighed' = weighed \cup {p}
  /\ UNCHANGED <<recorded, acknowledged>>

Record(p) ==
  /\ p \in weighed \ recorded
  /\ recorded' = recorded \cup {p}
  /\ UNCHANGED <<weighed, acknowledged>>

Acknowledge(p) ==
  /\ p \in recorded \ acknowledged
  /\ acknowledged' = acknowledged \cup {p}
  /\ UNCHANGED <<weighed, recorded>>

Next == \E p \in Entries : Weigh(p) \/ Record(p) \/ Acknowledge(p)

Spec == Init /\ [][Next]_<<weighed, recorded, acknowledged>>

\* The edge is told only of what is recorded, that is what was weighed, and an event is
\* weighed, and so recorded, for one session.
Honest ==
  /\ acknowledged \subseteq recorded /\ recorded \subseteq weighed
  /\ \A p, q \in weighed : p[1] = q[1] => p = q

\* What was weighed, recorded or acknowledged once remains so.
NothingLost ==
  [][/\ weighed \subseteq weighed' /\ recorded \subseteq recorded'
     /\ acknowledged \subseteq acknowledged']_<<weighed, recorded, acknowledged>>
=============================================================================
