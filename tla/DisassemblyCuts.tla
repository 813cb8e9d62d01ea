--------------------------- MODULE DisassemblyCuts ---------------------------
(***************************************************************************)
(* The cuts entered by hand for one carcass (processing/views.py, the save *)
(* of DisassemblyCut in processing/models.py), the service package of its  *)
(* order, which says what kind of cuts it may have and which every service *)
(* that saves the order's row writes (reception/services.py), and its hot  *)
(* carcass weight, which bounds them and which the weighing services       *)
(* change without looking at the cuts.                                     *)
(*                                                                         *)
(* No request takes a lock on what it has read: each is split between what *)
(* it reads, what it checks and what it saves.                             *)
(***************************************************************************)
EXTENDS Integers, FiniteSets, Functions

CONSTANTS
  Threads,    \* worker threads, which serve requests about the carcass
  Cuts,       \* rows a cut can be
  CutWeights, \* of a cut or of the hot carcass, in units
  NoCut

ASSUME CutConstants ==
  /\ IsFiniteSet(Cuts) /\ NoCut \notin Cuts
  /\ CutWeights \subseteq Nat \ {0}

VARIABLES
  package,    \* the order's service package
  cut,        \* the DisassemblyCut rows
  hot,        \* weight of the latest hot carcass log; 0: there is none
  status,     \* of the animal
  cutReq,     \* the request each worker thread runs
  loose,      \* history: a cut was saved after others changed, or the carcass reweighed
  mixed       \* history: cuts and package slipped past each other's check, or a save
              \* of the order gave it another package under recorded work

cutVars == <<package, cut, hot, status, cutReq, loose, mixed>>

-----------------------------------------------------------------------------
\* By name and flag: unflagged is a boneless one without includes_disassembly.
Packages == {"none", "standard", "boneless", "kemiksiz", "unflagged"}
Kinds    == {"boneless_meat", "primal"}     \* primal: any name of the catalogue
Row      == [there : BOOLEAN, weight : Nat, kind : Kinds]
NoRow    == [there |-> FALSE, weight |-> 0, kind |-> "primal"]

CutRequest == [pc : {"idle", "check", "save", "disassemble", "package", "order"},
               cut : Cuts \cup {NoCut}, adding : BOOLEAN, weight : Nat, kind : Kinds,
               package : Packages, next : Packages,     \* as loaded, and to be set
               ready : BOOLEAN, worked : BOOLEAN,       \* as loaded
               hot : Nat, others : Nat]                 \* as loaded

CutTypeOK ==
  /\ package \in Packages
  /\ cut \in [Cuts -> Row]
  /\ hot \in Nat
  /\ status \in {"carcass_ready", "disassembled"}
  /\ cutReq \in [Threads -> CutRequest]
  /\ loose \in BOOLEAN /\ mixed \in BOOLEAN

CutIdle == [pc |-> "idle", cut |-> NoCut, adding |-> FALSE, weight |-> 0, kind |-> "primal",
            package |-> "none", next |-> "none", ready |-> FALSE, worked |-> FALSE,
            hot |-> 0, others |-> 0]

CutInit ==
  /\ package \in Packages
  /\ cut = [c \in Cuts |-> NoRow]
  /\ hot \in CutWeights \cup {0}
  /\ status = "carcass_ready"
  /\ cutReq = [w \in Threads |-> CutIdle]
  /\ loose = FALSE /\ mixed = FALSE

-----------------------------------------------------------------------------
CutBegin(w, r) == cutReq[w].pc = "idle" /\ cutReq' = [cutReq EXCEPT ![w] = r]
CutAt(w, l)    == cutReq[w].pc = l
CutFinish(w)   == cutReq' = [cutReq EXCEPT ![w] = CutIdle]

\* is_boneless_disassembly, is_standard_disassembly: what the animal takes its package
\* for; "kemiksiz", Turkish for boneless, is not among the names they look for.
Reading(p) ==
  CASE p = "kemiksiz"  -> "standard"
    [] p = "unflagged" -> "boneless"
    [] OTHER           -> p

\* _service_package_disassembly_mode: what the order takes it for.
Mode(p) ==
  CASE p = "kemiksiz"  -> "boneless"
    [] p = "unflagged" -> "none"
    [] OTHER           -> p

\* The checks of the save: "Only 'Boneless Meat (Total)' can be recorded",
\* "Please select a specific cut type".
KindAllowed(reading, kind) ==
  CASE reading = "boneless" -> kind = "boneless_meat"
    [] reading = "standard" -> kind # "boneless_meat"
    [] OTHER -> TRUE

There == {c \in Cuts : cut[c].there}
Worked == There # {} \/ status = "disassembled"
SumOf(S) == SumFunctionOnSet([c \in Cuts |-> cut[c].weight], S)

\* Bug: cuts alone are no reason to keep the package.
Recorded_Status == status = "disassembled"

\* _order_has_disassembly_outputs
Recorded == status = "disassembled" \/ \E c \in Cuts : cut[c].there

-----------------------------------------------------------------------------
(* AddDisassemblyCutView and EditDisassemblyCutView.                       *)

\* What the form lets through: boneless_meat is filled in for a boneless package, and
\* the name an edited cut already has stays among the choices.
Offered(reading, present) == IF reading = "boneless" THEN {"boneless_meat"} ELSE {"primal"} \cup present

Add(w, c, k) ==
  /\ c \notin There /\ \A v \in Threads : cutReq[v].cut # c
  /\ \E kind \in Offered(Reading(package), {}) :
       CutBegin(w, [CutIdle EXCEPT !.pc = "check", !.cut = c, !.adding = TRUE, !.weight = k,
                                   !.kind = kind, !.package = package,
                                   !.ready = (status = "carcass_ready")])
  /\ UNCHANGED <<package, cut, hot, status, loose, mixed>>

Edit(w, c, k) ==
  /\ c \in There
  /\ \E kind \in Offered(Reading(package), {cut[c].kind}) :
       CutBegin(w, [CutIdle EXCEPT !.pc = "check", !.cut = c, !.weight = k, !.kind = kind])
  /\ UNCHANGED <<package, cut, hot, status, loose, mixed>>

\* A new cut has the animal of the request, with the package it was loaded with; the
\* animal of an edited cut is loaded when the save asks for it.
Asked(r) == IF r.adding THEN r.package ELSE package

\* existing_cuts.exclude(pk=self.pk)
Others(c) == SumOf(There \ {c})

\* Bug: each cut is compared with the carcass alone.
CutFits_Alone(carcass, others, weight) == carcass = 0 \/ weight <= carcass

CutFits(carcass, others, weight) == carcass = 0 \/ others + weight <= carcass

\* save(): the checks; a refused cut is reported and the request ends.
Check(w) ==
  LET r == cutReq[w] IN
  /\ CutAt(w, "check")
  /\ KindAllowed(Reading(Asked(r)), r.kind) /\ CutFits(hot, Others(r.cut), r.weight)
  /\ cutReq' = [cutReq EXCEPT ![w].pc = "save", ![w].package = Asked(r),
                              ![w].hot = hot, ![w].others = Others(r.cut)]
  /\ UNCHANGED <<package, cut, hot, status, loose, mixed>>

Refuse(w) ==
  LET r == cutReq[w] IN
  /\ CutAt(w, "check")
  /\ ~(KindAllowed(Reading(Asked(r)), r.kind) /\ CutFits(hot, Others(r.cut), r.weight))
  /\ CutFinish(w)
  /\ UNCHANGED <<package, cut, hot, status, loose, mixed>>

\* Bug: the name that the form fills in does not reach the row.
Saved_Blank(r) == [there |-> TRUE, weight |-> r.weight, kind |-> ""]

Saved(r) == [there |-> TRUE, weight |-> r.weight, kind |-> r.kind]

\* super().save(): an edited row that was deleted meanwhile is inserted again.
SaveCut(w) ==
  LET r == cutReq[w] IN
  /\ CutAt(w, "save")
  /\ cut' = [cut EXCEPT ![r.cut] = Saved(r)]
  /\ loose' = (loose \/ hot # r.hot \/ Others(r.cut) # r.others)
  /\ mixed' = (mixed \/ Reading(package) # Reading(r.package))
  /\ IF r.adding /\ r.ready
       THEN cutReq' = [cutReq EXCEPT ![w] = [CutIdle EXCEPT !.pc = "disassemble", !.package = r.package]]
       ELSE CutFinish(w)
  /\ UNCHANGED <<package, hot, status>>

\* can_proceed_to_disassembly, with the status and the package as loaded.
Proceeds(r) == hot > 0 /\ Mode(r.package) # "none"

\* The animal of the request is saved as disassembled.
Disassemble(w) ==
  /\ CutAt(w, "disassemble")
  /\ status' = IF Proceeds(cutReq[w]) THEN "disassembled" ELSE status
  /\ mixed' = (mixed \/ Mode(package) # Mode(cutReq[w].package))
  /\ CutFinish(w)
  /\ UNCHANGED <<package, cut, hot, loose>>

\* DeleteDisassemblyCutView
DeleteCut(c) ==
  /\ c \in There
  /\ cut' = [cut EXCEPT ![c] = NoRow]
  /\ UNCHANGED <<package, hot, status, cutReq, loose, mixed>>

-----------------------------------------------------------------------------
(* log_individual_weight, and the logs that batches derive or delete.      *)
Reweigh(k) ==
  /\ k # hot
  /\ hot' = k
  /\ loose' = (loose \/ (k > 0 /\ SumOf(There) > k))
  /\ UNCHANGED <<package, cut, status, cutReq, mixed>>

-----------------------------------------------------------------------------
(* update_order_service_package.                                           *)

CheckPackage(w, p) ==
  /\ p # package
  /\ ~(Mode(p) # Mode(package) /\ Recorded)
  /\ CutBegin(w, [CutIdle EXCEPT !.pc = "package", !.package = package, !.next = p,
                                 !.worked = Worked])
  /\ UNCHANGED <<package, cut, hot, status, loose, mixed>>

\* The package changes under work it has not seen, or order and animal differ about it.
Slips(r) ==
  \/ package # r.package
  \/ ~r.worked /\ Worked
  \/ Mode(r.next) = Mode(r.package) /\ Reading(r.next) # Reading(r.package)

SavePackage(w) ==
  /\ CutAt(w, "package")
  /\ package' = cutReq[w].next
  /\ mixed' = (mixed \/ Slips(cutReq[w]))
  /\ CutFinish(w)
  /\ UNCHANGED <<cut, hot, status, loose>>

-----------------------------------------------------------------------------
(* update_order_status_from_animals, after a step of any animal of the     *)
(* order, cancel_slaughter_order and bill_order.                           *)

TakeOrder(w) ==
  /\ CutBegin(w, [CutIdle EXCEPT !.pc = "order", !.package = package])
  /\ UNCHANGED <<package, cut, hot, status, loose, mixed>>

\* The package that was loaded is for other work than what has been recorded.
Reverts(r) ==
  Worked /\ (Reading(package) # Reading(r.package) \/ Mode(package) # Mode(r.package))

\* order.save() writes the whole row, the package as it was loaded too.
WriteOrderBack(w) ==
  /\ CutAt(w, "order")
  /\ package' = cutReq[w].package
  /\ mixed' = (mixed \/ Reverts(cutReq[w]))
  /\ CutFinish(w)
  /\ UNCHANGED <<cut, hot, status, loose>>

CutNext ==
  \/ \E c \in Cuts : DeleteCut(c)
  \/ \E k \in CutWeights \cup {0} : Reweigh(k)
  \/ \E w \in Threads :
       \/ \E c \in Cuts, k \in CutWeights : Add(w, c, k) \/ Edit(w, c, k)
       \/ \E p \in Packages : CheckPackage(w, p)
       \/ Check(w) \/ Refuse(w) \/ SaveCut(w) \/ Disassemble(w) \/ SavePackage(w)
       \/ TakeOrder(w) \/ WriteOrderBack(w)

CutSpec == CutInit /\ [][CutNext]_cutVars

-----------------------------------------------------------------------------
(* Properties.                                                             *)

\* The cuts of a carcass weigh no more than the carcass, whatever is added, edited and
\* deleted, unless a cut was saved after another request changed what its check had read,
\* or the carcass was weighed again with its cuts (the check of DisassemblyCut.save).
CutsFitUnlessLoose == loose \/ hot = 0 \/ SumOf(There) <= hot

\* What was done to the animal is what its order's package says, after any changes of both:
\* its cuts are of the allowed kind, and it is disassembled only if the order pays for it.
\* Unless one was saved behind the other's check, order and animal take the package for
\* different kinds, or a save of the order wrote back the package it had loaded before a
\* change (DisassemblyCut.save, update_order_service_package,
\* update_order_status_from_animals).
WorkFitsPackageUnlessMixed ==
  mixed \/ /\ \A c \in There : KindAllowed(Reading(package), cut[c].kind)
           /\ status = "disassembled" => Mode(package) # "none"
=============================================================================
