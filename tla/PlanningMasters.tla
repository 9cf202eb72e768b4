--------------------------- MODULE PlanningMasters ---------------------------
(***************************************************************************)
(* The masters a cart is built from: build configurations, bills of         *)
(* material and route versions, each with one document in force per vehicle, *)
(* configuration or route code, and the sign-off of a build package. A     *)
(* transition is one READ COMMITTED transaction of several statements: it   *)
(* reads its document, selects the documents it will displace, displaces    *)
(* whatever is in force by then and writes its own row without looking     *)
(* again. Its updates take effect together at its commit; partial unique   *)
(* indexes abort it otherwise. Its change events bear the time at which it *)
(* began (created_at DEFAULT now()), so the newest event of a document need *)
(* not be the one committed last.                                          *)
(***************************************************************************)
EXTENDS Integers, FiniteSets

CONSTANTS
  Configurations, Boms, Routes,
  Group,      \* vehicle of a configuration, configuration of a BOM, code of a route
  RouteFor,   \* route -> build_configuration_id, or None
  Engineers,  \* requests that may overlap
  MaxStale,   \* documents written on a status read too early        (bound)
  None

Documents == Configurations \cup Boms \cup Routes
Packages  == Configurations \X Boms

ASSUME PlanningAssumption ==
  /\ Configurations \cap Boms = {}
  /\ Configurations \cap Routes = {}
  /\ Boms \cap Routes = {}
  /\ \A b \in Boms : Group[b] \in Configurations
  /\ \A d, e \in Documents : Group[d] = Group[e] =>
       \A Kind \in {Configurations, Boms, Routes} : d \in Kind <=> e \in Kind
  /\ None \notin Documents \cup Packages
  /\ MaxStale \in Nat

VARIABLES
  masterStatus,
  newStatus,     \* of the change event of a document with the newest created_at
  settled,       \* documents with released_at, approved_at or activated_at
  supersededBy,
  transition,    \* engineer -> the transaction it is in
  younger,       \* engineer -> engineers whose open transactions began after its own
  outdated,      \* engineer -> documents with an event of a transaction that did
  review,        \* engineer -> the sign-off it is preparing
  signoff,       \* package -> the routes it was signed off with; {} if it was not
  stale,         \* history: documents whose own row was written on a stale read
  backdated      \* history: documents whose event committed last is not the newest

timeVars     == <<younger, outdated, backdated>>
planningVars == <<masterStatus, newStatus, settled, supersededBy,
                  transition, review, signoff, stale, timeVars>>

MasterStates == {"ABSENT", "DRAFT", "LOCKED", "RELEASED", "SUPERSEDED",
                 "APPROVED", "OBSOLETE", "ACTIVE", "RETIRED"}
InForce(d) == IF d \in Configurations THEN "RELEASED"
              ELSE IF d \in Boms THEN "APPROVED" ELSE "ACTIVE"
Replaced(d) == IF d \in Configurations THEN "SUPERSEDED"
               ELSE IF d \in Boms THEN "OBSOLETE" ELSE "RETIRED"

Transition == [step : {"idle", "begun", "read", "selected"}, document : Documents \cup {None},
               from : MasterStates, to : MasterStates, others : SUBSET Documents]
Idle == [step |-> "idle", document |-> None, from |-> "ABSENT", to |-> "ABSENT", others |-> {}]

\* The package under review and, once they are read, its active routes.
Review   == [package : Packages \cup {None}, routes : SUBSET Routes]
NoReview == [package |-> None, routes |-> {}]

PlanningTypeOK ==
  /\ masterStatus \in [Documents -> MasterStates]
  /\ newStatus \in [Documents -> MasterStates]
  /\ settled \subseteq Documents
  /\ supersededBy \in [Configurations -> Configurations \cup {None}]
  /\ transition \in [Engineers -> Transition]
  /\ review \in [Engineers -> Review]
  /\ signoff \in [Packages -> SUBSET Routes]
  /\ stale \subseteq Documents
  /\ younger \in [Engineers -> SUBSET Engineers]
  /\ outdated \in [Engineers -> SUBSET Documents]
  /\ backdated \subseteq Documents

PlanningInit ==
  /\ masterStatus = [d \in Documents |-> "ABSENT"]
  /\ newStatus = [d \in Documents |-> "ABSENT"]
  /\ settled = {}
  /\ supersededBy = [c \in Configurations |-> None]
  /\ transition = [e \in Engineers |-> Idle]
  /\ review = [e \in Engineers |-> NoReview]
  /\ signoff = [package \in Packages |-> {}]
  /\ stale = {}
  /\ younger = [e \in Engineers |-> {}]
  /\ outdated = [e \in Engineers |-> {}]
  /\ backdated = {}

-----------------------------------------------------------------------------
Exists(d) == masterStatus[d] # "ABSENT"

\* createBuildConfiguration, createBom and createRoutingTemplate. Validation
\* has refused a BOM without lines and a route without steps. The transaction may
\* have begun before any of the open ones; it is younger than the others.
CreateMaster(d) ==
  /\ ~Exists(d)
  /\ d \in Boms => Exists(Group[d])
  /\ d \in Routes => RouteFor[d] = None \/ Exists(RouteFor[d])
  /\ masterStatus' = [masterStatus EXCEPT ![d] = "DRAFT"]
  /\ newStatus' = [newStatus EXCEPT ![d] = "DRAFT"]
  /\ \E elders \in SUBSET {e \in Engineers : transition[e] # Idle} :
       /\ \A f \in elders, e \in Engineers : f \in younger[e] => e \in elders
       /\ outdated' = [e \in Engineers |->
            IF e \in elders THEN outdated[e] \cup {d} ELSE outdated[e]]
  /\ UNCHANGED <<settled, supersededBy, transition, review, signoff, stale, younger, backdated>>

MayTransitionConfiguration(from, to) ==
  \/ from = "DRAFT" /\ to = "LOCKED"
  \/ from = "LOCKED" /\ to = "RELEASED"

MayApproveBom(from, to) == from = "DRAFT" /\ to = "APPROVED"

\* (That a route's window has ended is a refusal too, and changes nothing.)
MayTransitionRoute(from, to) ==
  \/ from = "DRAFT" /\ to \in {"ACTIVE", "RETIRED"}
  \/ from = "ACTIVE" /\ to = "RETIRED"

\* BEGIN: now() is fixed from here on.
BeginTransition(e) ==
  /\ transition[e] = Idle /\ review[e] = NoReview
  /\ transition' = [transition EXCEPT ![e] =
       [step |-> "begun", document |-> None, from |-> "ABSENT", to |-> "ABSENT", others |-> {}]]
  /\ younger' = [f \in Engineers |->
       IF transition[f] # Idle THEN younger[f] \cup {e} ELSE younger[f]]
  /\ UNCHANGED <<masterStatus, newStatus, settled, supersededBy, review, signoff, stale,
                 outdated, backdated>>

ReadMaster(e, d, to) ==
  LET from == masterStatus[d]
  IN  /\ transition[e].step = "begun"
      /\ \/ d \in Configurations /\ MayTransitionConfiguration(from, to)
         \/ d \in Boms /\ MayApproveBom(from, to)
         \/ d \in Routes /\ MayTransitionRoute(from, to)
      /\ transition' = [transition EXCEPT ![e] =
           [step |-> "read", document |-> d, from |-> from, to |-> to, others |-> {}]]
      /\ UNCHANGED <<masterStatus, newStatus, settled, supersededBy, review, signoff, stale, timeVars>>

\* The other documents in force that d displaces when it comes into force.
Displaced(d, to) ==
  {x \in Documents \ {d} :
     Group[x] = Group[d] /\ to = InForce(d) /\ masterStatus[x] = InForce(x)}

SelectOthers(e) ==
  LET t == transition[e]
  IN  /\ t.step = "read"
      /\ transition' = [transition EXCEPT ![e] =
           [step |-> "selected", document |-> t.document, from |-> t.from, to |-> t.to,
            others |-> Displaced(t.document, t.to)]]
      /\ UNCHANGED <<masterStatus, newStatus, settled, supersededBy, review, signoff, stale, timeVars>>

\* Mutant of StatusAfter: only the documents selected before are displaced.
DisplaceSelected(t, x) ==
  IF x = t.document THEN t.to
  ELSE IF x \in t.others THEN Replaced(x) ELSE masterStatus[x]

StatusAfter(t, x) ==
  IF x = t.document THEN t.to
  ELSE IF x \in Displaced(t.document, t.to) THEN Replaced(x) ELSE masterStatus[x]

\* Mutant of EventAfter: the events are written in the loop over the others.
EventIfDisplacing(t, x) ==
  IF x = t.document /\ t.others # {} THEN t.to
  ELSE IF x \in t.others THEN Replaced(x) ELSE newStatus[x]

\* One event per document selected, then the document's own.
EventAfter(t, x) ==
  IF x = t.document THEN t.to
  ELSE IF x \in t.others THEN Replaced(x) ELSE newStatus[x]

\* Mutant of SuccessorAfter: the link is set on the documents selected.
LinkSelected(t, c) == IF c \in t.others THEN t.document ELSE supersededBy[c]

SuccessorAfter(t, c) ==
  IF c \in Displaced(t.document, t.to) THEN t.document ELSE supersededBy[c]

\* Other transactions than e's when it ends.
YoungerAfter(e) == [f \in Engineers |-> IF f = e THEN {} ELSE younger[f] \ {e}]

CommitMaster(e) ==
  LET t == transition[e]
      late == masterStatus[t.document] # t.from
      logged == {t.document} \cup t.others
  IN  /\ t.step = "selected"
      /\ late => Cardinality(stale) < MaxStale
      /\ masterStatus' = [x \in Documents |-> StatusAfter(t, x)]
      /\ newStatus' = [x \in Documents |->
           IF x \in outdated[e] THEN newStatus[x] ELSE EventAfter(t, x)]
      /\ backdated' = (backdated \ logged) \cup (logged \cap outdated[e])
      /\ outdated' = [f \in Engineers |->
           IF f = e THEN {} ELSE IF e \in younger[f] THEN outdated[f] \cup logged ELSE outdated[f]]
      /\ younger' = YoungerAfter(e)
      /\ supersededBy' = [c \in Configurations |-> SuccessorAfter(t, c)]
      /\ settled' = settled \cup (IF t.to = InForce(t.document) THEN {t.document} ELSE {})
      /\ stale' = stale \cup (IF late THEN {t.document} ELSE {})
      /\ transition' = [transition EXCEPT ![e] = Idle]
      /\ UNCHANGED <<review, signoff>>

TransitionBuildConfiguration(e) == transition[e].document \in Configurations /\ CommitMaster(e)
ApproveBom(e)                   == transition[e].document \in Boms /\ CommitMaster(e)
TransitionRoutingTemplate(e)    == transition[e].document \in Routes /\ CommitMaster(e)

\* A statement failed or the Lambda died: the transaction is rolled back.
RollBack(e) ==
  /\ transition[e] # Idle
  /\ transition' = [transition EXCEPT ![e] = Idle]
  /\ outdated' = [outdated EXCEPT ![e] = {}]
  /\ younger' = YoungerAfter(e)
  /\ UNCHANGED <<masterStatus, newStatus, settled, supersededBy, review, signoff, stale, backdated>>

-----------------------------------------------------------------------------
ReadyToBuild(c, b) ==
  Group[b] = c /\ masterStatus[c] = "RELEASED" /\ masterStatus[b] = "APPROVED"

\* getBuildPackageReviewPack: configuration and BOM first, then routes and sign-off.
ReviewPackage(e, c, b) ==
  /\ transition[e] = Idle /\ review[e] = NoReview
  /\ ReadyToBuild(c, b)
  /\ review' = [review EXCEPT ![e] = [package |-> <<c, b>>, routes |-> {}]]
  /\ UNCHANGED <<masterStatus, newStatus, settled, supersededBy, transition, signoff, stale, timeVars>>

ReviewRoutes(e) ==
  LET package == review[e].package
      active  == {r \in Routes : RouteFor[r] = package[1] /\ masterStatus[r] = "ACTIVE"}
  IN  /\ package # None /\ review[e].routes = {}
      /\ review' = [review EXCEPT ![e] =
           IF active = {} \/ signoff[package] # {} THEN NoReview
           ELSE [package |-> package, routes |-> active]]
      /\ UNCHANGED <<masterStatus, newStatus, settled, supersededBy, transition, signoff, stale, timeVars>>

\* The transaction looks for a sign-off once more; (configuration, BOM) is unique.
SignOffBuildPackage(e) ==
  /\ review[e].routes # {}
  /\ signoff' = [signoff EXCEPT ![review[e].package] = IF @ = {} THEN review[e].routes ELSE @]
  /\ review' = [review EXCEPT ![e] = NoReview]
  /\ UNCHANGED <<masterStatus, newStatus, settled, supersededBy, transition, stale, timeVars>>

PlanningNext ==
  \/ \E d \in Documents : CreateMaster(d)
  \/ \E e \in Engineers :
       \/ BeginTransition(e)
       \/ \E d \in Documents, to \in MasterStates : ReadMaster(e, d, to)
       \/ SelectOthers(e)
       \/ TransitionBuildConfiguration(e)
       \/ ApproveBom(e)
       \/ TransitionRoutingTemplate(e)
       \/ RollBack(e)
       \/ \E c \in Configurations, b \in Boms : ReviewPackage(e, c, b)
       \/ ReviewRoutes(e)
       \/ SignOffBuildPackage(e)

-----------------------------------------------------------------------------
(* However transitions overlap, a vehicle has at most one released          *)
(* configuration, a configuration one approved BOM and a route code one     *)
(* active version: what a commit displaces is what is in force by then, not *)
(* what it selected.                                                       *)
OneInForce ==
  \A d, e \in Documents :
    /\ Group[d] = Group[e]
    /\ masterStatus[d] = InForce(d) /\ masterStatus[e] = InForce(e)
    => d = e

(* However transitions overlap, the newest change event of a document in    *)
(* force says so: an event written for a document selected earlier never    *)
(* contradicts a document that is still in force. Left out is a document    *)
(* whose last event bears an older time than another one, since its         *)
(* transaction had begun before the other's. (A document displaced after    *)
(* the selection gets no event at all.)                                    *)
InForceIsLogged ==
  \A d \in Documents \ backdated :
    masterStatus[d] = InForce(d) => newStatus[d] = InForce(d)

\* No configuration of the vehicle was written on a status read too early.
InTime(vehicle) == \A c \in stale : Group[c] # vehicle

(* superseded_by leads from every superseded configuration of a vehicle,    *)
(* without ever coming back, to one that was not superseded: the released   *)
(* one. Overlapping releases do not break the chain; only a release or lock *)
(* that writes after its own configuration has moved on does.               *)
SuccessorsLeadToReleased ==
  LET Superseded == {c \in Configurations :
                       masterStatus[c] = "SUPERSEDED" /\ InTime(Group[c])}
  IN  /\ \A c \in Superseded :
           /\ supersededBy[c] \in Configurations
           /\ Group[supersededBy[c]] = Group[c]
           /\ masterStatus[supersededBy[c]] \in {"RELEASED", "SUPERSEDED"}
      /\ \A S \in (SUBSET Superseded) \ {{}} : \E c \in S : supersededBy[c] \notin S
=============================================================================
