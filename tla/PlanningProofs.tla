---------------------------- MODULE PlanningProofs ----------------------------
(***************************************************************************)
(* What the planning masters keep however many requests overlap, for any    *)
(* number of documents, engineers, builders and orders.                     *)
(***************************************************************************)
EXTENDS Production, TLAPS

\* The statuses of a document in force, and of one that was displaced.
LEMMA InForceIsFinal ==
  ASSUME NEW d \in Documents
  PROVE  /\ InForce(d) \in MasterStates /\ Replaced(d) \in MasterStates
         /\ Replaced(d) # InForce(d)
         /\ InForce(d) \notin {"ABSENT", "DRAFT", "LOCKED"}
  BY SMT DEF InForce, Replaced, MasterStates

\* Documents of one group are of one kind.
LEMMA GroupsHaveOneKind ==
  ASSUME NEW d \in Documents, NEW x \in Documents, Group[d] = Group[x]
  PROVE  InForce(d) = InForce(x)
  BY PlanningAssumption DEF InForce, Documents

\* Only the planning requests write the planning masters.
LEMMA PlanningSteps ==
  [Next]_vars => PlanningNext \/ UNCHANGED planningVars
  BY DEF Next, vars, planningVars, BuildNext, ReadBuildPackage, ReadSignoff, ReadRoute,
         CreateWoOrder, DropBuild, buildUnchanged

-----------------------------------------------------------------------------
\* A transition displaces documents of its own group only, and only to put its
\* own document in force.
TransitionsSound ==
  \A e \in Engineers : transition[e].step \in {"read", "selected"} =>
    /\ transition[e].document \in Documents
    /\ \A x \in transition[e].others :
         /\ x # transition[e].document
         /\ Group[x] = Group[transition[e].document]
         /\ transition[e].to = InForce(transition[e].document)

Masters == PlanningTypeOK /\ TransitionsSound /\ OneInForce /\ InForceIsLogged

LEMMA MastersInit == Init => Masters
  <1> SUFFICES ASSUME Init PROVE Masters
    OBVIOUS
  <1>1. PlanningTypeOK
    BY SMT DEF Init, PlanningInit, PlanningTypeOK, MasterStates, Transition, Idle, Review, NoReview
  <1>2. TransitionsSound
    BY SMT DEF Init, PlanningInit, TransitionsSound, Idle
  <1>3. OneInForce /\ InForceIsLogged
    BY InForceIsFinal DEF Init, PlanningInit, OneInForce, InForceIsLogged
  <1> QED BY <1>1, <1>2, <1>3 DEF Masters

LEMMA CreateKeepsMasters ==
  ASSUME Masters, NEW d \in Documents, CreateMaster(d)
  PROVE  Masters'
  <1>1. PlanningTypeOK'
    BY SMT DEF Masters, PlanningTypeOK, CreateMaster, MasterStates
  <1>2. TransitionsSound'
    BY DEF Masters, TransitionsSound, CreateMaster
  <1>3. \A x \in Documents : masterStatus'[x] = InForce(x) =>
          masterStatus[x] = InForce(x) /\ newStatus'[x] = newStatus[x]
    BY InForceIsFinal, SMT DEF Masters, PlanningTypeOK, CreateMaster
  <1>5. backdated' = backdated
    BY DEF CreateMaster
  <1>4. OneInForce' /\ InForceIsLogged'
    BY <1>3, <1>5, Zenon DEF Masters, OneInForce, InForceIsLogged
  <1> QED BY <1>1, <1>2, <1>4 DEF Masters

LEMMA BeginKeepsMasters ==
  ASSUME Masters, NEW e \in Engineers, BeginTransition(e)
  PROVE  Masters'
  <1>1. PlanningTypeOK'
    <2>1. transition' \in [Engineers -> Transition]
      BY SMT DEF Masters, PlanningTypeOK, BeginTransition, Transition, MasterStates
    <2>2. younger' \in [Engineers -> SUBSET Engineers]
      BY SMT DEF Masters, PlanningTypeOK, BeginTransition
    <2> QED BY <2>1, <2>2 DEF Masters, PlanningTypeOK, BeginTransition
  <1>2. TransitionsSound'
    BY SMT DEF Masters, PlanningTypeOK, TransitionsSound, BeginTransition
  <1>3. OneInForce' /\ InForceIsLogged'
    BY DEF Masters, OneInForce, InForceIsLogged, BeginTransition
  <1> QED BY <1>1, <1>2, <1>3 DEF Masters

LEMMA ReadKeepsMasters ==
  ASSUME Masters, NEW e \in Engineers, NEW d \in Documents, NEW to \in MasterStates,
         ReadMaster(e, d, to)
  PROVE  Masters'
  <1>1. PlanningTypeOK'
    BY SMT DEF Masters, PlanningTypeOK, ReadMaster, Transition, timeVars
  <1>2. TransitionsSound'
    BY SMT DEF Masters, PlanningTypeOK, TransitionsSound, ReadMaster
  <1>3. OneInForce' /\ InForceIsLogged'
    BY DEF Masters, OneInForce, InForceIsLogged, ReadMaster, timeVars
  <1> QED BY <1>1, <1>2, <1>3 DEF Masters

LEMMA SelectKeepsMasters ==
  ASSUME Masters, NEW e \in Engineers, SelectOthers(e)
  PROVE  Masters'
  <1> DEFINE t == transition[e]
             found == Displaced(t.document, t.to)
  <1>1. /\ t \in Transition /\ t.document \in Documents
        /\ transition' = [transition EXCEPT ![e] =
             [step |-> "selected", document |-> t.document, from |-> t.from, to |-> t.to,
              others |-> found]]
    BY SMT DEF Masters, PlanningTypeOK, TransitionsSound, SelectOthers
  <1>2. found \subseteq Documents /\
        \A x \in found : /\ x # t.document /\ Group[x] = Group[t.document]
                         /\ t.to = InForce(t.document)
    BY DEF Displaced
  <1> HIDE DEF found
  <1>3. PlanningTypeOK'
    BY <1>1, <1>2, SMT DEF Masters, PlanningTypeOK, SelectOthers, Transition, timeVars
  <1>4. TransitionsSound'
    BY <1>1, <1>2, SMT DEF Masters, PlanningTypeOK, TransitionsSound
  <1>5. OneInForce' /\ InForceIsLogged'
    BY DEF Masters, OneInForce, InForceIsLogged, SelectOthers, timeVars
  <1> QED BY <1>3, <1>4, <1>5 DEF Masters

\* The commit that puts a document in force displaces every other one of its
\* group; any other commit takes its own document out of force or leaves it out.
LEMMA CommitKeepsMasters ==
  ASSUME Masters, NEW e \in Engineers, CommitMaster(e)
  PROVE  Masters'
  <1> DEFINE t == transition[e]
             d == t.document
             logged == {d} \cup t.others
  <1>1. t \in Transition /\ d \in Documents
    BY SMT DEF Masters, PlanningTypeOK, TransitionsSound, CommitMaster
  <1>2. \A x \in t.others : /\ x # d /\ Group[x] = Group[d] /\ t.to = InForce(d)
    BY <1>1, SMT DEF Masters, TransitionsSound, CommitMaster
  <1>3. \A x \in Documents : /\ masterStatus'[x] = StatusAfter(t, x)
                             /\ newStatus'[x] = IF x \in outdated[e] THEN newStatus[x]
                                                ELSE EventAfter(t, x)
    BY SMT DEF CommitMaster
  <1>4. \A x \in Documents : /\ StatusAfter(t, x) \in MasterStates
                             /\ EventAfter(t, x) \in MasterStates
                             /\ newStatus[x] \in MasterStates
    BY <1>1, InForceIsFinal, SMT
    DEF StatusAfter, EventAfter, Masters, PlanningTypeOK, Transition
  <1>5. \A c \in Configurations : SuccessorAfter(t, c) \in Configurations \cup {None}
    <2> TAKE c \in Configurations
    <2>1. CASE c \in Displaced(d, t.to)
      <3>1. Group[c] = Group[d]
        BY <2>1 DEF Displaced
      <3> QED BY <1>1, <2>1, <3>1, PlanningAssumption DEF SuccessorAfter, Documents
    <2>2. CASE c \notin Displaced(d, t.to)
      BY <2>2 DEF SuccessorAfter, Masters, PlanningTypeOK
    <2> QED BY <2>1, <2>2
  <1>6. PlanningTypeOK'
    <2>1. /\ masterStatus' \in [Documents -> MasterStates]
          /\ newStatus' \in [Documents -> MasterStates]
      BY <1>4, SMT DEF CommitMaster
    <2>2. supersededBy' \in [Configurations -> Configurations \cup {None}]
      BY <1>5, SMT DEF CommitMaster
    <2>3. settled' \subseteq Documents /\ stale' \subseteq Documents
      BY <1>1, SMT DEF CommitMaster, Masters, PlanningTypeOK
    <2>4. transition' \in [Engineers -> Transition]
      BY SMT DEF CommitMaster, Masters, PlanningTypeOK, Transition, Idle, MasterStates
    <2>5. logged \subseteq Documents
      BY <1>1 DEF Transition
    <2>6. younger' \in [Engineers -> SUBSET Engineers]
      BY DEF CommitMaster, YoungerAfter, Masters, PlanningTypeOK
    <2>7. /\ backdated' = (backdated \ logged) \cup (logged \cap outdated[e])
          /\ outdated' = [f \in Engineers |->
               IF f = e THEN {} ELSE IF e \in younger[f] THEN outdated[f] \cup logged ELSE outdated[f]]
      BY DEF CommitMaster
    <2>8. backdated' \subseteq Documents /\ outdated' \in [Engineers -> SUBSET Documents]
      BY <2>5, <2>7 DEF Masters, PlanningTypeOK
    <2> QED BY <2>1, <2>2, <2>3, <2>4, <2>6, <2>8 DEF CommitMaster, Masters, PlanningTypeOK
  <1>7. TransitionsSound'
    BY SMT DEF CommitMaster, Masters, PlanningTypeOK, TransitionsSound, Idle
  <1>8. \A x \in Documents : masterStatus'[x] = InForce(x) /\ x # d =>
          /\ masterStatus[x] = InForce(x) /\ newStatus'[x] = newStatus[x]
          /\ x \in backdated' <=> x \in backdated
          /\ Group[x] # Group[d] \/ t.to # InForce(d)
    <2> TAKE x \in Documents
    <2> HAVE masterStatus'[x] = InForce(x) /\ x # d
    <2>1. x \notin Displaced(d, t.to)
      BY <1>3, InForceIsFinal DEF StatusAfter
    <2>2. masterStatus[x] = InForce(x)
      BY <1>3, <2>1 DEF StatusAfter
    <2>3. Group[x] # Group[d] \/ t.to # InForce(d)
      BY <2>1, <2>2 DEF Displaced
    <2>4. x \notin t.others
      BY <1>2, <2>3
    <2>5. newStatus'[x] = newStatus[x]
      BY <1>3, <2>4 DEF EventAfter
    <2>6. x \in backdated' <=> x \in backdated
      BY <2>4 DEF CommitMaster
    <2> QED BY <2>2, <2>3, <2>5, <2>6
  <1>9. masterStatus'[d] = t.to /\ (d \in backdated' \/ newStatus'[d] = t.to)
    BY <1>1, <1>3 DEF StatusAfter, EventAfter, CommitMaster
  <1> HIDE DEF logged, d, t
  <1>10. OneInForce'
    BY <1>1, <1>8, <1>9 DEF Masters, OneInForce
  <1>11. InForceIsLogged'
    BY <1>1, <1>8, <1>9 DEF Masters, InForceIsLogged
  <1> QED BY <1>6, <1>7, <1>10, <1>11 DEF Masters

LEMMA RollBackKeepsMasters ==
  ASSUME Masters, NEW e \in Engineers, RollBack(e)
  PROVE  Masters'
  <1>1. PlanningTypeOK'
    <2>1. transition' \in [Engineers -> Transition]
      BY SMT DEF Masters, PlanningTypeOK, RollBack, Transition, Idle, MasterStates
    <2>2. /\ younger' \in [Engineers -> SUBSET Engineers]
          /\ outdated' \in [Engineers -> SUBSET Documents]
      BY DEF Masters, PlanningTypeOK, RollBack, YoungerAfter
    <2> QED BY <2>1, <2>2 DEF Masters, PlanningTypeOK, RollBack
  <1>2. TransitionsSound'
    BY SMT DEF Masters, PlanningTypeOK, TransitionsSound, RollBack, Idle
  <1>3. OneInForce' /\ InForceIsLogged'
    BY DEF Masters, OneInForce, InForceIsLogged, RollBack
  <1> QED BY <1>1, <1>2, <1>3 DEF Masters

\* Reviews and sign-offs leave the masters alone.
LEMMA ReviewKeepsMasters ==
  ASSUME Masters, NEW e \in Engineers,
         \/ \E c \in Configurations, b \in Boms : ReviewPackage(e, c, b)
         \/ ReviewRoutes(e)
         \/ SignOffBuildPackage(e)
  PROVE  Masters'
  <1>1. UNCHANGED <<masterStatus, newStatus, settled, supersededBy, transition, stale,
                    younger, outdated, backdated>>
    BY DEF ReviewPackage, ReviewRoutes, SignOffBuildPackage, timeVars
  <1>2. review' \in [Engineers -> Review]
    <2>1. \A routes \in SUBSET Routes, package \in Packages \cup {None} :
            [review EXCEPT ![e] = [package |-> package, routes |-> routes]]
              \in [Engineers -> Review]
      BY SMT DEF Masters, PlanningTypeOK, Review
    <2>2. review[e] \in Review
      BY DEF Masters, PlanningTypeOK
    <2>3. CASE \E c \in Configurations, b \in Boms : ReviewPackage(e, c, b)
      BY <2>1, <2>3 DEF ReviewPackage, Packages
    <2>4. CASE ReviewRoutes(e)
      <3> DEFINE package == review[e].package
                 active  == {r \in Routes : RouteFor[r] = package[1] /\ masterStatus[r] = "ACTIVE"}
      <3>1. package \in Packages \cup {None} /\ active \in SUBSET Routes
        BY <2>2 DEF Review
      <3>2. \/ review' = [review EXCEPT ![e] = [package |-> None, routes |-> {}]]
            \/ review' = [review EXCEPT ![e] = [package |-> package, routes |-> active]]
        BY <2>4, Zenon DEF ReviewRoutes, NoReview
      <3> HIDE DEF package, active
      <3>3. {} \in SUBSET Routes /\ None \in Packages \cup {None}
        OBVIOUS
      <3>4. [review EXCEPT ![e] = [package |-> None, routes |-> {}]] \in [Engineers -> Review]
        BY <2>1, <3>3, Zenon
      <3>5. [review EXCEPT ![e] = [package |-> package, routes |-> active]]
              \in [Engineers -> Review]
        BY <2>1, <3>1, Zenon
      <3> QED BY <3>2, <3>4, <3>5, Zenon
    <2>5. CASE SignOffBuildPackage(e)
      BY <2>1, <2>5 DEF SignOffBuildPackage, NoReview
    <2> QED BY <2>3, <2>4, <2>5
  <1>3. signoff' \in [Packages -> SUBSET Routes]
    BY SMT DEF Masters, PlanningTypeOK, ReviewPackage, ReviewRoutes, SignOffBuildPackage, Review
  <1> QED BY <1>1, <1>2, <1>3
      DEF Masters, PlanningTypeOK, TransitionsSound, OneInForce, InForceIsLogged

LEMMA MastersStep == Masters /\ [Next]_vars => Masters'
  <1> SUFFICES ASSUME Masters, [Next]_vars PROVE Masters'
    OBVIOUS
  <1>1. CASE UNCHANGED planningVars
    BY <1>1 DEF planningVars, timeVars, Masters, PlanningTypeOK, TransitionsSound, OneInForce,
                InForceIsLogged
  <1>2. CASE PlanningNext
    <2>1. CASE \E d \in Documents : CreateMaster(d)
      BY <2>1, CreateKeepsMasters
    <2>2. ASSUME NEW e \in Engineers, NEW d \in Documents, NEW to \in MasterStates,
                 ReadMaster(e, d, to)
          PROVE  Masters'
      BY <2>2, ReadKeepsMasters
    <2>7. ASSUME NEW e \in Engineers, BeginTransition(e) PROVE Masters'
      BY <2>7, BeginKeepsMasters
    <2>3. ASSUME NEW e \in Engineers, SelectOthers(e) PROVE Masters'
      BY <2>3, SelectKeepsMasters
    <2>4. ASSUME NEW e \in Engineers, CommitMaster(e) PROVE Masters'
      BY <2>4, CommitKeepsMasters
    <2>5. ASSUME NEW e \in Engineers, RollBack(e) PROVE Masters'
      BY <2>5, RollBackKeepsMasters
    <2>6. ASSUME NEW e \in Engineers,
                 \/ \E c \in Configurations, b \in Boms : ReviewPackage(e, c, b)
                 \/ ReviewRoutes(e)
                 \/ SignOffBuildPackage(e)
          PROVE  Masters'
      BY <2>6, ReviewKeepsMasters
    <2> QED BY <1>2, <2>1, <2>2, <2>3, <2>4, <2>5, <2>6, <2>7
        DEF PlanningNext, TransitionBuildConfiguration, ApproveBom, TransitionRoutingTemplate
  <1> QED BY <1>1, <1>2, PlanningSteps

LEMMA MastersHold == Spec => []Masters
  BY MastersInit, MastersStep, PTL DEF Spec

(* However transitions of the masters overlap, each vehicle, configuration  *)
(* and route code has at most one document in force.                        *)
THEOREM OneDocumentInForce == Spec => []OneInForce
  <1>1. Masters => OneInForce
    BY DEF Masters
  <1> QED BY <1>1, MastersHold, PTL

(* However they overlap, the newest change event of a document in force     *)
(* says that it is in force, unless the document's last event bears an      *)
(* older time than one of a transaction that began later.                   *)
THEOREM ForceIsLogged == Spec => []InForceIsLogged
  <1>1. Masters => InForceIsLogged
    BY DEF Masters
  <1> QED BY <1>1, MastersHold, PTL

-----------------------------------------------------------------------------
\* A pair of a configuration and its own BOM that have both been in force.
WasReady(package) ==
  /\ package \in Packages
  /\ package[1] \in settled /\ package[2] \in settled
  /\ Group[package[2]] = package[1]

Signed(package) == signoff[package] # {}

\* What the requests on their way to an order have read was true once, and what
\* was true once is on record for good.
Provenance ==
  /\ \A d \in Documents : masterStatus[d] = InForce(d) => d \in settled
  /\ \A e \in Engineers :
       /\ review[e].package # None => WasReady(review[e].package)
       /\ review[e].routes \subseteq settled
       /\ review[e].routes # {} => review[e].package # None
  /\ \A package \in Packages :
       /\ signoff[package] \subseteq settled
       /\ Signed(package) => WasReady(package)
  /\ building \in [Builders -> Build]
  /\ \A k \in Builders :
       /\ building[k].step \in {"package", "signoff", "route"} => WasReady(building[k].package)
       /\ building[k].step \in {"signoff", "route"} => Signed(building[k].package)
       /\ building[k].step = "route" =>
            building[k].route = None \/ building[k].route \in Routes \cap settled

\* A source an order may name.
Proper(source) ==
  source \in Sources =>
    /\ WasReady(source[1]) /\ Signed(source[1])
    /\ source[2] # None => source[2] \in settled

MadeOfSigned ==
  /\ madeFrom \in [WorkOrders -> Sources \cup QuoteIds \cup {Nothing}]
  /\ \A w \in WorkOrders : Proper(madeFrom[w])

Origins == Masters /\ Provenance /\ MadeOfSigned

\* What holds of settled documents and sign-offs holds for good.
LEMMA SettledGrows ==
  ASSUME Origins, [Next]_vars
  PROVE  /\ settled \subseteq settled'
         /\ \A package \in Packages : Signed(package) => signoff'[package] = signoff[package]
  <1>1. CASE UNCHANGED planningVars
    BY <1>1 DEF planningVars
  <1>2. CASE PlanningNext
    <2>1. settled \subseteq settled'
      BY <1>2 DEF PlanningNext, CreateMaster, BeginTransition, ReadMaster, SelectOthers, RollBack, CommitMaster,
            TransitionBuildConfiguration, ApproveBom, TransitionRoutingTemplate,
            ReviewPackage, ReviewRoutes, SignOffBuildPackage
    <2>2. ASSUME NEW e \in Engineers, SignOffBuildPackage(e), NEW package \in Packages,
                 Signed(package)
          PROVE  signoff'[package] = signoff[package]
      BY <2>2, SMT DEF SignOffBuildPackage, Signed, Origins, Masters, PlanningTypeOK
    <2>3. (\A e \in Engineers : ~SignOffBuildPackage(e)) => UNCHANGED signoff
      BY <1>2 DEF PlanningNext, CreateMaster, BeginTransition, ReadMaster, SelectOthers, RollBack, CommitMaster,
            TransitionBuildConfiguration, ApproveBom, TransitionRoutingTemplate,
            ReviewPackage, ReviewRoutes
    <2> QED BY <2>1, <2>2, <2>3
  <1> QED BY <1>1, <1>2, PlanningSteps

LEMMA OnceReady ==
  ASSUME Origins, [Next]_vars, NEW package, WasReady(package)
  PROVE  WasReady(package)'
  BY SettledGrows DEF WasReady

LEMMA OnceSigned ==
  ASSUME Origins, [Next]_vars, NEW package \in Packages, Signed(package)
  PROVE  Signed(package)'
  BY SettledGrows DEF Signed

LEMMA OnceProper ==
  ASSUME Origins, [Next]_vars, NEW source \in Sources, Proper(source)
  PROVE  Proper(source)'
  <1>1. source[1] \in Packages
    BY DEF Sources
  <1> QED BY <1>1, OnceReady, OnceSigned, SettledGrows DEF Proper

\* A package that is ready to build has been in force.
LEMMA ReadyWasReady ==
  ASSUME Origins, NEW c \in Configurations, NEW b \in Boms, ReadyToBuild(c, b)
  PROVE  WasReady(<<c, b>>)
  <1>1. InForce(c) = "RELEASED" /\ InForce(b) = "APPROVED"
    BY PlanningAssumption DEF InForce
  <1>2. c \in settled /\ b \in settled
    BY <1>1 DEF ReadyToBuild, Origins, Provenance, Documents
  <1> QED BY <1>2 DEF WasReady, Packages, ReadyToBuild

LEMMA ActiveIsSettled ==
  ASSUME Origins, NEW r \in Routes, masterStatus[r] = "ACTIVE"
  PROVE  r \in settled
  <1>1. InForce(r) = "ACTIVE"
    BY PlanningAssumption DEF InForce
  <1> QED BY <1>1 DEF Origins, Provenance, Documents

LEMMA OriginsInit == Init => Origins
  <1> SUFFICES ASSUME Init PROVE Provenance /\ MadeOfSigned
    BY MastersInit DEF Origins
  <1>1. \A d \in Documents : masterStatus[d] # InForce(d)
    BY InForceIsFinal DEF Init, PlanningInit
  <1>2. \A e \in Engineers : review[e].package = None /\ review[e].routes = {}
    BY DEF Init, PlanningInit, NoReview
  <1>3. \A package \in Packages : signoff[package] = {}
    BY DEF Init, PlanningInit
  <1>4. building \in [Builders -> Build] /\ \A k \in Builders : building[k].step = "idle"
    BY SMT DEF Init, Build, NoBuild
  <1>5. Provenance
    BY <1>1, <1>2, <1>3, <1>4 DEF Provenance, Signed
  <1>6. Nothing \notin Sources
    BY SMT DEF Sources, Nothing
  <1>7. MadeOfSigned
    BY <1>6, SMT DEF Init, OrdersInit, MadeOfSigned, Proper
  <1> QED BY <1>5, <1>7

\* Every document in force has been put in force by a commit.
LEMMA InForceStaysSettled ==
  ASSUME Origins, [Next]_vars, NEW d \in Documents, masterStatus'[d] = InForce(d)
  PROVE  d \in settled'
  <1>1. CASE UNCHANGED masterStatus
    BY <1>1, SettledGrows DEF Origins, Provenance
  <1>2. ASSUME NEW x \in Documents, CreateMaster(x)
        PROVE  d \in settled'
    <2>1. masterStatus[d] = InForce(d)
      BY <1>2, InForceIsFinal, SMT DEF CreateMaster, Origins, Masters, PlanningTypeOK
    <2> QED BY <2>1, SettledGrows DEF Origins, Provenance
  <1>3. ASSUME NEW e \in Engineers, CommitMaster(e)
        PROVE  d \in settled'
    <2> DEFINE t == transition[e]
    <2>1. masterStatus'[d] = StatusAfter(t, d)
      BY <1>3, SMT DEF CommitMaster
    <2>2. CASE d = t.document
      <3>1. t.to = InForce(t.document)
        BY <2>1, <2>2 DEF StatusAfter
      <3> QED BY <1>3, <2>2, <3>1 DEF CommitMaster
    <2>3. CASE d # t.document
      <3>1. masterStatus[d] = InForce(d)
        BY <2>1, <2>3, InForceIsFinal DEF StatusAfter
      <3> QED BY <3>1, SettledGrows DEF Origins, Provenance
    <2> QED BY <2>2, <2>3
  <1>4. \/ UNCHANGED masterStatus
        \/ \E x \in Documents : CreateMaster(x)
        \/ \E e \in Engineers : CommitMaster(e)
    BY PlanningSteps DEF planningVars, PlanningNext, BeginTransition, ReadMaster, SelectOthers, RollBack,
         TransitionBuildConfiguration, ApproveBom, TransitionRoutingTemplate,
         ReviewPackage, ReviewRoutes, SignOffBuildPackage
  <1> QED BY <1>1, <1>2, <1>3, <1>4

\* What a review has read stays true, and so does what it reads next.
ReviewSound(e) ==
  /\ review[e].package # None => WasReady(review[e].package)
  /\ review[e].routes \subseteq settled
  /\ review[e].routes # {} => review[e].package # None

LEMMA ReviewStaysSound ==
  ASSUME Origins, [Next]_vars, NEW e \in Engineers
  PROVE  ReviewSound(e)'
  <1>1. ReviewSound(e)
    BY DEF Origins, Provenance, ReviewSound
  <1>2. CASE review'[e] = review[e]
    BY <1>1, <1>2, OnceReady, SettledGrows DEF ReviewSound, WasReady
  <1>3. CASE review'[e] = NoReview
    BY <1>3 DEF ReviewSound, NoReview
  <1>4. ASSUME NEW c \in Configurations, NEW b \in Boms, ReviewPackage(e, c, b)
        PROVE  ReviewSound(e)'
    <2>1. review'[e] = [package |-> <<c, b>>, routes |-> {}]
      BY <1>4 DEF ReviewPackage, Origins, Masters, PlanningTypeOK
    <2>2. WasReady(<<c, b>>)'
      BY <1>4, ReadyWasReady, OnceReady DEF ReviewPackage
    <2> QED BY <2>1, <2>2 DEF ReviewSound, WasReady
  <1>5. CASE ReviewRoutes(e)
    <2> PICK package : package = review[e].package
      OBVIOUS
    <2> PICK active : active = {r \in Routes : RouteFor[r] = package[1] /\ masterStatus[r] = "ACTIVE"}
      OBVIOUS
    <2>1. active \subseteq settled
      BY ActiveIsSettled
    <2>2. active \subseteq settled' /\ package # None
      BY <1>5, <2>1, SettledGrows DEF ReviewRoutes
    <2>3. \/ review'[e] = NoReview
          \/ review'[e] = [package |-> package, routes |-> active]
      BY <1>5 DEF ReviewRoutes, Origins, Masters, PlanningTypeOK
    <2>4. WasReady(package)'
      BY <1>1, <2>2, OnceReady DEF ReviewSound
    <2>5. CASE review'[e] = [package |-> package, routes |-> active]
      BY <2>2, <2>4, <2>5 DEF ReviewSound, WasReady
    <2> QED BY <1>3, <2>3, <2>5
  <1>6. \/ review'[e] = review[e]
        \/ review'[e] = NoReview
        \/ \E c \in Configurations, b \in Boms : ReviewPackage(e, c, b)
        \/ ReviewRoutes(e)
    <2>1. CASE UNCHANGED review
      BY <2>1
    <2>2. ASSUME NEW f \in Engineers,
                 \/ \E c \in Configurations, b \in Boms : ReviewPackage(f, c, b)
                 \/ ReviewRoutes(f)
                 \/ SignOffBuildPackage(f)
          PROVE  f # e => review'[e] = review[e]
      BY <2>2 DEF ReviewPackage, ReviewRoutes, SignOffBuildPackage, Origins, Masters, PlanningTypeOK
    <2>3. SignOffBuildPackage(e) => review'[e] = NoReview
      BY DEF SignOffBuildPackage, Origins, Masters, PlanningTypeOK
    <2>4. \/ UNCHANGED review
          \/ \E f \in Engineers :
               \/ \E c \in Configurations, b \in Boms : ReviewPackage(f, c, b)
               \/ ReviewRoutes(f)
               \/ SignOffBuildPackage(f)
      BY PlanningSteps DEF planningVars, PlanningNext, CreateMaster, BeginTransition, ReadMaster, SelectOthers,
           RollBack, CommitMaster, TransitionBuildConfiguration, ApproveBom,
           TransitionRoutingTemplate
    <2> QED BY <2>1, <2>2, <2>3, <2>4
  <1> QED BY <1>2, <1>3, <1>4, <1>5, <1>6

\* A package is signed only by a review, with the active routes that one read.
LEMMA SignoffStaysSound ==
  ASSUME Origins, [Next]_vars, NEW package \in Packages
  PROVE  signoff'[package] \subseteq settled' /\ (Signed(package)' => WasReady(package)')
  <1>1. CASE signoff'[package] = signoff[package]
    <2>1. signoff'[package] \subseteq settled'
      BY <1>1, SettledGrows DEF Origins, Provenance
    <2>2. Signed(package)' => WasReady(package)
      BY <1>1 DEF Origins, Provenance, Signed
    <2> QED BY <2>1, <2>2, OnceReady
  <1>2. ASSUME NEW e \in Engineers, SignOffBuildPackage(e),
               signoff'[package] # signoff[package]
        PROVE  package = review[e].package /\ signoff'[package] = review[e].routes
    BY <1>2, SMT DEF SignOffBuildPackage, Origins, Masters, PlanningTypeOK
  <1>3. ASSUME NEW e \in Engineers, SignOffBuildPackage(e),
               signoff'[package] # signoff[package]
        PROVE  signoff'[package] \subseteq settled' /\ (Signed(package)' => WasReady(package)')
    <2>1. WasReady(package) /\ signoff'[package] \subseteq settled
      BY <1>2, <1>3 DEF SignOffBuildPackage, Origins, Provenance
    <2> QED BY <2>1, SettledGrows, OnceReady
  <1>4. \/ UNCHANGED signoff
        \/ \E e \in Engineers : SignOffBuildPackage(e)
    BY PlanningSteps DEF planningVars, PlanningNext, CreateMaster, BeginTransition, ReadMaster, SelectOthers,
         RollBack, CommitMaster, TransitionBuildConfiguration, ApproveBom,
         TransitionRoutingTemplate, ReviewPackage, ReviewRoutes
  <1> QED BY <1>1, <1>3, <1>4

BuildingSound(k) ==
  /\ building[k].step \in {"package", "signoff", "route"} => WasReady(building[k].package)
  /\ building[k].step \in {"signoff", "route"} => Signed(building[k].package)
  /\ building[k].step = "route" =>
       building[k].route = None \/ building[k].route \in Routes \cap settled

\* What a builder has read stays true, and so does what it reads next.
LEMMA BuildingStaysSound ==
  ASSUME Origins, [Next]_vars
  PROVE  building' \in [Builders -> Build] /\ \A k \in Builders : BuildingSound(k)'
  <1>1. \A k \in Builders : building[k] \in Build /\ BuildingSound(k)
    BY DEF Origins, Provenance, BuildingSound
  <1>2. building \in [Builders -> Build]
    BY DEF Origins, Provenance
  <1>3. ASSUME NEW k \in Builders, building'[k] = building[k]
        PROVE  BuildingSound(k)'
    <2> PICK old : old = building[k]
      OBVIOUS
    <2>1. WasReady(old.package) => old.package \in Packages
      BY DEF WasReady
    <2>2. /\ WasReady(old.package) => WasReady(old.package)'
          /\ old.package \in Packages /\ Signed(old.package) => Signed(old.package)'
      BY OnceReady, OnceSigned
    <2> QED BY <1>1, <1>3, <2>1, <2>2, SettledGrows DEF BuildingSound, WasReady, Signed
  <1>4. ASSUME UNCHANGED building
        PROVE  building' \in [Builders -> Build] /\ \A k \in Builders : BuildingSound(k)'
    BY <1>2, <1>3, <1>4
  <1>5. ASSUME NEW k \in Builders, NEW value \in Build,
               building' = [building EXCEPT ![k] = value], BuildingSound(k)'
        PROVE  building' \in [Builders -> Build] /\ \A j \in Builders : BuildingSound(j)'
    <2>1. building' \in [Builders -> Build]
      BY <1>2, <1>5
    <2>2. \A j \in Builders \ {k} : building'[j] = building[j]
      BY <1>2, <1>5
    <2> QED BY <1>3, <1>5, <2>1, <2>2
  <1>6. ASSUME NEW k \in Builders, building' = [building EXCEPT ![k] = NoBuild]
        PROVE  building' \in [Builders -> Build] /\ \A j \in Builders : BuildingSound(j)'
    <2>1. NoBuild \in Build /\ building'[k] = NoBuild
      BY <1>2, <1>6 DEF NoBuild, Build
    <2>2. BuildingSound(k)'
      BY <2>1 DEF BuildingSound, NoBuild
    <2> QED BY <1>5, <1>6, <2>1, <2>2
  <1>7. ASSUME NEW k \in Builders, NEW w \in WorkOrders, NEW c \in Configurations, NEW b \in Boms,
               ReadBuildPackage(k, w, c, b)
        PROVE  building' \in [Builders -> Build] /\ \A j \in Builders : BuildingSound(j)'
    <2> DEFINE value == [step |-> "package", order |-> w, package |-> <<c, b>>, route |-> None]
    <2>1. value \in Build /\ building' = [building EXCEPT ![k] = value]
      BY <1>7 DEF ReadBuildPackage, Build, Packages
    <2>2. WasReady(<<c, b>>)'
      BY <1>7, ReadyWasReady, OnceReady DEF ReadBuildPackage
    <2>3. building'[k] = value
      BY <1>2, <2>1
    <2>4. BuildingSound(k)'
      BY <2>2, <2>3 DEF BuildingSound, WasReady
    <2> QED BY <1>5, <2>1, <2>4
  <1>8. ASSUME NEW k \in Builders, ReadSignoff(k)
        PROVE  building' \in [Builders -> Build] /\ \A j \in Builders : BuildingSound(j)'
    <2> PICK old \in Build : old = building[k]
      BY <1>1
    <2> DEFINE value == [step |-> "signoff", order |-> old.order, package |-> old.package,
                         route |-> None]
    <2>1. CASE signoff[old.package] = {}
      BY <1>6, <1>8, <2>1 DEF ReadSignoff
    <2>2. CASE signoff[old.package] # {}
      <3>1. value \in Build /\ building' = [building EXCEPT ![k] = value]
        BY <1>8, <2>2 DEF ReadSignoff, Build
      <3>2. WasReady(old.package) /\ old.package \in Packages
        BY <1>1, <1>8 DEF ReadSignoff, BuildingSound, WasReady
      <3>3. WasReady(old.package)' /\ Signed(old.package)'
        BY <2>2, <3>2, OnceReady, OnceSigned DEF Signed
      <3>4. building'[k] = value
        BY <1>2, <3>1
      <3>5. BuildingSound(k)'
        BY <3>3, <3>4 DEF BuildingSound, WasReady, Signed
      <3> QED BY <1>5, <3>1, <3>5
    <2> QED BY <2>1, <2>2
  <1>9. ASSUME NEW k \in Builders, ReadRoute(k)
        PROVE  building' \in [Builders -> Build] /\ \A j \in Builders : BuildingSound(j)'
    <2> PICK old \in Build : old = building[k]
      BY <1>1
    <2> PICK r \in Routes \cup {None} :
           /\ r # None => masterStatus[r] = "ACTIVE"
           /\ building' = [building EXCEPT ![k] =
                [step |-> "route", order |-> old.order, package |-> old.package, route |-> r]]
      BY <1>9 DEF ReadRoute
    <2> DEFINE value == [step |-> "route", order |-> old.order, package |-> old.package, route |-> r]
    <2>1. value \in Build
      BY DEF Build
    <2>2. building'[k] = value
      BY <1>2
    <2>3. WasReady(old.package) /\ Signed(old.package) /\ old.package \in Packages
      BY <1>1, <1>9 DEF ReadRoute, BuildingSound, WasReady
    <2>4. WasReady(old.package)' /\ Signed(old.package)'
      BY <2>3, OnceReady, OnceSigned
    <2>5. r = None \/ r \in Routes \cap settled'
      BY ActiveIsSettled, SettledGrows
    <2>6. BuildingSound(k)'
      BY <2>2, <2>4, <2>5 DEF BuildingSound, WasReady, Signed
    <2> QED BY <1>5, <2>1, <2>6
  <1>10. ASSUME NEW k \in Builders, CreateWoOrder(k) \/ DropBuild(k)
         PROVE  building' \in [Builders -> Build] /\ \A j \in Builders : BuildingSound(j)'
    BY <1>6, <1>10 DEF CreateWoOrder, DropBuild
  <1>11. UNCHANGED building \/ BuildNext
    BY DEF Next, vars
  <1> QED BY <1>4, <1>7, <1>8, <1>9, <1>10, <1>11 DEF BuildNext

\* An order is made from what a builder has read, or from a quote.
LEMMA MadeOfSignedStep ==
  ASSUME Origins, [Next]_vars
  PROVE  MadeOfSigned'
  <1>1. ASSUME UNCHANGED madeFrom
        PROVE  MadeOfSigned'
    BY <1>1, OnceProper DEF Origins, MadeOfSigned, Proper
  <1>2. ASSUME NEW w, NEW status, NEW source \in Sources \cup QuoteIds,
               NewOrder(w, status, source), Proper(source)
        PROVE  MadeOfSigned'
    <2>1. madeFrom \in [WorkOrders -> Sources \cup QuoteIds \cup {Nothing}]
      BY DEF Origins, MadeOfSigned
    <2>2. madeFrom' = [madeFrom EXCEPT ![w] = source]
      BY <1>2 DEF NewOrder
    <2>3. madeFrom' \in [WorkOrders -> Sources \cup QuoteIds \cup {Nothing}]
      BY <2>1, <2>2
    <2>4. \A x \in WorkOrders : madeFrom'[x] = source \/ madeFrom'[x] = madeFrom[x]
      BY <2>1, <2>2
    <2>5. \A x \in WorkOrders : Proper(madeFrom[x])
      BY DEF Origins, MadeOfSigned
    <2>6. ASSUME NEW x \in WorkOrders
          PROVE  Proper(madeFrom[x])'
      <3> PICK old : old = madeFrom[x]
        OBVIOUS
      <3>1. Proper(old)' /\ Proper(source)'
        BY <1>2, <2>5, OnceProper DEF Proper
      <3> QED BY <2>4, <3>1 DEF Proper, WasReady, Signed
    <2> QED BY <2>3, <2>6 DEF MadeOfSigned
  <1>3. ASSUME NEW k \in Builders, CreateWoOrder(k)
        PROVE  MadeOfSigned'
    <2> PICK old \in Build : old = building[k]
      BY DEF Origins, Provenance
    <2> PICK status \in {"READY", "SCHEDULED"} :
           NewOrder(old.order, status, <<old.package, old.route>>)
      BY <1>3 DEF CreateWoOrder
    <2>1. /\ WasReady(old.package) /\ Signed(old.package) /\ old.package \in Packages
          /\ old.route = None \/ old.route \in Routes \cap settled
      BY <1>3 DEF CreateWoOrder, Origins, Provenance, WasReady
    <2>2. <<old.package, old.route>> \in Sources /\ Proper(<<old.package, old.route>>)
      BY <2>1 DEF Sources, Proper
    <2> QED BY <1>2, <2>2
  <1>4. ASSUME NEW s \in Sellers, NEW q \in QuoteIds, ConvertQuoteToWorkOrder(s, q)
        PROVE  MadeOfSigned'
    <2>1. Proper(q)
      BY ProductionAssumption DEF Proper
    <2> QED BY <1>2, <1>4, <2>1 DEF ConvertQuoteToWorkOrder
  <1>5. \/ UNCHANGED madeFrom
        \/ \E k \in Builders : CreateWoOrder(k)
        \/ \E s \in Sellers, q \in QuoteIds : ConvertQuoteToWorkOrder(s, q)
    BY DEF Next, vars, orderVars, BuildNext, ReadBuildPackage, ReadSignoff, ReadRoute, DropBuild,
         buildUnchanged, OrdersNext, ReadOperation, WriteOperation, ReadOperations, SettleOrder,
         RecordHistory, Die, PublishSchedule
  <1> QED BY <1>1, <1>3, <1>4, <1>5

LEMMA OriginsStep == Origins /\ [Next]_vars => Origins'
  <1> SUFFICES ASSUME Origins, [Next]_vars PROVE Provenance' /\ MadeOfSigned'
    BY MastersStep DEF Origins
  <1>1. \A d \in Documents : masterStatus'[d] = InForce(d) => d \in settled'
    BY InForceStaysSettled
  <1>2. \A e \in Engineers : ReviewSound(e)'
    BY ReviewStaysSound
  <1>3. \A package \in Packages :
          signoff'[package] \subseteq settled' /\ (Signed(package)' => WasReady(package)')
    BY SignoffStaysSound
  <1>4. Provenance'
    BY <1>1, <1>2, <1>3, BuildingStaysSound DEF Provenance, ReviewSound, BuildingSound
  <1> QED BY <1>4, MadeOfSignedStep

(* Every work order built from a package goes back to a signed-off pair of  *)
(* documents that were in force and to routes that were active, however     *)
(* many transitions, sign-offs and reads overlapped on the way.             *)
THEOREM BuiltOnSignedPackages == Spec => []OrdersAreBuiltOnSignedPackages
  <1>1. Origins => OrdersAreBuiltOnSignedPackages
    <2> SUFFICES ASSUME Origins, NEW w \in WorkOrders, madeFrom[w] \in Sources,
                        NEW package, package = madeFrom[w][1],
                        NEW route, route = madeFrom[w][2]
                 PROVE  /\ signoff[package] # {} /\ signoff[package] \subseteq settled
                        /\ package[1] \in settled /\ package[2] \in settled
                        /\ Group[package[2]] = package[1]
                        /\ route # None => route \in settled
      BY DEF OrdersAreBuiltOnSignedPackages
    <2>1. /\ WasReady(package) /\ Signed(package)
          /\ route # None => route \in settled
      BY DEF Origins, MadeOfSigned, Proper
    <2>2. package \in Packages
      BY <2>1 DEF WasReady
    <2> QED BY <2>1, <2>2 DEF WasReady, Signed, Origins, Provenance
  <1> QED BY <1>1, OriginsInit, OriginsStep, PTL DEF Spec

-----------------------------------------------------------------------------
\* A transition of a configuration locks a draft or releases a locked one.
ConfigurationsMove ==
  \A e \in Engineers :
    transition[e].step \in {"read", "selected"} /\ transition[e].document \in Configurations =>
    transition[e].from \in {"DRAFT", "LOCKED"} /\ transition[e].to \in {"LOCKED", "RELEASED"}

LEMMA ConfigurationsMoveStep == Masters /\ ConfigurationsMove /\ [Next]_vars => ConfigurationsMove'
  <1> SUFFICES ASSUME Masters, ConfigurationsMove, [Next]_vars PROVE ConfigurationsMove'
    OBVIOUS
  <1>0. transition \in [Engineers -> Transition]
    BY DEF Masters, PlanningTypeOK
  <1>1. ASSUME NEW e \in Engineers, NEW d \in Documents, NEW to, ReadMaster(e, d, to)
        PROVE  ConfigurationsMove'
    <2>1. d \in Configurations => masterStatus[d] \in {"DRAFT", "LOCKED"} /\ to \in {"LOCKED", "RELEASED"}
      BY <1>1, PlanningAssumption DEF ReadMaster, MayTransitionConfiguration
    <2> QED BY <1>0, <1>1, <2>1 DEF ReadMaster, ConfigurationsMove
  <1>2. ASSUME NEW e \in Engineers, SelectOthers(e)
        PROVE  ConfigurationsMove'
    BY <1>0, <1>2 DEF SelectOthers, ConfigurationsMove
  <1>3. ASSUME NEW e \in Engineers,
               \A f \in Engineers \ {e} : transition'[f] = transition[f],
               transition'[e].step \notin {"read", "selected"}
        PROVE  ConfigurationsMove'
    BY <1>3 DEF ConfigurationsMove
  <1>5. ASSUME NEW e \in Engineers, transition' = [transition EXCEPT ![e] = Idle]
        PROVE  ConfigurationsMove'
    <2>1. transition'[e].step = "idle"
      BY <1>0, <1>5 DEF Idle
    <2> QED BY <1>0, <1>3, <1>5, <2>1
  <1>6. ASSUME NEW e \in Engineers, BeginTransition(e)
        PROVE  ConfigurationsMove'
    <2>1. transition'[e].step = "begun"
      BY <1>0, <1>6 DEF BeginTransition
    <2> QED BY <1>0, <1>3, <1>6, <2>1 DEF BeginTransition
  <1>4. CASE UNCHANGED transition
    BY <1>4 DEF ConfigurationsMove
  <1> QED BY <1>1, <1>2, <1>4, <1>5, <1>6, PlanningSteps
          DEF PlanningNext, CreateMaster, TransitionBuildConfiguration, ApproveBom,
              TransitionRoutingTemplate, CommitMaster, RollBack, ReviewPackage, ReviewRoutes,
              SignOffBuildPackage, planningVars

\* The superseded configurations of vehicles whose releases and locks all wrote in
\* time.
Superseded == {c \in Configurations : masterStatus[c] = "SUPERSEDED" /\ InTime(Group[c])}

Linked(c) ==
  /\ supersededBy[c] \in Configurations
  /\ Group[supersededBy[c]] = Group[c]
  /\ masterStatus[supersededBy[c]] \in {"RELEASED", "SUPERSEDED"}

Chained ==
  /\ \A c \in Superseded : Linked(c)
  /\ \A S \in (SUBSET Superseded) \ {{}} : \E c \in S : supersededBy[c] \notin S

\* The chain holds for fewer configurations whose links and successors stay.
LEMMA ChainFrame ==
  ASSUME Chained, Superseded' \subseteq Superseded,
         \A c \in Superseded' : /\ supersededBy'[c] = supersededBy[c]
                                /\ masterStatus'[supersededBy[c]] \in {"RELEASED", "SUPERSEDED"}
  PROVE  Chained'
  <1>1. \A c \in Superseded' : Linked(c)'
    BY DEF Chained, Linked
  <1>2. ASSUME NEW S \in SUBSET Superseded', S # {}
        PROVE  \E c \in S : supersededBy'[c] \notin S
    <2>1. PICK c \in S : supersededBy[c] \notin S
      BY <1>2 DEF Chained
    <2> QED BY <2>1
  <1> QED BY <1>1, <1>2 DEF Chained

\* A document that is created succeeds nothing.
LEMMA CreateKeepsChain ==
  ASSUME Masters, Chained, NEW d \in Documents, CreateMaster(d)
  PROVE  Chained'
  <1>1. /\ masterStatus[d] = "ABSENT"
        /\ masterStatus' = [masterStatus EXCEPT ![d] = "DRAFT"]
        /\ UNCHANGED <<supersededBy, stale>>
    BY DEF CreateMaster, Exists
  <1>2. Superseded' \subseteq Superseded
    BY <1>1 DEF Superseded, InTime, Masters, PlanningTypeOK, Documents
  <1>3. ASSUME NEW c \in Superseded'
        PROVE  masterStatus'[supersededBy[c]] \in {"RELEASED", "SUPERSEDED"}
    BY <1>1, <1>2 DEF Chained, Linked, Masters, PlanningTypeOK
  <1> QED BY <1>1, <1>2, <1>3, ChainFrame

\* A release puts the configurations it displaces before itself, and nothing
\* superseded follows it; a write that comes too late takes its vehicle out.
LEMMA CommitKeepsChain ==
  ASSUME Masters, ConfigurationsMove, Chained, NEW e \in Engineers, CommitMaster(e)
  PROVE  Chained'
  <1> PICK t \in Transition : t = transition[e]
    BY DEF Masters, PlanningTypeOK
  <1> PICK d \in Documents : d = t.document
    BY DEF Masters, TransitionsSound, CommitMaster
  <1> PICK D : D = Displaced(d, t.to)
    OBVIOUS
  <1>1. \A x \in D : /\ x \in Documents /\ x # d /\ Group[x] = Group[d]
                     /\ t.to = InForce(d) /\ masterStatus[x] = InForce(x)
    BY DEF Displaced
  <1>2. \A c \in Configurations :
          /\ c \in Documents
          /\ masterStatus'[c] = IF c = d THEN t.to
                                ELSE IF c \in D THEN "SUPERSEDED" ELSE masterStatus[c]
          /\ supersededBy'[c] = IF c \in D THEN d ELSE supersededBy[c]
    BY DEF CommitMaster, StatusAfter, SuccessorAfter, Documents, Replaced
  <1>3. /\ stale \subseteq stale'
        /\ masterStatus[d] # t.from => d \in stale'
    BY DEF CommitMaster
  <1>4. \A c \in Configurations : InTime(Group[c])' => InTime(Group[c])
    BY <1>3 DEF InTime
  <1>5. CASE d \notin Configurations
    <2>1. \A c \in Configurations : c # d /\ c \notin D
      BY <1>1, <1>5, PlanningAssumption DEF Documents
    <2>2. Superseded' \subseteq Superseded
      BY <1>2, <1>4, <2>1 DEF Superseded
    <2> QED BY <1>2, <2>1, <2>2, ChainFrame DEF Chained, Linked, Superseded
  <1>6. CASE d \in Configurations /\ masterStatus[d] # t.from
    <2>1. \A c \in Superseded' : c \in Configurations /\ Group[c] # Group[d]
      BY <1>3, <1>6 DEF Superseded, InTime
    <2>2. Superseded' \subseteq Superseded
      BY <1>1, <1>2, <1>4, <2>1 DEF Superseded
    <2>3. ASSUME NEW c \in Superseded'
          PROVE  /\ supersededBy'[c] = supersededBy[c]
                 /\ masterStatus'[supersededBy[c]] \in {"RELEASED", "SUPERSEDED"}
      <3>1. c \in Configurations /\ c \notin D /\ Linked(c)
        BY <1>1, <2>1, <2>2 DEF Chained
      <3>2. supersededBy[c] # d /\ supersededBy[c] \notin D
        BY <1>1, <2>1, <3>1 DEF Linked
      <3> QED BY <1>2, <3>1, <3>2 DEF Linked
    <2> QED BY <2>2, <2>3, ChainFrame
  <1>7. CASE d \in Configurations /\ masterStatus[d] = t.from
    <2>1. masterStatus[d] \in {"DRAFT", "LOCKED"} /\ t.to \in {"LOCKED", "RELEASED"}
      BY <1>7 DEF ConfigurationsMove, CommitMaster
    <2>2. InForce(d) = "RELEASED" /\ \A x \in D : masterStatus[x] = "RELEASED"
      BY <1>1, <1>7, GroupsHaveOneKind DEF InForce
    <2>3. \A x \in D : x \in Configurations
      BY <1>1, <1>7, PlanningAssumption DEF Documents
    <2>4. masterStatus'[d] = t.to
      BY <1>2, <1>7
    <2>5. Superseded' \subseteq Superseded \cup D /\ d \notin Superseded'
      BY <1>2, <1>4, <2>1, <2>4 DEF Superseded
    <2>6. ASSUME NEW c \in Superseded'
          PROVE  Linked(c)'
      <3>1. CASE c \in D
        BY <1>1, <1>2, <1>7, <2>2, <2>3, <2>4, <3>1 DEF Linked
      <3>2. CASE c \notin D
        <4>1. c \in Configurations /\ Linked(c) /\ supersededBy[c] # d
          BY <2>1, <2>5, <3>2 DEF Chained, Linked, Superseded
        <4>2. supersededBy'[c] = supersededBy[c]
          BY <1>2, <3>2, <4>1
        <4>3. masterStatus'[supersededBy[c]] \in {"RELEASED", "SUPERSEDED"}
          BY <1>2, <4>1 DEF Linked
        <4> QED BY <4>1, <4>2, <4>3 DEF Linked
      <3> QED BY <3>1, <3>2
    <2>7. ASSUME NEW S \in SUBSET Superseded', S # {}
          PROVE  \E c \in S : supersededBy'[c] \notin S
      <3>1. CASE S \cap D = {}
        <4>1. S \in (SUBSET Superseded) \ {{}}
          BY <2>5, <2>7, <3>1
        <4>2. PICK c \in S : supersededBy[c] \notin S
          BY <4>1 DEF Chained
        <4>3. supersededBy'[c] = supersededBy[c]
          BY <1>2, <3>1, <4>1 DEF Superseded
        <4> QED BY <4>2, <4>3
      <3>2. CASE S \cap D # {}
        <4>1. PICK c \in S : c \in D
          BY <3>2
        <4>2. supersededBy'[c] = d
          BY <1>2, <2>3, <4>1
        <4> QED BY <2>5, <2>7, <4>1, <4>2
      <3> QED BY <3>1, <3>2
    <2> QED BY <2>6, <2>7 DEF Chained
  <1> QED BY <1>5, <1>6, <1>7

LEMMA ChainStep == Masters /\ ConfigurationsMove /\ Chained /\ [Next]_vars => Chained'
  <1> SUFFICES ASSUME Masters, ConfigurationsMove, Chained, [Next]_vars PROVE Chained'
    OBVIOUS
  <1>1. CASE UNCHANGED <<masterStatus, supersededBy, stale>>
    BY <1>1 DEF Chained, Linked, Superseded, InTime
  <1> QED BY <1>1, CreateKeepsChain, CommitKeepsChain, PlanningSteps
          DEF PlanningNext, BeginTransition, ReadMaster, SelectOthers, TransitionBuildConfiguration, ApproveBom,
              TransitionRoutingTemplate, RollBack, ReviewPackage, ReviewRoutes,
              SignOffBuildPackage, planningVars

(* However releases overlap, superseded_by leads from every superseded      *)
(* configuration to one that was not superseded, unless a release or lock   *)
(* of the vehicle wrote after its own configuration had moved on.           *)
THEOREM SuccessorsLead == Spec => []SuccessorsLeadToReleased
  <1>1. Init => Masters /\ ConfigurationsMove /\ Chained
    <2>1. Init => ConfigurationsMove
      BY DEF Init, PlanningInit, ConfigurationsMove, Idle
    <2>2. Init => Chained
      <3>1. Init => Superseded = {}
        BY DEF Init, PlanningInit, Superseded, Documents
      <3> QED BY <3>1 DEF Chained
    <2> QED BY <2>1, <2>2, MastersInit
  <1>2. Masters /\ ConfigurationsMove /\ Chained /\ [Next]_vars =>
          (Masters /\ ConfigurationsMove /\ Chained)'
    BY MastersStep, ConfigurationsMoveStep, ChainStep
  <1>3. Chained => SuccessorsLeadToReleased
    BY DEF Chained, Linked, Superseded, SuccessorsLeadToReleased
  <1> QED BY <1>1, <1>2, <1>3, PTL DEF Spec
=============================================================================
