------------------------------ MODULE Production ------------------------------
(***************************************************************************)
(* From the planning masters and the quotes to work orders, their          *)
(* operations and the schedule.                                            *)
(***************************************************************************)
EXTENDS PlanningMasters, Quotes, BuildSlots

CONSTANTS Builders   \* requests that create work orders from build packages

VARIABLES building   \* builder -> what it has read of the package it builds

vars == <<planningVars, orderVars, floorVars, quoteVars, slotVars, building>>

\* Configuration, BOM and route of an order.
Sources == Packages \X (Routes \cup {None})

ASSUME ProductionAssumption == QuoteIds \cap (Sources \cup {Nothing}) = {}

Build   == [step : {"idle", "package", "signoff", "route"}, order : WorkOrders \cup {Nothing},
            package : Packages \cup {Nothing}, route : Routes \cup {None}]
NoBuild == [step |-> "idle", order |-> Nothing, package |-> Nothing, route |-> None]

TypeOK ==
  /\ PlanningTypeOK
  /\ OrdersTypeOK(Sources \cup QuoteIds)
  /\ QuotesTypeOK
  /\ SlotsTypeOK
  /\ building \in [Builders -> Build]

Init ==
  /\ PlanningInit /\ OrdersInit /\ QuotesInit /\ SlotsInit
  /\ building = [k \in Builders |-> NoBuild]

-----------------------------------------------------------------------------
buildUnchanged == <<planningVars, orderVars, floorVars, quoteVars, slotVars>>

\* createWoOrder: the number is free and the package is in force.
ReadBuildPackage(k, w, c, b) ==
  /\ building[k] = NoBuild
  /\ orderStatus[w] = "ABSENT"
  /\ ReadyToBuild(c, b)
  /\ building' = [building EXCEPT ![k] =
       [step |-> "package", order |-> w, package |-> <<c, b>>, route |-> None]]
  /\ UNCHANGED buildUnchanged

\* Mutant of ReadSignoff: the sign-off is not asked for.
PassSignoff(k) ==
  /\ building[k].step = "package"
  /\ building' = [building EXCEPT ![k] =
       [step |-> "signoff", order |-> building[k].order, package |-> building[k].package,
        route |-> None]]
  /\ UNCHANGED buildUnchanged

ReadSignoff(k) ==
  /\ building[k].step = "package"
  /\ building' = [building EXCEPT ![k] =
       IF signoff[building[k].package] = {} THEN NoBuild
       ELSE [step |-> "signoff", order |-> building[k].order,
             package |-> building[k].package, route |-> None]]
  /\ UNCHANGED buildUnchanged

\* Without a route the operations come from the install stages of the BOM.
ReadRoute(k) ==
  /\ building[k].step = "signoff"
  /\ \E r \in Routes \cup {None} :
       /\ r # None => /\ masterStatus[r] = "ACTIVE"
                      /\ RouteFor[r] \in {None, building[k].package[1]}
       /\ building' = [building EXCEPT ![k] =
            [step |-> "route", order |-> building[k].order,
             package |-> building[k].package, route |-> r]]
  /\ UNCHANGED buildUnchanged

\* A due date makes the order SCHEDULED from the start.
CreateWoOrder(k) ==
  /\ building[k].step = "route"
  /\ \E status \in {"READY", "SCHEDULED"} :
       NewOrder(building[k].order, status, <<building[k].package, building[k].route>>)
  /\ building' = [building EXCEPT ![k] = NoBuild]
  /\ UNCHANGED <<planningVars, quoteVars, slotVars>>

\* A refusal, a number taken in the meantime, or the Lambda dies.
DropBuild(k) ==
  /\ building[k] # NoBuild
  /\ building' = [building EXCEPT ![k] = NoBuild]
  /\ UNCHANGED buildUnchanged

BuildNext ==
  \E k \in Builders :
    \/ \E w \in WorkOrders, c \in Configurations, b \in Boms : ReadBuildPackage(k, w, c, b)
    \/ ReadSignoff(k)
    \/ ReadRoute(k)
    \/ CreateWoOrder(k)
    \/ DropBuild(k)

Next ==
  \/ PlanningNext /\ UNCHANGED <<orderVars, floorVars, quoteVars, slotVars, building>>
  \/ QuotesNext /\ UNCHANGED <<planningVars, orderVars, floorVars, slotVars, building>>
  \/ /\ \E s \in Sellers, q \in QuoteIds : ConvertQuoteToWorkOrder(s, q)
     /\ UNCHANGED <<planningVars, slotVars, building>>
  \/ BuildNext
  \/ OrdersNext /\ UNCHANGED <<planningVars, quoteVars, slotVars, building>>
  \/ SlotsNext /\ UNCHANGED <<planningVars, orderVars, floorVars, quoteVars, building>>
  \/ /\ \E p \in Planners : PublishSchedule(p)
     /\ UNCHANGED <<planningVars, quoteVars, building>>

Spec == Init /\ [][Next]_vars

-----------------------------------------------------------------------------
(* Every work order built from a package goes back to a signed-off pair of  *)
(* a configuration that was released and its own approved BOM, and to      *)
(* routes that were activated, whatever the transitions, sign-offs and      *)
(* reads that overlapped on the way.                                       *)
OrdersAreBuiltOnSignedPackages ==
  \A w \in WorkOrders : madeFrom[w] \in Sources =>
    LET package == madeFrom[w][1]
        route   == madeFrom[w][2]
    IN  /\ signoff[package] # {} /\ signoff[package] \subseteq settled
        /\ package[1] \in settled /\ package[2] \in settled
        /\ Group[package[2]] = package[1]
        /\ route # None => route \in settled

(* Work that has ended does not come back: an operation that is over stays  *)
(* over, and so does its order, unless a request wrote an operation or     *)
(* settled an order on what it had read before another one changed it.     *)
(* Publishing a schedule with an older preview revives nothing.            *)
EndedWorkStaysEnded ==
  [][/\ \A job \in Jobs :
          operationStatus[job] \in Terminal /\ operationStatus'[job] \notin Terminal
            => job[1] \in contended'
     /\ \A w \in WorkOrders :
          orderStatus[w] \in Over /\ orderStatus'[w] # orderStatus[w]
            => w \in outrun']_vars
=============================================================================
