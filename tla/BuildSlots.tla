------------------------------ MODULE BuildSlots ------------------------------
(***************************************************************************)
(* The build slot schedule of one planning window. A publication previews   *)
(* the window outside its transaction, supersedes the assignments it sees, *)
(* inserts its own and recomputes the slots it touched, READ COMMITTED: a   *)
(* statement sees the assignments as they were committed when it began, and *)
(* keeps to them when it has to wait for a row another publication holds.   *)
(***************************************************************************)
EXTENDS WorkOrders, FiniteSetsExt, Functions

CONSTANTS
  Slots,
  Planners,     \* publications that may overlap
  Minutes,      \* estimated_minutes of an operation
  Capacities    \* capacity_minutes a slot may have                  (bound)

ASSUME SlotsAssumption ==
  /\ IsFiniteSet(Jobs) /\ Nothing \notin Slots
  /\ Minutes \in [Operations -> Nat \ {0}]
  /\ Capacities \subseteq Nat \ {0}

VARIABLES
  slot,
  assigned,      \* job -> the slot of its PUBLISHED assignment (unique per operation)
  publication,   \* planner -> the publication it is in
  disturbed      \* history: slots last recomputed by a publication beside which another
                 \*   one had assignments there, or that had shrunk since its preview

slotVars == <<slot, assigned, publication, disturbed>>

\* LOCKED and EXECUTING slots are planned into like OPEN ones, CLOSED ones like
\* CANCELLED ones not at all.
SlotStates == {"ABSENT", "OPEN", "CANCELLED"}
Plan       == [Jobs -> Slots \cup {Nothing}]
NoPlan     == [job \in Jobs |-> Nothing]
Planned(plan) == {job \in Jobs : plan[job] # Nothing}

\* What its first statement sees, and the published assignments at moments since then
\* that its slot updates may still see.
Publication   == [step : {"idle", "previewed", "superseded"}, plan : Plan,
                  sees : SUBSET Jobs, snapshots : SUBSET Plan, shrunk : SUBSET Slots]
NoPublication == [step |-> "idle", plan |-> NoPlan, sees |-> {}, snapshots |-> {}, shrunk |-> {}]

SlotsTypeOK ==
  /\ slot \in [Slots -> [status : SlotStates, capacity : Nat, allocated : Nat]]
  /\ assigned \in Plan
  /\ publication \in [Planners -> Publication]
  /\ disturbed \subseteq Slots

SlotsInit ==
  /\ slot = [s \in Slots |-> [status |-> "ABSENT", capacity |-> 0, allocated |-> 0]]
  /\ assigned = NoPlan
  /\ publication = [p \in Planners |-> NoPublication]
  /\ disturbed = {}

\* Minutes a plan puts into slot s.
Load(plan, s) ==
  SumFunctionOnSet([job \in Jobs |-> Minutes[job[2]]], {job \in Jobs : plan[job] = s})

-----------------------------------------------------------------------------
CreateCapacitySlot(s) ==
  /\ slot[s].status = "ABSENT"
  /\ \E capacity \in Capacities :
       slot' = [slot EXCEPT ![s] = [status |-> "OPEN", capacity |-> capacity, allocated |-> 0]]
  /\ UNCHANGED <<assigned, publication, disturbed>>

\* updateCapacitySlot, cancelCapacitySlot and an import over an existing slot. The
\* expected version makes the update decide on the row it writes; the table
\* refuses a capacity below what is allocated.
UpdateCapacitySlot(s) ==
  /\ slot[s].status # "ABSENT"
  /\ \E status \in {"OPEN", "CANCELLED"}, capacity \in Capacities :
       /\ capacity >= slot[s].allocated
       /\ slot' = [slot EXCEPT ![s].status = status, ![s].capacity = capacity]
       /\ publication' = [p \in Planners |->
            IF capacity < slot[s].capacity /\ \E job \in Jobs : publication[p].plan[job] = s
            THEN [publication[p] EXCEPT !.shrunk = @ \cup {s}] ELSE publication[p]]
  /\ UNCHANGED <<assigned, disturbed>>

\* listOperationDemand: operations of active orders that no published assignment
\* holds, that are not blocked and whose parts are there.
Demand ==
  {job \in Jobs :
     /\ orderStatus[job[1]] \in {"READY", "SCHEDULED", "IN_PROGRESS", "BLOCKED"}
     /\ operationStatus[job] \in {"PENDING", "READY", "IN_PROGRESS"}
     /\ assigned[job] = Nothing}

\* buildSchedulePreview: what computeDeterministicSchedule may fit into the time
\* the slots have left; priorities, due dates and material readiness decide.
Preview(p) ==
  /\ publication[p] = NoPublication
  /\ Demand # {} /\ \E s \in Slots : slot[s].status = "OPEN"
  /\ \E plan \in Plan :
       /\ Planned(plan) # {} /\ Planned(plan) \subseteq Demand
       /\ \A s \in Slots :
            (\E job \in Jobs : plan[job] = s) =>
              /\ slot[s].status = "OPEN"
              /\ Load(plan, s) <= slot[s].capacity - slot[s].allocated
       /\ publication' = [publication EXCEPT ![p] =
            [step |-> "previewed", plan |-> plan, sees |-> {}, snapshots |-> {}, shrunk |-> {}]]
  /\ UNCHANGED <<slot, assigned, disturbed>>

\* The first statement of publishSchedule: the assignments of the window it sees.
SupersedeWindow(p) ==
  /\ publication[p].step = "previewed"
  /\ publication' = [publication EXCEPT ![p].step = "superseded", ![p].sees = Planned(assigned)]
  /\ UNCHANGED <<slot, assigned, disturbed>>

\* Mutant of AffectedSlots: the slots of the new assignments only.
PlannedSlots(p, dropped) ==
  {publication[p].plan[job] : job \in Planned(publication[p].plan)}

\* Slots of the new and of the superseded assignments.
AffectedSlots(p, dropped) ==
  {publication[p].plan[job] : job \in Planned(publication[p].plan)}
    \cup {assigned[job] : job \in dropped}

\* Mutant of ReleasedOperations: every planned operation is made READY.
ReleaseEvery(planned) ==
  [job \in Jobs |-> IF job \in planned THEN "READY" ELSE operationStatus[job]]

ReleasedOperations(planned) ==
  [job \in Jobs |-> IF job \in planned /\ operationStatus[job] = "PENDING"
                    THEN "READY" ELSE operationStatus[job]]

\* Mutant of ScheduledOrders: every planned order becomes SCHEDULED.
ScheduleEvery(planned) ==
  [w \in WorkOrders |-> IF \E x \in Operations : <<w, x>> \in planned
                        THEN "SCHEDULED" ELSE orderStatus[w]]

ScheduledOrders(planned) ==
  [w \in WorkOrders |-> IF orderStatus[w] = "READY" /\ \E x \in Operations : <<w, x>> \in planned
                        THEN "SCHEDULED" ELSE orderStatus[w]]

\* What publication q may see when another one commits: if that one wrote rows of q's
\* operations or rows q supersedes, q has waited for it and sees the new assignments;
\* otherwise a slot update of q may have begun before.
SeesAfter(q, dropped, planned) ==
  LET written == dropped \cup planned
  IN  [publication[q] EXCEPT
        !.sees = @ \ written,
        !.snapshots =
          IF publication[q].step # "superseded" \/ dropped \cap publication[q].sees # {}
             \/ written \cap Planned(publication[q].plan) # {}
          THEN {} ELSE @ \cup {assigned}]

\* The rest of the transaction and its commit. Each planned operation's own
\* assignment is superseded by a fresh statement. The update of a slot waits while
\* another publication holds the slot, and then adds up what it saw before.
PublishSchedule(p) ==
  LET plan      == publication[p].plan
      planned   == Planned(plan)
      dropped   == (publication[p].sees \cup planned) \cap Planned(assigned)
      seen      == publication[p].snapshots \cup {assigned}
      With(old) == [job \in Jobs |-> IF job \in planned THEN plan[job]
                                     ELSE IF job \in dropped THEN Nothing ELSE old[job]]
      affected  == AffectedSlots(p, dropped)
      Upset(s)  == \/ s \in publication[p].shrunk
                   \/ \E old \in seen, job \in Jobs \ (planned \cup dropped) : old[job] = s
  IN  /\ publication[p].step = "superseded"
      /\ assigned' = With(assigned)
      /\ \E view \in [affected -> seen] :
           slot' = [s \in Slots |->
             IF s \in affected
             THEN [slot[s] EXCEPT !.allocated = Min({slot[s].capacity, Load(With(view[s]), s)})]
             ELSE slot[s]]
      /\ disturbed' = (disturbed \ affected) \cup {s \in affected : Upset(s)}
      /\ publication' = [q \in Planners |->
           IF q = p THEN NoPublication ELSE SeesAfter(q, dropped, planned)]
      /\ operationStatus' = ReleasedOperations(planned)
      /\ orderStatus' = ScheduledOrders(planned)
      /\ UNCHANGED <<madeFrom, recorded, floorVars>>

\* The transaction is rolled back: two publications insert an assignment of one
\* operation, a statement fails, or the Lambda dies.
DropPublication(p) ==
  /\ publication[p] # NoPublication
  /\ publication' = [publication EXCEPT ![p] = NoPublication]
  /\ UNCHANGED <<slot, assigned, disturbed>>

\* Every step but PublishSchedule, which also writes orders.
SlotsNext ==
  \/ \E s \in Slots : CreateCapacitySlot(s) \/ UpdateCapacitySlot(s)
  \/ \E p \in Planners : Preview(p) \/ SupersedeWindow(p) \/ DropPublication(p)

-----------------------------------------------------------------------------
(* What a slot says is allocated is what its published assignments add up   *)
(* to, and no more than it has, also for the slots a publication only took *)
(* assignments out of. A publication that finds, or may still see, another  *)
(* one's assignments in a slot, or plans into a slot that has shrunk, upsets *)
(* the sum until the slot is next recomputed.                              *)
SlotsHoldTheirAssignments ==
  \A s \in Slots \ disturbed :
    /\ slot[s].allocated = Load(assigned, s)
    /\ slot[s].allocated <= slot[s].capacity
=============================================================================
