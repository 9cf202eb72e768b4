----------------------------- MODULE SlotsProofs -----------------------------
(***************************************************************************)
(* Capacity slots add up, for any number of slots, planners and operations  *)
(* and any minutes; and the type invariant of the whole of Production. What *)
(* a slot has allocated is a sum over the operations planned into it, so    *)
(* the argument rests on the lemmas of Sums.                               *)
(***************************************************************************)
EXTENDS OrdersProofs, Sums

\* The table's check on a slot's row.
SlotsFit ==
  \A s \in Slots :
    /\ slot[s].allocated <= slot[s].capacity
    /\ slot[s].status = "ABSENT" => slot[s].capacity = 0

\* A preview had time in every slot it planned into; the slot still has it unless it
\* has shrunk since.
PlansFit ==
  \A p \in Planners, s \in Slots :
    s \in publication[p].shrunk \/ Load(publication[p].plan, s) <= slot[s].capacity

SlotsAddUp == \A s \in Slots \ disturbed : slot[s].allocated = Load(assigned, s)

SlotsSound == SlotsTypeOK /\ SlotsFit /\ PlansFit /\ SlotsAddUp

(* Minutes are counted in whole numbers, and a plan that puts nothing into *)
(* a slot puts none there.                                                 *)
LEMMA LoadIsNatural ==
  ASSUME NEW plan, NEW s
  PROVE  /\ Load(plan, s) \in Nat
         /\ (\A job \in Jobs : plan[job] # s) => Load(plan, s) = 0
<1> DEFINE minutes == [job \in Jobs |-> Minutes[job[2]]]
           there   == {job \in Jobs : plan[job] = s}
<1>1. minutes \in [Jobs -> Int] /\ \A job \in Jobs : minutes[job] >= 0
  BY SlotsAssumption DEF Jobs
<1>2. there \in SUBSET Jobs
  OBVIOUS
<1>3. IsFiniteSet(there)
  BY <1>2, SlotsAssumption, FS_Subset
<1>4. (\A job \in Jobs : plan[job] # s) => there = {}
  OBVIOUS
<1>5. Load(plan, s) = SumFunctionOnSet(minutes, there)
  BY DEF Load
<1> HIDE DEF minutes, there
<1>6. SumFunctionOnSet(minutes, there) \in Nat
  BY <1>1, <1>2, <1>3, SumOfNaturals
<1>7. SumFunctionOnSet(minutes, {}) = 0
  BY <1>1, SumEmpty
<1> QED BY <1>4, <1>5, <1>6, <1>7

(* Plans that put the same operations into a slot load it alike.           *)
LEMMA SameLoad ==
  ASSUME NEW plan, NEW other, NEW s, \A job \in Jobs : plan[job] = s <=> other[job] = s
  PROVE  Load(plan, s) = Load(other, s)
<1>1. {job \in Jobs : plan[job] = s} = {job \in Jobs : other[job] = s}
  OBVIOUS
<1> QED BY <1>1 DEF Load

LEMMA MinOfTwo ==
  ASSUME NEW a \in Nat, NEW b \in Nat
  PROVE  Min({a, b}) = IF a <= b THEN a ELSE b
<1> DEFINE least == IF a <= b THEN a ELSE b
<1>1. least \in {a, b} /\ \A y \in {a, b} : least <= y
  OBVIOUS
<1>2. \A x \in {a, b} : (\A y \in {a, b} : x <= y) => x = least
  OBVIOUS
<1> HIDE DEF least
<1>3. Min({a, b}) \in {a, b} /\ \A y \in {a, b} : Min({a, b}) <= y
  BY <1>1 DEF Min
<1>4. Min({a, b}) = least
  BY <1>2, <1>3
<1> QED BY <1>4 DEF least

-----------------------------------------------------------------------------
LEMMA SlotsInitSound == Init => SlotsSound
<1> SUFFICES ASSUME Init PROVE SlotsSound
  OBVIOUS
<1>1. SlotsTypeOK
  BY DEF Init, SlotsInit, SlotsTypeOK, SlotStates, Plan, NoPlan, Publication, NoPublication
<1>2. \A s \in Slots : Load(NoPlan, s) = 0
  BY SlotsAssumption, LoadIsNatural DEF NoPlan
<1>3. SlotsFit /\ PlansFit /\ SlotsAddUp
  BY <1>2 DEF Init, SlotsInit, SlotsFit, PlansFit, SlotsAddUp, NoPublication
<1> QED BY <1>1, <1>3 DEF SlotsSound

LEMMA CreateKeepsSlots ==
  ASSUME SlotsSound, NEW s \in Slots, CreateCapacitySlot(s)
  PROVE  SlotsSound'
<1>1. PICK capacity \in Capacities :
        slot' = [slot EXCEPT ![s] = [status |-> "OPEN", capacity |-> capacity, allocated |-> 0]]
  BY DEF CreateCapacitySlot
<1>2. slot[s].status = "ABSENT" /\ UNCHANGED <<assigned, publication, disturbed>>
  BY DEF CreateCapacitySlot
<1>3. capacity \in Nat
  BY SlotsAssumption
<1>4. slot \in [Slots -> [status : SlotStates, capacity : Nat, allocated : Nat]]
  BY DEF SlotsSound, SlotsTypeOK
<1>5. slot[s].capacity = 0 /\ slot[s].allocated = 0
  BY <1>2, <1>4 DEF SlotsSound, SlotsFit
<1>6. /\ \A x \in Slots \ {s} : slot'[x] = slot[x]
      /\ slot'[s] = [status |-> "OPEN", capacity |-> capacity, allocated |-> 0]
  BY <1>1, <1>4
<1>7. SlotsTypeOK'
  BY <1>1, <1>2, <1>3, <1>4 DEF SlotsSound, SlotsTypeOK, SlotStates
<1>8. SlotsFit'
  BY <1>3, <1>6 DEF SlotsSound, SlotsFit
<1>9. PlansFit'
  <2> SUFFICES ASSUME NEW p \in Planners, NEW x \in Slots, x \notin publication[p].shrunk
               PROVE  Load(publication[p].plan, x) <= slot'[x].capacity
    BY <1>2 DEF PlansFit
  <2>1. Load(publication[p].plan, x) <= slot[x].capacity /\ Load(publication[p].plan, x) \in Nat
    BY LoadIsNatural DEF SlotsSound, PlansFit
  <2> QED BY <1>3, <1>5, <1>6, <2>1
<1>10. SlotsAddUp'
  <2> SUFFICES ASSUME NEW x \in Slots \ disturbed PROVE slot'[x].allocated = Load(assigned, x)
    BY <1>2 DEF SlotsAddUp
  <2>1. slot[x].allocated = Load(assigned, x)
    BY DEF SlotsSound, SlotsAddUp
  <2> QED BY <1>5, <1>6, <2>1
<1> QED BY <1>7, <1>8, <1>9, <1>10 DEF SlotsSound

LEMMA UpdateKeepsSlots ==
  ASSUME SlotsSound, NEW s \in Slots, UpdateCapacitySlot(s)
  PROVE  SlotsSound'
<1>1. PICK status \in {"OPEN", "CANCELLED"}, capacity \in Capacities :
        /\ capacity >= slot[s].allocated
        /\ slot' = [slot EXCEPT ![s].status = status, ![s].capacity = capacity]
        /\ publication' = [p \in Planners |->
             IF capacity < slot[s].capacity /\ \E job \in Jobs : publication[p].plan[job] = s
             THEN [publication[p] EXCEPT !.shrunk = @ \cup {s}] ELSE publication[p]]
  BY DEF UpdateCapacitySlot
<1>2. UNCHANGED <<assigned, disturbed>>
  BY DEF UpdateCapacitySlot
<1>3. capacity \in Nat
  BY SlotsAssumption
<1>4. /\ slot \in [Slots -> [status : SlotStates, capacity : Nat, allocated : Nat]]
      /\ publication \in [Planners -> Publication]
  BY DEF SlotsSound, SlotsTypeOK
<1>5. /\ \A x \in Slots \ {s} : slot'[x] = slot[x]
      /\ slot'[s] = [status |-> status, capacity |-> capacity, allocated |-> slot[s].allocated]
  BY <1>1, <1>4
<1>6. SlotsTypeOK'
  <2>1. slot' \in [Slots -> [status : SlotStates, capacity : Nat, allocated : Nat]]
    BY <1>1, <1>3, <1>4 DEF SlotStates
  <2>2. publication' \in [Planners -> Publication]
    BY <1>1, <1>4 DEF Publication
  <2> QED BY <1>2, <2>1, <2>2 DEF SlotsSound, SlotsTypeOK
<1>7. SlotsFit'
  <2>1. slot'[s].allocated <= slot'[s].capacity /\ slot'[s].status # "ABSENT"
    BY <1>1, <1>3, <1>4, <1>5
  <2> QED BY <1>5, <2>1 DEF SlotsSound, SlotsFit
<1>8. PlansFit'
  <2> SUFFICES ASSUME NEW p \in Planners, NEW x \in Slots, x \notin publication'[p].shrunk
               PROVE  Load(publication'[p].plan, x) <= slot'[x].capacity
    BY DEF PlansFit
  <2> DEFINE plan == publication[p].plan
  <2>1. publication'[p].plan = plan /\ x \notin publication[p].shrunk
    BY <1>1, <1>4 DEF Publication
  <2>2. Load(plan, x) <= slot[x].capacity /\ Load(plan, x) \in Nat
    BY <2>1, LoadIsNatural DEF SlotsSound, PlansFit
  <2>3. CASE x # s
    BY <1>5, <2>1, <2>2, <2>3
  <2>4. CASE x = s /\ capacity >= slot[s].capacity
    BY <1>3, <1>4, <1>5, <2>1, <2>2, <2>4
  <2>5. CASE x = s /\ capacity < slot[s].capacity
    <3>1. \A job \in Jobs : plan[job] # s
      BY <1>1, <1>4, <2>5 DEF Publication
    <3>2. Load(plan, s) = 0
      BY <3>1, LoadIsNatural
    <3> QED BY <1>3, <1>5, <2>1, <2>5, <3>2
  <2> QED BY <1>3, <1>4, <2>3, <2>4, <2>5
<1>9. SlotsAddUp'
  BY <1>2, <1>5 DEF SlotsSound, SlotsAddUp
<1> QED BY <1>6, <1>7, <1>8, <1>9 DEF SlotsSound

\* A publication that starts, takes its snapshot or is dropped.
LEMMA PlannerKeepsSlots ==
  ASSUME SlotsSound, NEW p \in Planners, Preview(p) \/ SupersedeWindow(p) \/ DropPublication(p)
  PROVE  SlotsSound'
<1>1. UNCHANGED <<slot, assigned, disturbed>>
  BY DEF Preview, SupersedeWindow, DropPublication
<1>2. /\ slot \in [Slots -> [status : SlotStates, capacity : Nat, allocated : Nat]]
      /\ publication \in [Planners -> Publication]
  BY DEF SlotsSound, SlotsTypeOK
<1>3. ASSUME NEW row \in Publication, publication' = [publication EXCEPT ![p] = row],
             \A s \in Slots : s \in row.shrunk \/ Load(row.plan, s) <= slot[s].capacity
      PROVE  SlotsSound'
  <2>1. SlotsTypeOK'
    BY <1>1, <1>2, <1>3 DEF SlotsSound, SlotsTypeOK
  <2>2. PlansFit'
    <3>1. publication'[p] = row /\ \A q \in Planners \ {p} : publication'[q] = publication[q]
      BY <1>2, <1>3
    <3> QED BY <1>1, <1>3, <3>1 DEF SlotsSound, PlansFit
  <2> QED BY <1>1, <2>1, <2>2 DEF SlotsSound, SlotsFit, SlotsAddUp
<1>4. ASSUME Preview(p) PROVE SlotsSound'
  <2>1. PICK plan \in Plan :
          /\ \A s \in Slots : (\E job \in Jobs : plan[job] = s) =>
               Load(plan, s) <= slot[s].capacity - slot[s].allocated
          /\ publication' = [publication EXCEPT ![p] =
               [step |-> "previewed", plan |-> plan, sees |-> {}, snapshots |-> {}, shrunk |-> {}]]
    BY <1>4 DEF Preview
  <2>2. ASSUME NEW s \in Slots PROVE Load(plan, s) <= slot[s].capacity
    <3>1. slot[s].capacity \in Nat /\ slot[s].allocated \in Nat
      BY <1>2
    <3>2. Load(plan, s) \in Nat
      BY LoadIsNatural
    <3>3. CASE \E job \in Jobs : plan[job] = s
      BY <2>1, <3>1, <3>2, <3>3
    <3>4. CASE ~\E job \in Jobs : plan[job] = s
      BY <3>1, <3>4, LoadIsNatural
    <3> QED BY <3>3, <3>4
  <2> DEFINE row == [step |-> "previewed", plan |-> plan, sees |-> {}, snapshots |-> {}, shrunk |-> {}]
  <2>3. row \in Publication /\ row.plan = plan
    BY DEF Publication
  <2> HIDE DEF row
  <2>4. publication' = [publication EXCEPT ![p] = row]
    BY <2>1 DEF row
  <2> QED BY <1>3, <2>2, <2>3, <2>4
<1>5. ASSUME SupersedeWindow(p) PROVE SlotsSound'
  <2> DEFINE row == [publication[p] EXCEPT !.step = "superseded", !.sees = Planned(assigned)]
  <2>1. publication' = [publication EXCEPT ![p] = row]
    BY <1>2, <1>5 DEF SupersedeWindow
  <2>2. row \in Publication /\ row.plan = publication[p].plan /\ row.shrunk = publication[p].shrunk
    BY <1>2 DEF Publication, Planned
  <2> HIDE DEF row
  <2>3. \A s \in Slots : s \in row.shrunk \/ Load(row.plan, s) <= slot[s].capacity
    BY <2>2 DEF SlotsSound, PlansFit
  <2> QED BY <1>3, <2>1, <2>2, <2>3
<1>6. ASSUME DropPublication(p) PROVE SlotsSound'
  <2>1. \A s \in Slots : Load(NoPlan, s) = 0
    BY SlotsAssumption, LoadIsNatural DEF NoPlan
  <2>2. NoPublication \in Publication
    BY DEF NoPublication, Publication, NoPlan, Plan
  <2>3. \A s \in Slots : Load(NoPublication.plan, s) <= slot[s].capacity
    BY <1>2, <2>1 DEF NoPublication
  <2> QED BY <1>3, <1>6, <2>2, <2>3 DEF DropPublication
<1> QED BY <1>4, <1>5, <1>6

(* A publication writes into every slot it touched what its assignments    *)
(* hold, unless another's are there or may still be seen there, or the slot *)
(* had shrunk.                                                             *)
LEMMA PublishKeepsSlots ==
  ASSUME SlotsSound, NEW p \in Planners, PublishSchedule(p)
  PROVE  SlotsSound'
<1> DEFINE plan      == publication[p].plan
           planned   == Planned(plan)
           dropped   == (publication[p].sees \cup planned) \cap Planned(assigned)
           seen      == publication[p].snapshots \cup {assigned}
           With(old) == [job \in Jobs |-> IF job \in planned THEN plan[job]
                                          ELSE IF job \in dropped THEN Nothing ELSE old[job]]
           after     == With(assigned)
           affected  == AffectedSlots(p, dropped)
           Upset(s)  == \/ s \in publication[p].shrunk
                        \/ \E old \in seen, job \in Jobs \ (planned \cup dropped) : old[job] = s
<1>1. /\ assigned' = after
      /\ disturbed' = (disturbed \ affected) \cup {s \in affected : Upset(s)}
      /\ publication' = [q \in Planners |->
           IF q = p THEN NoPublication ELSE SeesAfter(q, dropped, planned)]
  BY DEF PublishSchedule
<1>2. PICK view \in [affected -> seen] :
        slot' = [s \in Slots |->
          IF s \in affected
          THEN [slot[s] EXCEPT !.allocated = Min({slot[s].capacity, Load(With(view[s]), s)})]
          ELSE slot[s]]
  BY DEF PublishSchedule
<1>3. /\ slot \in [Slots -> [status : SlotStates, capacity : Nat, allocated : Nat]]
      /\ publication \in [Planners -> Publication]
      /\ assigned \in [Jobs -> Slots \cup {Nothing}] /\ disturbed \subseteq Slots
  BY DEF SlotsSound, SlotsTypeOK, Plan
<1>4. plan \in [Jobs -> Slots \cup {Nothing}] /\ publication[p].shrunk \subseteq Slots
  BY <1>3 DEF Publication, Plan
<1>5. /\ planned = {job \in Jobs : plan[job] # Nothing}
      /\ Planned(assigned) = {job \in Jobs : assigned[job] # Nothing}
      /\ affected = {plan[job] : job \in planned} \cup {assigned[job] : job \in dropped}
  BY DEF Planned, AffectedSlots
<1>6. Nothing \notin Slots
  BY SlotsAssumption
\* What the assignments of a slot are afterwards.
<1>7. ASSUME NEW s \in Slots \ affected, NEW job \in Jobs
      PROVE  after[job] = s <=> assigned[job] = s
  <2>1. job \in planned => plan[job] # s
    BY <1>5, <1>7
  <2>2. job \in dropped => assigned[job] # s
    BY <1>5, <1>7
  <2>3. job \in planned => job \in dropped \/ assigned[job] = Nothing
    BY <1>5
  <2>4. s # Nothing
    BY <1>6
  <2>5. after[job] = (IF job \in planned THEN plan[job]
                      ELSE IF job \in dropped THEN Nothing ELSE assigned[job])
    OBVIOUS
  <2> HIDE DEF planned, dropped, affected, plan, after
  <2> QED BY <2>1, <2>2, <2>3, <2>4, <2>5
<1>8. ASSUME NEW s \in Slots, ~Upset(s), NEW old \in seen, NEW job \in Jobs
      PROVE  With(old)[job] = s <=> plan[job] = s
  <2>1. job \notin planned \cup dropped => old[job] # s
    BY <1>8
  <2>2. job \notin planned => plan[job] = Nothing
    BY <1>5
  <2>3. s # Nothing
    BY <1>6
  <2>4. With(old)[job] = (IF job \in planned THEN plan[job]
                          ELSE IF job \in dropped THEN Nothing ELSE old[job])
    OBVIOUS
  <2> HIDE DEF planned, dropped, affected, plan, With, seen
  <2> QED BY <2>1, <2>2, <2>3, <2>4
<1>9. affected \subseteq Slots
  BY <1>3, <1>4, <1>5
<1>10. after \in Plan
  BY <1>3, <1>4 DEF Plan
<1>11. \A s \in Slots : slot'[s] = IF s \in affected
         THEN [slot[s] EXCEPT !.allocated = Min({slot[s].capacity, Load(With(view[s]), s)})]
         ELSE slot[s]
  BY <1>2
<1>12. slot' = [s \in Slots |-> slot'[s]]
  BY <1>2
<1>19. \A s \in affected : view[s] \in seen
  BY <1>2
<1> HIDE DEF after, affected, seen, With, planned, dropped, plan
<1>13. ASSUME NEW s \in Slots
       PROVE  /\ slot'[s].status = slot[s].status /\ slot'[s].capacity = slot[s].capacity
              /\ slot'[s].allocated \in Nat /\ slot'[s].allocated <= slot[s].capacity
              /\ slot'[s] \in [status : SlotStates, capacity : Nat, allocated : Nat]
  <2>1. slot[s] \in [status : SlotStates, capacity : Nat, allocated : Nat]
    BY <1>3
  <2>2. PICK load : load = Load(With(view[s]), s)
    OBVIOUS
  <2>5. load \in Nat
    BY <2>2, LoadIsNatural
  <2>3. CASE s \in affected
    <3>1. Min({slot[s].capacity, load}) \in Nat
          /\ Min({slot[s].capacity, load}) <= slot[s].capacity
      BY <2>1, <2>5, MinOfTwo
    <3> QED BY <1>11, <2>1, <2>2, <2>3, <3>1
  <2>4. CASE s \notin affected
    BY <1>11, <2>1, <2>4 DEF SlotsSound, SlotsFit
  <2> QED BY <2>3, <2>4
<1>14. /\ \A q \in Planners : publication'[q] \in Publication
       /\ \A q \in Planners : q # p => /\ publication'[q].plan = publication[q].plan
                                       /\ publication'[q].shrunk = publication[q].shrunk
       /\ publication'[p] = NoPublication
  <2>1. assigned \in Plan
    BY <1>3 DEF Plan
  <2>2. ASSUME NEW q \in Planners
        PROVE  /\ SeesAfter(q, dropped, planned) \in Publication
               /\ SeesAfter(q, dropped, planned).plan = publication[q].plan
               /\ SeesAfter(q, dropped, planned).shrunk = publication[q].shrunk
    <3>1. publication[q] \in Publication
      BY <1>3
    <3> QED BY <2>1, <3>1 DEF SeesAfter, Publication
  <2>3. NoPublication \in Publication
    BY DEF Publication, NoPublication, NoPlan, Plan
  <2> QED BY <1>1, <2>2, <2>3
<1>15. SlotsTypeOK'
  <2>1. slot' \in [Slots -> [status : SlotStates, capacity : Nat, allocated : Nat]]
    BY <1>12, <1>13
  <2>2. publication' \in [Planners -> Publication]
    BY <1>1, <1>14
  <2>3. disturbed' \subseteq Slots
    BY <1>1, <1>3, <1>9
  <2> QED BY <1>1, <1>10, <2>1, <2>2, <2>3 DEF SlotsTypeOK
<1>16. SlotsFit'
  BY <1>13 DEF SlotsSound, SlotsFit
<1>17. PlansFit'
  <2> SUFFICES ASSUME NEW q \in Planners, NEW s \in Slots
               PROVE  s \in publication'[q].shrunk
                        \/ Load(publication'[q].plan, s) <= slot'[s].capacity
    BY DEF PlansFit
  <2>1. CASE q = p
    <3>1. Load(NoPlan, s) = 0
      BY <1>6, LoadIsNatural DEF NoPlan
    <3> QED BY <1>3, <1>13, <1>14, <2>1, <3>1 DEF NoPublication
  <2>2. CASE q # p
    BY <1>13, <1>14, <2>2 DEF SlotsSound, PlansFit
  <2> QED BY <2>1, <2>2
<1>18. SlotsAddUp'
  <2> SUFFICES ASSUME NEW s \in Slots \ disturbed' PROVE slot'[s].allocated = Load(after, s)
    BY <1>1 DEF SlotsAddUp
  <2>1. CASE s \in affected
    <3>1. ~Upset(s)
      BY <1>1, <2>1
    <3> PICK old \in seen : old = view[s]
      BY <1>19, <2>1
    <3>8. assigned \in seen
      BY DEF seen
    <3>2. /\ \A job \in Jobs : With(assigned)[job] = s <=> plan[job] = s
          /\ \A job \in Jobs : With(old)[job] = s <=> plan[job] = s
      BY <1>8, <3>1, <3>8
    <3>3. Load(With(assigned), s) = Load(plan, s) /\ Load(With(old), s) = Load(plan, s)
      BY <3>2, SameLoad
    <3>4. Load(plan, s) <= slot[s].capacity
      BY <3>1 DEF SlotsSound, PlansFit, plan
    <3>5. Load(plan, s) \in Nat /\ slot[s].capacity \in Nat
      BY <1>3, LoadIsNatural
    <3>6. Min({slot[s].capacity, Load(plan, s)}) = Load(plan, s)
      BY <3>4, <3>5, MinOfTwo
    <3>7. slot'[s].allocated = Min({slot[s].capacity, Load(With(old), s)})
      BY <1>3, <1>11, <2>1
    <3>9. Load(after, s) = Load(plan, s)
      BY <3>3 DEF after
    <3> QED BY <3>3, <3>6, <3>7, <3>9
  <2>2. CASE s \notin affected
    <3>1. \A job \in Jobs : after[job] = s <=> assigned[job] = s
      BY <1>7, <2>2
    <3>2. Load(after, s) = Load(assigned, s)
      BY <3>1, SameLoad
    <3>3. s \notin disturbed
      BY <1>1, <2>2
    <3> QED BY <1>11, <2>2, <3>2, <3>3 DEF SlotsSound, SlotsAddUp
  <2> QED BY <2>1, <2>2
<1> QED BY <1>15, <1>16, <1>17, <1>18 DEF SlotsSound

LEMMA SlotsStep == SlotsSound /\ [Next]_vars => SlotsSound'
<1> SUFFICES ASSUME SlotsSound, [Next]_vars PROVE SlotsSound'
  OBVIOUS
<1>1. CASE UNCHANGED slotVars
  BY <1>1 DEF slotVars, SlotsSound, SlotsTypeOK, SlotsFit, PlansFit, SlotsAddUp
<1>2. CASE SlotsNext
  BY <1>2, CreateKeepsSlots, UpdateKeepsSlots, PlannerKeepsSlots DEF SlotsNext
<1>3. ASSUME NEW p \in Planners, PublishSchedule(p) PROVE SlotsSound'
  BY <1>3, PublishKeepsSlots
<1>4. UNCHANGED slotVars \/ SlotsNext \/ \E p \in Planners : PublishSchedule(p)
  BY DEF Next, vars, BuildNext, ReadBuildPackage, ReadSignoff, ReadRoute, CreateWoOrder,
       DropBuild, buildUnchanged
<1> QED BY <1>1, <1>2, <1>3, <1>4

(* What a slot says is allocated is what its published assignments add up  *)
(* to and no more than it has, for any number of overlapping publications, *)
(* unless another's assignments were in the slot, or could still be seen in *)
(* it, when it was last recomputed, or it had shrunk.                      *)
THEOREM SlotsHold == Spec => []SlotsHoldTheirAssignments
<1>1. SlotsSound => SlotsHoldTheirAssignments
  BY DEF SlotsSound, SlotsFit, SlotsAddUp, SlotsHoldTheirAssignments
<1> QED BY <1>1, SlotsInitSound, SlotsStep, PTL DEF Spec
-----------------------------------------------------------------------------
\* The parts of the state no other invariant speaks of.
Notes ==
  /\ outrun \subseteq WorkOrders /\ unrecorded \subseteq WorkOrders
  /\ quoteStatus \in [QuoteIds -> QuoteStates]
  /\ selling \in [Sellers -> (QuoteIds \X Deals) \cup {Nothing}]

LEMMA NotesStep == Floor /\ Notes /\ [Next]_vars => Notes'
<1> SUFFICES ASSUME Floor, Notes, [Next]_vars PROVE Notes'
  OBVIOUS
<1> DEFINE Marks  == outrun \subseteq WorkOrders /\ unrecorded \subseteq WorkOrders
           Quoted == /\ quoteStatus \in [QuoteIds -> QuoteStates]
                     /\ selling \in [Sellers -> (QuoteIds \X Deals) \cup {Nothing}]
<1>1. Marks'
  <2>1. CASE UNCHANGED <<outrun, unrecorded>>
    BY <2>1 DEF Notes
  <2>2. ASSUME NEW t \in Technicians, SettleOrder(t) \/ RecordHistory(t) \/ Die(t)
        PROVE  Marks'
    <3> DEFINE w == request[t].job[1]
    <3>1. request[t].step # "idle" => w \in WorkOrders
      BY DEF Floor, RequestSound, Jobs
    <3>2. outrun' \subseteq outrun \cup {w} /\ unrecorded' \subseteq unrecorded \cup {w}
      BY <2>2 DEF SettleOrder, RecordHistory, Die
    <3>3. request[t].step # "idle"
      BY <2>2 DEF SettleOrder, RecordHistory, Die
    <3> HIDE DEF w
    <3> QED BY <3>1, <3>2, <3>3 DEF Notes
  <2>3. \/ UNCHANGED <<outrun, unrecorded>>
        \/ \E t \in Technicians : SettleOrder(t) \/ RecordHistory(t) \/ Die(t)
    BY DEF Next, vars, floorVars, OrdersNext, ReadOperation, WriteOperation, ReadOperations,
         BuildNext, ReadBuildPackage, ReadSignoff, ReadRoute, DropBuild, buildUnchanged,
         CreateWoOrder, NewOrder, ConvertQuoteToWorkOrder, PublishSchedule
  <2> QED BY <2>1, <2>2, <2>3
<1>2. Quoted'
  <2>1. CASE UNCHANGED <<quoteStatus, selling>>
    BY <2>1 DEF Notes
  <2>2. ASSUME QuotesNext PROVE Quoted'
    <3>1. ASSUME NEW s \in Sellers, NEW q \in QuoteIds, NEW deal \in Deals, CheckQuote(s, q, deal)
          PROVE  Quoted'
      BY <3>1 DEF CheckQuote, Notes
    <3>2. ASSUME NEW s \in Sellers, NEW q \in QuoteIds, NEW status \in QuoteStates, NEW deal,
                 WriteQuote(s, q, deal, status)
          PROVE  Quoted'
      BY <3>2 DEF WriteQuote, Notes
    <3>3. {"DRAFT", "SENT", "ACCEPTED", "REJECTED"} \subseteq QuoteStates
      BY DEF QuoteStates
    <3>4. ASSUME NEW q \in QuoteIds, CreateQuote(q) PROVE Quoted'
      BY <3>3, <3>4 DEF CreateQuote, Notes
    <3>5. ASSUME NEW s \in Sellers, DropDeal(s) PROVE Quoted'
      BY <3>5 DEF DropDeal, Notes
    <3> QED BY <2>2, <3>1, <3>2, <3>3, <3>4, <3>5
         DEF QuotesNext, SendQuote, AcceptQuote, RejectQuote
  <2>3. ASSUME NEW s \in Sellers, NEW q \in QuoteIds, ConvertQuoteToWorkOrder(s, q)
        PROVE  Quoted'
    <3>1. "CONVERTED" \in QuoteStates
      BY DEF QuoteStates
    <3> QED BY <2>3, <3>1 DEF ConvertQuoteToWorkOrder, Notes
  <2>4. \/ UNCHANGED <<quoteStatus, selling>>
        \/ QuotesNext
        \/ \E s \in Sellers, q \in QuoteIds : ConvertQuoteToWorkOrder(s, q)
    BY DEF Next, vars, quoteVars, BuildNext, ReadBuildPackage, ReadSignoff, ReadRoute, DropBuild,
         buildUnchanged, CreateWoOrder
  <2> QED BY <2>1, <2>2, <2>3, <2>4
<1> QED BY <1>1, <1>2 DEF Notes

(* Masters, orders, quotes, schedule and the requests at work on them keep  *)
(* their types: no derived status, plan or sum leaves its range.           *)
THEOREM ProductionTypeCorrect == Spec => []TypeOK
<1>1. Init => Notes
  BY DEF Init, OrdersInit, QuotesInit, Notes, QuoteStates
<1>2. Masters => PlanningTypeOK
  BY DEF Masters
<1>3. Floor /\ Conversions /\ History /\ Notes => OrdersTypeOK(Sources \cup QuoteIds)
  BY DEF Floor, FloorTypeOK, Conversions, History, Notes, OrdersTypeOK
<1>4. Conversions /\ Notes => QuotesTypeOK
  BY DEF Conversions, Notes, QuotesTypeOK
<1>5. Origins => Masters /\ building \in [Builders -> Build]
  BY DEF Origins, Provenance
<1>6. SlotsSound => SlotsTypeOK
  BY DEF SlotsSound
<1>7. Floor /\ Origins /\ Conversions /\ History /\ Notes /\ SlotsSound => TypeOK
  BY <1>2, <1>3, <1>4, <1>5, <1>6 DEF TypeOK
<1>8. Init => History
  BY SMT DEF Init, OrdersInit, History, Ends, OrderStates
<1> QED BY <1>1, <1>7, <1>8, FloorInit, FloorStep, OriginsInit, OriginsStep, ConversionsInit,
     ConversionsStep, HistoryStep, NotesStep, SlotsInitSound, SlotsStep, PTL DEF Spec
=============================================================================
