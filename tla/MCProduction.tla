---- MODULE MCProduction ----
(* Instances of Production for TLC. *)
EXTENDS Production, TLC

CONSTANTS e1, e2, t1, t2, a1, a2, b1, b2, r1, r2, w1, w2, q1, x1, x2

\* Two versions for one cart, two BOM revisions and two route versions of a1.
MCGroup    == (a1 :> "cart") @@ (a2 :> "cart") @@ (b1 :> a1) @@ (b2 :> a1)
                @@ (r1 :> "route") @@ (r2 :> "route")
MCRouteFor == (r1 :> a1) @@ (r2 :> a1)
MCNumberOf == (q1 :> w1)
MCMinutes  == (x1 :> 1) @@ (x2 :> 1)

Built      == {w \in WorkOrders : orderStatus[w] # "ABSENT"}
Open       == {s \in Slots : slot[s].status # "ABSENT"}
Changing   == {e \in Engineers : transition[e] # Idle}
Reviewing  == {e \in Engineers : review[e] # NoReview}
Building   == {k \in Builders : building[k] # NoBuild}
Moving     == {t \in Technicians : request[t] # NoRequest}
Publishing == {p \in Planners : publication[p] # NoPublication}

Unplanned   == Changing = {} /\ \A d \in Documents : ~Exists(d)
Unquoted    == \A q \in QuoteIds : quoteStatus[q] = "ABSENT"
Untouched   == Moving = {} /\ \A job \in Jobs : operationStatus[job] = "READY"
Undisturbed == contended \cup outrun \cup unrecorded = {}

\* The masters meet the orders only when one is built from a package, quotes when
\* one is converted, the schedule only when it is published: TLC follows one
\* area at a time.
\* b1 and b2 are interchangeable, and so are r1 and r2: the first is created first.
\* Transitions overlap, or write late, before there are documents of other kinds than
\* theirs and the DRAFT configurations these belong to.
Planning ==
  /\ Unquoted /\ Open = {} /\ Untouched
  /\ Exists(b2) => Exists(b1)
  /\ Exists(r2) => Exists(r1)
  /\ Cardinality({Kind \in {Configurations, Boms, Routes} : \A d \in Kind : Exists(d)}) <= 1
  /\ Cardinality(Changing) + Cardinality(Reviewing) + Cardinality(Building)
       + Cardinality(Built) <= 2
  /\ Cardinality(Changing) = 2 \/ stale \cup backdated # {} =>
       Cardinality({Kind \in {Configurations, Boms, Routes} : \E d \in Kind :
                      Exists(d) /\ (d \in Configurations => masterStatus[d] # "DRAFT")}) <= 1

Selling == Unplanned /\ Open = {} /\ Untouched

Converted ==
  /\ Unplanned /\ Cardinality(Built) = 1
  /\ \A s \in Sellers : selling[s] = Nothing
  /\ \A q \in QuoteIds : quoteStatus[q] = "CONVERTED"

Moves     == Converted /\ Open = {} /\ (contended # {} => Cardinality(Moving) <= 1)
\* Three publications overlap on slots with time for both operations.
Schedules == /\ Converted /\ Untouched
             /\ Cardinality(Publishing) = 3 =>
                  /\ Open = Slots
                  /\ \A s \in Slots : slot[s].status = "OPEN" /\ slot[s].capacity = 2
\* One publication beside one technician, on one slot with time for both operations.
Together  == /\ Converted /\ Undisturbed
             /\ Cardinality(Open) = 1 /\ \A s \in Open : slot[s].capacity = 2
             /\ Cardinality(Moving) <= 1 /\ Cardinality(Publishing) <= 1

OneAreaAtATime == Planning \/ Selling \/ Moves \/ Schedules \/ Together

\* Creations come before or after transitions have read: later they touch nothing
\* these have read or will write.
CreatedAside ==
  (\E d \in Documents : ~Exists(d) /\ masterStatus'[d] # "ABSENT") =>
    /\ \A e \in Changing : transition[e].step = "begun"
    /\ Reviewing \cup Building \cup Built = {}

\* Engineers are interchangeable, and so are technicians: an idle second one starts
\* only beside the first.
FirstOneFirst ==
  /\ e2 \notin Changing \cup Reviewing /\ (e2 \in Changing \cup Reviewing)' =>
       e1 \in Changing \cup Reviewing
  /\ t2 \notin Moving /\ (t2 \in Moving)' => t1 \in Moving

BoundedSpec == Init /\ [][Next /\ OneAreaAtATime' /\ CreatedAside /\ FirstOneFirst]_vars

Symmetry == Permutations(Planners) \cup Permutations(Slots) \cup Permutations({x1, x2})
====
