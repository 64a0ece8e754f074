---------------------------- MODULE PlannerProofs ----------------------------
(***************************************************************************)
(* A failed start leaves no node open, a started line agrees on what its   *)
(* edges carry, and without bridges no candidate is passed over: proved    *)
(* for every plan, every list of candidates and any number of bridges.     *)
(***************************************************************************)
EXTENDS Planner, FiniteSetTheorems, SequenceTheorems, WellFoundedInduction, TLAPS

(* The open nodes are those that Graph::open has passed, none when nothing *)
(* is being opened or run.                                                 *)
OpenPrefix ==
  /\ next \in Nat
  /\ phase = "open" => opened = 0 .. next - 1
  /\ phase = "started" => opened = 0 .. NodeCount(built) - 1
  /\ phase \notin {"open", "started"} => opened = {}

(* No fallback changes what is open or what the graph was built from.      *)
LEMMA FallBackPhase ==
  ASSUME NEW f, NEW retry, NEW again, NEW giveUp,
         FallBack(f, retry, again, giveUp)
  PROVE  phase' \in {again, giveUp}
  BY DEF FallBack

(* Graph::open goes through the nodes in order and closes them all when    *)
(* one fails (graph.cpp:535-546).                                          *)
LEMMA OpenPrefixInvariant == Spec => []OpenPrefix
<1>1. Init => OpenPrefix
  BY DEF Init, OpenPrefix
<1>2. OpenPrefix /\ [Next]_vars => OpenPrefix'
  <2> SUFFICES ASSUME OpenPrefix, [Next]_vars
               PROVE  OpenPrefix'
    OBVIOUS
  <2>1. CASE Build
    BY <2>1 DEF Build, OpenPrefix, planVars
  <2>2. CASE BuildFails
    <3>1. phase \in {"create", "rebuild"} /\ opened' = opened /\ next' = next
      BY <2>2 DEF BuildFails
    <3>2. phase' \in {phase, "refused", "idle"}
      BY <2>2, FallBackPhase DEF BuildFails
    <3> QED
      BY <3>1, <3>2 DEF OpenPrefix
  <2>3. CASE Start
    BY <2>3 DEF Start, OpenPrefix
  <2>4. CASE OpenNode
    <3>1. /\ phase = "open" /\ opened = 0 .. next - 1 /\ next \in Nat
          /\ opened' = opened \cup {next} /\ next' = next + 1
          /\ built' = built /\ line' = line
          /\ phase' = IF next' = NodeCount(built) THEN "started" ELSE "open"
      BY <2>4 DEF OpenNode, OpenPrefix, planVars
    <3>2. opened' = 0 .. next' - 1
      BY <3>1
    <3>3. NodeCount(built)' = NodeCount(built)
      BY <3>1 DEF NodeCount, Bridged, Kind
    <3>4. phase' = "started" => opened' = 0 .. NodeCount(built)' - 1
      BY <3>1, <3>2, <3>3
    <3> QED
      BY <3>1, <3>2, <3>4 DEF OpenPrefix
  <2>5. CASE OpenFails
    <3>1. phase = "open" /\ opened = 0 .. next - 1 /\ next' = next
      BY <2>5 DEF OpenFails, OpenPrefix
    <3>2. opened' = {}
      BY <2>5, <3>1 DEF OpenFails, RollBack
    <3>3. phase' \in {"rebuild", "idle"}
      BY <2>5, FallBackPhase DEF OpenFails
    <3> QED
      BY <3>1, <3>2, <3>3 DEF OpenPrefix
  <2>6. CASE CloseSession
    <3>1. opened = {} \/ opened = 0 .. NodeCount(built) - 1
      BY <2>6 DEF CloseSession, OpenPrefix
    <3>2. opened' = {} /\ phase' = "closed" /\ next' = next
      BY <2>6, <3>1 DEF CloseSession
    <3> QED
      BY <3>2 DEF OpenPrefix
  <2>7. CASE UNCHANGED vars
    <3>1. /\ line' = line /\ built' = built /\ phase' = phase
          /\ next' = next /\ opened' = opened
      BY <2>7 DEF vars, planVars
    <3>2. NodeCount(built)' = NodeCount(built)
      BY <3>1 DEF NodeCount, Bridged, Kind
    <3> QED
      BY <3>1, <3>2 DEF OpenPrefix
  <2> QED
    BY <2>1, <2>2, <2>3, <2>4, <2>5, <2>6, <2>7 DEF Next, SessionStep
<1> QED
  BY <1>1, <1>2, PTL DEF Spec

(* However many candidates start() goes through, no node is open when it   *)
(* tries the next one, gives up or is closed (graph.cpp:540-541,           *)
(* session.cpp:134-135).                                                   *)
THEOREM NothingLeftOpen == Spec => []NoNodeLeftOpen
<1>1. OpenPrefix => NoNodeLeftOpen
  BY DEF OpenPrefix, NoNodeLeftOpen
<1> QED
  BY <1>1, OpenPrefixInvariant, PTL

-----------------------------------------------------------------------------
(* The first fault of a graph.                                             *)

LEMMA LeastNumber ==
  ASSUME NEW T, T \subseteq Nat, T # {}
  PROVE  \E x \in T : \A y \in T : x <= y
<1> DEFINE less == {p \in Nat \X Nat : p[1] < p[2]}
<1>1. IsWellFoundedOn(less, Nat)
  BY NatLessThanWellFounded DEF OpToRel
<1> HIDE DEF less
<1>2. PICK x \in T : \A y \in T : ~(<< y, x >> \in less)
  BY <1>1, WFMin
<1>3. ASSUME NEW y \in T PROVE x <= y
  <2>1. ~(<< y, x >> \in less) /\ x \in Nat /\ y \in Nat
    BY <1>2
  <2>2. QED
    BY <2>1 DEF less
<1>4. QED
  BY <1>3

(* Faults are ordered by check and place, so one of them is the first.     *)
LEMMA FirstFaultIn ==
  ASSUME NEW F, F # {}, \A f \in F : f.check \in Nat /\ f.at \in Nat
  PROVE  FirstFault(F) \in F
<1> DEFINE checks == {f.check : f \in F}
<1>1. PICK c \in checks : \A n \in checks : c <= n
  <2>1. checks \in SUBSET Nat /\ checks # {}
    OBVIOUS
  <2>2. QED
    BY <2>1, LeastNumber
<1> DEFINE places == {f.at : f \in {g \in F : g.check = c}}
<1>2. PICK a \in places : \A n \in places : a <= n
  <2>1. places \in SUBSET Nat /\ places # {}
    OBVIOUS
  <2>2. QED
    BY <2>1, LeastNumber
<1>3. PICK f \in F : f.check = c /\ f.at = a
  BY <1>2
<1>4. ASSUME NEW g \in F PROVE Before(f, g)
  <2>1. c <= g.check /\ (g.check = c => a <= g.at)
    BY <1>1, <1>2
  <2>2. c \in Nat /\ g.check \in Nat
    BY <1>3
  <2>3. QED
    BY <1>3, <2>1, <2>2 DEF Before
<1>5. QED
  BY <1>3, <1>4 DEF FirstFault

LEMMA PlanFacts ==
  /\ StepCount \in Nat /\ StepCount >= 2 /\ Edges \subseteq Steps
  /\ Edges = {e \in Steps : e < StepCount - 1}
  /\ \A e \in Edges : e + 1 \in Steps /\ e + 1 > 0 /\ (e + 1) - 1 = e
  /\ \A k \in Steps : k \in Nat /\ k < StepCount
BY StepCountAssumption DEF Steps, Edges

(* A graph has at least the nodes of the plan's steps.                     *)
LEMMA Counted ==
  ASSUME NEW c
  PROVE  /\ NodeCount(c) \in Nat /\ NodeCount(c) >= StepCount
         /\ \A k \in Steps : Position(c, k) \in Nat
<1>1. IsFiniteSet(Edges)
  BY PlanFacts, FS_Interval DEF Edges
<1>2. /\ Cardinality(Bridged(c)) \in Nat
      /\ \A k \in Steps : Cardinality({e \in Bridged(c) : e < k}) \in Nat
  BY <1>1, FS_Subset, FS_CardinalityType DEF Bridged
<1>3. QED
  BY <1>2, PlanFacts DEF NodeCount, Position

(* The candidate of every step, when the choice is one of its list.        *)
Chosen(c) ==
  /\ c \in [Steps -> Nat \ {0}]
  /\ \A k \in Steps : c[k] <= Len(line[k])

LEMMA ChosenKind ==
  ASSUME line \in Lines, NEW c, Chosen(c)
  PROVE  \A k \in Steps : Kind(c, k) \in KindType
<1>1. ASSUME NEW k \in Steps PROVE Kind(c, k) \in KindType
  <2>1. line[k] \in Seq(KindType) /\ c[k] \in 1 .. Len(line[k])
    BY LinesAssumption DEF Chosen
  <2>2. QED
    BY <2>1 DEF Kind
<1>2. QED
  BY <1>1

LEMMA FaultTypes ==
  ASSUME line \in Lines, NEW c, Chosen(c)
  PROVE  \A f \in Faults(c) :
           /\ f.check \in Nat /\ f.at \in Nat
           /\ f.status \in Statuses /\ f.step \in Steps \cup {NoStep}
<1>1. \A k \in Steps : Kind(c, k).create \in Statuses /\ Kind(c, k).bind \in Statuses
  BY ChosenKind DEF KindType
<1>2. \A k \in Steps : k \in Nat /\ Position(c, k) \in Nat
  BY PlanFacts, Counted
<1>3. "Negotiate" \in Statuses
  BY DEF Statuses
<1>4. \A f \in CreateFaults(c) :
           /\ f.check \in Nat /\ f.at \in Nat
           /\ f.status \in Statuses /\ f.step \in Steps \cup {NoStep}
  BY <1>1, <1>2 DEF CreateFaults, Fault
<1>5. \A f \in EdgeFaults(c) :
           /\ f.check \in Nat /\ f.at \in Nat
           /\ f.status \in Statuses /\ f.step \in Steps \cup {NoStep}
  BY <1>2, <1>3, PlanFacts DEF EdgeFaults, Fault
<1>6. \A f \in ConfigureFaults(c) :
           /\ f.check \in Nat /\ f.at \in Nat
           /\ f.status \in Statuses /\ f.step \in Steps \cup {NoStep}
  BY <1>2, <1>3, PlanFacts DEF ConfigureFaults, Fault, Bridged
<1>7. \A f \in BindFaults(c) :
           /\ f.check \in Nat /\ f.at \in Nat
           /\ f.status \in Statuses /\ f.step \in Steps \cup {NoStep}
  BY <1>1, <1>2 DEF BindFaults, Fault
<1>8. QED
  BY <1>4, <1>5, <1>6, <1>7 DEF Faults

-----------------------------------------------------------------------------
(* The invariant.                                                          *)

(* What create() and start() have established of the graph they keep.      *)
BuiltSound ==
  phase \in {"idle", "open", "rebuild", "started"} => Faults(built) = {}

Choices ==
  /\ line \in Lines
  /\ Chosen(index) /\ Chosen(built)
  /\ \A k \in Steps : built[k] <= index[k]
  /\ fallbacks \in 0 .. MaxFallbacks

Progress ==
  /\ phase \in {"create", "refused", "idle", "open", "rebuild", "started",
                "closed"}
  /\ next <= NodeCount(built)
  /\ phase = "open" => next < NodeCount(built)
  /\ fault.status \in Statuses /\ fault.step \in Steps \cup {NoStep}

PlanInv == Choices /\ Progress /\ OpenPrefix /\ BuiltSound

(* The graph's properties depend on the plan's lists and the choice alone. *)
LEMMA GraphStays ==
  ASSUME line' = line, NEW c, built' = c
  PROVE  /\ Faults(built)' = Faults(c)
         /\ NodeCount(built)' = NodeCount(c)
         /\ Chosen(c) => Chosen(built)'
BY DEF Faults, CreateFaults, EdgeFaults, ConfigureFaults, BindFaults, Fault,
       Position, NodeCount, Bridged, Kind, OutPort, InPort, Configures, Chosen

(* One more candidate, or none: the choice stays within the lists.         *)
LEMMA FallBackChooses ==
  ASSUME Choices, NEW f, f.at \in Nat, NEW retry, NEW again, NEW giveUp,
         FallBack(f, retry, again, giveUp), line' = line, built' = built
  PROVE  Choices' /\ fault' = f
<1>1. fault' = f /\ built' = built /\ line' = line
  BY DEF FallBack
<1>2. CASE retry /\ CanAdvance(f.at)
  <2>1. /\ index' = [index EXCEPT ![f.at] = @ + 1]
        /\ fallbacks' = fallbacks + 1
    BY <1>2 DEF FallBack, Advanced
  <2>2. /\ f.at \in Steps /\ index[f.at] < Len(line[f.at])
        /\ fallbacks < MaxFallbacks
    BY <1>2, PlanFacts DEF CanAdvance, Steps
  <2>3. /\ line[f.at] \in Seq(KindType) /\ Len(line[f.at]) \in Nat
        /\ index[f.at] \in Nat \ {0}
    BY <2>2, LinesAssumption DEF Choices, Chosen
  <2>4. Chosen(index)'
    BY <1>1, <2>1, <2>2, <2>3 DEF Choices, Chosen
  <2>5. \A k \in Steps : built[k] <= index'[k]
    BY <2>1, <2>2, <2>3 DEF Choices, Chosen
  <2>6. Chosen(built)'
    BY <1>1 DEF Choices, Chosen
  <2>7. fallbacks' \in 0 .. MaxFallbacks
    BY <2>1, <2>2, MaxFallbacksAssumption DEF Choices
  <2>8. QED
    BY <1>1, <2>4, <2>5, <2>6, <2>7 DEF Choices
<1>3. CASE ~(retry /\ CanAdvance(f.at))
  BY <1>1, <1>3 DEF FallBack, Choices, Chosen
<1>4. QED
  BY <1>2, <1>3

LEMMA PlanStep ==
  ASSUME PlanInv, OpenPrefix', [Next]_vars
  PROVE  PlanInv'
<1> USE DEF PlanInv
<1>1. NodeCount(built) \in Nat /\ NodeCount(built) >= 2 /\ next \in Nat
  BY Counted, PlanFacts DEF OpenPrefix
<1>2. CASE Build
  <2>1. /\ built' = index /\ line' = line /\ index' = index
        /\ fallbacks' = fallbacks /\ fault' = fault /\ next' = 0
        /\ phase' \in {"idle", "open"} /\ Faults(index) = {}
    BY <1>2 DEF Build, planVars
  <2>2. /\ Faults(built)' = {} /\ NodeCount(built)' = NodeCount(index)
        /\ Chosen(built)' /\ Chosen(index)'
    BY <2>1, GraphStays DEF Choices, Chosen
  <2>3. NodeCount(index) \in Nat /\ NodeCount(index) >= 2
    BY Counted, PlanFacts
  <2>4. Choices'
    BY <2>1, <2>2 DEF Choices, Chosen
  <2>5. Progress'
    BY <2>1, <2>2, <2>3 DEF Progress
  <2>6. QED
    BY <2>2, <2>4, <2>5 DEF BuiltSound
<1>3. CASE BuildFails
  <2> DEFINE f == FirstFault(Faults(index))
             giveUp == IF phase = "create" THEN "refused" ELSE "idle"
  <2>1. /\ phase \in {"create", "rebuild"} /\ Faults(index) # {}
        /\ FallBack(f, Retries(f.status), phase, giveUp)
        /\ line' = line /\ built' = built /\ next' = next
    BY <1>3 DEF BuildFails
  <2>2. f \in Faults(index) /\ f.at \in Nat
        /\ f.status \in Statuses /\ f.step \in Steps \cup {NoStep}
    BY <2>1, FirstFaultIn, FaultTypes DEF Choices
  <2> HIDE DEF f
  <2>3. Choices' /\ fault' = f
    BY <2>1, <2>2, FallBackChooses
  <2>4. phase' \in {phase, giveUp}
    BY <2>1, FallBackPhase
  <2>5. Faults(built)' = Faults(built) /\ NodeCount(built)' = NodeCount(built)
    BY <2>1, GraphStays
  <2>6. Progress' /\ BuiltSound'
    BY <2>1, <2>2, <2>3, <2>4, <2>5 DEF Progress, BuiltSound
  <2>7. QED
    BY <2>3, <2>6
<1>4. CASE OpenFails
  <2>1. PICK s \in OpenResults(next) \ {"Ok"} :
          FallBack(Fault(5, next, s, StepAt(built, next)), s = "Hw",
                   "rebuild", "idle")
    BY <1>4 DEF OpenFails
  <2> DEFINE f == Fault(5, next, s, StepAt(built, next))
  <2>2. f.at = next /\ f.status = s /\ f.step = StepAt(built, next)
    BY DEF Fault
  <2>3. /\ phase = "open" /\ line' = line /\ built' = built /\ next' = next
    BY <1>4 DEF OpenFails
  <2>4. StepAt(built, next) \in Steps \cup {NoStep}
    BY DEF StepAt
  <2>5. s \in Statuses
    <3>1. CASE StepAt(built, next) = NoStep
      BY <3>1 DEF OpenResults
    <3>2. CASE StepAt(built, next) # NoStep
      <4>1. Kind(built, StepAt(built, next)).open \subseteq Statuses
        BY <2>4, <3>2, ChosenKind DEF Choices, KindType
      <4>2. QED
        BY <3>2, <4>1 DEF OpenResults
    <3>3. QED
      BY <3>1, <3>2
  <2> HIDE DEF f
  <2>6. FallBack(f, s = "Hw", "rebuild", "idle")
    BY <2>1 DEF f
  <2>7. Choices' /\ fault' = f
    BY <1>1, <2>2, <2>3, <2>6, FallBackChooses
  <2>8. phase' \in {"rebuild", "idle"}
    BY <2>6, FallBackPhase
  <2>9. Faults(built)' = Faults(built) /\ NodeCount(built)' = NodeCount(built)
    BY <2>3, GraphStays
  <2>10. Progress' /\ BuiltSound'
    BY <2>2, <2>3, <2>4, <2>5, <2>7, <2>8, <2>9 DEF Progress, BuiltSound
  <2>11. QED
    BY <2>7, <2>10
<1>5. CASE Start \/ OpenNode \/ CloseSession \/ UNCHANGED vars
  <2>1. /\ line' = line /\ index' = index /\ fallbacks' = fallbacks
        /\ built' = built /\ fault' = fault
    BY <1>5 DEF Start, OpenNode, CloseSession, vars, planVars
  <2>2. /\ Faults(built)' = Faults(built) /\ NodeCount(built)' = NodeCount(built)
        /\ Chosen(built)' /\ Chosen(index)'
    BY <2>1, GraphStays DEF Choices, Chosen
  <2>3. Choices'
    BY <2>1, <2>2 DEF Choices
  <2>4. /\ phase' \in {"idle", "open", "rebuild", "started"} =>
             phase \in {"idle", "open", "rebuild", "started"}
        /\ phase' \in {"create", "refused", "idle", "open", "rebuild",
                       "started", "closed"}
    BY <1>5 DEF Start, OpenNode, CloseSession, vars, Progress
  <2>5. next' <= NodeCount(built) /\ (phase' = "open" => next' < NodeCount(built))
    BY <1>1, <1>5 DEF Start, OpenNode, CloseSession, vars, Progress
  <2>6. Progress' /\ BuiltSound'
    BY <2>1, <2>2, <2>4, <2>5 DEF Progress, BuiltSound
  <2>7. QED
    BY <2>3, <2>6
<1>6. QED
  BY <1>2, <1>3, <1>4, <1>5 DEF Next, SessionStep

LEMMA EmptyKinds ==
  ASSUME NEW q \in Seq(KindType), q # << >> PROVE Len(q) >= 1
BY EmptySeq

LEMMA PlanInit == ASSUME Init PROVE PlanInv
<1>1. /\ line \in Lines /\ index = [k \in Steps |-> 1] /\ built = index
      /\ fallbacks = 0 /\ phase = "create" /\ next = 0 /\ opened = {}
      /\ fault = NoFault
  BY DEF Init
<1>2. \A k \in Steps : Len(line[k]) >= 1
  <2>1. ASSUME NEW k \in Steps PROVE Len(line[k]) >= 1
    <3>1. line[k] \in Seq(KindType) /\ line[k] # << >>
      BY <1>1, LinesAssumption
    <3>2. QED
      BY <3>1, EmptyKinds
  <2>2. QED
    BY <2>1
<1>3. Chosen(index)
  BY <1>1, <1>2 DEF Chosen
<1>4. Choices
  BY <1>1, <1>3, MaxFallbacksAssumption DEF Choices
<1>5. NodeCount(built) \in Nat /\ NodeCount(built) >= 2
  BY Counted, PlanFacts
<1>6. Progress
  BY <1>1, <1>5 DEF Progress, NoFault, Statuses
<1>7. QED
  BY <1>1, <1>4, <1>6 DEF PlanInv, OpenPrefix, BuiltSound

LEMMA PlanInvariance == Spec => []PlanInv
<1>1. Init => PlanInv
  BY PlanInit
<1>2. PlanInv /\ OpenPrefix' /\ [Next]_vars => PlanInv'
  BY PlanStep
<1>3. QED
  BY <1>1, <1>2, OpenPrefixInvariant, PTL DEF Spec

-----------------------------------------------------------------------------
(* The theorems.                                                           *)

(* Every choice is one of the plan's candidates, no more fallbacks are     *)
(* taken than allowed, and only nodes of the graph are open.               *)
THEOREM TypeCorrect == Spec => []TypeOK
<1>1. ASSUME PlanInv PROVE TypeOK
  <2>1. NodeCount(built) \in Nat /\ NodeCount(built) >= 2
    BY Counted, PlanFacts
  <2>2. next \in Nat /\ next <= NodeCount(built)
    BY <1>1 DEF PlanInv, OpenPrefix, Progress
  <2>3. opened \subseteq 0 .. NodeCount(built) - 1
    BY <1>1, <2>1, <2>2 DEF PlanInv, OpenPrefix, Progress
  <2>4. line \in [Steps -> Seq(KindType)]
    BY <1>1, LinesAssumption DEF PlanInv, Choices
  <2>5. next \in 0 .. NodeCount(built)
    BY <2>1, <2>2
  <2>6. QED
    BY <1>1, <2>3, <2>4, <2>5 DEF TypeOK, PlanInv, Choices, Chosen, Progress
<1>2. QED
  BY <1>1, PlanInvariance, PTL

(* What unify() leaves of the memory domains the two ports asked for.      *)
LEMMA UnifiedDomain ==
  ASSUME NEW o \in SpecType, NEW i \in SpecType, Unifies(o, i)
  PROVE  /\ Known(o) => Unified(o, i).domain = o.domain
         /\ Known(i) => Unified(o, i).domain = i.domain
<1>1. CASE ~Known(o)
  BY <1>1 DEF Unified
<1>2. CASE Known(o) /\ ~Known(i)
  BY <1>2 DEF Unified
<1>3. CASE Known(o) /\ Known(i)
  <2>1. Unified(o, i) = [o EXCEPT !.dims =
                   [d \in Dimensions |-> MergeDim(o.dims[d], i.dims[d])]]
    BY <1>3 DEF Unified
  <2>2. Unified(o, i).domain = o.domain
    BY <2>1 DEF SpecType
  <2>3. o.domain = i.domain
    BY <1>3 DEF Unifies
  <2>4. QED
    BY <2>2, <2>3
<1>4. QED
  BY <1>1, <1>2, <1>3

(* A graph without faults has resolved both ports of every edge, and no    *)
(* node of the host reads device memory.                                   *)
LEMMA EdgeAgrees ==
  ASSUME line \in Lines, NEW c, Chosen(c), Faults(c) = {}, NEW e \in Edges
  PROVE  LET out == OutPort(c, e)
             in  == InPort(c, e)
         IN  /\ Known(out) /\ Known(in)
             /\ out.fmt = in.fmt
             /\ Known(Kind(c, e).out) => out.domain = Kind(c, e).out.domain
             /\ Known(Kind(c, e + 1).in) => in.domain = Kind(c, e + 1).in.domain
             /\ e \notin Bridged(c) => out = in
<1> DEFINE o == Kind(c, e).out
           i == Kind(c, e + 1).in
<1>1. o \in SpecType /\ i \in SpecType
  BY ChosenKind, PlanFacts DEF KindType
<1>2. Known(OutPort(c, e)) /\ Known(InPort(c, e))
  <2>1. \A k \in Steps : Configures(c, k)
    BY DEF Faults, ConfigureFaults
  <2>2. Configures(c, e) /\ Configures(c, e + 1)
    BY <2>1, PlanFacts
  <2>3. e < StepCount - 1 /\ e + 1 > 0 /\ (e + 1) - 1 = e
    BY PlanFacts
  <2>4. QED
    BY <2>2, <2>3 DEF Configures
<1>3. CASE e \in Bridged(c)
  <2>1. Known(o) /\ ~Known(BridgeIn) /\ ~Known(BridgeOut)
    BY <1>3 DEF Bridged, NeedsBridge, BridgeIn, BridgeOut, Known
  <2>2. OutPort(c, e) = o /\ InPort(c, e) = i
    BY <1>3, <2>1 DEF OutPort, InPort, Unified
  <2>3. BridgeConfigures(OutPort(c, e), InPort(c, e))
    BY <1>3 DEF Faults, ConfigureFaults
  <2>4. QED
    BY <1>2, <1>3, <2>2, <2>3 DEF BridgeConfigures
<1>4. CASE e \notin Bridged(c)
  <2>1. OutPort(c, e) = Unified(o, i) /\ InPort(c, e) = Unified(o, i)
    BY <1>4 DEF OutPort, InPort
  <2>2. Unifies(o, i)
    BY <1>4 DEF Faults, EdgeFaults
  <2>3. QED
    BY <1>1, <1>2, <2>1, <2>2, UnifiedDomain
<1>5. QED
  BY <1>3, <1>4

(* A session that runs has opened every node, and each edge carries what   *)
(* both of its ends asked for (graph.cpp:448-531).                         *)
THEOREM StartedLine == Spec => []StartedLineAgrees
<1>1. ASSUME PlanInv PROVE StartedLineAgrees
  <2>1. SUFFICES ASSUME phase = "started" PROVE StartedLineAgrees
    BY DEF StartedLineAgrees
  <2>2. Faults(built) = {} /\ line \in Lines /\ Chosen(built)
    BY <1>1, <2>1 DEF PlanInv, BuiltSound, Choices
  <2>3. opened = 0 .. NodeCount(built) - 1
    BY <1>1, <2>1 DEF PlanInv, OpenPrefix
  <2>4. QED
    BY <2>2, <2>3, EdgeAgrees DEF StartedLineAgrees
<1>2. QED
  BY <1>1, PlanInvariance, PTL

(* Without a bridge the nodes are at the positions of their steps.         *)
LEMMA UnbridgedPositions ==
  ASSUME NEW c, Bridged(c) = {}, NEW n \in Nat, n < NodeCount(c)
  PROVE  n \in Steps /\ StepAt(c, n) = n
<1>1. Cardinality({}) = 0
  BY FS_EmptySet
<1>2. NodeCount(c) = StepCount
  BY <1>1, PlanFacts DEF NodeCount
<1>3. \A k \in Steps : Position(c, k) = k
  <2>1. \A k \in Steps : {e \in Bridged(c) : e < k} = {}
    OBVIOUS
  <2>2. QED
    BY <1>1, <2>1, PlanFacts DEF Position
<1>4. n \in Steps
  BY <1>2, PlanFacts DEF Steps
<1>5. QED
  BY <1>3, <1>4 DEF StepAt

(* A step that cannot advance has no further candidate, for an adapter is  *)
(* alone (graph.cpp:363-372).                                              *)
LEMMA NoFurtherCandidate ==
  ASSUME Choices, fallbacks < MaxFallbacks, NEW k \in Steps, ~CanAdvance(k)
  PROVE  ~(index[k] < Len(line[k]))
<1>1. k < StepCount
  BY PlanFacts
<1>2. CASE Kind(index, k).adapter
  <2>1. /\ line[k] \in Seq(KindType)
        /\ index[k] \in Nat \ {0} /\ index[k] <= Len(line[k])
    BY LinesAssumption DEF Choices, Chosen
  <2>2. index[k] \in 1 .. Len(line[k])
    BY <2>1
  <2>3. Len(line[k]) = 1
    BY <1>2, <2>2, LinesAssumption DEF Choices, Kind
  <2>4. QED
    BY <2>1, <2>3
<1>3. CASE ~Kind(index, k).adapter
  BY <1>1, <1>3 DEF CanAdvance
<1>4. QED
  BY <1>2, <1>3

(* In a graph without a bridge, start() gives up a device that is out of   *)
(* order only when its step has no other candidate or the limit of         *)
(* fallbacks is reached (session.cpp:63-89).                               *)
THEOREM NoneIsPassedOver == Spec => UnbridgedFailureFallsBack
<1>1. ASSUME PlanInv, [Next]_vars, Bridged(built) = {}, GivesUpEarly
      PROVE  FALSE
  <2>1. /\ phase = "open" /\ phase' = "idle" /\ fault'.status = "Hw"
        /\ fallbacks < MaxFallbacks
        /\ index[fault'.step] < Len(line[fault'.step])
    BY <1>1 DEF GivesUpEarly
  <2>2. OpenFails
    BY <1>1, <2>1 DEF Next, SessionStep, Build, BuildFails, Start, OpenNode,
                      CloseSession, vars
  <2>3. PICK s \in OpenResults(next) \ {"Ok"} :
          FallBack(Fault(5, next, s, StepAt(built, next)), s = "Hw",
                   "rebuild", "idle")
    BY <2>2 DEF OpenFails
  <2>4. fault' = Fault(5, next, s, StepAt(built, next))
    BY <2>3 DEF FallBack
  <2>5. s = "Hw" /\ fault'.step = StepAt(built, next)
    BY <2>1, <2>4 DEF Fault
  <2>6. ~CanAdvance(next)
    BY <2>1, <2>3, <2>5 DEF FallBack, Fault
  <2>7. next \in Nat /\ next < NodeCount(built) /\ Choices
    BY <1>1, <2>1 DEF PlanInv, OpenPrefix, Progress
  <2>8. next \in Steps /\ fault'.step = next
    BY <1>1, <2>5, <2>7, UnbridgedPositions
  <2>9. QED
    BY <2>1, <2>6, <2>7, <2>8, NoFurtherCandidate
<1>2. PlanInv /\ [Next]_vars => [Bridged(built) = {} => ~GivesUpEarly]_vars
  BY <1>1
<1>3. QED
  BY <1>2, PlanInvariance, PTL DEF Spec, UnbridgedFailureFallsBack

-----------------------------------------------------------------------------
(* The lines Context::plan makes: a source and a sink without an           *)
(* alternative and two steps between them, fed from the memory of the host.*)
HostLines ==
  /\ StepCount = 4
  /\ \A l \in Lines : /\ Len(l[0]) = 1 /\ Len(l[3]) = 1
                      /\ l[0][1].out.domain = "Host"

(* No bridge comes before the first of the two, and one before the second  *)
(* moves it to where the sink would be.                                    *)
LEMMA ShiftMeetsTheSink ==
  ASSUME HostLines, line \in Lines, NEW c, Chosen(c),
         NEW k \in Steps, NEW p \in {1, 2}, Position(c, k) = p
  PROVE  k = p
<1>1. Steps = 0 .. 3 /\ Edges = 0 .. 2
  BY DEF HostLines, Steps, Edges
<1>2. 0 \notin Bridged(c)
  <2>1. c[0] = 1
    <3>1. 0 \in Steps /\ Len(line[0]) = 1
      BY <1>1 DEF HostLines
    <3>2. c[0] \in Nat \ {0} /\ c[0] <= 1
      BY <3>1 DEF Chosen
    <3>3. QED
      BY <3>2
  <2>2. Kind(c, 0).out.domain = "Host"
    BY <2>1 DEF Kind, HostLines
  <2>3. QED
    BY <2>2 DEF Bridged, NeedsBridge
<1>3. \A n \in Steps : Cardinality({e \in Bridged(c) : e < n}) \in Nat
  <2>1. IsFiniteSet(Edges)
    BY PlanFacts, FS_Interval DEF Edges
  <2>2. QED
    BY <2>1, FS_Subset, FS_CardinalityType DEF Bridged
<1>4. Position(c, k) >= k
  BY <1>1, <1>3 DEF Position
<1>5. k \in {0, 1} => Position(c, k) = k
  <2>1. k \in {0, 1} => {e \in Bridged(c) : e < k} = {}
    BY <1>1, <1>2 DEF Bridged
  <2>2. QED
    BY <1>1, <2>1, FS_EmptySet DEF Position
<1>6. QED
  BY <1>1, <1>4, <1>5

(* The position of a fault is its step's, or the step itself.              *)
LEMMA FaultPlaces ==
  ASSUME NEW c, NEW f \in Faults(c), f.step # NoStep
  PROVE  f.step \in Steps /\ f.at \in {f.step, Position(c, f.step)}
<1>1. f \in CreateFaults(c) => f.step \in Steps /\ f.at = f.step
  BY DEF CreateFaults, Fault
<1>2. f \in EdgeFaults(c) => f.step \in Steps /\ f.at = Position(c, f.step)
  BY PlanFacts DEF EdgeFaults, Fault
<1>3. f \in ConfigureFaults(c) => f.step \in Steps /\ f.at = Position(c, f.step)
  BY DEF ConfigureFaults, Fault
<1>4. f \in BindFaults(c) => f.step \in Steps /\ f.at = Position(c, f.step)
  BY DEF BindFaults, Fault
<1>5. QED
  BY <1>1, <1>2, <1>3, <1>4 DEF Faults

(* In such a line the candidate that is given up is the one that failed    *)
(* (graph.hpp:31), bridges or not: a position that a bridge has moved is   *)
(* the sink's, which has no other candidate.                               *)
THEOREM HostLineAdvances ==
  ASSUME HostLines
  PROVE  Spec => FailedStepAdvances
<1>1. ASSUME PlanInv, [Next]_vars, index' # index, fault'.step # NoStep
      PROVE  index'[fault'.step] = index[fault'.step] + 1
  <2> DEFINE Moved(f) ==
        /\ fault' = f
        /\ CanAdvance(f.at)
        /\ index' = [index EXCEPT ![f.at] = @ + 1]
  <2>1. \A f, retry, again, giveUp :
          FallBack(f, retry, again, giveUp) => Moved(f)
    BY <1>1 DEF FallBack, Advanced
  <2>2. line \in Lines /\ Chosen(index) /\ Chosen(built)
    BY <1>1 DEF PlanInv, Choices
  <2>3. ASSUME NEW f, Moved(f), f.at \in Nat, NEW c, Chosen(c),
               f.step \in Steps, f.at \in {f.step, Position(c, f.step)}
        PROVE  f.at = f.step
    <3>1. f.at \in Steps /\ index[f.at] < Len(line[f.at])
      BY <2>3, PlanFacts DEF CanAdvance, Steps
    <3>2. index[f.at] \in Nat \ {0} /\ Len(line[f.at]) \in Nat
      <4>1. line[f.at] \in Seq(KindType)
        BY <2>2, <3>1, LinesAssumption
      <4>2. QED
        BY <2>2, <3>1, <4>1 DEF Chosen
    <3>3. Len(line[f.at]) # 1
      <4>1. \A a \in Nat \ {0}, b \in Nat : a < b => b # 1
        OBVIOUS
      <4>2. QED
        BY <3>1, <3>2, <4>1
    <3>4. f.at \in {1, 2}
      BY <2>2, <3>1, <3>3 DEF HostLines, Steps
    <3>5. QED
      BY <2>2, <2>3, <3>4, ShiftMeetsTheSink
  <2>4. CASE BuildFails
    <3> DEFINE f == FirstFault(Faults(index))
    <3>1. Moved(f) /\ Faults(index) # {}
      BY <2>1, <2>4 DEF BuildFails
    <3>2. f \in Faults(index) /\ f.at \in Nat
      BY <2>2, <3>1, FirstFaultIn, FaultTypes
    <3> HIDE DEF f
    <3>3. f.step \in Steps /\ f.at \in {f.step, Position(index, f.step)}
      BY <1>1, <3>1, <3>2, FaultPlaces
    <3>4. f.at = f.step
      BY <2>2, <2>3, <3>1, <3>2, <3>3
    <3>5. QED
      BY <2>2, <3>1, <3>3, <3>4 DEF Chosen
  <2>5. CASE OpenFails
    <3>1. PICK s \in OpenResults(next) \ {"Ok"} :
            Moved(Fault(5, next, s, StepAt(built, next)))
      BY <2>1, <2>5 DEF OpenFails
    <3> DEFINE f == Fault(5, next, s, StepAt(built, next))
    <3>2. f.at = next /\ f.step = StepAt(built, next)
      BY DEF Fault
    <3> HIDE DEF f
    <3>3. Moved(f) /\ next \in Nat
      BY <1>1, <3>1 DEF f, PlanInv, OpenPrefix
    <3>4. f.step \in Steps /\ f.at = Position(built, f.step)
      BY <1>1, <3>2, <3>3 DEF StepAt
    <3>5. f.at = f.step
      BY <2>2, <2>3, <3>2, <3>3, <3>4
    <3>6. QED
      BY <2>2, <3>3, <3>4, <3>5 DEF Chosen
  <2>6. QED
    BY <1>1, <2>4, <2>5 DEF Next, SessionStep, Build, Start, OpenNode,
                            CloseSession, vars, planVars
<1>2. PlanInv /\ [Next]_vars =>
        [index' # index /\ fault'.step # NoStep =>
           index'[fault'.step] = index[fault'.step] + 1]_vars
  BY <1>1
<1>3. QED
  BY <1>2, PlanInvariance, PTL DEF Spec, FailedStepAdvances
=============================================================================
