------------------------------- MODULE Planner -------------------------------
(***************************************************************************)
(* How a session finds a line of nodes that works: Plan::advance,          *)
(* Graph::build, Graph::open and close_nodes of core/src/graph.cpp, and    *)
(* the fallback loops of Session::create, start and close of               *)
(* core/src/session.cpp.                                                   *)
(*                                                                         *)
(* A plan is a line of steps 0 .. StepCount - 1, each with its candidates  *)
(* in the order of Registry::candidates.  Building a graph from the        *)
(* current candidates touches no device and is one step; every opening of  *)
(* a node is one, since it may fail today and succeed tomorrow.  A bridge  *)
(* that is spliced in gives the nodes behind it positions of their own,    *)
(* one more than the plan's.                                               *)
(***************************************************************************)
EXTENDS Specs, FiniteSets, Sequences

CONSTANTS StepCount,    \* steps of the plan, endpoints included
          Lines,        \* the possible candidate lists, one per step
          MaxFallbacks  \* kMaxFallbacks

ASSUME StepCountAssumption == StepCount \in Nat /\ StepCount >= 2
ASSUME MaxFallbacksAssumption == MaxFallbacks \in Nat

Steps == 0 .. StepCount - 1
NoStep == StepCount   \* what a bridge is a node of

(* A candidate: the ports of its node, the formats its input accepts, and  *)
(* what create (with the count of the ports), bind_model and open say.     *)
(* The endpoint adapters are candidates that advance() does not touch.     *)
Statuses == {"Ok", "Negotiate", "Internal", "Nomem", "Hw", "Io"}
KindType == [in : SpecType, out : SpecType, accepts : SUBSET Formats,
             create : Statuses, bind : Statuses, open : SUBSET Statuses,
             adapter : BOOLEAN]

(* Every step of a plan has a candidate, and an endpoint adapter, which    *)
(* the plan makes itself, is the only one of its step.                     *)
ASSUME LinesAssumption ==
  \A l \in Lines :
    /\ l \in [Steps -> Seq(KindType)]
    /\ \A k \in Steps :
         /\ l[k] # << >>
         /\ \A i \in 1 .. Len(l[k]) : l[k][i].adapter => Len(l[k]) = 1

VARIABLES line,       \* the plan's candidates
          index,      \* the current candidate of each step
          fallbacks,  \* Plan::fallbacks
          built,      \* the candidates the graph was built from
          phase,      \* where create(), start() or close() is
          next,       \* the next node Graph::open opens
          opened,     \* positions of the nodes that are open
          fault       \* history: the last failure, and whose it was

planVars == << line, index, fallbacks >>
vars == << planVars, built, phase, next, opened, fault >>

NoFault == [check |-> 0, at |-> 0, status |-> "Ok", step |-> NoStep]

Init ==
  /\ line \in Lines
  /\ index = [k \in Steps |-> 1]
  /\ fallbacks = 0
  /\ built = index
  /\ phase = "create"
  /\ next = 0
  /\ opened = {}
  /\ fault = NoFault

-----------------------------------------------------------------------------
(* A graph, given by the candidate chosen for each step.                   *)

Kind(c, k) == line[k][c[k]]

Edges == 0 .. StepCount - 2

Bridged(c) == {e \in Edges : NeedsBridge(Kind(c, e).out, Kind(c, e + 1).in)}

(* Where the node of a step is in the graph, and how many nodes it has.    *)
Position(c, k) == k + Cardinality({e \in Bridged(c) : e < k})
NodeCount(c)   == StepCount + Cardinality(Bridged(c))

(* The step whose node is at a position; a bridge belongs to none.         *)
StepAt(c, i) ==
  IF \E k \in Steps : Position(c, k) = i
  THEN CHOOSE k \in Steps : Position(c, k) = i
  ELSE NoStep

(* The resolved ports at the two ends of an edge, bridged or not.          *)
OutPort(c, e) ==
  Unified(Kind(c, e).out,
          IF e \in Bridged(c) THEN BridgeIn ELSE Kind(c, e + 1).in)
InPort(c, e) ==
  Unified(IF e \in Bridged(c) THEN BridgeOut ELSE Kind(c, e).out,
          Kind(c, e + 1).in)

(* configure() of a step's node: no port is left unresolved, and the input *)
(* has a format the node takes.                                            *)
Configures(c, k) ==
  /\ k < StepCount - 1 => Known(OutPort(c, k))
  /\ k > 0 => /\ Known(InPort(c, k - 1))
              /\ InPort(c, k - 1).fmt \in Kind(c, k).accepts

(* Everything that is wrong with a graph, in the order in which build()    *)
(* looks: nodes and arity by plan step, then edges, configure and          *)
(* bind_model by position.  An edge is blamed on its consumer.             *)
Fault(check, at, status, step) ==
  [check |-> check, at |-> at, status |-> status, step |-> step]

CreateFaults(c) ==
  {Fault(1, k, Kind(c, k).create, k) :
     k \in {k \in Steps : Kind(c, k).create # "Ok"}}
EdgeFaults(c) ==
  {Fault(2, Position(c, e + 1), "Negotiate", e + 1) :
     e \in {e \in Edges \ Bridged(c) :
              ~Unifies(Kind(c, e).out, Kind(c, e + 1).in)}}
ConfigureFaults(c) ==
  {Fault(3, Position(c, k), "Negotiate", k) :
     k \in {k \in Steps : ~Configures(c, k)}}
  \cup
  {Fault(3, Position(c, e) + 1, "Negotiate", NoStep) :
     e \in {e \in Bridged(c) : ~BridgeConfigures(OutPort(c, e), InPort(c, e))}}
BindFaults(c) ==
  {Fault(4, Position(c, k), Kind(c, k).bind, k) :
     k \in {k \in Steps : Kind(c, k).bind # "Ok"}}

Faults(c) ==
  CreateFaults(c) \cup EdgeFaults(c) \cup ConfigureFaults(c) \cup BindFaults(c)

Before(f, g) == f.check < g.check \/ (f.check = g.check /\ f.at <= g.at)

FirstFault(F) == CHOOSE f \in F : \A g \in F : Before(f, g)

-----------------------------------------------------------------------------
(* Plan::advance.                                                          *)

(* Two faults: one candidate too many, one too few.                        *)
CanAdvanceOneMore(k) ==
  /\ fallbacks < MaxFallbacks
  /\ k < StepCount
  /\ ~Kind(index, k).adapter
  /\ index[k] <= Len(line[k])
CanAdvanceOneLess(k) ==
  /\ fallbacks < MaxFallbacks
  /\ k < StepCount
  /\ ~Kind(index, k).adapter
  /\ index[k] + 1 < Len(line[k])

CanAdvance(k) ==
  /\ fallbacks < MaxFallbacks
  /\ k < StepCount
  /\ ~Kind(index, k).adapter
  /\ index[k] < Len(line[k])

(* Two faults: the step before the failed one advances; a copy of the plan *)
(* does.                                                                   *)
AdvancePrevious(k) ==
  << [index EXCEPT ![IF k = 0 THEN 0 ELSE k - 1] = @ + 1], fallbacks + 1 >>
AdvanceCopy(k) == << index, fallbacks >>

Advanced(k) == << [index EXCEPT ![k] = @ + 1], fallbacks + 1 >>

(* The build failures the session answers with another candidate.          *)
Retries(s) == s \in {"Negotiate", "Internal"}

(* Take the next candidate for the failed position, or give up.            *)
FallBack(f, retry, again, giveUp) ==
  /\ fault' = f
  /\ IF retry /\ CanAdvance(f.at)
     THEN /\ index' = Advanced(f.at)[1]
          /\ fallbacks' = Advanced(f.at)[2]
          /\ phase' = again
     ELSE /\ phase' = giveUp
          /\ UNCHANGED << index, fallbacks >>

-----------------------------------------------------------------------------
(* The session.                                                            *)

(* Graph::build succeeds; it replaces the graph start() could not open.    *)
Build ==
  /\ phase \in {"create", "rebuild"}
  /\ Faults(index) = {}
  /\ built' = index
  /\ phase' = IF phase = "create" THEN "idle" ELSE "open"
  /\ next' = 0
  /\ UNCHANGED << planVars, opened, fault >>

(* Graph::build fails in create() or in the inner loop of start(), which   *)
(* leaves the old graph in place when it gives up.                         *)
BuildFails ==
  /\ phase \in {"create", "rebuild"}
  /\ Faults(index) # {}
  /\ FallBack(FirstFault(Faults(index)),
              Retries(FirstFault(Faults(index)).status), phase,
              IF phase = "create" THEN "refused" ELSE "idle")
  /\ UNCHANGED << line, built, next, opened >>

Start ==
  /\ phase = "idle"
  /\ phase' = "open"
  /\ next' = 0
  /\ UNCHANGED << planVars, built, opened, fault >>

(* What open() of the node at a position may return.                       *)
OpenResults(i) ==
  IF StepAt(built, i) = NoStep THEN {"Ok"}
                               ELSE Kind(built, StepAt(built, i)).open

OpenNode ==
  /\ phase = "open"
  /\ "Ok" \in OpenResults(next)
  /\ opened' = opened \cup {next}
  /\ next' = next + 1
  /\ phase' = IF next' = NodeCount(built) THEN "started" ELSE "open"
  /\ UNCHANGED << planVars, built, fault >>

(* A fault: the roll-back stops short of the first node.                   *)
RollBackKeepsFirst(i) == opened \ (1 .. i - 1)

(* The nodes that stay open when the node at i did not open.               *)
RollBack(i) == opened \ (0 .. i - 1)

(* Graph::open fails at a node: those before it are closed.  Only a device *)
(* that is out of order makes start() try another candidate.               *)
OpenFails ==
  /\ phase = "open"
  /\ \E s \in OpenResults(next) \ {"Ok"} :
       FallBack(Fault(5, next, s, StepAt(built, next)), s = "Hw",
                "rebuild", "idle")
  /\ opened' = RollBack(next)
  /\ UNCHANGED << line, built, next >>

(* close(), also of a session that was never started: close_nodes().       *)
CloseSession ==
  /\ phase \in {"idle", "started"}
  /\ phase' = "closed"
  /\ opened' = opened \ (0 .. NodeCount(built) - 1)
  /\ UNCHANGED << planVars, built, next, fault >>

SessionStep == Build \/ BuildFails \/ OpenNode \/ OpenFails

Next == SessionStep \/ Start \/ CloseSession

Spec == Init /\ [][Next]_vars

(* create() and start() run on the caller's thread: they keep going.       *)
FairSpec == Spec /\ WF_vars(SessionStep)

-----------------------------------------------------------------------------
(* Properties.                                                             *)

TypeOK ==
  /\ line \in [Steps -> Seq(KindType)]
  /\ index \in [Steps -> Nat \ {0}]
  /\ built \in [Steps -> Nat \ {0}]
  /\ \A k \in Steps : index[k] <= Len(line[k]) /\ built[k] <= index[k]
  /\ fallbacks \in 0 .. MaxFallbacks
  /\ phase \in {"create", "refused", "idle", "open", "rebuild", "started",
                "closed"}
  /\ next \in 0 .. NodeCount(built)
  /\ opened \subseteq 0 .. NodeCount(built) - 1
  /\ fault.status \in Statuses /\ fault.step \in Steps \cup {NoStep}

(* A start() that fails part of the way, for whatever node and however     *)
(* many candidates it has gone through, leaves no node open: the devices   *)
(* are free for the next candidate (graph.cpp:540-541).                    *)
NoNodeLeftOpen ==
  phase \in {"create", "refused", "idle", "rebuild", "closed"} => opened = {}

(* What a started session runs: every node is open, each edge carries what *)
(* both of its ends asked for, and no node of the host reads device        *)
(* memory, bridged or not.                                                 *)
StartedLineAgrees ==
  phase = "started" =>
    /\ opened = 0 .. NodeCount(built) - 1
    /\ \A e \in Edges :
         LET out == OutPort(built, e)
             in  == InPort(built, e)
         IN  /\ Known(out) /\ Known(in)
             /\ out.fmt = in.fmt
             /\ Known(Kind(built, e).out) => out.domain = Kind(built, e).out.domain
             /\ Known(Kind(built, e + 1).in) => in.domain = Kind(built, e + 1).in.domain
             /\ e \notin Bridged(built) => out = in

(* "Advance the failed step to its next candidate" (graph.hpp:31): the     *)
(* candidate that is given up is the one that failed.                      *)
FailedStepAdvances ==
  [][index' # index /\ fault'.step # NoStep =>
       index'[fault'.step] = index[fault'.step] + 1]_vars

(* The device behind a node is out of order and start() gives up although  *)
(* the step of that node has a further candidate.                          *)
GivesUpEarly ==
  /\ phase = "open" /\ phase' = "idle" /\ fault'.status = "Hw"
  /\ fallbacks < MaxFallbacks
  /\ fault'.step # NoStep
  /\ index[fault'.step] < Len(line[fault'.step])

(* "open" failures fall back to the next best candidate, as the document   *)
(* semantic-codec-sdk-integration.md:15 says of every session.             *)
OpenFailureFallsBack == [][~GivesUpEarly]_vars

(* The same where no bridge shifts the positions of the nodes: in a line   *)
(* of any length, whichever node fails and whatever failed before.         *)
UnbridgedFailureFallsBack ==
  [][Bridged(built) = {} => ~GivesUpEarly]_vars

(* create() and start() return, whatever fails.                            *)
SessionReturns ==
  phase \in {"create", "open", "rebuild"}
    ~> phase \in {"refused", "idle", "started"}
=============================================================================
