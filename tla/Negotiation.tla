----------------------------- MODULE Negotiation -----------------------------
(***************************************************************************)
(* The negotiation of one edge of a graph: the specifications its two      *)
(* ports ask for are unified and written back to both, or the edge fails   *)
(* (core/src/graph.cpp, the unify pass of Graph::build).                   *)
(***************************************************************************)
EXTENDS Specs

VARIABLES producer,  \* what the output port asks for
          consumer,  \* what the input port asks for
          resolved,  \* the resolved specifications of the two ports
          result     \* "Open", then "Ok" or "Negotiate"

vars == << producer, consumer, resolved, result >>

Init ==
  /\ producer \in SpecType
  /\ consumer \in SpecType
  /\ resolved = << producer, consumer >>
  /\ result = "Open"

Agree ==
  /\ result = "Open"
  /\ Unifies(producer, consumer)
  /\ resolved' = << Unified(producer, consumer), Unified(producer, consumer) >>
  /\ result' = "Ok"
  /\ UNCHANGED << producer, consumer >>

Refuse ==
  /\ result = "Open"
  /\ ~Unifies(producer, consumer)
  /\ result' = "Negotiate"
  /\ UNCHANGED << producer, consumer, resolved >>

Next == Agree \/ Refuse

Spec == Init /\ [][Next]_vars

-----------------------------------------------------------------------------
(* Properties.                                                             *)

TypeOK ==
  /\ producer \in SpecType
  /\ consumer \in SpecType
  /\ resolved \in SpecType \X SpecType
  /\ result \in {"Open", "Ok", "Negotiate"}

(* "Field-level wildcard merge" (spec.hpp:47): what two ports agree on     *)
(* admits exactly the frames that satisfy both of them.                    *)
MergeAdmitsBoth ==
  result = "Ok" =>
    \A s \in SpecType : Concrete(s) =>
      /\ Fits(s, resolved[1]) <=> Fits(s, producer) /\ Fits(s, consumer)
      /\ Fits(s, resolved[2]) <=> Fits(s, producer) /\ Fits(s, consumer)

(* "conflict yields Negotiate" (spec.hpp:47): an edge is refused only if   *)
(* no frame at all satisfies both ports.                                   *)
RefusedOnConflict ==
  result = "Negotiate" =>
    ~ \E s \in SpecType : Concrete(s) /\ Fits(s, producer) /\ Fits(s, consumer)

(* A bridge is spliced in where a Dmabuf producer meets a Host consumer    *)
(* and the edge would otherwise fail (graph.cpp:115-116, :456-457).        *)
BridgeOnlyOnConflict ==
  result = "Ok" => ~NeedsBridge(producer, consumer)
=============================================================================
