-------------------------------- MODULE Specs --------------------------------
(***************************************************************************)
(* Port specifications and what negotiation makes of them: unify() of      *)
(* core/src/spec.cpp, and needs_download_bridge() and the ports of the     *)
(* download bridge of core/src/graph.cpp.                                  *)
(*                                                                         *)
(* The format "Unknown" and the dimension 0 are wildcards.  The four       *)
(* dimensions (width, height, stride, ver_stride) are treated alike, so    *)
(* they are one function.  Modifier 0 is the linear layout.                *)
(***************************************************************************)
EXTENDS Naturals

CONSTANTS Formats,      \* pixel formats, "Unknown" among them or not
          Dimensions,   \* the names of the dimensions
          Sizes,        \* the values of a dimension
          Modifiers     \* memory layouts

ASSUME SizesAssumption == Sizes \subseteq Nat
ASSUME ModifiersAssumption == Modifiers \subseteq Nat

Domains == {"Host", "Dmabuf"}

SpecType == [fmt : Formats, domain : Domains, modifier : Modifiers,
             dims : [Dimensions -> Sizes]]

Known(s)  == s.fmt # "Unknown"
Linear(s) == s.modifier = 0

-----------------------------------------------------------------------------
(* A fault: the second dimension is forgotten.                             *)
MergeDimFirst(a, b) == a

MergeDim(a, b) == IF a # 0 THEN a ELSE b

(* A fault: a zero is taken for a size.                                    *)
DimsEqual(a, b) == a.dims = b.dims

DimsAgree(a, b) ==
  \A d \in Dimensions :
    a.dims[d] = 0 \/ b.dims[d] = 0 \/ a.dims[d] = b.dims[d]

(* A fault: the memory domain is not compared.                             *)
UnifiesAcrossDomains(a, b) ==
  \/ ~Known(a)
  \/ ~Known(b)
  \/ a.fmt = b.fmt /\ a.modifier = b.modifier /\ DimsAgree(a, b)

(* unify() succeeds.                                                       *)
Unifies(a, b) ==
  \/ ~Known(a)
  \/ ~Known(b)
  \/ /\ a.fmt = b.fmt
     /\ a.domain = b.domain
     /\ a.modifier = b.modifier
     /\ DimsAgree(a, b)

(* What it returns: an unknown format makes the other side win whole.      *)
Unified(a, b) ==
  CASE ~Known(a)             -> b
    [] Known(a) /\ ~Known(b) -> a
    [] OTHER -> [a EXCEPT !.dims =
                   [d \in Dimensions |-> MergeDim(a.dims[d], b.dims[d])]]

-----------------------------------------------------------------------------
AnySize == [d \in Dimensions |-> 0]

(* The ports of core.download as make_ports() gives them.                  *)
BridgeIn  == [fmt |-> "Unknown", domain |-> "Dmabuf", modifier |-> 0,
              dims |-> AnySize]
BridgeOut == [fmt |-> "Unknown", domain |-> "Host", modifier |-> 0,
              dims |-> AnySize]

(* Everything but the memory domain agrees.                                *)
NeedsBridge(out, in) ==
  /\ out.domain = "Dmabuf"
  /\ in.domain = "Host"
  /\ Known(out)
  /\ Linear(out)
  /\ Unifies([out EXCEPT !.domain = "Host"], in)

(* DownloadNode::configure on its negotiated ports.                        *)
BridgeConfigures(in, out) ==
  /\ in.domain = "Dmabuf" /\ out.domain = "Host"
  /\ Known(in) /\ Known(out)
  /\ in.fmt = out.fmt
  /\ Linear(in)

-----------------------------------------------------------------------------
(* The reference: what a frame has to be like to satisfy a port.           *)
Fits(s, port) ==
  /\ Known(port) => /\ s.fmt = port.fmt
                    /\ s.domain = port.domain
                    /\ s.modifier = port.modifier
  /\ \A d \in Dimensions : port.dims[d] # 0 => s.dims[d] = port.dims[d]

(* A frame's own specification: nothing is left open.                      *)
Concrete(s) == Known(s) /\ \A d \in Dimensions : s.dims[d] # 0
=============================================================================
