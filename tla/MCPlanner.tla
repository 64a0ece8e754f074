------------------------------ MODULE MCPlanner ------------------------------
(***************************************************************************)
(* Candidate lists for model checking Planner: nodes like those of the     *)
(* codec plug-ins, and some that fail in every way a node can.             *)
(***************************************************************************)
EXTENDS Planner, SequencesExt

Port(fmt, domain, size) ==
  [fmt |-> fmt, domain |-> domain, modifier |-> 0,
   dims |-> [d \in Dimensions |-> size]]

AnyPort == Port("Unknown", "Host", 0)   \* what Port's default constructor gives
Bits    == Port("Bitstream", "Host", 0)
Host    == Port("Nv12", "Host", 0)
Device  == Port("Nv12", "Dmabuf", 0)
Deep    == Port("P010", "Host", 0)

Node(in, out, accepts, open) ==
  [in |-> in, out |-> out, accepts |-> accepts, create |-> "Ok", bind |-> "Ok",
   open |-> open, adapter |-> FALSE]

Raw   == {"Nv12", "P010"}
AnyFmt == Raw \cup {"Bitstream"}

Adapter(port) == [Node(port, port, AnyFmt, {"Ok"}) EXCEPT !.adapter = TRUE]
File(port)    == Node(port, port, AnyFmt, {"Ok", "Io"})

MppEncode  == Node(AnyPort, Bits, {"Nv12"}, {"Ok", "Hw"})
MlvcEncode == Node(Host, Bits, {"Nv12"}, {"Ok", "Hw", "Nomem"})
NoModel    == [MlvcEncode EXCEPT !.bind = "Negotiate"]
Broken     == [MlvcEncode EXCEPT !.create = "Internal"]
NoMemory   == [MlvcEncode EXCEPT !.create = "Nomem"]
DmaEncode  == Node(Device, Bits, {"Nv12"}, {"Ok"})

MppDecode  == Node(Bits, Device, {"Bitstream"}, {"Ok", "Hw"})
MlvcDecode == Node(Bits, Host, {"Bitstream"}, {"Ok", "Hw"})
DeepDecode == Node(Bits, Deep, {"Bitstream"}, {"Ok"})

(* A registry has each node once.                                          *)
Rankings(kinds, n) ==
  {r \in SeqOf(kinds, n) : r # << >> /\ IsInjective(r)}

(* Transcoding from an application to a file: a decoder and an encoder,    *)
(* with a bridge between some of them.                                     *)
TranscodeLines ==
  {[k \in Steps |-> CASE k = 0 -> << Adapter(Bits) >>
                      [] k = 1 -> a
                      [] k = 2 -> b
                      [] OTHER -> << File(AnyPort) >>] :
     a \in Rankings({MppDecode, MlvcDecode, DeepDecode}, 3),
     b \in Rankings({MppEncode, MlvcEncode, DmaEncode, NoModel, Broken,
                     NoMemory}, 3)}
=============================================================================
