------------------------------- MODULE Stream -------------------------------
(***************************************************************************)
(* What a stream promises its two ends, whatever carries it: frames leave  *)
(* in the order in which they were accepted, none is lost before an Eof,   *)
(* and what is reported to the reader as the end is final.                 *)
(*                                                                         *)
(* Frames are named by their place in the order of acceptance.  A status   *)
(* in Cutting may end the stream before every accepted frame was           *)
(* delivered; any other status may not.                                    *)
(***************************************************************************)
EXTENDS Naturals, Sequences

CONSTANTS Statuses,   \* what a reader can be told at the end
          Cutting     \* those that may cut off accepted frames

VARIABLES accepted,   \* how many frames the writer's calls have put in
          sealed,     \* no further frame is accepted
          delivered,  \* the frames the reader has obtained, in order
          outcome     \* the end the reader was told, "None" before

vars == << accepted, sealed, delivered, outcome >>

Init ==
  /\ \/ accepted = 0 /\ sealed = FALSE
     \/ accepted \in Nat /\ sealed = TRUE   \* given whole, as a file is
  /\ delivered = << >>
  /\ outcome = "None"

Accept ==
  /\ ~sealed
  /\ accepted' = accepted + 1
  /\ UNCHANGED << sealed, delivered, outcome >>

Seal ==
  /\ sealed' = TRUE
  /\ UNCHANGED << accepted, delivered, outcome >>

Deliver ==
  /\ outcome = "None"
  /\ Len(delivered) < accepted
  /\ delivered' = Append(delivered, Len(delivered) + 1)
  /\ UNCHANGED << accepted, sealed, outcome >>

Conclude(s) ==
  /\ outcome = "None"
  /\ \/ s \in Cutting
     \/ sealed /\ Len(delivered) = accepted
  /\ outcome' = s
  /\ UNCHANGED << accepted, sealed, delivered >>

Next ==
  \/ Accept
  \/ Seal
  \/ Deliver
  \/ \E s \in Statuses : Conclude(s)

Spec == Init /\ [][Next]_vars
=============================================================================
