----------------------------- MODULE MCPipeline -----------------------------
(***************************************************************************)
(* Two sessions of Pipeline checked by one run.  A "file" session is the   *)
(* one the constants give: it reads and writes files, has room to queue    *)
(* and reading or writing can fail.  A "live" session is pushed to and     *)
(* pulled from by the application and its codec can fail.  mode says which *)
(* of the two a behaviour is of.                                           *)
(*                                                                         *)
(* The instance keeps the file session's capacity and nodes: TLC evaluates *)
(* a constant definition (Capacity, OutQ) once, with the values of the     *)
(* module that is extended.                                                *)
(***************************************************************************)
EXTENDS Pipeline

VARIABLE mode

(* Three frames fill two places and leave one to wait.                     *)
Live == INSTANCE Pipeline WITH
  MaxFrames <- 3, NodeStatuses <- {"Io"}, Failing <- {1},
  FileSource <- FALSE, FileSink <- FALSE

sessionVars == << mode, vars >>

SessionsInit == \/ mode = "file" /\ Init
                \/ mode = "live" /\ Live!Init

SessionsNext == /\ \/ mode = "file" /\ Next
                   \/ mode = "live" /\ Live!Next
                /\ UNCHANGED mode

(* Both sessions have the same workers; every one keeps running.           *)
SessionsWorker(w) == /\ \/ mode = "file" /\ WorkerStep(w)
                        \/ mode = "live" /\ Live!WorkerStep(w)
                     /\ UNCHANGED mode

SessionsCloser == /\ \/ mode = "file" /\ CloserStep
                     \/ mode = "live" /\ Live!CloserStep
                  /\ UNCHANGED mode

SessionsSpec == /\ SessionsInit
                /\ [][SessionsNext]_sessionVars
                /\ \A w \in Workers : WF_vars(SessionsWorker(w))
                /\ WF_vars(SessionsCloser)

-----------------------------------------------------------------------------
(* An output that ended with Eof carries every frame that was read from    *)
(* the file, or pushed: a source without memory, a codec or a write that   *)
(* fails in the middle is no clean end (executor.cpp:118-128).  A read     *)
(* that fails is one, with what was read before it: fileio.cpp:66-74 takes *)
(* it for the end of the file.                                             *)
SessionsEofIsComplete ==
  IF mode = "file" THEN EofMeansComplete ELSE Live!EofMeansComplete

(* Either session carries its stream: from file to file, or from push() to *)
(* pull(), the frames come out in order and only an error or a close cuts  *)
(* them off (fileio.cpp, executor.cpp).                                    *)
Sessions == INSTANCE Stream WITH
  Statuses <- Statuses, Cutting <- Errors,
  accepted <- IF mode = "file" THEN Accepted ELSE Live!Accepted,
  sealed <- IF mode = "file" THEN Sealed ELSE Live!Sealed,
  delivered <- delivered,
  outcome <- IF mode = "file" THEN Outcome ELSE Live!Outcome
SessionsCarryStream == Sessions!Spec

(* A reader that keeps pulling is told the end of the live session once    *)
(* its input ended or its codec failed (executor.cpp:118-128).             *)
LiveReaderIsTold == mode = "live" => Live!ReaderIsTold
=============================================================================
