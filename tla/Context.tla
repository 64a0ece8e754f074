------------------------------- MODULE Context -------------------------------
(***************************************************************************)
(* A context: the plug-in libraries it finds, the factories they bring,    *)
(* the models it is given, and the plan it makes for a request             *)
(* (core/src/context.cpp, plugin.cpp, registry.cpp, model.cpp, and         *)
(* rkvc_context_create and rkvc_context_add_model_dir of c_api.cpp).       *)
(*                                                                         *)
(* A directory is read in whatever order readdir() gives its entries.  A   *)
(* library is loaded whole or not at all; a factory it brings stays part   *)
(* of it.  A model directory is loaded first and registered model by       *)
(* model afterwards.                                                       *)
(***************************************************************************)
EXTENDS Integers, Sequences, FiniteSets

CONSTANTS Ids,         \* the factory ids, in the order of strings
          Libraries,   \* per library file: what dlopen and the descriptor
                       \* come to, and the ids of its factories
          SearchPath,  \* the directories to scan, each a set of files
          Bundles,     \* the model directories
          Requests     \* the requests made

VARIABLES device,   \* whether the codec hardware answers
          at,       \* the directory that is being scanned
          unread,   \* its entries readdir() has not given yet
          factories,\* the registry: [id, lib], in the order of adding
          loaded,   \* the libraries that are kept open
          models,   \* the model store
          planned   \* what the last call that asked for something got

ctxVars == << device, at, unread, factories, loaded, models, planned >>

Builtin == << [id |-> "file.source", lib |-> "none"], [id |-> "file.sink", lib |-> "none"] >>
Nothing == [call |-> "none"]
Found(fs) == {fs[k].id : k \in 1 .. Len(fs)}
IdsOf(lib) == {Libraries[lib].ids[k] : k \in 1 .. Len(Libraries[lib].ids)}
KnownIds   == {Ids[k] : k \in 1 .. Len(Ids)}

(* Ids has the id of every factory there is.                               *)
ASSUME IdsAssumption ==
  /\ Ids \in Seq(STRING)
  /\ Found(Builtin) \subseteq KnownIds
  /\ \A lib \in DOMAIN Libraries : Libraries[lib].ids \in Seq(KnownIds)

ASSUME SearchPathAssumption == SearchPath \in Seq(SUBSET DOMAIN Libraries)

(* The members of a set of places, sorted: the n-th has n - 1 before it.   *)
Sorted(S, before) ==
  [n \in 1 .. Cardinality(S) |-> CHOOSE k \in S : Cardinality(before[k]) = n - 1]

CtxIdle ==
  /\ device \in BOOLEAN
  /\ at = 0
  /\ unread = {}
  /\ factories = Builtin
  /\ loaded = {}
  /\ models = << >>
  /\ planned = Nothing

-----------------------------------------------------------------------------
(* The factories: the stage of each, what it serves, and its rank          *)
(* (priority plus score).  Those not named here are transforms without a   *)
(* priority, as core/tests/plugins/identity.cpp.                           *)

Stage(id) ==
  CASE id = "file.source"                                -> "Source"
    [] id = "file.sink"                                  -> "Sink"
    [] id \in {"mpp.decode", "mlvc.decode"}              -> "Decode"
    [] id \in {"mpp.encode", "svt.encode", "mlvc.encode"} -> "Encode"
    [] OTHER                                             -> "Transform"

Encodes(r) == r.operation \in {"Encode", "Transcode"}
Serves(id, r) ==
  CASE id = "file.source" -> r.input = "File"
    [] id = "file.sink"   -> r.output = "File"
    [] id = "mpp.decode"  -> device /\ \/ r.operation = "Transcode"
                                       \/ r.operation = "Decode" /\ r.codec # "Mlvc"
    [] id = "mpp.encode"  -> device /\ Encodes(r) /\ r.codec \in {"H264", "Hevc"}
    [] id = "svt.encode"  -> Encodes(r) /\ r.codec = "Av1"
    [] id = "mlvc.decode" -> r.operation = "Decode" /\ r.codec = "Mlvc"
    [] id = "mlvc.encode" -> r.operation = "Encode" /\ r.codec = "Mlvc"
    [] OTHER              -> r.operation = "Upscale"

Rank(id, r) ==
  CASE id \in {"mpp.decode", "mpp.encode"} -> 1000 + (IF r.policy = "Realtime" THEN 100 ELSE 50)
    [] id = "svt.encode"   -> 500 + (IF r.policy = "Quality" THEN 50 ELSE 0)
    [] id = "rknn.upscale" -> 100 + (IF r.policy = "Realtime" THEN 100 ELSE 220)
    [] OTHER               -> 0

Place(id) == CHOOSE k \in 1 .. Len(Ids) : Ids[k] = id

(* A fault: equal ranks stay in the order in which they were added.        *)
ByRank(r, a, b) == Rank(a.id, r) > Rank(b.id, r)

Precedes(r, a, b) ==
  \/ Rank(a.id, r) > Rank(b.id, r)
  \/ Rank(a.id, r) = Rank(b.id, r) /\ Place(a.id) < Place(b.id)

(* Registry::candidates(): the ids of the factories for a stage, sorted.   *)
Candidates(fs, stage, r) ==
  LET fit    == {k \in 1 .. Len(fs) : Stage(fs[k].id) = stage /\ Serves(fs[k].id, r)}
      before == [k \in fit |-> {j \in fit : \/ Precedes(r, fs[j], fs[k])
                                           \/ (~Precedes(r, fs[k], fs[j]) /\ j < k)}]
  IN [n \in 1 .. Cardinality(fit) |-> fs[Sorted(fit, before)[n]].id]

-----------------------------------------------------------------------------
(* Context::plan().                                                        *)

Middle(r) ==
  CASE r.operation = "Transcode" -> << "Decode", "Encode" >>
    [] r.operation = "Upscale"   -> << "Transform" >>
    [] OTHER                     -> << r.operation >>

Refusal(status) == [status |-> status, steps |-> << >>]

(* An endpoint is a queue adapter, or a file node; streams have none.      *)
Endpoint(fs, kind, stage, r) ==
  IF kind = "FrameSink" THEN << "queue" >> ELSE Candidates(fs, stage, r)

Served(kind, steps) == kind # "Stream" /\ steps # << >>

Plan(fs, r) ==
  LET source == Endpoint(fs, r.input, "Source", r)
      sink   == Endpoint(fs, r.output, "Sink", r)
      stages == [k \in 1 .. Len(Middle(r)) |-> Candidates(fs, Middle(r)[k], r)]
  IN CASE ~r.valid                            -> Refusal("Invalid")
       [] r.valid /\ ~Served(r.input, source) -> Refusal("Unsupported")
       [] r.valid /\ Served(r.input, source) /\ << >> \in {stages[k] : k \in 1 .. Len(stages)}
                                              -> Refusal("NotFound")
       [] OTHER -> IF Served(r.output, sink)
                   THEN [status |-> "Ok", steps |-> << source >> \o stages \o << sink >>]
                   ELSE Refusal("Unsupported")

(* What a node that wants a model gets: the named one, or the first.       *)
ModelFor(r) ==
  LET fit == SelectSeq(models, LAMBDA m : r.model \in {"", m.id})
  IN IF fit = << >> THEN "none" ELSE Head(fit).id

-----------------------------------------------------------------------------
(* The steps.                                                              *)

Scanned == at = Len(SearchPath) /\ unread = {}

OpenDir ==
  /\ unread = {}
  /\ at < Len(SearchPath)
  /\ at' = at + 1
  /\ unread' = SearchPath[at']
  /\ UNCHANGED << device, factories, loaded, models, planned >>

(* The factories a library adds: an id it brings twice is added once.      *)
Brought(lib) ==
  LET ids    == Libraries[lib].ids
      first  == {k \in 1 .. Len(ids) : ~ \E j \in 1 .. k - 1 : ids[j] = ids[k]}
      before == [k \in first |-> {j \in first : j < k}]
  IN [n \in 1 .. Cardinality(first) |-> [id |-> ids[Sorted(first, before)[n]], lib |-> lib]]

(* load_plugin(): every factory is looked at before the first is added.    *)
Acceptable(lib) ==
  /\ Libraries[lib].status = "Ok"
  /\ IdsOf(lib) \cap Found(factories) = {}

(* A fault: factories are added while the rest is being looked at.         *)
AddedAsSeen(lib) ==
  IF Libraries[lib].status # "Ok" THEN factories
  ELSE LET dup == {k \in 1 .. Len(Brought(lib)) : Brought(lib)[k].id \in Found(factories)}
       IN factories \o SelectSeq(Brought(lib), LAMBDA f : \A k \in dup :
                          \E j \in 1 .. k - 1 : Brought(lib)[j] = f)

Kept(lib)  == IF Acceptable(lib) THEN loaded \cup {lib} ELSE loaded
Added(lib) == IF Acceptable(lib) THEN factories \o Brought(lib) ELSE factories

ReadEntry(lib) ==
  /\ lib \in unread
  /\ unread' = unread \ {lib}
  /\ factories' = Added(lib)
  /\ loaded' = Kept(lib)
  /\ UNCHANGED << device, at, models, planned >>

(* load_model_dir(): the names sorted, encoders, decoders, then the rest;  *)
(* all or nothing.                                                         *)
Load(b) ==
  LET named(S, family, role) == [k \in 1 .. Len(S) |-> [id |-> S[k], family |-> family, role |-> role]]
      found == named(b.encoders, "mlvc", "encoder") \o named(b.decoders, "mlvc", "decoder")
                 \o named(b.others, "sr", "upscale")
  IN CASE ~b.opens                                        -> [status |-> "Io", models |-> << >>]
       [] b.opens /\ b.encoders \o b.decoders # << >> /\ ~b.tables
                                                          -> [status |-> "Format", models |-> << >>]
       [] b.opens /\ (b.tables \/ b.encoders \o b.decoders = << >>) /\ b.broken
                                                          -> [status |-> "Io", models |-> << >>]
       [] OTHER -> IF found = << >> THEN [status |-> "Format", models |-> << >>]
                   ELSE [status |-> "Ok", models |-> found]

(* The models of a bundle up to the first whose id is there already.       *)
Registered(ms) ==
  LET clash(k) == \/ \E i \in 1 .. Len(models) : models[i].id = ms[k].id
                  \/ \E i \in 1 .. k - 1 : ms[i].id = ms[k].id
  IN SelectSeq([k \in 1 .. Len(ms) |-> [model |-> ms[k], ok |-> \A j \in 1 .. k : ~clash(j)]],
               LAMBDA e : e.ok)

AddModelDir(b) ==
  /\ Scanned
  /\ LET l == Load(b)
         r == Registered(l.models)
     IN /\ models' = models \o [k \in 1 .. Len(r) |-> r[k].model]
        /\ planned' = [call |-> "models",
                       status |-> IF l.status # "Ok" THEN l.status
                                  ELSE IF Len(r) < Len(l.models) THEN "Invalid" ELSE "Ok"]
  /\ UNCHANGED << device, at, unread, factories, loaded >>

MakePlan(r) ==
  /\ Scanned
  /\ planned' = [call |-> "plan", request |-> r, plan |-> Plan(factories, r),
                 model |-> ModelFor(r)]
  /\ UNCHANGED << device, at, unread, factories, loaded, models >>

CtxNext ==
  \/ OpenDir
  \/ \E lib \in unread : ReadEntry(lib)
  \/ \E b \in Bundles : AddModelDir(b)
  \/ \E r \in Requests : MakePlan(r)

CtxSpec == CtxIdle /\ [][CtxNext]_ctxVars

-----------------------------------------------------------------------------
(* Properties.                                                             *)

(* The libraries of a directory that count, whatever the order in which    *)
(* they are read, and the factories they bring: those that share no id     *)
(* with the built-in factories or with an earlier directory's.  Within a   *)
(* directory no two of them share an id.                                   *)
Shares(a, b) == IdsOf(a) \cap IdsOf(b) # {}
Orderly ==
  \A k \in 1 .. Len(SearchPath) : \A a, b \in SearchPath[k] :
    a # b /\ Libraries[a].status = "Ok" /\ Libraries[b].status = "Ok" => ~Shares(a, b)
Counts[k \in 0 .. Len(SearchPath)] ==
  IF k = 0 THEN {}
  ELSE Counts[k - 1] \cup
       {l \in SearchPath[k] : /\ Libraries[l].status = "Ok"
                              /\ IdsOf(l) \cap Found(Builtin) = {}
                              /\ \A o \in Counts[k - 1] : ~Shares(l, o)}
AllFound == Found(Builtin) \cup UNION {IdsOf(l) : l \in Counts[Len(SearchPath)]}

(* Those that serve a request at a stage, and the order they come in.      *)
Serving(found, stage, r) == {id \in found : Stage(id) = stage /\ Serves(id, r)}

BestFirst(ids, r) ==
  \A i, j \in 1 .. Len(ids) : i < j =>
    \/ Rank(ids[i], r) > Rank(ids[j], r)
    \/ Rank(ids[i], r) = Rank(ids[j], r) /\ Place(ids[i]) < Place(ids[j])

(* A plan depends on what is installed, never on the order in which        *)
(* readdir() lists it: the candidates of a stage are those of all          *)
(* libraries that count, the best rank first, and equal ranks by id        *)
(* ("sorted by (priority+score desc, id asc)", registry.hpp).              *)
PlanIgnoresListing ==
  planned.call = "plan" /\ planned.plan.status = "Ok" /\ Orderly =>
    LET r == planned.request
    IN \A k \in 1 .. Len(Middle(r)) :
         LET best == planned.plan.steps[k + 1]
         IN /\ {best[i] : i \in 1 .. Len(best)} = Serving(AllFound, Middle(r)[k], r)
            /\ BestFirst(best, r)

(* No factory of a library that was closed again: a refused library leaves *)
(* nothing behind, whichever of its factories was the reason.              *)
FactoriesStayLoaded ==
  \A k \in 1 .. Len(factories) : factories[k].lib \in loaded \cup {"none"}
=============================================================================
