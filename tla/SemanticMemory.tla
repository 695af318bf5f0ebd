---------------------------- MODULE SemanticMemory ----------------------------
(***************************************************************************)
(* memory/semantic_memory.py over storage/qdrant_store.py, as the runs of  *)
(* one or more processes use it (memory_retrieve_node, memory_writer_node),*)
(* with the maintenance commands ops/gc_memory.py and ops/reset_stores.py  *)
(* beside them.                                                            *)
(*                                                                         *)
(* Abstractions.  A fact is its content, which is also its point id        *)
(* (content_id); one query is asked, to which each fact has a similarity   *)
(* in hundredths.  An embedding is a step, building the embedder another.  *)
(***************************************************************************)
EXTENDS MemoryDecay, Sequences, FiniteSets

CONSTANTS
  Runs, Processes,
  ProcessOf,      \* the process each run is a thread of
  Contents,
  Similarity,
  TieOrder,       \* the order Qdrant names points in that are equally near
  TopK,           \* memory_top_k
  MinSimilarity,  \* memory_min_similarity
  Findings,       \* sets of evidence a run may gather: [id, source, strong],
                  \* strong if above memory_write_min_score
  Threshold,      \* gc_memory's --threshold
  Beginnings,     \* collections an earlier deployment may have left
  ServerSides,    \* memory_server_side_decay
  MaxDay          \* bound: days that pass

Sources == {"corpus", "mcp", "web", "model", "memory"}

ASSUME MemoryAssumption ==
  /\ ProcessOf \in [Runs -> Processes]
  /\ IsFiniteSet(Contents)
  /\ Similarity \in [Contents -> 0..100]
  /\ TieOrder \in [Contents -> Nat]
  /\ \A c, d \in Contents : TieOrder[c] = TieOrder[d] => c = d
  /\ TopK \in Nat \ {0} /\ MinSimilarity \in 0..100 /\ Threshold \in Nat
  /\ \A f \in Findings : \A e \in f : e.id \in Contents /\ e.source \in Sources
                                      /\ e.strong \in BOOLEAN
  /\ \A b \in Beginnings : /\ b = [c \in DOMAIN b |-> b[c]]
                           /\ DOMAIN b \subseteq Contents
                           /\ \A c \in DOMAIN b : b[c].born \in Int
  /\ ServerSides \subseteq BOOLEAN /\ MaxDay \in Nat

Nobody == "nobody"

ASSUME NobodyAssumption == Nobody \notin Runs

Empty == [c \in {} |-> [vol |-> "stable", born |-> 0]]
Unasked == [points |-> Empty, day |-> 0]

VARIABLES
  serverSide,
  up,         \* Qdrant answers
  exists,     \* the collection exists
  points,     \* content |-> [vol, born]
  day,
  available,  \* per process: what its probe found, or "unbuilt"
  embedders,  \* per process: embedding models built
  lock,       \* per process: the run inside _embedder_lock
  stage,      \* per run: what it does next
  todo,       \* per run: what it needs the collection or an embedding for, next first
  recalled,   \* per run: the evidence memory gave it
  found,      \* per run: the evidence it gathered itself
  asked,      \* history, per run: the points its recall searched, and when
  grounds,    \* history: facts retrieval found well enough to keep
  gc, plan    \* the garbage collector, and the points it is about to delete

qdrant == <<up, exists, points>>
processVars == <<available, embedders, lock>>
runVars == <<stage, todo, recalled, found, asked, grounds>>
gcVars == <<gc, plan>>
vars == <<serverSide, qdrant, day, processVars, runVars, gcVars>>

Init ==
  /\ serverSide \in ServerSides
  /\ up \in BOOLEAN
  /\ points \in Beginnings /\ exists = (DOMAIN points # {})
  /\ day = 0
  /\ available = [p \in Processes |-> "unbuilt"]
  /\ embedders = [p \in Processes |-> 0]
  /\ lock = [p \in Processes |-> Nobody]
  /\ stage = [r \in Runs |-> "new"] /\ todo = [r \in Runs |-> <<>>]
  /\ recalled = [r \in Runs |-> {}] /\ found = [r \in Runs |-> {}]
  /\ asked = [r \in Runs |-> Unasked]
  /\ grounds = {}
  /\ gc = "idle" /\ plan = {}

-----------------------------------------------------------------------------
(* What recall answers.                                                    *)

\* More worth goes first, then the nearer, then what Qdrant names first: a
\* stable sort of what Qdrant answers.
Ahead(d, c, worth) ==
  \/ worth[d] > worth[c]
  \/ worth[d] = worth[c] /\ Similarity[d] > Similarity[c]
  \/ worth[d] = worth[c] /\ Similarity[d] = Similarity[c] /\ TieOrder[d] < TieOrder[c]

\* The first n in that order.
Best(candidates, worth, n) ==
  {c \in candidates : Cardinality({d \in candidates : Ahead(d, c, worth)}) < n}

\* The n points most similar to the query.
Nearest(pts, n) == Best(DOMAIN pts, Similarity, n)

Worth(pts, when) ==
  [c \in DOMAIN pts |->
     Similarity[c] * DecayFactor(when - pts[c].born, Coerce(pts[c].vol))]

\* search_with_decay: Qdrant knows no half-life for a value nobody knows, and
\* measures a distance in time.
ServerWorth(pts, when) ==
  [c \in DOMAIN pts |->
     IF pts[c].vol \notin Known THEN 0
     ELSE Similarity[c] *
          DecayFactor(IF when >= pts[c].born THEN when - pts[c].born
                      ELSE pts[c].born - when, pts[c].vol)]

\* Mutant: the floor is tested on the product.
RecallFloorOnWorth(server, pts, when) ==
  LET worth == IF server THEN ServerWorth(pts, when) ELSE Worth(pts, when)
  IN {[id |-> c, score |-> worth[c]] :
        c \in {d \in Best(Nearest(pts, 2 * TopK), worth, TopK) :
                 worth[d] >= MinSimilarity * Full}}

\* retrieve: on the server everything but the floor; here the floor first, on
\* the raw similarity, then the decay, the order and the cut.
Recall(server, pts, when) ==
  LET there == ServerWorth(pts, when)
      here == Worth(pts, when)
      near == {c \in Nearest(pts, 2 * TopK) : Similarity[c] >= MinSimilarity}
  IN IF server
     THEN {[id |-> c, score |-> there[c]] :
             c \in {d \in Best(Nearest(pts, 4 * TopK), there, TopK) :
                      there[d] >= MinSimilarity * Full}}
     ELSE {[id |-> c, score |-> here[c]] : c \in Best(near, here, TopK)}

\* Mutant: what the model says is kept as well.
LastingWithModel(r) ==
  {e.id : e \in {f \in found[r] : f.source \notin {"memory", "web"} /\ f.strong}}

\* store_run: only what retrieval found, and found well enough.
Lasting(r) ==
  LET evidence == found[r] \cup
                  {[id |-> e.id, source |-> "memory", strong |-> TRUE] : e \in recalled[r]}
  IN {e.id : e \in {f \in evidence :
                      f.source \notin {"memory", "model", "web"} /\ f.strong}}

-----------------------------------------------------------------------------
(* A run.                                                                  *)

Proc(r) == ProcessOf[r]
At(r, s) == stage[r] = s
Goto(r, s) == stage' = [stage EXCEPT ![r] = s]

Fails(r) == Goto(r, "failed") /\ todo' = [todo EXCEPT ![r] = <<>>]

\* Mutant: what the embedding was for is not taken off the list.
ProceedKeeping(r) == Goto(r, Head(todo[r])) /\ UNCHANGED todo

\* Once there is an embedding: what it was for.
Proceed(r) ==
  /\ Goto(r, Head(todo[r]))
  /\ todo' = [todo EXCEPT ![r] = Tail(@)]

\* QdrantStore.__init__: the one probe, whose verdict the process keeps.
Build(p) ==
  /\ available[p] = "unbuilt"
  /\ available' = [available EXCEPT ![p] = IF up THEN "yes" ELSE "no"]
  /\ UNCHANGED <<serverSide, qdrant, day, embedders, lock, runVars, gcVars>>

\* A degraded store answers nothing and keeps nothing.
Needs(r, use, otherwise) ==
  IF available[Proc(r)] = "yes"
  THEN Goto(r, "check") /\ todo' = [todo EXCEPT ![r] = <<use>>]
  ELSE Goto(r, otherwise) /\ UNCHANGED todo

Retrieve(r) ==
  /\ At(r, "new") /\ available[Proc(r)] # "unbuilt"
  /\ Needs(r, "query", "research")
  /\ UNCHANGED <<serverSide, qdrant, day, processVars, recalled, found, asked, grounds,
                 gcVars>>

\* ensure_collection: the check, then an embedding for its dimension, then the
\* creation, which fails if another run was first.
CheckCollection(r) ==
  /\ At(r, "check")
  /\ IF up THEN /\ Goto(r, "embed")
                /\ todo' = [todo EXCEPT ![r] = IF exists THEN @ ELSE <<"create", Head(@)>>]
     ELSE Fails(r)
  /\ UNCHANGED <<serverSide, qdrant, day, processVars, recalled, found, asked, grounds,
                 gcVars>>

CreateCollection(r) ==
  /\ At(r, "create")
  /\ IF up /\ ~exists
     THEN exists' = TRUE /\ Goto(r, "embed") /\ UNCHANGED todo
     ELSE UNCHANGED exists /\ Fails(r)
  /\ UNCHANGED <<serverSide, up, points, day, processVars, recalled, found, asked,
                 grounds, gcVars>>

\* _embed: the look without the lock.
SeeEmbedder(r) ==
  /\ At(r, "embed")
  /\ IF embedders[Proc(r)] > 0 THEN Proceed(r) ELSE Goto(r, "wait") /\ UNCHANGED todo
  /\ UNCHANGED <<serverSide, qdrant, day, processVars, recalled, found, asked, grounds,
                 gcVars>>

\* Mutant: there is no lock.
MayEnterAlways(r) == TRUE

MayEnter(r) == lock[Proc(r)] = Nobody

TakeLock(r) ==
  /\ At(r, "wait") /\ MayEnter(r)
  /\ lock' = [lock EXCEPT ![Proc(r)] = r]
  /\ Goto(r, "locked")
  /\ UNCHANGED <<serverSide, qdrant, day, available, embedders, todo, recalled, found,
                 asked, grounds, gcVars>>

\* The second look, inside the lock.
MustBuild(p) == embedders[p] = 0

LookAgain(r) ==
  /\ At(r, "locked")
  /\ IF MustBuild(Proc(r))
     THEN Goto(r, "building") /\ UNCHANGED <<lock, todo>>
     ELSE Proceed(r) /\ lock' = [lock EXCEPT ![Proc(r)] = Nobody]
  /\ UNCHANGED <<serverSide, qdrant, day, available, embedders, recalled, found, asked,
                 grounds, gcVars>>

\* The model is downloaded and loaded, which takes its time.
BuildEmbedder(r) ==
  /\ At(r, "building")
  /\ embedders' = [embedders EXCEPT ![Proc(r)] = @ + 1]
  /\ lock' = [lock EXCEPT ![Proc(r)] = Nobody]
  /\ Proceed(r)
  /\ UNCHANGED <<serverSide, qdrant, day, available, recalled, found, asked, grounds,
                 gcVars>>

Query(r) ==
  /\ At(r, "query")
  /\ IF up /\ exists
     THEN /\ recalled' = [recalled EXCEPT ![r] = Recall(serverSide, points, day)]
          /\ asked' = [asked EXCEPT ![r] = [points |-> points, day |-> day]]
          /\ Goto(r, "research")
     ELSE Goto(r, "failed") /\ UNCHANGED <<recalled, asked>>
  /\ UNCHANGED <<serverSide, qdrant, day, processVars, todo, found, grounds, gcVars>>

\* The rest of the run; it comes to memory_writer only if its critique passed.
Research(r) ==
  /\ At(r, "research")
  /\ \E f \in Findings :
       /\ found' = [found EXCEPT ![r] = f]
       /\ grounds' = grounds \cup {e.id : e \in {g \in f : g.source \in {"corpus", "mcp"}
                                                           /\ g.strong}}
  /\ Goto(r, "store") \/ Goto(r, "done")
  /\ UNCHANGED <<serverSide, qdrant, day, processVars, todo, recalled, asked, gcVars>>

StoreRun(r) ==
  /\ At(r, "store")
  /\ IF Lasting(r) # {} THEN Needs(r, "upsert", "done") ELSE Goto(r, "done") /\ UNCHANGED todo
  /\ UNCHANGED <<serverSide, qdrant, day, processVars, recalled, found, asked, grounds,
                 gcVars>>

\* upsert_texts: a known id gets its whole payload anew.
Upsert(r) ==
  /\ At(r, "upsert")
  /\ IF up /\ exists
     THEN /\ points' = [c \in DOMAIN points \cup Lasting(r) |->
                          IF c \in Lasting(r)
                          THEN [vol |-> "semi_stable", born |-> day] ELSE points[c]]
          /\ Goto(r, "done")
     ELSE Goto(r, "failed") /\ UNCHANGED points
  /\ UNCHANGED <<serverSide, up, exists, day, processVars, todo, recalled, found, asked,
                 grounds, gcVars>>

-----------------------------------------------------------------------------
(* Maintenance, and the world.                                             *)

\* find_gc_candidates; Volatility() of a value nobody knows raises here.
GcScan ==
  /\ gc # "planned" /\ up
  /\ exists' = TRUE
  /\ IF \E c \in DOMAIN points : points[c].vol \notin Known
     THEN gc' = "raised" /\ UNCHANGED plan
     ELSE /\ gc' = "planned"
          /\ plan' = {c \in DOMAIN points :
                        DecayFactor(day - points[c].born, points[c].vol) < Threshold}
  /\ UNCHANGED <<serverSide, up, points, day, processVars, runVars>>

\* delete_points, which fails open.
GcDelete ==
  /\ gc = "planned"
  /\ points' = IF up /\ exists THEN [c \in DOMAIN points \ plan |-> points[c]] ELSE points
  /\ gc' = "idle" /\ plan' = {}
  /\ UNCHANGED <<serverSide, up, exists, day, processVars, runVars>>

\* reset_stores drops the collection under whoever uses it.
Reset ==
  /\ up /\ exists
  /\ exists' = FALSE /\ points' = Empty
  /\ UNCHANGED <<serverSide, up, day, processVars, runVars, gcVars>>

Outage ==
  /\ up' = ~up
  /\ UNCHANGED <<serverSide, exists, points, day, processVars, runVars, gcVars>>

NextDay ==
  /\ day < MaxDay /\ day' = day + 1
  /\ UNCHANGED <<serverSide, qdrant, processVars, runVars, gcVars>>

RunStep(r) ==
  \/ Retrieve(r) \/ CheckCollection(r) \/ CreateCollection(r)
  \/ SeeEmbedder(r) \/ TakeLock(r) \/ LookAgain(r) \/ BuildEmbedder(r)
  \/ Query(r) \/ Research(r) \/ StoreRun(r) \/ Upsert(r)

Next ==
  \/ \E p \in Processes : Build(p)
  \/ \E r \in Runs : RunStep(r)
  \/ GcScan \/ GcDelete \/ Reset \/ Outage \/ NextDay

Spec == Init /\ [][Next]_vars

-----------------------------------------------------------------------------
(* Properties                                                              *)

Stages == {"new", "check", "embed", "wait", "locked", "building", "create", "query",
           "research", "store", "upsert", "done", "failed"}

\* Those in which a run still needs the collection or an embedding.
Embedding == {"check", "create", "embed", "wait", "locked", "building"}

TypeOK ==
  /\ serverSide \in BOOLEAN /\ up \in BOOLEAN /\ exists \in BOOLEAN /\ day \in 0..MaxDay
  /\ DOMAIN points \subseteq Contents /\ (~exists => points = Empty)
  /\ available \in [Processes -> {"unbuilt", "yes", "no"}]
  /\ embedders \in [Processes -> Nat] /\ lock \in [Processes -> Runs \cup {Nobody}]
  /\ stage \in [Runs -> Stages]
  /\ \A r \in Runs : stage[r] \in Embedding <=> todo[r] # <<>>
  /\ plan \subseteq Contents /\ gc \in {"idle", "planned", "raised"}

\* Runs that race for the first embedding share one model.
EmbedderBuiltOnce == \A p \in Processes : embedders[p] <= 1

\* D-142: what recall leaves out is irrelevant, or not among the nearest, or
\* worth less than all it returns: a relevant fact is never dropped for its
\* age alone.  The server may be stricter, never laxer; no fact counts for
\* more than its similarity, whatever the clocks say.
RecallIsFair ==
  \A r \in Runs :
    LET pts == asked[r].points
        worth == Worth(pts, asked[r].day)
        ids == {e.id : e \in recalled[r]}
    IN /\ Cardinality(ids) <= TopK
       /\ \A e \in recalled[r] : /\ Similarity[e.id] >= MinSimilarity
                                 /\ e.score <= Similarity[e.id] * Full
       /\ ~serverSide => \A c \in DOMAIN pts \ ids :
            \/ Similarity[c] < MinSimilarity
            \/ c \notin Nearest(pts, 2 * TopK)
            \/ Cardinality(ids) = TopK /\ \A d \in ids : worth[d] >= worth[c]

Promise == INSTANCE LongTermMemory WITH facts <- points, marked <- plan

\* Every step keeps the promise of LongTermMemory.
ImplementsMemory == Promise!Spec

\* memory/semantic_memory.py:125: retrieve() returns [] and store_run() writes
\* nothing when the store cannot be reached, rather than raising.
MemoryNeverRaises == \A r \in Runs : stage[r] # "failed"
================================================================================
