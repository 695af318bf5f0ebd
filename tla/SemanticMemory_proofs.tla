------------------------- MODULE SemanticMemory_proofs -------------------------
(***************************************************************************)
(* Proofs about SemanticMemory, for any number of runs, processes and      *)
(* contents: runs that race for the embedder share one, memory keeps the   *)
(* promise of LongTermMemory, and recall leaves out only what it should.   *)
(***************************************************************************)
EXTENDS SemanticMemory, RankTheorems

USE DEF qdrant, processVars, runVars, gcVars, vars, Proc, At, Goto

\* What a run may still need: an embedding for its query or for its facts,
\* and the collection before that.
Uses == {<<"query">>, <<"upsert">>}
Needed == {<<"create", "query">>, <<"create", "upsert">>} \cup Uses

\* A run that has something left to do needs it, and only such a run.
ErrandsInv ==
  \A r \in Runs :
    /\ stage[r] \in Stages
    /\ stage[r] \in Embedding => todo[r] \in Needed
    /\ stage[r] \in {"check", "create"} => todo[r] \in Uses
    /\ stage[r] \notin Embedding => todo[r] = <<>>

\* Who is past the lock holds it, and who builds found nothing built.
LockInv ==
  /\ \A r \in Runs :
       /\ stage[r] \in {"locked", "building"} => lock[Proc(r)] = r
       /\ stage[r] = "building" => embedders[Proc(r)] = 0
  /\ \A p \in Processes : embedders[p] \in {0, 1}

Shapes ==
  /\ stage \in [Runs -> Stages] /\ todo = [r \in Runs |-> todo[r]]
  /\ embedders \in [Processes -> Nat] /\ lock \in [Processes -> Runs \cup {Nobody}]
  /\ available \in [Processes -> {"unbuilt", "yes", "no"}]

RaceInv == Shapes /\ ErrandsInv /\ LockInv

USE MemoryAssumption, NobodyAssumption

LEMMA RaceInit == Init => RaceInv
BY DEF Init, RaceInv, Shapes, ErrandsInv, LockInv, Stages, Embedding

\* What is next on a list, and what is left of it.
LEMMA Errand ==
  ASSUME NEW t \in Needed
  PROVE  /\ Head(t) \in {"create", "query", "upsert"}
         /\ Head(t) = "create" => Tail(t) \in Uses
         /\ Head(t) # "create" => Tail(t) = <<>>
<1>1. CASE t = <<"create", "query">>
  BY <1>1 DEF Uses
<1>2. CASE t = <<"create", "upsert">>
  BY <1>2 DEF Uses
<1>3. CASE t = <<"query">>
  BY <1>3 DEF Uses
<1>4. CASE t = <<"upsert">>
  BY <1>4 DEF Uses
<1>5. QED
  BY <1>1, <1>2, <1>3, <1>4 DEF Needed, Uses

\* Run r comes to stage s with t to do.
Comes(r, s, t) ==
  /\ stage' = [stage EXCEPT ![r] = s] /\ todo' = [todo EXCEPT ![r] = t]
  /\ s \in Stages
  /\ s \in Embedding => t \in Needed
  /\ s \in {"check", "create"} => t \in Uses
  /\ s \notin Embedding => t = <<>>

LEMMA Coming ==
  ASSUME RaceInv, NEW r \in Runs, NEW s, NEW t, Comes(r, s, t)
  PROVE  /\ ErrandsInv' /\ stage' \in [Runs -> Stages] /\ todo' = [q \in Runs |-> todo'[q]]
         /\ stage'[r] = s /\ \A q \in Runs \ {r} : stage'[q] = stage[q]
BY DEF RaceInv, Shapes, ErrandsInv, Comes

\* The list a run has is the list it keeps where a step leaves it alone.
LEMMA Keeping ==
  ASSUME RaceInv, NEW r \in Runs
  PROVE  /\ todo = [todo EXCEPT ![r] = todo[r]]
         /\ stage[r] \in Embedding => todo[r] \in Needed
         /\ stage[r] \in {"check", "create"} => todo[r] \in Uses
         /\ stage[r] \notin Embedding => todo[r] = <<>>
BY DEF RaceInv, Shapes, ErrandsInv

LEMMA Proceeding ==
  ASSUME RaceInv, NEW r \in Runs, stage[r] \in Embedding, Proceed(r)
  PROVE  Comes(r, Head(todo[r]), Tail(todo[r])) /\ Head(todo[r]) \notin {"locked", "building"}
<1>1. todo[r] \in Needed
  BY Keeping
<1>2. QED
  BY <1>1, Errand DEF Proceed, Comes, Stages, Embedding, Needed

LEMMA NeedsStep ==
  ASSUME RaceInv, NEW r \in Runs, stage[r] \notin Embedding,
         NEW use \in {"query", "upsert"}, NEW otherwise \in {"research", "done"},
         Needs(r, use, otherwise)
  PROVE  \/ Comes(r, "check", <<use>>)
         \/ Comes(r, otherwise, todo[r])
<1>1. <<use>> \in Uses /\ Uses \subseteq Needed
  BY DEF Uses, Needed
<1>2. QED
  BY <1>1, Keeping DEF Needs, Comes, Stages, Embedding

\* A step of one run that takes no lock and builds nothing.
LEMMA ErrandStep ==
  ASSUME RaceInv, NEW r \in Runs,
         Retrieve(r) \/ CheckCollection(r) \/ CreateCollection(r) \/ SeeEmbedder(r)
         \/ Query(r) \/ Research(r) \/ StoreRun(r) \/ Upsert(r)
  PROVE  RaceInv'
<1>1. UNCHANGED <<embedders, lock, available>>
  BY DEF Retrieve, CheckCollection, CreateCollection, SeeEmbedder, Query, Research,
         StoreRun, Upsert
<1>2. \E s, t : Comes(r, s, t) /\ s \notin {"locked", "building"}
  <2>1. CASE Retrieve(r)
    <3>1. Needs(r, "query", "research") /\ stage[r] \notin Embedding
      BY <2>1 DEF Retrieve, Embedding
    <3>2. QED
      BY <3>1, NeedsStep
  <2>2. CASE StoreRun(r)
    <3>1. CASE Lasting(r) # {}
      <4>1. Needs(r, "upsert", "done") /\ stage[r] \notin Embedding
        BY <2>2, <3>1 DEF StoreRun, Embedding
      <4>2. QED
        BY <4>1, NeedsStep
    <3>2. CASE Lasting(r) = {}
      <4>1. Comes(r, "done", todo[r])
        BY <2>2, <3>2, Keeping DEF StoreRun, Comes, Stages, Embedding
      <4>2. QED
        BY <4>1
    <3>3. QED
      BY <3>1, <3>2
  <2>3. CASE CheckCollection(r)
    <3>1. CASE ~up
      <4>1. Comes(r, "failed", <<>>)
        BY <2>3, <3>1 DEF CheckCollection, Fails, Comes, Stages, Embedding
      <4>2. QED
        BY <4>1
    <3>2. CASE up /\ exists
      <4>1. Comes(r, "embed", todo[r])
        BY <2>3, <3>2, Keeping DEF CheckCollection, Comes, Stages, Embedding
      <4>2. QED
        BY <4>1
    <3>3. CASE up /\ ~exists
      <4>1. todo[r] \in Uses
        BY <2>3, Keeping DEF CheckCollection
      <4>2. <<"create", Head(todo[r])>> \in Needed
        BY <4>1 DEF Needed, Uses
      <4>3. Comes(r, "embed", <<"create", Head(todo[r])>>)
        BY <2>3, <3>3, <4>2 DEF CheckCollection, Comes, Stages, Embedding
      <4>4. QED
        BY <4>3
    <3>4. QED
      BY <3>1, <3>2, <3>3
  <2>4. CASE CreateCollection(r)
    <3>1. Comes(r, "embed", todo[r]) \/ Comes(r, "failed", <<>>)
      BY <2>4, Keeping DEF CreateCollection, Fails, Comes, Stages, Embedding, Needed
    <3>2. QED
      BY <3>1
  <2>5. CASE SeeEmbedder(r)
    <3>1. Proceed(r) \/ Comes(r, "wait", todo[r])
      BY <2>5, Keeping DEF SeeEmbedder, Comes, Stages, Embedding
    <3>2. stage[r] \in Embedding
      BY <2>5 DEF SeeEmbedder, Embedding
    <3>3. QED
      BY <3>1, <3>2, Proceeding
  <2>6. CASE Query(r)
    <3>1. Comes(r, "research", todo[r]) \/ Comes(r, "failed", todo[r])
      BY <2>6, Keeping DEF Query, Comes, Stages, Embedding
    <3>2. QED
      BY <3>1
  <2>7. CASE Research(r)
    <3>1. Comes(r, "store", todo[r]) \/ Comes(r, "done", todo[r])
      BY <2>7, Keeping DEF Research, Comes, Stages, Embedding
    <3>2. QED
      BY <3>1
  <2>8. CASE Upsert(r)
    <3>1. Comes(r, "done", todo[r]) \/ Comes(r, "failed", todo[r])
      BY <2>8, Keeping DEF Upsert, Comes, Stages, Embedding
    <3>2. QED
      BY <3>1
  <2>9. QED
    BY <2>1, <2>2, <2>3, <2>4, <2>5, <2>6, <2>7, <2>8
<1>3. PICK s, t : Comes(r, s, t) /\ s \notin {"locked", "building"}
  BY <1>2
<1>4. QED
  BY <1>1, <1>3, Coming DEF RaceInv, Shapes, LockInv

LEMMA TakeLockStep ==
  ASSUME RaceInv, NEW r \in Runs, TakeLock(r)
  PROVE  RaceInv'
<1>1. Comes(r, "locked", todo[r])
  BY Keeping DEF TakeLock, Comes, Stages, Embedding
<1>2. \A q \in Runs \ {r} : stage[q] \in {"locked", "building"} => Proc(q) # Proc(r)
  BY DEF RaceInv, LockInv, TakeLock, MayEnter
<1>3. LockInv'
  BY <1>1, <1>2, Coming DEF RaceInv, Shapes, LockInv, TakeLock
<1>4. QED
  BY <1>1, <1>3, Coming DEF RaceInv, Shapes, TakeLock

LEMMA LookAgainStep ==
  ASSUME RaceInv, NEW r \in Runs, LookAgain(r)
  PROVE  RaceInv'
<1>1. lock[Proc(r)] = r
  BY DEF RaceInv, LockInv, LookAgain
<1>2. \A q \in Runs \ {r} : stage[q] \in {"locked", "building"} => Proc(q) # Proc(r)
  BY <1>1 DEF RaceInv, LockInv
<1>3. CASE MustBuild(Proc(r))
  <2>1. Comes(r, "building", todo[r])
    BY <1>3, Keeping DEF LookAgain, Comes, Stages, Embedding
  <2>2. LockInv'
    BY <1>1, <1>3, <2>1, Coming DEF RaceInv, LockInv, LookAgain, MustBuild
  <2>3. QED
    BY <1>3, <2>1, <2>2, Coming DEF RaceInv, Shapes, LookAgain
<1>4. CASE ~MustBuild(Proc(r))
  <2>1. Proceed(r) /\ stage[r] \in Embedding
    BY <1>4 DEF LookAgain, Embedding
  <2>2. PICK s, t : Comes(r, s, t) /\ s \notin {"locked", "building"}
    BY <2>1, Proceeding
  <2>3. LockInv'
    BY <1>2, <1>4, <2>2, Coming DEF RaceInv, Shapes, LockInv, LookAgain
  <2>4. QED
    BY <1>4, <2>2, <2>3, Coming DEF RaceInv, Shapes, LookAgain
<1>5. QED
  BY <1>3, <1>4

LEMMA BuildEmbedderStep ==
  ASSUME RaceInv, NEW r \in Runs, BuildEmbedder(r)
  PROVE  RaceInv'
<1>1. lock[Proc(r)] = r /\ embedders[Proc(r)] = 0
  BY DEF RaceInv, LockInv, BuildEmbedder
<1>2. \A q \in Runs \ {r} : stage[q] \in {"locked", "building"} => Proc(q) # Proc(r)
  BY <1>1 DEF RaceInv, LockInv
<1>3. Proceed(r) /\ stage[r] \in Embedding
  BY DEF BuildEmbedder, Embedding
<1>4. PICK s, t : Comes(r, s, t) /\ s \notin {"locked", "building"}
  BY <1>3, Proceeding
<1>5. LockInv'
  BY <1>1, <1>2, <1>4, Coming DEF RaceInv, Shapes, LockInv, BuildEmbedder
<1>6. QED
  BY <1>1, <1>4, <1>5, Coming DEF RaceInv, Shapes, BuildEmbedder

LEMMA RaceStep == RaceInv /\ [Next]_vars => RaceInv'
<1> SUFFICES ASSUME RaceInv, [Next]_vars PROVE RaceInv'
  OBVIOUS
<1>1. ASSUME NEW r \in Runs, RunStep(r) PROVE RaceInv'
  BY <1>1, ErrandStep, TakeLockStep, LookAgainStep, BuildEmbedderStep DEF RunStep
<1>2. ASSUME NEW p \in Processes, Build(p) PROVE RaceInv'
  BY <1>2 DEF Build, RaceInv, Shapes, ErrandsInv, LockInv
<1>3. CASE \/ GcScan \/ GcDelete \/ Reset \/ Outage \/ NextDay \/ UNCHANGED vars
  <2>1. UNCHANGED <<stage, todo, available, embedders, lock>>
    BY <1>3 DEF GcScan, GcDelete, Reset, Outage, NextDay
  <2>2. QED
    BY <2>1 DEF RaceInv, Shapes, ErrandsInv, LockInv
<1>4. QED
  BY <1>1, <1>2, <1>3 DEF Next

\* However many runs race for the first embedding of a process, they load one
\* model (_embed's two looks around _embedder_lock).
THEOREM EmbedderIsShared == Spec => []EmbedderBuiltOnce
<1>1. RaceInv => EmbedderBuiltOnce
  BY DEF RaceInv, LockInv, EmbedderBuiltOnce
<1>2. QED
  BY <1>1, RaceInit, RaceStep, PTL DEF Spec

\* What the variables a race does not touch hold.
RestInv ==
  /\ serverSide \in BOOLEAN /\ up \in BOOLEAN /\ exists \in BOOLEAN /\ day \in 0..MaxDay
  /\ DOMAIN points \subseteq Contents /\ (~exists => points = Empty)
  /\ plan \subseteq Contents /\ gc \in {"idle", "planned", "raised"}
  /\ found \in [Runs -> Findings \cup {{}}]

LEMMA RestInit == Init => RestInv
<1> SUFFICES ASSUME Init PROVE RestInv
  OBVIOUS
<1>1. points = [c \in DOMAIN points |-> points[c]] /\ DOMAIN points \subseteq Contents
  BY DEF Init
<1>2. DOMAIN points = {} => points = Empty
  BY <1>1 DEF Empty
<1>3. QED
  <2>1. up \in BOOLEAN /\ exists \in BOOLEAN /\ serverSide \in BOOLEAN
    BY MemoryAssumption DEF Init
  <2>2. day \in 0..MaxDay /\ (~exists => points = Empty)
    <3>1. ~exists => DOMAIN points = {}
      BY Zenon DEF Init
    <3>2. QED
      BY <1>2, <3>1, MemoryAssumption DEF Init
  <2>3. found \in [Runs -> Findings \cup {{}}] /\ plan \subseteq Contents /\ gc = "idle"
    BY DEF Init
  <2>4. QED
    BY <1>1, <2>1, <2>2, <2>3 DEF RestInv

LEMMA LastingIsContents ==
  ASSUME RestInv, NEW r \in Runs
  PROVE  Lasting(r) \subseteq Contents
<1>1. \A e \in found[r] : e.id \in Contents
  BY DEF RestInv
<1>2. QED
  BY <1>1 DEF Lasting

LEMMA RestStep == RestInv /\ [Next]_vars => RestInv'
<1> SUFFICES ASSUME RestInv, [Next]_vars PROVE RestInv'
  OBVIOUS
<1>1. ASSUME NEW r \in Runs, Upsert(r) PROVE RestInv'
  <2>1. DOMAIN points' \subseteq DOMAIN points \cup Lasting(r)
    BY <1>1 DEF Upsert
  <2>2. exists \/ points' = points
    BY <1>1 DEF Upsert
  <2>3. QED
    BY <1>1, <2>1, <2>2, LastingIsContents DEF Upsert, RestInv
<1>2. ASSUME NEW r \in Runs, Research(r) PROVE RestInv'
  BY <1>2 DEF Research, RestInv
<1>3. ASSUME NEW r \in Runs, CreateCollection(r) PROVE RestInv'
  BY <1>3 DEF CreateCollection, RestInv
<1>4. ASSUME NEW r \in Runs,
             \/ Retrieve(r) \/ CheckCollection(r) \/ SeeEmbedder(r) \/ TakeLock(r)
             \/ LookAgain(r) \/ BuildEmbedder(r) \/ Query(r) \/ StoreRun(r)
      PROVE  RestInv'
  BY <1>4 DEF Retrieve, CheckCollection, SeeEmbedder, TakeLock, LookAgain, BuildEmbedder,
              Query, StoreRun, RestInv
<1>5. CASE GcScan
  BY <1>5 DEF GcScan, RestInv
<1>6. CASE GcDelete
  <2>1. DOMAIN points' \subseteq DOMAIN points /\ (exists \/ points' = points)
    BY <1>6 DEF GcDelete
  <2>2. QED
    BY <1>6, <2>1 DEF GcDelete, RestInv
<1>7. CASE Reset
  <2>1. DOMAIN points' = {} /\ points' = Empty
    BY <1>7 DEF Reset, Empty
  <2>2. QED
    BY <1>7, <2>1 DEF Reset, RestInv, Empty
<1>8. CASE Outage \/ NextDay \/ (\E p \in Processes : Build(p)) \/ UNCHANGED vars
  <2>1. CASE Outage
    BY <2>1 DEF Outage, RestInv
  <2>2. CASE NextDay
    BY <2>2, MemoryAssumption DEF NextDay, RestInv
  <2>3. CASE (\E p \in Processes : Build(p)) \/ UNCHANGED vars
    BY <2>3 DEF Build, RestInv
  <2>4. QED
    BY <1>8, <2>1, <2>2, <2>3
<1>9. QED
  BY <1>1, <1>2, <1>3, <1>4, <1>5, <1>6, <1>7, <1>8 DEF Next, RunStep

\* The types, and with them that a run has something left to do exactly while
\* it needs the collection or an embedding for it.
THEOREM MemoryTypes == Spec => []TypeOK
<1>1. RaceInv /\ RestInv => TypeOK
  <2>1. \A t \in Needed : t # <<>>
    <3>1. Len(<<>>) = 0 /\ \A t \in Needed : Len(t) > 0
      BY DEF Needed, Uses
    <3>2. QED
      BY <3>1
  <2>2. RaceInv => \A r \in Runs : stage[r] \in Embedding <=> todo[r] # <<>>
    BY <2>1 DEF RaceInv, ErrandsInv
  <2>3. QED
    BY <2>2 DEF RaceInv, Shapes, RestInv, TypeOK
<1>2. QED
  BY <1>1, RaceInit, RaceStep, RestInit, RestStep, PTL DEF Spec

-----------------------------------------------------------------------------
(* Memory keeps its promise.                                               *)

\* What a run found well enough is among what has been found so far.
MemoryInv ==
  /\ DOMAIN points \subseteq Contents /\ plan \subseteq Contents
  /\ found \in [Runs -> Findings \cup {{}}]
  /\ \A r \in Runs : \A e \in found[r] :
       e.source \in {"corpus", "mcp"} /\ e.strong => e.id \in grounds

LEMMA Decay ==
  \A age, vol : Promise!DecayFactor(age, vol) = DecayFactor(age, vol)
BY DEF Promise!DecayFactor, DecayFactor, Promise!Halved, Halved, Promise!HalfLife, HalfLife,
       Promise!Max, Max

\* What a run may keep was found (store_run's filter).
LEMMA LastingWasFound ==
  ASSUME MemoryInv, NEW r \in Runs
  PROVE  Lasting(r) \subseteq grounds /\ Lasting(r) \subseteq Contents
<1> SUFFICES ASSUME NEW c \in Lasting(r) PROVE c \in grounds /\ c \in Contents
  OBVIOUS
<1>1. PICK e : /\ e \in found[r] \cup
                    {[id |-> m.id, source |-> "memory", strong |-> TRUE] : m \in recalled[r]}
               /\ e.source \notin {"memory", "model", "web"} /\ e.strong /\ c = e.id
  BY DEF Lasting
<1>2. e \in found[r]
  BY <1>1
<1>3. e.id \in Contents /\ e.source \in Sources
  BY <1>2, MemoryAssumption DEF MemoryInv
<1>4. QED
  BY <1>1, <1>2, <1>3 DEF MemoryInv, Sources

LEMMA MemoryInit == Init => MemoryInv /\ Promise!Init
BY DEF Init, MemoryInv, Promise!Init

\* Every step is one of the promise, or leaves everything it speaks of alone.
LEMMA MemoryStep ==
  MemoryInv /\ [Next]_vars
    => MemoryInv' /\ [Promise!Next]_<<points, grounds, plan, day>>
<1> SUFFICES ASSUME MemoryInv, [Next]_vars
             PROVE  MemoryInv' /\ [Promise!Next]_<<points, grounds, plan, day>>
  OBVIOUS
<1>1. ASSUME NEW r \in Runs, Research(r)
      PROVE  MemoryInv' /\ Promise!Next
  <2>1. PICK f \in Findings :
          /\ found' = [found EXCEPT ![r] = f]
          /\ grounds' = grounds \cup {e.id : e \in {g \in f : g.source \in {"corpus", "mcp"}
                                                              /\ g.strong}}
    BY <1>1 DEF Research
  <2> DEFINE S == {e.id : e \in {g \in f : g.source \in {"corpus", "mcp"} /\ g.strong}}
  <2>2. S \subseteq Contents
    OBVIOUS
  <2>3. Promise!Find(S)
    BY <1>1, <2>1 DEF Research, Promise!Find
  <2>4. MemoryInv'
    BY <1>1, <2>1 DEF Research, MemoryInv
  <2>5. QED
    BY <2>2, <2>3, <2>4 DEF Promise!Next
<1>2. ASSUME NEW r \in Runs, Upsert(r)
      PROVE  MemoryInv' /\ [Promise!Next]_<<points, grounds, plan, day>>
  <2>1. CASE up /\ exists
    <3>1. Lasting(r) \subseteq grounds /\ Lasting(r) \subseteq Contents
      BY LastingWasFound
    <3>2. Promise!Remember(Lasting(r))
      BY <1>2, <2>1, <3>1 DEF Upsert, Promise!Remember
    <3>3. DOMAIN points' = DOMAIN points \cup Lasting(r)
      BY <1>2, <2>1 DEF Upsert
    <3>4. MemoryInv'
      BY <1>2, <3>1, <3>3 DEF Upsert, MemoryInv
    <3>5. QED
      BY <3>1, <3>2, <3>4 DEF Promise!Next
  <2>2. CASE ~(up /\ exists)
    BY <1>2, <2>2 DEF Upsert, MemoryInv
  <2>3. QED
    BY <2>1, <2>2
<1>3. ASSUME NEW r \in Runs,
             \/ Retrieve(r) \/ CheckCollection(r) \/ CreateCollection(r)
             \/ SeeEmbedder(r) \/ TakeLock(r) \/ LookAgain(r) \/ BuildEmbedder(r)
             \/ Query(r) \/ StoreRun(r)
      PROVE  UNCHANGED <<points, grounds, plan, day, found>>
  BY <1>3 DEF Retrieve, CheckCollection, CreateCollection, SeeEmbedder, TakeLock,
              LookAgain, BuildEmbedder, Query, StoreRun
<1>4. CASE GcScan
  <2>1. CASE plan' = plan
    BY <1>4, <2>1 DEF GcScan, MemoryInv
  <2>2. CASE plan' # plan
    <3>1. plan' = {c \in DOMAIN points :
                     DecayFactor(day - points[c].born, points[c].vol) < Threshold}
      BY <1>4, <2>2 DEF GcScan
    <3>2. plan' \subseteq Contents
      BY <3>1 DEF MemoryInv
    <3>3. Promise!Mark(plan')
      BY <1>4, <3>1, Decay DEF GcScan, Promise!Mark, Promise!Faded
    <3>4. MemoryInv'
      BY <1>4, <3>2 DEF GcScan, MemoryInv
    <3>5. QED
      BY <3>2, <3>3, <3>4 DEF Promise!Next
  <2>3. QED
    BY <2>1, <2>2
<1>5. CASE GcDelete
  <2>1. Promise!Forget
    BY <1>5 DEF GcDelete, Promise!Forget
  <2>2. DOMAIN points' \subseteq DOMAIN points
    BY <1>5 DEF GcDelete
  <2>3. MemoryInv'
    BY <1>5, <2>2 DEF GcDelete, MemoryInv
  <2>4. QED
    BY <2>1, <2>3 DEF Promise!Next
<1>6. CASE Reset
  <2>1. Promise!Wipe
    BY <1>6 DEF Reset, Promise!Wipe, Promise!Nothing, Empty
  <2>2. DOMAIN points' = {}
    BY <1>6 DEF Reset, Empty
  <2>3. QED
    BY <1>6, <2>1, <2>2 DEF Reset, MemoryInv, Promise!Next
<1>7. CASE NextDay
  BY <1>7 DEF NextDay, Promise!Next, Promise!Pass, MemoryInv
<1>8. CASE Outage \/ (\E p \in Processes : Build(p)) \/ UNCHANGED vars
  BY <1>8 DEF Outage, Build, MemoryInv
<1>9. ASSUME UNCHANGED <<points, grounds, plan, day, found>>
      PROVE  MemoryInv' /\ UNCHANGED <<points, grounds, plan, day>>
  BY <1>9 DEF MemoryInv
<1>10. QED
  BY <1>1, <1>2, <1>3, <1>4, <1>5, <1>6, <1>7, <1>8, <1>9 DEF Next, RunStep

\* A fact enters memory or grows young again only because retrieval found it,
\* recalling leaves no trace, and the collector drops only what had faded:
\* semantic_memory.py, qdrant_store.py and gc_memory.py against LongTermMemory.
THEOREM MemoryKeepsPromise == Spec => ImplementsMemory
<1>1. Spec => []MemoryInv
  BY MemoryInit, MemoryStep, PTL DEF Spec
<1>2. QED
  BY <1>1, MemoryInit, MemoryStep, PTL DEF Spec, ImplementsMemory, Promise!Spec

-----------------------------------------------------------------------------
(* Recall is fair.                                                          *)

\* Ahead is an order of any facts.
LEMMA AheadIsOrder ==
  ASSUME NEW S \in SUBSET Contents, NEW worth, \A c \in S : worth[c] \in Int
  PROVE  IsOrder([c \in S |-> {d \in S : Ahead(d, c, worth)}], S)
<1> DEFINE Below == [c \in S |-> {d \in S : Ahead(d, c, worth)}]
<1>1. \A c \in S : worth[c] \in Int /\ Similarity[c] \in Int /\ TieOrder[c] \in Int
  OBVIOUS
<1>2. \A c \in S : ~Ahead(c, c, worth)
  BY <1>1 DEF Ahead
<1>3. \A c, d, e \in S : Ahead(e, d, worth) /\ Ahead(d, c, worth) => Ahead(e, c, worth)
  BY <1>1 DEF Ahead
<1>4. \A c, d \in S : c = d \/ Ahead(c, d, worth) \/ Ahead(d, c, worth)
  BY <1>1 DEF Ahead
<1>5. \A c, d \in S : d \in Below[c] <=> Ahead(d, c, worth)
  OBVIOUS
<1>6. Below \in [S -> SUBSET S]
  OBVIOUS
<1> HIDE DEF Below
<1>7. \A c, d \in S : d \in Below[c] => Below[d] \subseteq Below[c]
  BY <1>3, <1>5, <1>6
<1>8. QED
  BY <1>2, <1>4, <1>5, <1>6, <1>7 DEF IsOrder, Below

\* The best n are n at most, fewer only if there are no more, and whatever is
\* left out comes after each of them.
LEMMA TheBest ==
  ASSUME NEW S \in SUBSET Contents, NEW worth, \A c \in S : worth[c] \in Int, NEW n \in Nat
  PROVE  LET best == Best(S, worth, n)
         IN /\ best \subseteq S /\ IsFiniteSet(best) /\ Cardinality(best) <= n
            /\ best # S => Cardinality(best) = n
            /\ \A c \in S \ best, d \in best : worth[d] >= worth[c]
<1> DEFINE Below == [c \in S |-> {d \in S : Ahead(d, c, worth)}]
           First == {c \in S : Cardinality(Below[c]) < n}
<1>1. IsFiniteSet(S)
  BY FS_Subset
<1>2. IsOrder(Below, S)
  BY AheadIsOrder
<1>3. Best(S, worth, n) = First
  BY DEF Best
<1>4. \A c, d \in S : d \in Below[c] => worth[d] >= worth[c]
  BY DEF Ahead
<1> HIDE DEF Below
<1>5. /\ IsFiniteSet(First) /\ Cardinality(First) <= n
      /\ First # S => Cardinality(First) = n
      /\ \A c \in S \ First, d \in First : d \in Below[c]
  BY <1>1, <1>2, FirstN
<1>6. First \subseteq S
  OBVIOUS
<1> HIDE DEF First
<1>7. QED
  BY <1>3, <1>4, <1>5, <1>6

\* A fact decays to nothing at worst, and never gains.
LEMMA DecayIsPart ==
  ASSUME NEW age \in Int, NEW vol
  PROVE  DecayFactor(age, vol) \in 0..Full
<1> DEFINE old == IF age > 0 THEN age ELSE 0
           n == old \div HalfLife(vol)
           parts == {part \in 0..Full : part * 2^n <= Full}
<1>1. Full \in Nat
  BY DecayAssumption
<1>2. old \in Nat /\ HalfLife(vol) \in Nat /\ HalfLife(vol) > 0
  BY DecayAssumption DEF HalfLife
<1> HIDE DEF old
<1>3. n \in Nat
  BY <1>2, Quotient
<1> HIDE DEF n
<1>4. 2^n \in Int
  BY <1>3
<1>5. 0 \in parts
  <2> DEFINE power == 2^n
  <2> HIDE DEF power
  <2>1. 0 * power <= Full
    BY <1>1, <1>4 DEF power
  <2>2. QED
    BY <1>1, <2>1 DEF power
<1>6. parts \subseteq 0..Full
  OBVIOUS
<1> HIDE DEF parts
<1>7. PICK most \in parts : \A y \in parts : y <= most
  <2>1. parts \subseteq Int /\ parts # {} /\ Full \in Int /\ \A y \in parts : y <= Full
    BY <1>1, <1>5, <1>6
  <2>2. QED
    BY <2>1, GreatestElement
<1>8. \A y \in parts : most >= y
  BY <1>1, <1>6, <1>7
<1>9. Max(parts) \in parts
  BY <1>7, <1>8 DEF Max
<1>10. CASE vol = "stable"
  BY <1>1, <1>10 DEF DecayFactor
<1>11. CASE vol # "stable"
  BY <1>6, <1>9, <1>11 DEF DecayFactor, Halved, parts, n, old
<1>12. QED
  BY <1>10, <1>11

\* What a search is over: facts, with days they were born on.
IsMemory(pts) ==
  /\ DOMAIN pts \subseteq Contents
  /\ \A c \in DOMAIN pts : pts[c].born \in Int

LEMMA Products ==
  ASSUME NEW s \in Nat, NEW f \in Nat, NEW d \in 0..f
  PROVE  s * d \in Nat /\ s * d <= s * f
<1>1. f - d \in Nat
  OBVIOUS
<1>2. s * (f - d) \in Nat /\ s * d \in Nat
  BY <1>1
<1>3. s * f = s * d + s * (f - d)
  OBVIOUS
<1>4. QED
  BY <1>2, <1>3

LEMMA WorthIsPart ==
  ASSUME NEW pts, IsMemory(pts), NEW when \in Int, NEW c \in DOMAIN pts
  PROVE  /\ Worth(pts, when)[c] \in 0..(Similarity[c] * Full)
         /\ ServerWorth(pts, when)[c] \in 0..(Similarity[c] * Full)
<1> DEFINE age == when - pts[c].born
           distance == IF when >= pts[c].born THEN when - pts[c].born
                       ELSE pts[c].born - when
           here == DecayFactor(age, Coerce(pts[c].vol))
           there == DecayFactor(distance, pts[c].vol)
           s == Similarity[c]
<1>1. s \in Nat /\ pts[c].born \in Int /\ Full \in Nat
  BY DecayAssumption DEF IsMemory
<1>2. age \in Int /\ distance \in Int
  BY <1>1
<1> HIDE DEF age, distance
<1>3. here \in 0..Full /\ there \in 0..Full
  BY <1>2, DecayIsPart
<1>4. Worth(pts, when)[c] = s * here
  BY DEF Worth, age
<1>5. ServerWorth(pts, when)[c] \in {0, s * there}
  BY DEF ServerWorth, distance
<1> HIDE DEF here, there, s
<1>6. /\ s * here \in Nat /\ s * here <= s * Full
      /\ s * there \in Nat /\ s * there <= s * Full
  BY <1>1, <1>3, Products
<1>7. s * Full \in Nat
  BY <1>1
<1>8. QED
  BY <1>4, <1>5, <1>6, <1>7 DEF s

\* The floor on the server is no lower.
LEMMA ServerFloor ==
  ASSUME NEW s \in Nat, NEW w \in 0..(s * Full), w >= MinSimilarity * Full
  PROVE  s >= MinSimilarity
<1>1. MinSimilarity \in Nat /\ Full \in Nat /\ Full > 0
  BY DecayAssumption
<1>2. s * Full >= MinSimilarity * Full
  BY <1>1
<1>3. ASSUME s < MinSimilarity PROVE FALSE
  <2>1. (MinSimilarity - s) * Full >= Full
    <3>1. MinSimilarity - s - 1 \in Nat
      BY <1>1, <1>3
    <3>2. (MinSimilarity - s - 1) * Full \in Nat
      BY <1>1, <3>1
    <3>3. (MinSimilarity - s) * Full = (MinSimilarity - s - 1) * Full + Full
      BY <1>1
    <3>4. QED
      BY <1>1, <3>2, <3>3
  <2>2. (MinSimilarity - s) * Full = MinSimilarity * Full - s * Full
    BY <1>1
  <2>3. QED
    BY <1>1, <1>2, <2>1, <2>2
<1>4. QED
  BY <1>1, <1>3

\* What a search answers is fair.
LEMMA RecallWasFair ==
  ASSUME NEW pts, IsMemory(pts), NEW when \in Int, NEW server \in BOOLEAN
  PROVE  LET answer == Recall(server, pts, when)
             worth == Worth(pts, when)
             ids == {e.id : e \in answer}
         IN /\ Cardinality(ids) <= TopK
            /\ \A e \in answer : /\ Similarity[e.id] >= MinSimilarity
                                 /\ e.score <= Similarity[e.id] * Full
            /\ ~server => \A c \in DOMAIN pts \ ids :
                 \/ Similarity[c] < MinSimilarity
                 \/ c \notin Nearest(pts, 2 * TopK)
                 \/ Cardinality(ids) = TopK /\ \A d \in ids : worth[d] >= worth[c]
<1> DEFINE there == ServerWorth(pts, when)
           worth == Worth(pts, when)
           near == {c \in Nearest(pts, 2 * TopK) : Similarity[c] >= MinSimilarity}
           wide == Nearest(pts, 4 * TopK)
           first == Best(wide, there, TopK)
           kept == {d \in first : there[d] >= MinSimilarity * Full}
           best == Best(near, worth, TopK)
<1>1. /\ DOMAIN pts \in SUBSET Contents /\ TopK \in Nat
      /\ \A c \in DOMAIN pts : Similarity[c] \in Nat /\ Similarity[c] \in Int
  BY DEF IsMemory
<1>2. /\ 2 * TopK \in Nat /\ 4 * TopK \in Nat /\ Full \in Nat
  BY <1>1, DecayAssumption
<1>3. /\ Nearest(pts, 2 * TopK) \subseteq DOMAIN pts
      /\ wide \subseteq DOMAIN pts
  BY <1>1, <1>2, TheBest DEF Nearest
<1>4. \A c \in DOMAIN pts :
         /\ worth[c] \in 0..(Similarity[c] * Full) /\ there[c] \in 0..(Similarity[c] * Full)
  BY WorthIsPart
<1>5. \A c \in DOMAIN pts : /\ worth[c] \in Int /\ worth[c] <= Similarity[c] * Full
                            /\ there[c] \in Int /\ there[c] <= Similarity[c] * Full
  <2> HIDE DEF worth, there
  <2>1. \A c \in DOMAIN pts : Similarity[c] * Full \in Nat
    BY <1>1, <1>2
  <2>2. QED
    BY <1>4, <2>1
<1> DEFINE answer == Recall(server, pts, when)
           ids == {e.id : e \in answer}
<1>6. CASE server
  <2>1. answer = {[id |-> c, score |-> there[c]] : c \in kept}
    BY <1>6 DEF Recall
  <2> HIDE DEF there, kept, first, wide, answer
  <2>2. ids = kept
    <3>1. ASSUME NEW c \in kept PROVE c \in ids
      <4> DEFINE e == [id |-> c, score |-> there[c]]
      <4>1. e \in answer /\ e.id = c
        BY <2>1
      <4> HIDE DEF e
      <4>2. QED
        BY <4>1
    <3>2. \A e \in answer : \E c \in kept : e.id = c
      BY <2>1
    <3>3. QED
      BY <3>1, <3>2
  <2>3. wide \in SUBSET Contents /\ \A c \in wide : there[c] \in Int
    BY <1>1, <1>3, <1>5
  <2>4. first \subseteq wide /\ IsFiniteSet(first) /\ Cardinality(first) <= TopK
    BY <1>1, <2>3, TheBest DEF first
  <2>5. kept \subseteq first
    BY DEF kept
  <2>6. Cardinality(kept) <= TopK
    <3>1. Cardinality(kept) <= Cardinality(first) /\ Cardinality(kept) \in Nat
          /\ Cardinality(first) \in Nat
      BY <2>4, <2>5, AtMost
    <3>2. QED
      BY <1>1, <2>4, <3>1
  <2>7. ASSUME NEW e \in answer
        PROVE  Similarity[e.id] >= MinSimilarity /\ e.score <= Similarity[e.id] * Full
    <3>1. PICK c \in kept : e = [id |-> c, score |-> there[c]]
      BY <2>1, <2>7
    <3>2. e.id = c /\ e.score = there[c]
      BY <3>1
    <3>3. c \in DOMAIN pts /\ there[c] >= MinSimilarity * Full
      BY <1>3, <2>4, <2>5 DEF kept
    <3>4. Similarity[c] >= MinSimilarity
      <4> DEFINE w == there[c]
                 s == Similarity[c]
      <4>1. s \in Nat /\ w \in 0..(s * Full) /\ w >= MinSimilarity * Full
        BY <1>1, <1>4, <3>3
      <4> HIDE DEF w, s
      <4>2. s >= MinSimilarity
        BY <4>1, ServerFloor
      <4>3. QED
        BY <4>2 DEF s
    <3>5. QED
      BY <1>5, <3>2, <3>3, <3>4
  <2>8. QED
    BY <1>6, <2>2, <2>6, <2>7 DEF answer
<1>7. CASE ~server
  <2>1. answer = {[id |-> c, score |-> worth[c]] : c \in best}
    BY <1>7 DEF Recall
  <2>2. /\ near \subseteq DOMAIN pts
        /\ \A c \in DOMAIN pts : c \in near <=> /\ c \in Nearest(pts, 2 * TopK)
                                                /\ Similarity[c] >= MinSimilarity
    BY <1>3
  <2> HIDE DEF worth, near, best, answer
  <2>3. ids = best
    <3>1. ASSUME NEW c \in best PROVE c \in ids
      <4> DEFINE e == [id |-> c, score |-> worth[c]]
      <4>1. e \in answer /\ e.id = c
        BY <2>1
      <4> HIDE DEF e
      <4>2. QED
        BY <4>1
    <3>2. \A e \in answer : \E c \in best : e.id = c
      BY <2>1
    <3>3. QED
      BY <3>1, <3>2
  <2>4. near \in SUBSET Contents /\ \A c \in near : worth[c] \in Int
    BY <1>1, <1>5, <2>2
  <2>5. /\ best \subseteq near /\ Cardinality(best) <= TopK
        /\ best # near => Cardinality(best) = TopK
        /\ \A c \in near \ best, d \in best : worth[d] >= worth[c]
    BY <1>1, <2>4, TheBest DEF best
  <2>6. ASSUME NEW e \in answer
        PROVE  Similarity[e.id] >= MinSimilarity /\ e.score <= Similarity[e.id] * Full
    <3>1. PICK c \in best : e = [id |-> c, score |-> worth[c]]
      BY <2>1, <2>6
    <3>2. e.id = c /\ e.score = worth[c]
      BY <3>1
    <3>3. QED
      BY <1>5, <2>2, <2>5, <3>2
  <2>7. ASSUME NEW c \in DOMAIN pts \ best
        PROVE  \/ Similarity[c] < MinSimilarity
               \/ c \notin Nearest(pts, 2 * TopK)
               \/ Cardinality(best) = TopK /\ \A d \in best : worth[d] >= worth[c]
    <3>1. CASE c \in near
      BY <2>5, <2>7, <3>1
    <3>2. CASE c \notin near
      BY <1>1, <2>2, <2>7, <3>2
    <3>3. QED
      BY <3>1, <3>2
  <2>8. QED
    BY <2>3, <2>5, <2>6, <2>7 DEF answer, worth
<1>8. QED
  BY <1>6, <1>7

\* What a run recalled is what its search answered, whatever happened to the
\* points since.
FairInv ==
  /\ serverSide \in BOOLEAN /\ day \in Int /\ IsMemory(points)
  /\ asked = [r \in Runs |-> asked[r]] /\ recalled = [r \in Runs |-> recalled[r]]
  /\ \A r \in Runs : /\ IsMemory(asked[r].points) /\ asked[r].day \in Int
                     /\ recalled[r] = Recall(serverSide, asked[r].points, asked[r].day)

LEMMA NothingToRecall ==
  ASSUME NEW server
  PROVE  IsMemory(Empty) /\ Recall(server, Empty, 0) = {}
<1>1. DOMAIN Empty = {}
  BY DEF Empty
<1>2. \A n : Nearest(Empty, n) = {}
  BY <1>1 DEF Nearest, Best
<1>3. \A worth, n : Best({}, worth, n) = {}
  BY DEF Best
<1>4. \A n : {c \in Nearest(Empty, n) : Similarity[c] >= MinSimilarity} = {}
  BY <1>2
<1>5. Recall(server, Empty, 0) = {}
  <2>1. CASE server
    BY <1>2, <1>3, <2>1 DEF Recall
  <2>2. CASE ~server
    <3> DEFINE near == {c \in Nearest(Empty, 2 * TopK) : Similarity[c] >= MinSimilarity}
               best == Best(near, Worth(Empty, 0), TopK)
    <3>1. near = {}
      BY <1>4
    <3>2. Recall(server, Empty, 0) = {[id |-> c, score |-> Worth(Empty, 0)[c]] : c \in best}
      BY <2>2 DEF Recall
    <3> HIDE DEF near
    <3>3. best = {}
      BY <1>3, <3>1
    <3>4. QED
      BY <3>2, <3>3
  <2>3. QED
    BY <2>1, <2>2
<1>6. QED
  BY <1>1, <1>5 DEF IsMemory

LEMMA FairInit == Init => FairInv
<1> SUFFICES ASSUME Init PROVE FairInv
  OBVIOUS
<1>1. serverSide \in BOOLEAN /\ day \in Int /\ IsMemory(points)
  BY DEF Init, IsMemory
<1>2. /\ Unasked.points = Empty /\ Unasked.day = 0
  BY DEF Unasked
<1>3. /\ asked = [r \in Runs |-> Unasked] /\ recalled = [r \in Runs |-> {}]
  BY DEF Init
<1>4. QED
  BY <1>1, <1>2, <1>3, NothingToRecall DEF FairInv

LEMMA FairStep == RestInv /\ FairInv /\ [Next]_vars => FairInv'
<1> SUFFICES ASSUME RestInv, FairInv, [Next]_vars PROVE FairInv'
  OBVIOUS
<1>1. ASSUME NEW r \in Runs, Query(r) PROVE FairInv'
  <2>1. CASE up /\ exists
    <3>1. /\ recalled' = [recalled EXCEPT ![r] = Recall(serverSide, points, day)]
          /\ asked' = [asked EXCEPT ![r] = [points |-> points, day |-> day]]
          /\ UNCHANGED <<serverSide, points, day>>
      BY <1>1, <2>1 DEF Query
    <3>2. \A q \in Runs : /\ asked'[q].points \in {asked[q].points, points}
                          /\ asked'[q].day \in {asked[q].day, day}
      BY <3>1 DEF FairInv
    <3>3. \A q \in Runs :
             recalled'[q] = Recall(serverSide, asked'[q].points, asked'[q].day)
      BY <3>1 DEF FairInv
    <3>4. \A q \in Runs : IsMemory(asked'[q].points) /\ asked'[q].day \in Int
      BY <3>1, <3>2 DEF FairInv
    <3>5. /\ asked' = [q \in Runs |-> asked'[q]] /\ recalled' = [q \in Runs |-> recalled'[q]]
      BY <3>1 DEF FairInv
    <3>6. QED
      BY <3>1, <3>3, <3>4, <3>5 DEF FairInv
  <2>2. CASE ~(up /\ exists)
    BY <1>1, <2>2 DEF Query, FairInv
  <2>3. QED
    BY <2>1, <2>2
<1>2. ASSUME UNCHANGED <<serverSide, asked, recalled>>, day' \in Int, IsMemory(points')
      PROVE  FairInv'
  BY <1>2 DEF FairInv
<1>3. ASSUME NEW r \in Runs, Upsert(r) PROVE FairInv'
  <2>1. CASE up /\ exists
    <3>1. /\ points' = [c \in DOMAIN points \cup Lasting(r) |->
                          IF c \in Lasting(r)
                          THEN [vol |-> "semi_stable", born |-> day] ELSE points[c]]
          /\ UNCHANGED <<serverSide, asked, recalled, day>>
      BY <1>3, <2>1 DEF Upsert
    <3>2. Lasting(r) \subseteq Contents
      BY LastingIsContents
    <3>3. IsMemory(points')
      BY <3>1, <3>2 DEF FairInv, IsMemory
    <3>4. QED
      BY <1>2, <3>1, <3>3 DEF FairInv
  <2>2. CASE ~(up /\ exists)
    BY <1>2, <1>3, <2>2 DEF Upsert, FairInv, IsMemory
  <2>3. QED
    BY <2>1, <2>2
<1>4. CASE GcDelete
  <2>1. /\ points' = points \/ points' = [c \in DOMAIN points \ plan |-> points[c]]
        /\ UNCHANGED <<serverSide, asked, recalled, day>>
    BY <1>4 DEF GcDelete
  <2>2. IsMemory(points')
    BY <2>1 DEF FairInv, IsMemory
  <2>3. QED
    BY <1>2, <2>1, <2>2 DEF FairInv
<1>5. CASE Reset
  <2>1. IsMemory(points')
    BY <1>5, NothingToRecall DEF Reset, IsMemory
  <2>2. QED
    BY <1>2, <1>5, <2>1 DEF Reset, FairInv
<1>6. CASE NextDay
  BY <1>2, <1>6 DEF NextDay, FairInv, IsMemory
<1>7. CASE GcScan \/ Outage \/ (\E p \in Processes : Build(p)) \/ UNCHANGED vars
  <2>1. UNCHANGED <<serverSide, asked, recalled, points, day>>
    BY <1>7 DEF GcScan, Outage, Build
  <2>2. QED
    BY <1>2, <2>1 DEF FairInv, IsMemory
<1>8. ASSUME NEW r \in Runs,
             \/ Retrieve(r) \/ CheckCollection(r) \/ CreateCollection(r) \/ SeeEmbedder(r)
             \/ TakeLock(r) \/ LookAgain(r) \/ BuildEmbedder(r) \/ Research(r) \/ StoreRun(r)
      PROVE  FairInv'
  <2>1. UNCHANGED <<serverSide, asked, recalled, points, day>>
    BY <1>8 DEF Retrieve, CheckCollection, CreateCollection, SeeEmbedder, TakeLock,
                LookAgain, BuildEmbedder, Research, StoreRun
  <2>2. QED
    BY <1>2, <2>1 DEF FairInv, IsMemory
<1>9. QED
  BY <1>1, <1>3, <1>4, <1>5, <1>6, <1>7, <1>8 DEF Next, RunStep

\* D-142, for any facts, ages and clocks: see RecallIsFair.
THEOREM FairRecall == Spec => []RecallIsFair
<1>1. FairInv => RecallIsFair
  <2> SUFFICES ASSUME FairInv, NEW r \in Runs
               PROVE  LET pts == asked[r].points
                          worth == Worth(pts, asked[r].day)
                          ids == {e.id : e \in recalled[r]}
                      IN /\ Cardinality(ids) <= TopK
                         /\ \A e \in recalled[r] : /\ Similarity[e.id] >= MinSimilarity
                                                   /\ e.score <= Similarity[e.id] * Full
                         /\ ~serverSide => \A c \in DOMAIN pts \ ids :
                              \/ Similarity[c] < MinSimilarity
                              \/ c \notin Nearest(pts, 2 * TopK)
                              \/ Cardinality(ids) = TopK /\ \A d \in ids : worth[d] >= worth[c]
    BY DEF RecallIsFair
  <2> DEFINE pts == asked[r].points
             when == asked[r].day
  <2>1. /\ IsMemory(pts) /\ when \in Int /\ serverSide \in BOOLEAN
        /\ recalled[r] = Recall(serverSide, pts, when)
    BY DEF FairInv
  <2> DEFINE answer == Recall(serverSide, pts, when)
             worth == Worth(pts, when)
             ids == {e.id : e \in answer}
  <2> HIDE DEF pts, when
  <2>2. /\ Cardinality(ids) <= TopK
        /\ \A e \in answer : /\ Similarity[e.id] >= MinSimilarity
                             /\ e.score <= Similarity[e.id] * Full
        /\ ~serverSide => \A c \in DOMAIN pts \ ids :
             \/ Similarity[c] < MinSimilarity
             \/ c \notin Nearest(pts, 2 * TopK)
             \/ Cardinality(ids) = TopK /\ \A d \in ids : worth[d] >= worth[c]
    BY <2>1, RecallWasFair
  <2>3. QED
    BY <2>1, <2>2 DEF pts, when
<1>2. QED
  BY <1>1, RestInit, RestStep, FairInit, FairStep, PTL DEF Spec
================================================================================
