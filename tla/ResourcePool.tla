---------------------------- MODULE ResourcePool -----------------------------
(***************************************************************************)
(* The thread pool of Ship::ResourceManager                                *)
(* (src/src/ship/resource/ResourceManager.cpp): single loads, evictions    *)
(* (DirtyResources, UnloadResourcesAsync) and batches (LoadResources) are  *)
(* tasks of one prioritised queue, and a batch runs on a worker that waits *)
(* there for the loads it submits to the same queue.                       *)
(***************************************************************************)
EXTENDS FiniteSets, Naturals

CONSTANTS
  Workers,   \* threads of mThreadPool
  Singles,   \* calls of LoadResource and LoadResourceAsync
  Batches,   \* calls of LoadResources and LoadResourcesAsync
  Evictions, \* calls of DirtyResources and UnloadResourcesAsync
  Files,     \* virtual paths
  Sound,     \* the files a load turns into a resource
  Wants,     \* the files each call asks about
  None,      \* no task, no file
  Paused     \* Init found no archive and paused the pool

Requests == Singles \union Batches \union Evictions
Priorities == {0, 1} \* BS::pr::normal and BS::pr::highest

ASSUME SortsAssumption ==
  /\ Singles \intersect Batches = {} /\ Singles \intersect Evictions = {}
  /\ Batches \intersect Evictions = {} /\ Workers \intersect Requests = {}
ASSUME FilesAssumption == Sound \subseteq Files
ASSUME WantsAssumption ==
  /\ Wants \in [Requests -> SUBSET Files]
  /\ \A r \in Singles : \E f \in Files : Wants[r] = {f}
ASSUME NoneAssumption == None \notin Workers \union Requests \union Files
ASSUME PausedAssumption == Paused \in BOOLEAN

VARIABLES
  status,   \* Requests -> "new", "queued", "running", "resolved"
  prio,     \* Requests -> the priority it was submitted with
  cached,   \* the files GetCachedResource finds a resource for
  wpc,      \* what each worker does
  job,      \* Workers -> the task it runs; a worker stands for its leaf
  todo,     \* Workers -> the files its batch has still to load
  leafFile, \* Workers -> the file of the leaf its batch submitted
  leaf,     \* Workers -> where that leaf is
  answered  \* Requests -> the files its (future) answer has an entry for

poolVars == <<status, prio, cached, wpc, job, todo, leafFile, leaf, answered>>

PoolTypeOK ==
  /\ status \in [Requests -> {"new", "queued", "running", "resolved"}]
  /\ prio \in [Requests -> Priorities]
  /\ cached \subseteq Sound
  /\ wpc \in [Workers -> {"free", "task", "batch", "waiting"}]
  /\ job \in [Workers -> Requests \union Workers \union {None}]
  /\ todo \in [Workers -> SUBSET Files]
  /\ leafFile \in [Workers -> Files \union {None}]
  /\ leaf \in [Workers -> {"none", "queued", "running", "done"}]
  /\ answered \in [Requests -> SUBSET Files]

PoolInit ==
  /\ status = [r \in Requests |-> "new"]
  /\ prio = [r \in Requests |-> 0]
  /\ cached = {}
  /\ wpc = [w \in Workers |-> "free"]
  /\ job = [w \in Workers |-> None]
  /\ todo = [w \in Workers |-> {}]
  /\ leafFile = [w \in Workers |-> None]
  /\ leaf = [w \in Workers |-> "none"]
  /\ answered = [r \in Requests |-> {}]

Queue == {r \in Requests : status[r] = "queued"} \union {w \in Workers : leaf[w] = "queued"}
Urgency(i) == IF i \in Workers THEN 1 ELSE prio[i]

------------------------------------------------------------------------------
(* A call from outside the pool: a cached resource is answered at once, and*)
(* anything else is queued with p, highest for the calls that then wait.   *)
Submit(r, p) ==
  /\ status[r] = "new"
  /\ prio' = [prio EXCEPT ![r] = p]
  /\ IF r \in Singles /\ Wants[r] \subseteq cached
     THEN /\ status' = [status EXCEPT ![r] = "resolved"]
          /\ answered' = [answered EXCEPT ![r] = Wants[r]]
     ELSE /\ status' = [status EXCEPT ![r] = "queued"]
          /\ UNCHANGED answered
  /\ UNCHANGED <<cached, wpc, job, todo, leafFile, leaf>>

(* A free worker takes one of the queue's most urgent tasks.               *)
Take(w) ==
  /\ wpc[w] = "free" /\ ~Paused
  /\ \E i \in Queue :
       /\ \A j \in Queue : Urgency(j) <= Urgency(i)
       /\ job' = [job EXCEPT ![w] = i]
       /\ IF i \in Workers
          THEN leaf' = [leaf EXCEPT ![i] = "running"] /\ UNCHANGED status
          ELSE status' = [status EXCEPT ![i] = "running"] /\ UNCHANGED leaf
       /\ wpc' = [wpc EXCEPT ![w] = IF i \in Batches THEN "batch" ELSE "task"]
       /\ todo' = [todo EXCEPT ![w] = IF i \in Batches THEN Wants[i] ELSE {}]
  /\ UNCHANGED <<prio, cached, leafFile, answered>>

Resolve(r) ==
  /\ status' = [status EXCEPT ![r] = "resolved"]
  /\ answered' = [answered EXCEPT ![r] = Wants[r]]

Idle(w) ==
  /\ wpc' = [wpc EXCEPT ![w] = "free"]
  /\ job' = [job EXCEPT ![w] = None]

(* LoadResourceProcess for a caller outside the pool.                      *)
RunLoad(w) ==
  /\ wpc[w] = "task" /\ job[w] \in Singles
  /\ cached' = cached \union (Wants[job[w]] \intersect Sound)
  /\ Resolve(job[w])
  /\ Idle(w)
  /\ UNCHANGED <<prio, todo, leafFile, leaf>>

(* Mutant of RunLeaf: the load's nullptr is kept as if it were a resource. *)
RunLeafKeeping(w) ==
  /\ wpc[w] = "task" /\ job[w] \in Workers
  /\ cached' = cached \union {leafFile[job[w]]}
  /\ leaf' = [leaf EXCEPT ![job[w]] = "done"]
  /\ Idle(w)
  /\ UNCHANGED <<status, prio, todo, leafFile, answered>>

(* Mutant of RunLeaf: the promise of a load that fails is never set.       *)
RunLeafSilent(w) ==
  /\ wpc[w] = "task" /\ job[w] \in Workers
  /\ cached' = cached \union ({leafFile[job[w]]} \intersect Sound)
  /\ leaf' = [leaf EXCEPT ![job[w]] = IF leafFile[job[w]] \in Sound THEN "done" ELSE "none"]
  /\ Idle(w)
  /\ UNCHANGED <<status, prio, todo, leafFile, answered>>

(* LoadResourceProcess for the batch of another worker.                    *)
RunLeaf(w) ==
  /\ wpc[w] = "task" /\ job[w] \in Workers
  /\ cached' = cached \union ({leafFile[job[w]]} \intersect Sound)
  /\ leaf' = [leaf EXCEPT ![job[w]] = "done"]
  /\ Idle(w)
  /\ UNCHANGED <<status, prio, todo, leafFile, answered>>

(* DirtyResources and UnloadResourcesProcess leave no clean entry behind.  *)
RunEviction(w) ==
  /\ wpc[w] = "task" /\ job[w] \in Evictions
  /\ cached' = cached \ Wants[job[w]]
  /\ Resolve(job[w])
  /\ Idle(w)
  /\ UNCHANGED <<prio, todo, leafFile, leaf>>

(* LoadResourcesProcess, one file of its list: LoadResource finds it in the*)
(* cache, or submits a load and waits for it on this worker.               *)
BatchStep(w) ==
  /\ wpc[w] = "batch" /\ todo[w] # {}
  /\ \E f \in todo[w] :
       IF f \in cached
       THEN /\ todo' = [todo EXCEPT ![w] = @ \ {f}]
            /\ answered' = [answered EXCEPT ![job[w]] = @ \union {f}]
            /\ UNCHANGED <<leafFile, leaf, wpc>>
       ELSE /\ leafFile' = [leafFile EXCEPT ![w] = f]
            /\ leaf' = [leaf EXCEPT ![w] = "queued"]
            /\ wpc' = [wpc EXCEPT ![w] = "waiting"]
            /\ UNCHANGED <<todo, answered>>
  /\ UNCHANGED <<status, prio, cached, job>>

(* Mutant of BatchResume: only files that were loaded get an entry.        *)
BatchResumeLoaded(w) ==
  /\ wpc[w] = "waiting" /\ leaf[w] = "done"
  /\ wpc' = [wpc EXCEPT ![w] = "batch"]
  /\ leaf' = [leaf EXCEPT ![w] = "none"]
  /\ todo' = [todo EXCEPT ![w] = @ \ {leafFile[w]}]
  /\ leafFile' = [leafFile EXCEPT ![w] = None]
  /\ answered' = [answered EXCEPT ![job[w]] = @ \union ({leafFile[w]} \intersect cached)]
  /\ UNCHANGED <<status, prio, cached, job>>

(* The future of the leaf is ready: its answer, resource or nullptr, is    *)
(* pushed on the batch's list.                                             *)
BatchResume(w) ==
  /\ wpc[w] = "waiting" /\ leaf[w] = "done"
  /\ wpc' = [wpc EXCEPT ![w] = "batch"]
  /\ leaf' = [leaf EXCEPT ![w] = "none"]
  /\ todo' = [todo EXCEPT ![w] = @ \ {leafFile[w]}]
  /\ leafFile' = [leafFile EXCEPT ![w] = None]
  /\ answered' = [answered EXCEPT ![job[w]] = @ \union {leafFile[w]}]
  /\ UNCHANGED <<status, prio, cached, job>>

BatchDone(w) ==
  /\ wpc[w] = "batch" /\ todo[w] = {}
  /\ status' = [status EXCEPT ![job[w]] = "resolved"]
  /\ Idle(w)
  /\ UNCHANGED <<prio, cached, todo, leafFile, leaf, answered>>

Work(w) ==
  \/ Take(w) \/ RunLoad(w) \/ RunLeaf(w) \/ RunEviction(w)
  \/ BatchStep(w) \/ BatchResume(w) \/ BatchDone(w)

PoolNext ==
  \/ \E r \in Requests, p \in Priorities : Submit(r, p)
  \/ \E w \in Workers : Work(w)

(* The workers are OS threads: one that can go on does so in the end.      *)
Fairness == \A w \in Workers : WF_poolVars(Work(w))

PoolSpec == PoolInit /\ [][PoolNext]_poolVars /\ Fairness

------------------------------------------------------------------------------
(* ResourceManager.h promises futures that resolve: the pool implements    *)
(* the request board, liveness included, when batches are fewer than       *)
(* workers.                                                                *)
Board == INSTANCE RequestBoard WITH
  status <- [r \in Requests |-> IF status[r] \in {"queued", "running"} THEN "pending"
                                                                       ELSE status[r]],
  answered <- [r \in Requests |-> IF status[r] = "resolved" THEN answered[r] ELSE {}]
BoardSpec == Board!Spec

(* A worker that has something to do.                                      *)
CanWork(w) ==
  \/ wpc[w] \in {"task", "batch"}
  \/ wpc[w] = "waiting" /\ leaf[w] = "done"
  \/ wpc[w] = "free" /\ Queue # {} /\ ~Paused

(* Every worker is held by a batch that waits for a load nobody has taken. *)
Deadlocked == \A w \in Workers : wpc[w] = "waiting" /\ leaf[w] = "queued"

(* As long as a call is unanswered some worker can go on, unless Init has  *)
(* paused the pool or every worker is held by a waiting batch: the nested  *)
(* wait of LoadResourcesProcess blocks the pool in no other way.           *)
PoolAlive ==
  (\E r \in Requests : status[r] \in {"queued", "running"}) =>
    Paused \/ Deadlocked \/ \E w \in Workers : CanWork(w)
==============================================================================
