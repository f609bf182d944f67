---------------------------- MODULE WorkerCluster ----------------------------
(***************************************************************************)
(* main.ts: the primary process forks NumWorkers workers and marks one of   *)
(* them, in its environment, as the one that runs the cron and registers    *)
(* webhooks.  A worker that exits is replaced, and the mark goes with it.   *)
(* Ids are the worker.id of node:cluster, never used twice.                 *)
(***************************************************************************)
EXTENDS Integers, FiniteSets

CONSTANTS NumWorkers, MaxForks  \* MaxForks bounds the ids

ASSUME ClusterConstants == NumWorkers \in Nat /\ NumWorkers > 1 /\ MaxForks \in Nat /\ NumWorkers <= MaxForks

WorkerIds == 1..MaxForks

VARIABLES live,        \* workers that run
          marked,      \* forked with IS_SINGLETON_WORKER = '1'
          exited,      \* 'exit' events the primary has not handled
          singletonId, \* singletonWorkerId, of the primary
          forks        \* ids given out

clusterVars == <<live, marked, exited, singletonId, forks>>

ClusterInit ==
  /\ live = 1..NumWorkers
  /\ marked = {1}
  /\ exited = {}
  /\ singletonId = 1
  /\ forks = NumWorkers

WorkerExits(w) ==
  /\ w \in live
  /\ live' = live \ {w}
  /\ exited' = exited \cup {w}
  /\ UNCHANGED <<marked, singletonId, forks>>

\* Mutant: the id of the new singleton is not remembered.
ForkAgainForgetful(w) ==
  /\ w \in exited /\ forks < MaxForks
  /\ exited' = exited \ {w}
  /\ forks' = forks + 1
  /\ live' = live \cup {forks'}
  /\ marked' = IF w = singletonId THEN marked \cup {forks'} ELSE marked
  /\ UNCHANGED singletonId

\* cluster.on('exit'): forkWorker(worker.id === singletonWorkerId).
ForkAgain(w) ==
  /\ w \in exited /\ forks < MaxForks
  /\ exited' = exited \ {w}
  /\ forks' = forks + 1
  /\ live' = live \cup {forks'}
  /\ IF w = singletonId THEN marked' = marked \cup {forks'} /\ singletonId' = forks'
     ELSE UNCHANGED <<marked, singletonId>>

ClusterTypeOK ==
  /\ live \subseteq WorkerIds /\ exited \subseteq WorkerIds /\ marked \subseteq WorkerIds
  /\ singletonId \in WorkerIds
  /\ forks \in NumWorkers..MaxForks

\* "Chi danh dau dung 1 worker": whatever dies and in which order, exactly one
\* worker that runs, or is about to be replaced, has the role.
OneCronOwner == marked \cap (live \cup exited) = {singletonId}
=============================================================================
