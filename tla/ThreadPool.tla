----------------------------- MODULE ThreadPool -----------------------------
(***************************************************************************)
(* The thread pool of src/lib/thread_pool.rs, which start_threaded         *)
(* (src/lib/server.rs) gives one job per accepted connection.              *)
(*                                                                         *)
(* The owner of the pool sends messages on an unbounded mpsc channel; the  *)
(* workers share its receiver behind a Mutex and hold that Mutex while     *)
(* they wait in recv().  A job runs without catch_unwind, so its panic     *)
(* ends the worker.  Dropping the pool sends one Kill per worker and then  *)
(* joins the workers in order.                                             *)
(*                                                                         *)
(* The channel is kept as the sequence of everything ever sent and the     *)
(* number of messages received: message p is sent[p], and a job is named   *)
(* by its position.                                                        *)
(*                                                                         *)
(* Definitions named ...Mutant are plausible bugs of the definition they   *)
(* precede.  The specification does not use them; each one makes a         *)
(* property fail (README, "Mutants").                                      *)
(***************************************************************************)
EXTENDS Integers, Sequences, FiniteSets

CONSTANTS Size,     \* the number of threads (ThreadPool::new)
          MaxJobs   \* bound: how many jobs the owner submits

ASSUME SizeAssumption == Size \in Nat \ {0}     \* assert!(size > 0)
ASSUME MaxJobsAssumption == MaxJobs \in Nat

VARIABLES
  sent,       \* every message sent so far, in order
  taken,      \* how many of them were received
  lock,       \* the worker that holds Mutex<Receiver>, or NoWorker
  worker,     \* where each worker thread is
  got,        \* the position of the last message each worker received
  returned,   \* the jobs that returned
  panicked,   \* the jobs that panicked
  owner,      \* where the thread that owns the pool is
  unwinding,  \* whether the pool is being dropped by a panic
  kills,      \* the loop counter of drop: Kill messages sent
  joined      \* the loop counter of drop: workers joined

vars == <<sent, taken, lock, worker, got, returned, panicked,
          owner, unwinding, kills, joined>>

workerVars == <<taken, lock, worker, got, returned, panicked>>
ownerVars == <<sent, owner, unwinding, kills, joined>>

Workers == 1..Size
NoWorker == 0

TypeOK ==
  /\ sent \in Seq({"Job", "Kill"})
  /\ taken \in 0..Len(sent)
  /\ lock \in Workers \cup {NoWorker}
  /\ worker \in [Workers -> {"idle", "recv", "running", "exited", "dead"}]
  /\ got \in [Workers -> 0..Len(sent)]
  /\ returned \subseteq 1..taken
  /\ panicked \subseteq 1..taken
  /\ owner \in {"up", "dropping", "done", "panicked", "aborted"}
  /\ unwinding \in BOOLEAN
  /\ kills \in 0..Size
  /\ joined \in 0..Size

Init ==
  /\ sent = <<>>
  /\ taken = 0
  /\ lock = NoWorker
  /\ worker = [w \in Workers |-> "idle"]
  /\ got = [w \in Workers |-> 0]
  /\ returned = {}
  /\ panicked = {}
  /\ owner = "up"
  /\ unwinding = FALSE
  /\ kills = 0
  /\ joined = 0

(* A worker thread that ended dropped its Arc of the receiver; the channel *)
(* is gone for the sender once every worker did.                           *)
Gone(w) == worker[w] \in {"exited", "dead"}
OneWorkerGoneMutant == \E w \in Workers : Gone(w)
ReceiverDropped == \A w \in Workers : Gone(w)

(* The sender is a field of the pool: it is dropped after Drop::drop.      *)
SenderDropped == owner \in {"done", "panicked"}

-----------------------------------------------------------------------------
(* The owner.                                                              *)

Execute ==
  /\ owner = "up"
  /\ Len(sent) < MaxJobs
  /\ ~ReceiverDropped
  /\ sent' = Append(sent, "Job")
  /\ UNCHANGED <<workerVars, owner, unwinding, kills, joined>>

(* send(job).unwrap() panics; unwinding the owner drops the pool.          *)
ExecuteFails ==
  /\ owner = "up"
  /\ ReceiverDropped
  /\ owner' = "dropping"
  /\ unwinding' = TRUE
  /\ UNCHANGED <<workerVars, sent, kills, joined>>

DropPool ==
  /\ owner = "up"
  /\ owner' = "dropping"
  /\ UNCHANGED <<workerVars, sent, unwinding, kills, joined>>

(* A panic in drop ends it; a panic in a drop that a panic caused aborts   *)
(* the process.                                                            *)
DropRetriesMutant == UNCHANGED owner
DropPanics == owner' = IF unwinding THEN "aborted" ELSE "panicked"

(* The first loop of drop: one Kill for each thread.                       *)
KillsLeft == kills < Size
KilledThisWorkerMutant == kills > joined
AllKillsSent == kills = Size

SendKill ==
  /\ owner = "dropping"
  /\ KillsLeft
  /\ ~ReceiverDropped
  /\ sent' = Append(sent, "Kill")
  /\ kills' = kills + 1
  /\ UNCHANGED <<workerVars, owner, unwinding, joined>>

SendKillFails ==
  /\ owner = "dropping"
  /\ KillsLeft
  /\ ReceiverDropped
  /\ DropPanics
  /\ UNCHANGED <<workerVars, sent, unwinding, kills, joined>>

(* The second loop of drop: wait for the next worker to end.  Joining a    *)
(* worker that panicked returns Err, and the unwrap panics.                *)
JoinsAnyMutant(w) == Gone(w)
JoinsOk(w) == worker[w] = "exited"

Join ==
  /\ owner = "dropping"
  /\ AllKillsSent
  /\ JoinsOk(joined + 1)
  /\ joined' = joined + 1
  /\ owner' = IF joined + 1 = Size THEN "done" ELSE owner
  /\ UNCHANGED <<workerVars, sent, unwinding, kills>>

JoinFails ==
  /\ owner = "dropping"
  /\ AllKillsSent
  /\ worker[joined + 1] = "dead"
  /\ DropPanics
  /\ UNCHANGED <<workerVars, sent, unwinding, kills, joined>>

-----------------------------------------------------------------------------
(* The workers: one loop iteration is Acquire, Recv and, for a job, the    *)
(* job.  After an abort no thread runs.                                    *)

LockHeldDuringJobMutant ==
  lock = NoWorker /\ \A w \in Workers : worker[w] # "running"
LockFree == lock = NoWorker

(* force_lock: a poisoned mutex is taken like any other.                   *)
Acquire(w) ==
  /\ owner # "aborted"
  /\ worker[w] = "idle"
  /\ LockFree
  /\ lock' = w
  /\ worker' = [worker EXCEPT ![w] = "recv"]
  /\ UNCHANGED <<ownerVars, taken, got, returned, panicked>>

(* What recv() returns when it returns: it blocks while nothing is queued  *)
(* and the sender is alive.                                                *)
Received == IF taken < Len(sent) THEN sent[taken + 1] ELSE "Disconnected"

AfterRecvStopFlagMutant(m) ==
  IF m = "Job" /\ owner # "dropping" THEN "running" ELSE "exited"

AfterRecv(m) == CASE m = "Job" -> "running"
                  [] m = "Kill" -> "exited"
                  [] OTHER -> "dead"          \* recv().unwrap() panics

(* recv() returns, and the guard of the mutex, a temporary, is dropped.    *)
Recv(w) ==
  /\ owner # "aborted"
  /\ worker[w] = "recv"
  /\ taken < Len(sent) \/ SenderDropped
  /\ worker' = [worker EXCEPT ![w] = AfterRecv(Received)]
  /\ got' = [got EXCEPT ![w] = IF taken < Len(sent) THEN taken + 1 ELSE 0]
  /\ taken' = IF taken < Len(sent) THEN taken + 1 ELSE taken
  /\ lock' = NoWorker
  /\ UNCHANGED <<ownerVars, returned, panicked>>

JobReturns(w) ==
  /\ owner # "aborted"
  /\ worker[w] = "running"
  /\ worker' = [worker EXCEPT ![w] = "idle"]
  /\ returned' = returned \cup {got[w]}
  /\ UNCHANGED <<ownerVars, taken, lock, got, panicked>>

JobPanics(w) ==
  /\ owner # "aborted"
  /\ worker[w] = "running"
  /\ worker' = [worker EXCEPT ![w] = "dead"]
  /\ panicked' = panicked \cup {got[w]}
  /\ UNCHANGED <<ownerVars, taken, lock, got, returned>>

(* Nothing is left to do: the pool is dropped and its threads have ended.  *)
Stopped ==
  /\ owner \in {"done", "panicked", "aborted"}
  /\ ReceiverDropped
  /\ UNCHANGED vars

OwnerNext ==
  \/ Execute \/ ExecuteFails \/ DropPool
  \/ SendKill \/ SendKillFails \/ Join \/ JoinFails

WorkerNext(w) == Acquire(w) \/ Recv(w) \/ JobReturns(w) \/ JobPanics(w)

Next == OwnerNext \/ (\E w \in Workers : WorkerNext(w)) \/ Stopped

Spec == Init /\ [][Next]_vars

(***************************************************************************)
(* The fairness the operating system gives: a thread that can run does,    *)
(* and some waiting worker gets a free mutex (which one is not fair).  The *)
(* owner need not submit or drop anything.                                 *)
(***************************************************************************)
Fairness ==
  /\ WF_vars(SendKill \/ SendKillFails \/ Join \/ JoinFails)
  /\ WF_vars(\E w \in Workers : Acquire(w))
  /\ \A w \in Workers : WF_vars(Recv(w))

(* Jobs need not end: a keep-alive connection without a socket timeout     *)
(* holds its worker for as long as the client likes.                       *)
FairSpec == Spec /\ Fairness

(* What is only expected of a pool whose jobs all end.                     *)
EveryJobEnds == \A w \in Workers : WF_vars(JobReturns(w) \/ JobPanics(w))

-----------------------------------------------------------------------------
(* Jobs are sent before Kills, so the jobs are the positions 1..Jobs.      *)
Jobs == Len(sent) - kills

Running == {w \in Workers : worker[w] = "running"}

(* The refinement mapping.                                                 *)
Status == CASE owner = "up" -> "open"
            [] owner = "dropping" -> "closing"
            [] owner = "done" -> "closed"
            [] OTHER -> "broken"
Started == IF taken < Jobs THEN taken ELSE Jobs
Active == {got[w] : w \in Running}

(***************************************************************************)
(* The pool implements the job queue it is used as: jobs start in          *)
(* submission order, once, on at most as many threads as no panic ended.   *)
(***************************************************************************)
JQ == INSTANCE JobQueue WITH
        status <- Status, submitted <- Jobs, started <- Started,
        active <- Active, completed <- returned, failed <- panicked

ImplementsJobQueue == JQ!Spec

(* A job that was handed to the pool ends, unless every worker dies of a   *)
(* panic first: no lock hand-over, Kill or drop strands it.                *)
JobsEnd == EveryJobEnds => JQ!JobsEnd

(* A job waits only while every worker that is left runs another job: an   *)
(* endless job costs the pool one worker, never the channel's lock.        *)
StartsWhenFree ==
  \A j \in 1..MaxJobs :
    j <= Jobs ~> \/ taken >= j
                 \/ \A w \in Workers : worker[w] \in {"running", "dead"}

(* Dropping the pool comes to an end when its jobs do, panicking or not    *)
(* (Drop for ThreadPool: "waits for them to finish").                      *)
DropReturns ==
  EveryJobEnds =>
    (owner = "dropping" ~> owner \in {"done", "panicked", "aborted"})

-----------------------------------------------------------------------------
(* A worker dies only of its own job's panic: the unwrap of recv() in the  *)
(* worker loop never fails, even though a drop that panics in join drops   *)
(* the sender while other workers still run.                               *)
DeathsAreJobPanics ==
  \A w \in Workers : worker[w] = "dead" => got[w] \in panicked

(* Drop "waits for them to finish": when it returns without a panic, all   *)
(* submitted jobs have run to their end and none has panicked.             *)
ShutdownComplete ==
  /\ TypeOK
  /\ owner = "done" => returned = 1..Jobs

(* The pool takes its owner down only for a job's panic, and the process   *)
(* only when the panics of as many jobs as it has workers ended them all.  *)
PanicsArePropagated ==
  /\ owner = "panicked" => \E w \in Workers : worker[w] = "dead"
  /\ owner = "aborted" => \A w \in Workers : worker[w] = "dead"
=============================================================================
