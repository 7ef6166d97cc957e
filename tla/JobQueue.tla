------------------------------ MODULE JobQueue ------------------------------
(***************************************************************************)
(* What the thread pool promises its owner, without channels, locks or     *)
(* threads: jobs start in the order they were submitted, each one once, at *)
(* most Size of them at a time.  A job that panics takes its thread with   *)
(* it, so every failure lowers the number of jobs that may run together.   *)
(* Closing waits for every job, and succeeds only if none has panicked.    *)
(*                                                                         *)
(* ThreadPool implements this specification (ThreadPool!JQ).               *)
(***************************************************************************)
EXTENDS Integers, FiniteSets

CONSTANTS Size,     \* the number of threads of the pool
          MaxJobs   \* the jobs are numbered 1..MaxJobs in submission order

VARIABLES status,     \* "open", "closing", "closed" or "broken"
          submitted,  \* the jobs submitted so far are 1..submitted
          started,    \* the jobs started so far are 1..started
          active,     \* the jobs that are running
          completed,  \* the jobs that returned
          failed      \* the jobs that panicked

vars == <<status, submitted, started, active, completed, failed>>

Init ==
  /\ status = "open"
  /\ submitted = 0
  /\ started = 0
  /\ active = {}
  /\ completed = {}
  /\ failed = {}

(* The owner submits a job: some thread must be left to run it.            *)
Submit ==
  /\ status = "open"
  /\ submitted < MaxJobs
  /\ Cardinality(failed) < Size
  /\ submitted' = submitted + 1
  /\ UNCHANGED <<status, started, active, completed, failed>>

(* The oldest waiting job starts on a thread that is left and free.        *)
Start ==
  /\ started < submitted
  /\ Cardinality(active) + Cardinality(failed) < Size
  /\ started' = started + 1
  /\ active' = active \cup {started + 1}
  /\ UNCHANGED <<status, submitted, completed, failed>>

Complete(j) ==
  /\ j \in active
  /\ active' = active \ {j}
  /\ completed' = completed \cup {j}
  /\ UNCHANGED <<status, submitted, started, failed>>

Fail(j) ==
  /\ j \in active
  /\ active' = active \ {j}
  /\ failed' = failed \cup {j}
  /\ UNCHANGED <<status, submitted, started, completed>>

Close ==
  /\ status = "open"
  /\ status' = "closing"
  /\ UNCHANGED <<submitted, started, active, completed, failed>>

(* Closing ends well once all that was submitted has returned.             *)
Closed ==
  /\ status = "closing"
  /\ completed = 1..submitted
  /\ status' = "closed"
  /\ UNCHANGED <<submitted, started, active, completed, failed>>

(* Closing ends in a panic only when a job has panicked.                   *)
Break ==
  /\ status = "closing"
  /\ failed # {}
  /\ status' = "broken"
  /\ UNCHANGED <<submitted, started, active, completed, failed>>

Next ==
  \/ Submit \/ Start \/ Close \/ Closed \/ Break
  \/ \E j \in active : Complete(j) \/ Fail(j)

Spec == Init /\ [][Next]_vars

-----------------------------------------------------------------------------
(* A submitted job ends, unless Size other jobs panic before its turn.     *)
JobsEnd ==
  \A j \in 1..MaxJobs :
    j <= submitted ~> \/ j \in completed \cup failed
                      \/ Cardinality(failed) = Size
=============================================================================
