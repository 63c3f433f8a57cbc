------------------------------ MODULE Parallel ------------------------------
(***************************************************************************)
(* Commands in parallel (adf_parallel.py).  The main thread starts a thread for     *)
(* each command when the pool lets it; a thread runs its command until it succeeds  *)
(* or has failed too often, and leaves a file that says so; a command that cannot be *)
(* run ends its thread without one.  Started again, after a crash too, the program   *)
(* skips the commands that have a file.                                            *)
(***************************************************************************)
EXTENDS Integers, FiniteSets

CONSTANTS
  Jobs,          \* commands: 1..n, in the order they are started
  JobName,       \* command -> its name, of the base names of command and arguments
  Pool, Retry,   \* POOL, RETRY
  MaxFailures,   \* bound: failures of a command
  MaxJobCrashes  \* bound: crashes of the program

VARIABLES
  nextJob,     \* the main thread: the next command
  jobs,        \* command -> its thread
  doneFiles,   \* the names that have a file
  succeeded,   \* commands that have succeeded (history)
  failed,      \* command -> failures (history, and bound)
  gaveUp,      \* commands that have failed too often in one start (history)
  raised,      \* commands that could not be run in this start (history)
  jobCrashes   \* bound

jobVars == <<nextJob, jobs, doneFiles, succeeded, failed, gaveUp, raised, jobCrashes>>

NoThread == [pc |-> "none", retries |-> 0]
Busy == {j \in Jobs : jobs[j].pc \in {"check", "run", "done"}}
Ended == nextJob > Cardinality(Jobs) /\ Busy = {}

JobInit ==
  /\ nextJob = 1 /\ jobs = [j \in Jobs |-> NoThread] /\ doneFiles = {}
  /\ succeeded = {} /\ failed = [j \in Jobs |-> 0] /\ gaveUp = {} /\ raised = {} /\ jobCrashes = 0

(* process(): the main thread waits for the pool, and starts the next thread.              *)
StartJob(j) ==
  /\ j = nextJob /\ Cardinality(Busy) < Pool
  /\ nextJob' = j + 1
  /\ jobs' = [jobs EXCEPT ![j] = [pc |-> "check", retries |-> 0]]
  /\ UNCHANGED <<doneFiles, succeeded, failed, gaveUp, raised, jobCrashes>>

CheckDoneFirst(j) ==   \* mutant: the file is written before the command has run
  /\ jobs[j].pc = "check"
  /\ jobs' = [jobs EXCEPT ![j].pc = IF JobName[j] \in doneFiles THEN "none" ELSE "run"]
  /\ doneFiles' = doneFiles \cup {JobName[j]}
  /\ UNCHANGED <<nextJob, succeeded, failed, gaveUp, raised, jobCrashes>>

CheckDone(j) ==
  /\ jobs[j].pc = "check"
  /\ jobs' = [jobs EXCEPT ![j].pc = IF JobName[j] \in doneFiles THEN "none" ELSE "run"]
  /\ UNCHANGED <<nextJob, doneFiles, succeeded, failed, gaveUp, raised, jobCrashes>>

Succeed(j) ==
  /\ jobs[j].pc = "run"
  /\ jobs' = [jobs EXCEPT ![j].pc = "done"]
  /\ succeeded' = succeeded \cup {j}
  /\ UNCHANGED <<nextJob, doneFiles, failed, gaveUp, raised, jobCrashes>>

Fail(j) ==
  /\ jobs[j].pc = "run" /\ failed[j] < MaxFailures
  /\ failed' = [failed EXCEPT ![j] = @ + 1]
  /\ LET retries == jobs[j].retries + 1 IN
     /\ jobs' = [jobs EXCEPT ![j] = [pc |-> IF retries > Retry THEN "done" ELSE "run", retries |-> retries]]
     /\ gaveUp' = IF retries > Retry THEN gaveUp \cup {j} ELSE gaveUp
  /\ UNCHANGED <<nextJob, doneFiles, succeeded, raised, jobCrashes>>

(* subprocess.run() raises, when the command does not exist say: the thread logs it, releases *)
(* the pool and ends, without a retry and without a file.                                     *)
Raise(j) ==
  /\ jobs[j].pc = "run"
  /\ jobs' = [jobs EXCEPT ![j] = NoThread]
  /\ raised' = raised \cup {j}
  /\ UNCHANGED <<nextJob, doneFiles, succeeded, failed, gaveUp, jobCrashes>>

(* write_status(), then the pool is released.  That it cannot be written is only logged.     *)
WriteStatus(j, ok) ==
  /\ jobs[j].pc = "done"
  /\ doneFiles' = IF ok THEN doneFiles \cup {JobName[j]} ELSE doneFiles
  /\ jobs' = [jobs EXCEPT ![j] = NoThread]
  /\ UNCHANGED <<nextJob, succeeded, failed, gaveUp, raised, jobCrashes>>

(* The program ends, by itself or by a crash, and is started again.                        *)
StartAgain ==
  /\ jobCrashes < MaxJobCrashes /\ jobCrashes' = jobCrashes + 1
  /\ nextJob' = 1 /\ jobs' = [j \in Jobs |-> NoThread] /\ raised' = {}
  /\ UNCHANGED <<doneFiles, succeeded, failed, gaveUp>>

JobNext ==
  \/ \E j \in Jobs : StartJob(j) \/ CheckDone(j) \/ Succeed(j) \/ Fail(j) \/ Raise(j)
                     \/ \E ok \in BOOLEAN : WriteStatus(j, ok)
  \/ StartAgain
-----------------------------------------------------------------------------
(* When a start of the program ends, every command has succeeded or failed too often, in this    *)
(* start or an earlier one, or could not be run in this one; one that could not be run, or was    *)
(* cut short by a crash, is not skipped by the next start: a file says what has happened.        *)
EveryJobTried ==
  /\ \A j \in Jobs : JobName[j] \in doneFiles => j \in succeeded \cup gaveUp
  /\ Ended => \A j \in Jobs : j \in succeeded \cup gaveUp \cup raised
=============================================================================
