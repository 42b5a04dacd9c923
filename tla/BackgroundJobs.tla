--------------------------- MODULE BackgroundJobs ---------------------------
(***************************************************************************)
(* bio.c: one thread and one queue per type of job, with the condition     *)
(* variable that Win32_Interop/win32fixes.c makes of a semaphore and a     *)
(* number of waiters.  The jobs are those of the append only file, aof.c:  *)
(* descriptors that are to be synced or closed.                            *)
(***************************************************************************)
EXTENDS Integers, Sequences, FiniteSets, SequencesExt

CONSTANTS
    Descriptor,    \* numbers of descriptors
    MaxFiles,      \* files and sockets ever opened
    MaxJobs        \* jobs of a type ever created

ASSUME BioAssumption == Descriptor \subseteq Nat \ {0}

JobType == {"CLOSE_FILE", "AOF_FSYNC"}
NoFile == 0

VARIABLES
    bio_jobs, bio_pending, \* of each type
    bio_mutex,     \* who holds it: "none", "main" or "thread"
    waiters, sema, \* bio_condvar
    thread,        \* where each thread is: it "locks", is in its "loop", is "asleep", "woken", it "works", "worked"
    creating,      \* calls of bioCreateBackgroundJob that the main thread has to make
    creates,       \* where it is in the first of them
    fds,           \* what each descriptor leads to, NoFile if it is closed
    aof,           \* server.aof_fd, NoFile for -1
    opens,         \* files and sockets opened so far
    created, worked \* jobs of each type: created so far, executed so far

bioVars == <<bio_jobs, bio_pending, bio_mutex, waiters, sema, thread, creating, creates, fds, aof, opens, created, worked>>
queueVars  == <<bio_jobs, bio_pending, bio_mutex, waiters, sema, created>>
serverVars == <<creating, creates, fds, aof, opens>>

Unoccupied == creating = <<>>
FreeFds == {d \in Descriptor : fds[d] = NoFile}
Lowest == CHOOSE d \in FreeFds : \A e \in FreeFds : d <= e
Job(type, fd, files) == [type |-> type, fd |-> fd, file |-> files[fd]]

-----------------------------------------------------------------------------
(* What the main thread does with descriptors.                             *)

(* flushAppendOnlyFile with everysec.                                      *)
EverySecond ==
    /\ Unoccupied /\ aof # NoFile /\ bio_mutex["AOF_FSYNC"] = "none"
    /\ bio_pending["AOF_FSYNC"] = 0 /\ created["AOF_FSYNC"] < MaxJobs
    /\ creating' = <<Job("AOF_FSYNC", aof, fds)>>
    /\ UNCHANGED <<queueVars, thread, creates, fds, aof, opens, worked>>

(* backgroundRewriteDoneHandler: the new file replaces the old one, which  *)
(* is opened before if it is not in use.                                   *)
RewriteDone ==
    /\ Unoccupied /\ Cardinality(FreeFds) > 1 /\ opens < MaxFiles
    /\ \A t \in JobType : created[t] < MaxJobs
    /\ opens' = opens + 1
    /\ fds' = [fds EXCEPT ![Lowest] = opens + 1]
    /\ IF aof # NoFile
       THEN aof' = Lowest /\ creating' = <<Job("AOF_FSYNC", Lowest, fds'), Job("CLOSE_FILE", aof, fds)>>
       ELSE aof' = aof /\ creating' = <<Job("CLOSE_FILE", Lowest, fds')>>
    /\ UNCHANGED <<queueVars, thread, creates, worked>>

(* stopAppendOnly syncs and closes the file itself.                        *)
stopAppendOnly ==
    /\ Unoccupied /\ aof # NoFile
    /\ fds' = [fds EXCEPT ![aof] = NoFile]
    /\ aof' = NoFile
    /\ UNCHANGED <<queueVars, thread, creating, creates, opens, worked>>

startAppendOnly ==
    /\ Unoccupied /\ aof = NoFile /\ FreeFds # {} /\ opens < MaxFiles
    /\ opens' = opens + 1
    /\ fds' = [fds EXCEPT ![Lowest] = opens + 1]
    /\ aof' = Lowest
    /\ UNCHANGED <<queueVars, thread, creating, creates, worked>>

-----------------------------------------------------------------------------
(* bioCreateBackgroundJob; type is that of the job.                        *)
Creating(type, at) == ~Unoccupied /\ creates = at /\ Head(creating).type = type

CreateLocks(type) ==
    /\ Creating(type, "locks") /\ bio_mutex[type] = "none"
    /\ bio_mutex' = [bio_mutex EXCEPT ![type] = "main"]
    /\ bio_jobs' = [bio_jobs EXCEPT ![type] = Append(@, [id |-> created[type] + 1, fd |-> Head(creating).fd,
                                                        file |-> Head(creating).file])]
    /\ bio_pending' = [bio_pending EXCEPT ![type] = @ + 1]
    /\ created' = [created EXCEPT ![type] = @ + 1]
    /\ creates' = "signals"
    /\ UNCHANGED <<waiters, sema, thread, creating, fds, aof, opens, worked>>

(* A bug that does not count the last waiter.                              *)
HaveOtherWaiters(type) == waiters[type] > 1

HaveWaiters(type) == waiters[type] > 0

(* pthread_cond_signal: a thread that wakes up is still counted.           *)
SignalTests(type) ==
    /\ Creating(type, "signals")
    /\ creates' = IF HaveWaiters(type) THEN "releases" ELSE "unlocks"
    /\ UNCHANGED <<queueVars, thread, creating, fds, aof, opens, worked>>

SignalReleases(type) ==
    /\ Creating(type, "releases")
    /\ sema' = [sema EXCEPT ![type] = @ + 1]
    /\ creates' = "unlocks"
    /\ UNCHANGED <<bio_jobs, bio_pending, bio_mutex, waiters, created, thread, creating, fds, aof, opens, worked>>

CreateUnlocks(type) ==
    /\ Creating(type, "unlocks")
    /\ bio_mutex' = [bio_mutex EXCEPT ![type] = "none"]
    /\ creating' = Tail(creating)
    /\ creates' = "locks"
    /\ UNCHANGED <<bio_jobs, bio_pending, waiters, sema, created, thread, fds, aof, opens, worked>>

-----------------------------------------------------------------------------
(* bioProcessBackgroundJobs.                                               *)
ThreadLocks(type) ==
    /\ thread[type] = "locks" /\ bio_mutex[type] = "none"
    /\ bio_mutex' = [bio_mutex EXCEPT ![type] = "thread"]
    /\ thread' = [thread EXCEPT ![type] = "loop"]
    /\ UNCHANGED <<bio_jobs, bio_pending, waiters, sema, created, serverVars, worked>>

(* pthread_cond_wait: counts itself before it leaves the mutex.            *)
ThreadWaits(type) ==
    /\ thread[type] = "loop" /\ bio_jobs[type] = <<>>
    /\ waiters' = [waiters EXCEPT ![type] = @ + 1]
    /\ bio_mutex' = [bio_mutex EXCEPT ![type] = "none"]
    /\ thread' = [thread EXCEPT ![type] = "asleep"]
    /\ UNCHANGED <<bio_jobs, bio_pending, sema, created, serverVars, worked>>

ThreadWakes(type) ==
    /\ thread[type] = "asleep" /\ sema[type] > 0
    /\ sema' = [sema EXCEPT ![type] = @ - 1]
    /\ thread' = [thread EXCEPT ![type] = "woken"]
    /\ UNCHANGED <<bio_jobs, bio_pending, bio_mutex, waiters, created, serverVars, worked>>

ThreadLeaves(type) ==
    /\ thread[type] = "woken"
    /\ waiters' = [waiters EXCEPT ![type] = @ - 1]
    /\ thread' = [thread EXCEPT ![type] = "locks"]
    /\ UNCHANGED <<bio_jobs, bio_pending, bio_mutex, sema, created, serverVars, worked>>

(* The job stays on the list while it is executed.                         *)
ThreadTakes(type) ==
    /\ thread[type] = "loop" /\ bio_jobs[type] # <<>>
    /\ bio_mutex' = [bio_mutex EXCEPT ![type] = "none"]
    /\ thread' = [thread EXCEPT ![type] = "works"]
    /\ UNCHANGED <<bio_jobs, bio_pending, waiters, sema, created, serverVars, worked>>

ThreadWorks(type) ==
    /\ thread[type] = "works"
    /\ fds' = IF type = "CLOSE_FILE" THEN [fds EXCEPT ![Head(bio_jobs[type]).fd] = NoFile] ELSE fds
    /\ worked' = [worked EXCEPT ![type] = @ + 1]
    /\ thread' = [thread EXCEPT ![type] = "worked"]
    /\ UNCHANGED <<queueVars, creating, creates, aof, opens>>

ThreadDeletes(type) ==
    /\ thread[type] = "worked" /\ bio_mutex[type] = "none"
    /\ bio_mutex' = [bio_mutex EXCEPT ![type] = "thread"]
    /\ bio_jobs' = [bio_jobs EXCEPT ![type] = Tail(@)]
    /\ bio_pending' = [bio_pending EXCEPT ![type] = @ - 1]
    /\ thread' = [thread EXCEPT ![type] = "loop"]
    /\ UNCHANGED <<waiters, sema, created, serverVars, worked>>

-----------------------------------------------------------------------------
BioInit ==
    /\ bio_jobs = [t \in JobType |-> <<>>] /\ bio_pending = [t \in JobType |-> 0]
    /\ bio_mutex = [t \in JobType |-> "none"]
    /\ waiters = [t \in JobType |-> 0] /\ sema = [t \in JobType |-> 0]
    /\ thread = [t \in JobType |-> "locks"]
    /\ creating = <<>> /\ creates = "locks"
    /\ fds = [d \in Descriptor |-> NoFile] /\ aof = NoFile /\ opens = 0
    /\ created = [t \in JobType |-> 0] /\ worked = [t \in JobType |-> 0]

BioNext ==
    \/ EverySecond \/ RewriteDone \/ stopAppendOnly \/ startAppendOnly
    \/ \E t \in JobType :
          \/ CreateLocks(t) \/ SignalTests(t) \/ SignalReleases(t) \/ CreateUnlocks(t)
          \/ ThreadLocks(t) \/ ThreadWaits(t) \/ ThreadWakes(t) \/ ThreadLeaves(t)
          \/ ThreadTakes(t) \/ ThreadWorks(t) \/ ThreadDeletes(t)

-----------------------------------------------------------------------------
(* However the threads interleave: a job is pending until it was executed, *)
(* the jobs of a type are executed in order and once, no thread sleeps for *)
(* ever while it has a job, and what is closed is the file that was to be  *)
(* closed, after which no descriptor is left open but that of the file in  *)
(* use.                                                                    *)
JobsAreDone ==
    /\ \A t \in JobType :
          LET first == worked[t] + (IF thread[t] = "worked" THEN 0 ELSE 1)
          IN  /\ bio_pending[t] = created[t] + 1 - first
              /\ \A i \in 1 .. Len(bio_jobs[t]) : bio_jobs[t][i].id = first + i - 1
              /\ (thread[t] = "asleep" /\ bio_jobs[t] # <<>>)
                    => sema[t] > 0 \/ Creating(t, "signals") \/ Creating(t, "releases")
    /\ LET left == {j \in ToSet(bio_jobs["CLOSE_FILE"]) : j.id > worked["CLOSE_FILE"]}
           due  == {creating[i] : i \in {k \in 1 .. Len(creating) : creating[k].type = "CLOSE_FILE"}}
       IN  /\ \A j \in left : fds[j.fd] = j.file
           /\ Descriptor \ FreeFds \subseteq {j.fd : j \in left} \cup {j.fd : j \in due} \cup {aof}

(* What does not hold: that a file is synced under the descriptor it has.  *)
FsyncsItsFile ==
    thread["AOF_FSYNC"] = "works" => fds[Head(bio_jobs["AOF_FSYNC"]).fd] = Head(bio_jobs["AOF_FSYNC"]).file
=============================================================================
