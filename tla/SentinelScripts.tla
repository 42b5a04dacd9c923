-------------------------- MODULE SentinelScripts --------------------------
(***************************************************************************)
(* The scripts a Sentinel runs to notify the administrator (sentinel.c):   *)
(* a queue of jobs, a limited number of child processes, retries after a   *)
(* delay that doubles, and scripts that run for too long and are killed.   *)
(***************************************************************************)
EXTENDS Integers, Sequences, FiniteSets

CONSTANTS
    SCRIPT_MAX_QUEUE, SCRIPT_MAX_RUNNING, SCRIPT_MAX_RETRY,
    MaxScripts      \* scripts scheduled

ASSUME ScriptsAssumption ==
    SCRIPT_MAX_QUEUE \in Nat /\ SCRIPT_MAX_RUNNING \in Nat /\ SCRIPT_MAX_RETRY \in Nat

VARIABLES
    scripts_queue,   \* the jobs by their number: their state and how often they were started.
                     \* A job is added at the tail and none moves: the list has the order of the numbers
    running_scripts, \* sentinel.running_scripts
    children,        \* child processes: their pid and how they do
    scheduled        \* scripts scheduled so far

scriptVars == <<scripts_queue, running_scripts, children, scheduled>>

(* A process is told by the job it runs and the attempt.                   *)
Pid(q, i) == <<i, q[i].retry_num>>
RunningJobs(q) == {i \in DOMAIN q : q[i].state = "RUNNING"}

(* The first n of the jobs I, from the top to the tail of the queue.       *)
FirstJobs(I, n) == {i \in I : Cardinality({k \in I : k < i}) < n}
QueueWithout(q, I) == [i \in DOMAIN q \ I |-> q[i]]

(* A bug that makes room by the oldest job, whether or not it runs.        *)
RemoveAnyOldest(q) ==
    IF Cardinality(DOMAIN q) <= SCRIPT_MAX_QUEUE THEN q ELSE QueueWithout(q, FirstJobs(DOMAIN q, 1))

(* The oldest job that does not run makes room for a new one.              *)
RemoveOldest(q) ==
    IF Cardinality(DOMAIN q) <= SCRIPT_MAX_QUEUE THEN q
    ELSE QueueWithout(q, FirstJobs(DOMAIN q \ RunningJobs(q), 1))

sentinelScheduleScriptExecution ==
    /\ scheduled < MaxScripts
    /\ scheduled' = scheduled + 1
    /\ LET job == [state |-> "NONE", retry_num |-> 0]
       IN  scripts_queue' = RemoveOldest([i \in DOMAIN scripts_queue \cup {scheduled + 1} |->
                                             IF i = scheduled + 1 THEN job ELSE scripts_queue[i]])
    /\ UNCHANGED <<running_scripts, children>>

(* A failed fork counts too, so that the number of attempts may pass the   *)
(* limit; beyond it the numbers do not differ.                             *)
NextAttempt(n) == IF n > SCRIPT_MAX_RETRY THEN n ELSE n + 1
Started(job, forked) == [state |-> IF forked THEN "RUNNING" ELSE "NONE", retry_num |-> NextAttempt(job.retry_num)]

(* Jobs are started while there is room; those whose fork fails take none. *)
sentinelRunPendingScripts(due, forked) ==
    LET room  == SCRIPT_MAX_RUNNING - running_scripts
        ready == {i \in DOMAIN scripts_queue : scripts_queue[i].state = "NONE" \/ i \in due}
        tried == IF forked THEN FirstJobs(ready, room) ELSE {i \in ready : room > 0}
        queue == [i \in DOMAIN scripts_queue |->
                     IF i \in tried THEN Started(scripts_queue[i], forked) ELSE scripts_queue[i]]
        new   == {i \in tried : forked}
    IN  [queue    |-> queue,
         running  |-> running_scripts + Cardinality(new),
         children |-> children \cup {[pid |-> Pid(queue, i), state |-> "runs"] : i \in new}]

(* A script that exited with 1 or was killed runs again later, up to a     *)
(* number of times; any other end removes it.                              *)
EndedAs(s, hows) == {i \in RunningJobs(s.queue) : \E c \in s.children : c.pid = Pid(s.queue, i) /\ c.state \in hows}
Retried(s) == {i \in EndedAs(s, {"signal", "exit1"}) : s.queue[i].retry_num # SCRIPT_MAX_RETRY}

sentinelCollectTerminatedScripts(s) ==
    LET gone == EndedAs(s, {"signal", "exit1", "exit0"}) \ Retried(s)
    IN  [queue    |-> [i \in DOMAIN s.queue \ gone |->
                         IF i \in Retried(s) THEN [s.queue[i] EXCEPT !.state = "DELAYED"] ELSE s.queue[i]],
         running  |-> s.running - Cardinality(gone),
         children |-> {c \in s.children : c.state = "runs"}]

sentinelKillTimedoutScripts(s, late) ==
    [s EXCEPT !.children = {IF c.state = "runs" /\ c.pid[1] \in late THEN [c EXCEPT !.state = "signal"] ELSE c :
                              c \in s.children}]

Jobs(state) == {i \in DOMAIN scripts_queue : scripts_queue[i].state = state}

(* due, late: jobs whose delay has passed, jobs that run for too long;     *)
(* forked: fork succeeds.                                                  *)
ScriptsTimer ==
    /\ \E due \in SUBSET Jobs("DELAYED"), late \in SUBSET Jobs("RUNNING"), forked \in BOOLEAN :
          LET s == sentinelKillTimedoutScripts(
                       sentinelCollectTerminatedScripts(sentinelRunPendingScripts(due, forked)), late)
          IN  /\ scripts_queue' = s.queue
              /\ running_scripts' = s.running
              /\ children' = s.children
    /\ UNCHANGED scheduled

(* The process ends by itself.                                             *)
ScriptEnds ==
    /\ \E c \in children, how \in {"exit0", "exit1", "signal"} :
          /\ c.state = "runs"
          /\ children' = (children \ {c}) \cup {[c EXCEPT !.state = how]}
    /\ UNCHANGED <<scripts_queue, running_scripts, scheduled>>

ScriptsInit ==
    /\ scripts_queue = <<>>
    /\ running_scripts = 0
    /\ children = {}
    /\ scheduled = 0

ScriptsNext == sentinelScheduleScriptExecution \/ ScriptsTimer \/ ScriptEnds

-----------------------------------------------------------------------------
(* The queue and the number of processes keep their limits, the counter    *)
(* never falls below the number of jobs that run, and every process that   *)
(* was not waited for has its job in the queue, so that wait3 never        *)
(* returns the pid of a job that was removed.                              *)
ScriptsAreCounted ==
    /\ Cardinality(DOMAIN scripts_queue) <= SCRIPT_MAX_QUEUE
    /\ Cardinality(RunningJobs(scripts_queue)) <= running_scripts /\ running_scripts <= SCRIPT_MAX_RUNNING
    /\ {c.pid : c \in children} = {Pid(scripts_queue, i) : i \in RunningJobs(scripts_queue)}

(* running_scripts is the "Number of scripts in execution right now": it   *)
(* is not, since a script that is to be retried is not subtracted.         *)
RunningIsExact == running_scripts = Cardinality(RunningJobs(scripts_queue))

=============================================================================
