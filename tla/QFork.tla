-------------------------------- MODULE QFork -------------------------------
(***************************************************************************)
(* What stands for fork() on Windows, Win32_Interop/Win32_QFork.cpp with   *)
(* its callers in rdb.c, aof.c, db.c and redis.c.  The heap is a section   *)
(* of memory that a second process maps as well.  While that process saves *)
(* the data the server writes to private copies of the pages; when it has  *)
(* ended these are copied into the section.  The two processes talk by     *)
(* events that stay set until they are reset.                              *)
(***************************************************************************)
EXTENDS Integers, Sequences, FiniteSets

CONSTANTS
    Page,         \* pages of the heap
    MaxWrites,    \* writes of the server
    MaxForks,     \* processes started
    MayPageOut    \* a private page may be out of the working set, where QueryWorkingSetEx does not find it

VARIABLES
    section,      \* the pages of the section
    private,      \* private copies of the server, NoCopy where there is none
    protected,    \* the heap is PAGE_WRITECOPY
    written,      \* history: what the server wrote last to each page
    writes,
    events,       \* the events that are set
    rdb_child_pid, aof_child_pid, \* 0 for none
    qchild,      \* the forked processes that run
    forks,        \* processes started so far
    frozen,       \* history: the heap when it was protected last
    disturbed,    \* history: the operation under way was aborted, failed to begin or did not begin alone
    finished      \* history: of the last operation that was reported complete, its process and whether that saved

qforkVars == <<section, private, protected, written, writes, events, rdb_child_pid, aof_child_pid, qchild, forks,
               frozen, disturbed, finished>>

NoCopy == -1
NoChild == 0
View(p) == IF private[p] # NoCopy THEN private[p] ELSE section[p]
Heap == [p \in Page |-> View(p)]

(* A command of a client changes a page.                                   *)
ServerWrites(p) ==
    /\ writes < MaxWrites
    /\ writes' = writes + 1
    /\ written' = [written EXCEPT ![p] = writes + 1]
    /\ IF protected \/ private[p] # NoCopy
       THEN private' = [private EXCEPT ![p] = writes + 1] /\ UNCHANGED section
       ELSE section' = [section EXCEPT ![p] = writes + 1] /\ UNCHANGED private
    /\ UNCHANGED <<protected, events, rdb_child_pid, aof_child_pid, qchild, forks, frozen, disturbed, finished>>

-----------------------------------------------------------------------------
(* BeginForkOperation, which waits for the new process: it is ready, or it *)
(* does not answer in time, or it cannot be started at all.  In the second *)
(* case its pid was stored already.  A process remembers the heap at its   *)
(* fork and when the heap was protected, and whether no operation has      *)
(* ended before it had read everything.                                    *)
Child(type, at) == [type |-> type, at |-> at, read |-> <<>>, ok |-> TRUE, forked |-> Heap, frozen |-> frozen', whole |-> TRUE]
SetPid(type, pid) ==
    IF type = "rdb" THEN rdb_child_pid' = pid /\ UNCHANGED aof_child_pid
    ELSE aof_child_pid' = pid /\ UNCHANGED rdb_child_pid

(* A bug that leaves the heap writable in the section.                     *)
NotProtected == FALSE

(* VirtualProtect of the heap with PAGE_WRITECOPY.                         *)
WriteCopy == TRUE

(* Nothing is left of an earlier operation.                                *)
BeginsAlone ==
    /\ rdb_child_pid = NoChild /\ aof_child_pid = NoChild /\ ~protected
    /\ \A i \in DOMAIN qchild : qchild[i].at = "complete"

BeginForkOperation(type) ==
    /\ protected' = WriteCopy
    /\ frozen' = IF protected THEN frozen ELSE Heap
    /\ \/ /\ forks < MaxForks
          /\ forks' = forks + 1
          /\ qchild' = [i \in DOMAIN qchild \cup {forks + 1} |->
                         IF i = forks + 1 THEN Child(type, "waiting") ELSE qchild[i]]
          /\ events' = {"ready", "start"}
          /\ SetPid(type, forks + 1)
          /\ disturbed' = ~BeginsAlone
       \/ /\ forks < MaxForks
          /\ forks' = forks + 1
          /\ qchild' = [i \in DOMAIN qchild \cup {forks + 1} |->
                         IF i = forks + 1 THEN Child(type, "starting") ELSE qchild[i]]
          /\ events' = {}
          /\ SetPid(type, forks + 1)
          /\ disturbed' = TRUE
       \/ /\ events' = {}
          /\ disturbed' = TRUE
          /\ UNCHANGED <<qchild, forks, rdb_child_pid, aof_child_pid>>

(* bgsaveCommand and serverCron look at both pids, syncCommand and         *)
(* startAppendOnly only at their own: they may begin during the other      *)
(* operation.                                                              *)
rdbSaveBackground ==
    /\ rdb_child_pid = NoChild
    /\ BeginForkOperation("rdb")
    /\ UNCHANGED <<section, private, written, writes, finished>>

rewriteAppendOnlyFileBackground ==
    /\ aof_child_pid = NoChild
    /\ BeginForkOperation("aof")
    /\ UNCHANGED <<section, private, written, writes, finished>>

-----------------------------------------------------------------------------
(* A bug that discards the private pages.                                  *)
DiscardPrivate(lost) == [p \in Page |-> section[p]]

(* The section with the private pages copied back, but for those that were *)
(* not found.                                                              *)
CopyBack(lost) == [p \in Page |-> IF private[p] # NoCopy /\ p \notin lost THEN private[p] ELSE section[p]]

(* The handle of the process, g_hForkedProcess, is never set: nobody waits *)
(* for the process or kills it, and the event that tells it to end is      *)
(* reset at once.  leave: the processes that see it in time.               *)
EndForkOperation ==
    /\ \E leave \in SUBSET {i \in DOMAIN qchild : qchild[i].at = "complete"},
          lost \in SUBSET {p \in Page : private[p] # NoCopy /\ MayPageOut} :
          /\ qchild' = [i \in DOMAIN qchild \ leave |->
                          [qchild[i] EXCEPT !.whole = @ /\ qchild[i].at = "complete"]]
          /\ section' = CopyBack(lost)
    /\ private' = [p \in Page |-> NoCopy]
    /\ protected' = FALSE
    /\ events' = {}

(* FLUSHALL aborts and keeps the pid; stopAppendOnly forgets it.           *)
AbortRdb ==
    /\ rdb_child_pid # NoChild
    /\ EndForkOperation
    /\ disturbed' = TRUE
    /\ UNCHANGED <<written, writes, rdb_child_pid, aof_child_pid, forks, frozen, finished>>

AbortAof ==
    /\ aof_child_pid # NoChild
    /\ EndForkOperation
    /\ aof_child_pid' = NoChild
    /\ disturbed' = TRUE
    /\ UNCHANGED <<written, writes, rdb_child_pid, forks, frozen, finished>>

(* serverCron: the end is attributed by the pids; the failed event is      *)
(* never set, because the handler of the exceptions has forgotten the      *)
(* control block, and the result of the save is not looked at.             *)
ForkOperationEnds ==
    /\ rdb_child_pid # NoChild \/ aof_child_pid # NoChild
    /\ "complete" \in events
    /\ EndForkOperation
    /\ LET pid == IF rdb_child_pid # NoChild THEN rdb_child_pid ELSE aof_child_pid
       IN  finished' = [pid   |-> pid,
                        saved |-> pid \in DOMAIN qchild /\ qchild[pid].at = "complete" /\ qchild[pid].ok]
    /\ IF rdb_child_pid # NoChild THEN rdb_child_pid' = NoChild /\ UNCHANGED aof_child_pid
       ELSE aof_child_pid' = NoChild /\ UNCHANGED rdb_child_pid
    /\ UNCHANGED <<written, writes, forks, frozen, disturbed>>

-----------------------------------------------------------------------------
(* The forked process, QForkSlaveInit.  Its view is the section, in which  *)
(* it reads page by page.                                                  *)
ChildIs(i, c) == qchild' = [qchild EXCEPT ![i] = c]
ParentKeeps == UNCHANGED <<section, private, protected, written, writes, rdb_child_pid, aof_child_pid, forks, frozen, disturbed, finished>>

ChildReady(i) ==
    /\ qchild[i].at = "starting"
    /\ ChildIs(i, [qchild[i] EXCEPT !.at = "waiting"])
    /\ events' = events \cup {"ready"}
    /\ ParentKeeps

ChildStarts(i) ==
    /\ qchild[i].at = "waiting" /\ "start" \in events
    /\ ChildIs(i, [qchild[i] EXCEPT !.at = "saving"])
    /\ UNCHANGED events
    /\ ParentKeeps

ChildReads(i, p) ==
    /\ qchild[i].at = "saving" /\ p \notin DOMAIN qchild[i].read
    /\ ChildIs(i, [qchild[i] EXCEPT !.read = [q \in DOMAIN @ \cup {p} |-> IF q = p THEN section[p] ELSE @[q]]])
    /\ UNCHANGED events
    /\ ParentKeeps

(* do_rdbSave, do_aofSave: the save may fail; completion is told anyway.   *)
ChildCompletes(i) ==
    /\ qchild[i].at = "saving"
    /\ \/ DOMAIN qchild[i].read = Page /\ ChildIs(i, [qchild[i] EXCEPT !.at = "complete"])
       \/ ChildIs(i, [qchild[i] EXCEPT !.at = "complete", !.ok = FALSE])
    /\ events' = events \cup {"complete"}
    /\ ParentKeeps

(* An exception, or a kill from outside: no event is set.                  *)
ChildDies(i) ==
    /\ qchild' = [k \in DOMAIN qchild \ {i} |-> qchild[k]]
    /\ UNCHANGED events
    /\ ParentKeeps

QForkInit ==
    /\ section = [p \in Page |-> 0] /\ private = [p \in Page |-> NoCopy] /\ protected = FALSE
    /\ written = [p \in Page |-> 0] /\ writes = 0
    /\ events = {} /\ rdb_child_pid = NoChild /\ aof_child_pid = NoChild
    /\ qchild = <<>> /\ forks = 0 /\ frozen = [p \in Page |-> 0] /\ disturbed = FALSE /\ finished = [pid |-> NoChild, saved |-> FALSE]

QForkNext ==
    \/ \E p \in Page : ServerWrites(p)
    \/ rdbSaveBackground \/ rewriteAppendOnlyFileBackground \/ AbortRdb \/ AbortAof \/ ForkOperationEnds
    \/ \E i \in DOMAIN qchild : \/ ChildReady(i) \/ ChildStarts(i) \/ ChildCompletes(i) \/ ChildDies(i)
                                 \/ \E p \in Page : ChildReads(i, p)

-----------------------------------------------------------------------------
(* Whatever is begun, aborted and ended while the server goes on writing,  *)
(* the server sees what it wrote last, and a process reads one state of    *)
(* the heap until an operation ends: that at which the heap was protected, *)
(* which is that of its own fork or of the operation during which it began *)
(* or which was given up before.  If its operation began alone and is not  *)
(* aborted it is that of its fork, and the completion that the server sees *)
(* is its own.                                                             *)
ForkIsASnapshot ==
    /\ \A p \in Page : View(p) = written[p]
    /\ \A i \in DOMAIN qchild : qchild[i].whole =>
          \A p \in DOMAIN qchild[i].read : qchild[i].read[p] = qchild[i].frozen[p]
    /\ ~disturbed =>
          /\ \A i \in DOMAIN qchild \cap {rdb_child_pid, aof_child_pid} :
                \A p \in DOMAIN qchild[i].read : qchild[i].read[p] = qchild[i].forked[p]
          /\ "complete" \in events => \E i \in {rdb_child_pid, aof_child_pid} :
                                        i # NoChild /\ (i \in DOMAIN qchild => qchild[i].at = "complete")

(* The heap of its own fork also beside another operation and after one    *)
(* that was given up or aborted.                                           *)
AlwaysASnapshot ==
    \A i \in DOMAIN qchild : \A p \in DOMAIN qchild[i].read : qchild[i].read[p] = qchild[i].forked[p]

(* A save that is reported complete has been made.                         *)
CompleteMeansSaved == finished.pid # NoChild => finished.saved

(* The end of one operation is not taken for that of the other one.        *)
EndsAreTold == finished.pid \in DOMAIN qchild => qchild[finished.pid].at = "complete"
=============================================================================
