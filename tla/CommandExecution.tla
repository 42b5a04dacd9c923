-------------------------- MODULE CommandExecution --------------------------
(***************************************************************************)
(* How the server executes commands: processCommand and call in redis.c,   *)
(* MULTI, EXEC and WATCH in multi.c, the lists on which clients block in   *)
(* t_list.c, and what is propagated to the slaves and the AOF.             *)
(*                                                                         *)
(* One thread executes one command after the other.  EXEC and the service  *)
(* of blocked clients take several steps, so that the propagated stream    *)
(* can be seen between them; pc says where the thread is, and nothing else *)
(* runs until it is idle again.  The stream is read by a slave, which      *)
(* executes it.  The key space is one database of lists and strings.       *)
(***************************************************************************)
EXTENDS Naturals, Sequences, FiniteSets, SequencesExt

CONSTANTS
    Client,     \* the connections
    Key,        \* the keys
    NoKey,      \* not a key
    NoClient,   \* not a client
    Names,      \* the commands that each client sends, among CommandNames
    Pipelining, \* clients send commands before they have read their replies
    Master,     \* NoClient, or the master of this server, a read-only slave
    MaxElems,   \* bound: elements pushed
    MaxQueue,   \* bound: commands in a transaction
    MaxDirty    \* bound: changes counted in server.dirty

CommandNames == {"GET", "SAVE", "SET", "DEL", "FLUSHDB", "RENAME", "RPUSH", "BLPOP",
                 "BRPOPLPUSH", "MULTI", "WATCH"}

ASSUME CommandAssumption ==
    /\ NoKey \notin Key /\ NoClient \notin Client
    /\ Names \in [Client -> SUBSET CommandNames]
    /\ IsFiniteSet(Key) /\ Pipelining \in BOOLEAN
    /\ Master \in Client \cup {NoClient}
    /\ MaxElems \in Nat /\ MaxQueue \in Nat /\ MaxDirty \in Nat

(* The commands by their arguments; those flagged "r" in the command table *)
(* are READONLY, the others WRITE.                                         *)
TwoKeys  == {"RENAME", "BLPOP", "BRPOPLPUSH"}
OneKey   == {"SET", "DEL", "RPUSH"}
NoKeys   == {"GET", "SAVE", "FLUSHDB"}
ReadOnly == {"GET", "SAVE"}

(* BLPOP waits for key and then dst, the same key twice standing for one;  *)
(* which key GET reads does not matter.                                    *)
CommandOf(names) ==
    [name : names \cap TwoKeys, key : Key, dst : Key]
    \cup {[name |-> n, key |-> k, dst |-> k] : n \in names \cap OneKey, k \in Key}
    \cup [name : names \cap NoKeys, key : {NoKey}, dst : {NoKey}]

Command == CommandOf(CommandNames)

VARIABLES
    \* the dataset
    data,          \* the key space
    dirty,         \* server.dirty
    \* the slave that reads the stream
    rdata,         \* its key space
    rnext,         \* the same, with the commands it has queued since a MULTI
    rmulti,        \* it has read a MULTI without its EXEC
    \* transactions
    multi, queue,  \* REDIS_MULTI and mstate of each client
    dirty_cas, dirty_exec,
    watched,       \* client->watched_keys
    watched_keys,  \* db->watched_keys
    \* blocked clients
    blocked,       \* the command a client is blocked in, or Unblocked
    bpop_keys,     \* client->bpop.keys
    blocking_keys, \* db->blocking_keys, in the order of service
    ready_keys,    \* server.ready_keys
    unblocked_clients,
    \* the main thread
    connected,     \* server.clients
    pc,            \* "idle", "exec", "serve", "push", "sleep": before sleeping
    current,       \* the client whose EXEC runs, or whose BRPOPLPUSH is served
    todo,          \* the commands of EXEC still to run
    propagated,    \* must_propagate of execCommand
    before,        \* dirty when call started execCommand
    handling,      \* the list l of handleClientsBlockedOnLists after its first key
    serving, left, \* its first key, and numclients
    value,         \* the element popped for BRPOPLPUSH, and its destination
    \* history
    elems,         \* the number of elements pushed so far
    gone,          \* elements sent to a client or deleted by a command
    changed,       \* keys that changed since the client watched them
    refused        \* a command of the client's transaction was refused

dataVars  == <<data, dirty, elems, gone>>
slaveVars == <<rdata, rnext, rmulti>>
multiVars == <<multi, queue, dirty_exec, refused>>
watchVars == <<watched, watched_keys, changed>>
blockVars == <<blocked, bpop_keys, blocking_keys, unblocked_clients>>
execVars  == <<current, todo, propagated, before>>
serveVars == <<handling, serving, left, value>>
vars == <<dataVars, slaveVars, multiVars, dirty_cas, watchVars, blockVars, ready_keys,
          connected, pc, execVars, serveVars>>

Absent  == [str |-> FALSE, list |-> <<>>]
String  == [str |-> TRUE, list |-> <<>>]
List(s) == [str |-> FALSE, list |-> s]

Unblocked == [name |-> "", key |-> NoKey, dst |-> NoKey]
NoValue   == [elem |-> 0, dst |-> NoKey]

Init ==
    /\ data = [k \in Key |-> Absent] /\ dirty = 0 /\ elems = 0 /\ gone = {}
    /\ rdata = data /\ rnext = data /\ rmulti = FALSE
    /\ multi = [c \in Client |-> FALSE] /\ queue = [c \in Client |-> <<>>]
    /\ dirty_cas = [c \in Client |-> FALSE] /\ dirty_exec = [c \in Client |-> FALSE]
    /\ watched = [c \in Client |-> {}] /\ watched_keys = [k \in Key |-> {}]
    /\ blocked = [c \in Client |-> Unblocked] /\ bpop_keys = [c \in Client |-> {}]
    /\ blocking_keys = [k \in Key |-> <<>>] /\ unblocked_clients = <<>> /\ ready_keys = <<>>
    /\ connected = Client
    /\ pc = "idle" /\ current = NoClient /\ todo = <<>> /\ propagated = FALSE /\ before = 0
    /\ handling = <<>> /\ serving = NoKey /\ left = 0 /\ value = NoValue
    /\ changed = [c \in Client |-> {}] /\ refused = [c \in Client |-> FALSE]

-----------------------------------------------------------------------------
(* What commands do to a key space d; e is the element that is pushed *)

(* The key BLPOP looks at: the first of its keys that exists.              *)
PopKey(cmd, d) == IF d[cmd.key] # Absent THEN cmd.key ELSE cmd.dst

(* The command gets past its early returns and changes the key space, or   *)
(* overwrites a value with itself.                                         *)
Modifies(cmd, d) ==
    CASE cmd.name \in ReadOnly -> FALSE
      [] cmd.name \in {"SET", "LPUSH"} -> TRUE
      [] cmd.name = "DEL" -> d[cmd.key] # Absent
      [] cmd.name = "FLUSHDB" -> \E k \in Key : d[k] # Absent
      [] cmd.name = "RENAME" -> cmd.key # cmd.dst /\ d[cmd.key] # Absent
      [] cmd.name = "RPUSH" -> ~d[cmd.key].str
      [] cmd.name = "BLPOP" -> d[PopKey(cmd, d)].list # <<>>
      [] cmd.name \in {"LPOP", "RPOP"} -> d[cmd.key].list # <<>>
      [] cmd.name = "BRPOPLPUSH" -> d[cmd.key].list # <<>> /\ ~d[cmd.dst].str

(* The ways commands change the key space.  A list that becomes empty is   *)
(* deleted from it.                                                        *)
PopHead(k, d)     == [d EXCEPT ![k] = List(Tail(@.list))]
PopTail(k, d)     == [d EXCEPT ![k] = List(Front(@.list))]
PushHead(k, e, d) == [d EXCEPT ![k] = List(<<e>> \o @.list)]
PushTail(k, e, d) == [d EXCEPT ![k] = List(Append(@.list, e))]
Move(k, dst, d)   == PushHead(dst, Last(d[k].list), PopTail(k, d))
Rename(k, dst, d) == [d EXCEPT ![dst] = d[k], ![k] = Absent]
Delete(k, d)      == [d EXCEPT ![k] = Absent]
SetString(k, d)   == [d EXCEPT ![k] = String]
Flush             == [k \in Key |-> Absent]

Effect(cmd, e, d) ==
    IF ~Modifies(cmd, d) THEN d
    ELSE CASE cmd.name = "SET" -> SetString(cmd.key, d)
           [] cmd.name = "DEL" -> Delete(cmd.key, d)
           [] cmd.name = "FLUSHDB" -> Flush
           [] cmd.name = "RENAME" -> Rename(cmd.key, cmd.dst, d)
           [] cmd.name = "RPUSH" -> PushTail(cmd.key, e, d)
           [] cmd.name = "LPUSH" -> PushHead(cmd.key, e, d)
           [] cmd.name \in {"LPOP", "BLPOP"} -> PopHead(PopKey(cmd, d), d)
           [] cmd.name = "RPOP" -> PopTail(cmd.key, d)
           [] cmd.name = "BRPOPLPUSH" -> Move(cmd.key, cmd.dst, d)

Elements(d) == UNION {ToSet(d[k].list) : k \in Key}

(* server.dirty after the command.                                         *)
DirtyAfter(cmd) ==
    CASE cmd.name = "SAVE" -> 0
      [] cmd.name = "FLUSHDB" -> dirty + Cardinality({k \in Key : data[k] # Absent})
      [] OTHER -> dirty + (IF Modifies(cmd, data) THEN 1 ELSE 0)

(* blockingPopGenericCommand rewrites the command it propagates.           *)
Rewritten(cmd) ==
    IF cmd.name = "BLPOP"
    THEN [name |-> "LPOP", key |-> PopKey(cmd, data), dst |-> PopKey(cmd, data)]
    ELSE cmd

(* The keys for which the command calls signalModifiedKey.                 *)
Signalled(cmd) ==
    CASE cmd.name = "BLPOP" -> {PopKey(cmd, data)}
      [] OTHER -> {cmd.key, cmd.dst}

(* The clients the command makes DIRTY_CAS: through the key, or through    *)
(* the client, in touchWatchedKeysOnFlush.                                 *)
TouchedClients(cmd) ==
    IF ~Modifies(cmd, data) THEN {}
    ELSE IF cmd.name = "FLUSHDB"
         THEN {c \in connected : \E k \in watched[c] : data[k] # Absent}
         ELSE UNION {watched_keys[k] : k \in Signalled(cmd)}

touchWatchedKey(clients) ==
    dirty_cas' = [c \in Client |-> dirty_cas[c] \/ c \in clients]

(* The key a push creates; no other command calls signalListAsReady.       *)
CreatedList(cmd) ==
    {k \in Key : /\ Modifies(cmd, data) /\ data[k] = Absent
                 /\ \/ cmd.name = "RPUSH" /\ k = cmd.key
                    \/ cmd.name = "BRPOPLPUSH" /\ k = cmd.dst}

(* The dataset changes and no table of watched keys does.                  *)
ChangeWatched ==
    /\ changed' = [c \in Client |-> changed[c] \cup {k \in watched[c] : data'[k] # data[k]}]
    /\ UNCHANGED <<watched, watched_keys>>

(* db->ready_keys holds the keys queued in ready_keys or in handling.      *)
signalListAsReady(keys) ==
    LET news == {k \in keys : blocking_keys[k] # <<>>
                              /\ k \notin ToSet(ready_keys) \cup ToSet(handling)}
    IN  ready_keys' = ready_keys \o SetToSeq(news)

-----------------------------------------------------------------------------
(* What the slave does with the stream *)

(* It reads one command, pushing element e.                                *)
Feed(cmd, e) ==
    /\ rnext' = Effect(cmd, e, rnext)
    /\ rdata' = IF rmulti THEN rdata ELSE rnext'
    /\ UNCHANGED rmulti

(* It reads MULTI, unless it is in one, and then a command.                *)
FeedMultiAnd(cmd, e, feeds) ==
    /\ rnext' = IF feeds THEN Effect(cmd, e, rnext) ELSE rnext
    /\ rmulti' = TRUE
    /\ UNCHANGED rdata

FeedExec ==
    /\ rdata' = rnext
    /\ rmulti' = FALSE
    /\ UNCHANGED rnext

-----------------------------------------------------------------------------
(* Clients between commands *)

(* The thread is free to read a command of the client.                     *)
MaySend(c) ==
    /\ pc = "idle" /\ c \in connected /\ blocked[c] = Unblocked
    /\ Pipelining \/ c \notin ToSet(unblocked_clients)

(* A read-only slave takes writes from its master only.                    *)
Accepts(c, cmd) == Master \in {NoClient, c} \/ cmd.name \in ReadOnly

(* The bounds leave room for the commands, and for the change EXEC counts. *)
Room(cmds) ==
    LET Count(name) == Len(SelectSeq(cmds, LAMBDA cmd : cmd.name = name))
    IN  /\ elems + Count("RPUSH") <= MaxElems
        /\ dirty + Len(cmds) + Count("FLUSHDB") * (Cardinality(Key) - 1) < MaxDirty

(* Unwatching and blocking a client, on both sides of the two relations.   *)
unwatchAllKeys(c) ==
    /\ watched_keys' = [k \in Key |-> IF k \in watched[c] THEN watched_keys[k] \ {c}
                                                         ELSE watched_keys[k]]
    /\ watched' = [watched EXCEPT ![c] = {}]
    /\ changed' = [changed EXCEPT ![c] = {}]

blockForKeys(c, cmd, keys) ==
    /\ blocked' = [blocked EXCEPT ![c] = cmd]
    /\ bpop_keys' = [bpop_keys EXCEPT ![c] = keys]
    /\ blocking_keys' = [k \in Key |-> IF k \in keys THEN Append(blocking_keys[k], c)
                                                     ELSE blocking_keys[k]]
    /\ UNCHANGED unblocked_clients

LeaveBlockingKeys(c) ==
    /\ blocked' = [blocked EXCEPT ![c] = Unblocked]
    /\ bpop_keys' = [bpop_keys EXCEPT ![c] = {}]
    /\ blocking_keys' = [k \in Key |-> IF k \in bpop_keys[c] THEN RemoveFirst(blocking_keys[k], c)
                                                             ELSE blocking_keys[k]]

(* A bug that forgets all but the first key of a client.                   *)
unblockOneKey(c) ==
    /\ blocked' = [blocked EXCEPT ![c] = Unblocked]
    /\ bpop_keys' = [bpop_keys EXCEPT ![c] = {}]
    /\ blocking_keys' = [blocking_keys EXCEPT ![blocked[c].key] = RemoveFirst(@, c)]
    /\ unblocked_clients' = Append(unblocked_clients, c)

unblockClientWaitingData(c) ==
    /\ LeaveBlockingKeys(c)
    /\ unblocked_clients' = Append(unblocked_clients, c)

-----------------------------------------------------------------------------
(* Transactions *)

(* The state of the transaction is cleared.                                *)
ClearTransaction(c) ==
    /\ multi' = [multi EXCEPT ![c] = FALSE]
    /\ queue' = [queue EXCEPT ![c] = <<>>]
    /\ dirty_exec' = [dirty_exec EXCEPT ![c] = FALSE]
    /\ refused' = [refused EXCEPT ![c] = FALSE]

discardTransaction(c) ==
    /\ ClearTransaction(c)
    /\ dirty_cas' = [dirty_cas EXCEPT ![c] = FALSE]
    /\ unwatchAllKeys(c)

multiCommand(c) ==
    /\ MaySend(c) /\ "MULTI" \in Names[c] /\ ~multi[c]
    /\ multi' = [multi EXCEPT ![c] = TRUE]
    /\ UNCHANGED <<dataVars, slaveVars, queue, dirty_exec, refused, dirty_cas, watchVars,
                   blockVars, ready_keys, connected, pc, execVars, serveVars>>

discardCommand(c) ==
    /\ MaySend(c) /\ multi[c]
    /\ discardTransaction(c)
    /\ UNCHANGED <<dataVars, slaveVars, blockVars, ready_keys, connected, pc, execVars, serveVars>>

watchCommand(c, k) ==
    /\ MaySend(c) /\ "WATCH" \in Names[c] /\ ~multi[c] /\ k \notin watched[c]
    /\ watched' = [watched EXCEPT ![c] = @ \cup {k}]
    /\ watched_keys' = [watched_keys EXCEPT ![k] = @ \cup {c}]
    /\ UNCHANGED <<changed, dataVars, slaveVars, multiVars, dirty_cas, blockVars, ready_keys, connected,
                   pc, execVars, serveVars>>

(* Inside MULTI it is queued, and finds nothing watched when EXEC runs it. *)
unwatchCommand(c) ==
    /\ MaySend(c) /\ ~multi[c] /\ watched[c] # {}
    /\ unwatchAllKeys(c)
    /\ dirty_cas' = [dirty_cas EXCEPT ![c] = FALSE]
    /\ UNCHANGED <<dataVars, slaveVars, multiVars, blockVars, ready_keys, connected, pc,
                   execVars, serveVars>>

queueMultiCommand(c, cmd) ==
    /\ MaySend(c) /\ multi[c] /\ Accepts(c, cmd)
    /\ Len(queue[c]) < MaxQueue
    /\ queue' = [queue EXCEPT ![c] = Append(@, cmd)]
    /\ UNCHANGED <<dataVars, slaveVars, multi, dirty_exec, refused, dirty_cas, watchVars,
                   blockVars, ready_keys, connected, pc, execVars, serveVars>>

(* processCommand refuses a command of a transaction, for its name, its    *)
(* arity, a missing AUTH, the memory, the disk, the lost master, a script. *)
flagTransaction(c) ==
    /\ MaySend(c) /\ multi[c]
    /\ dirty_exec' = [dirty_exec EXCEPT ![c] = TRUE]
    /\ refused' = [refused EXCEPT ![c] = TRUE]
    /\ UNCHANGED <<dataVars, slaveVars, multi, queue, dirty_cas, watchVars, blockVars, ready_keys,
                   connected, pc, execVars, serveVars>>

(* A read-only slave refuses a write of a transaction.                     *)
RefuseOnSlave(c) ==
    /\ MaySend(c) /\ multi[c] /\ Master \notin {NoClient, c}
    /\ refused' = [refused EXCEPT ![c] = TRUE]
    /\ UNCHANGED <<dataVars, slaveVars, multi, queue, dirty_exec, dirty_cas, watchVars, blockVars,
                   ready_keys, connected, pc, execVars, serveVars>>


-----------------------------------------------------------------------------
(* Executing commands *)

(* The command procedure, in the context of call.                          *)
CallProc(cmd) ==
    /\ data' = Effect(cmd, elems + 1, data)
    /\ dirty' = DirtyAfter(cmd)
    /\ elems' = IF cmd.name = "RPUSH" /\ Modifies(cmd, data) THEN elems + 1 ELSE elems
    /\ gone' = gone \cup (Elements(data) \ Elements(data'))
    /\ touchWatchedKey(TouchedClients(cmd)) /\ ChangeWatched
    /\ signalListAsReady(CreatedList(cmd))

(* processCommand serves blocked clients once the command is executed.     *)
AfterCommand == pc' = IF ready_keys' # <<>> THEN "serve" ELSE "idle"

Blocks(cmd) ==
    \/ cmd.name = "BLPOP" /\ data[PopKey(cmd, data)] = Absent
    \/ cmd.name = "BRPOPLPUSH" /\ data[cmd.key] = Absent

(* A command outside of a transaction.                                     *)
call(c, cmd) ==
    /\ MaySend(c) /\ ~multi[c] /\ Accepts(c, cmd) /\ Room(<<cmd>>)
    /\ ~Blocks(cmd)
    /\ CallProc(cmd)
    /\ IF dirty' # dirty THEN Feed(Rewritten(cmd), elems + 1) ELSE UNCHANGED slaveVars
    /\ AfterCommand
    /\ UNCHANGED <<multiVars, blockVars, connected, execVars, serveVars>>

(* A pop that finds no list, outside of a transaction.                     *)
BlockingPop(c, cmd) ==
    /\ MaySend(c) /\ ~multi[c] /\ Accepts(c, cmd)
    /\ Blocks(cmd)
    /\ blockForKeys(c, cmd, IF cmd.name = "BLPOP" THEN {cmd.key, cmd.dst} ELSE {cmd.key})
    /\ UNCHANGED <<dataVars, slaveVars, multiVars, dirty_cas, watchVars, ready_keys, connected,
                   pc, execVars, serveVars>>

ExecAborts(c) ==
    /\ MaySend(c) /\ multi[c] /\ (dirty_cas[c] \/ dirty_exec[c])
    /\ discardTransaction(c)
    /\ UNCHANGED <<dataVars, slaveVars, blockVars, ready_keys, connected, pc, execVars, serveVars>>

execCommand(c) ==
    /\ MaySend(c) /\ multi[c] /\ ~dirty_cas[c] /\ ~dirty_exec[c] /\ Room(queue[c])
    /\ unwatchAllKeys(c)
    /\ pc' = "exec" /\ current' = c /\ todo' = queue[c]
    /\ propagated' = FALSE /\ before' = dirty
    /\ UNCHANGED <<dataVars, slaveVars, multiVars, dirty_cas, blockVars, ready_keys, connected,
                   serveVars>>

(* A bug that sends MULTI once there was a write.                          *)
NeedsMultiLate(cmd) == ~propagated /\ dirty # before

(* MULTI is propagated before the first command that may write.            *)
NeedsMulti(cmd) == ~propagated /\ cmd.name \notin ReadOnly

ExecStep ==
    /\ pc = "exec" /\ todo # <<>>
    /\ LET cmd == Head(todo)
       IN  /\ CallProc(cmd)
           /\ IF NeedsMulti(cmd)
              THEN FeedMultiAnd(Rewritten(cmd), elems + 1, dirty' # dirty)
              ELSE IF dirty' # dirty THEN Feed(Rewritten(cmd), elems + 1)
                                     ELSE UNCHANGED slaveVars
           /\ propagated' = (propagated \/ NeedsMulti(cmd))
    /\ todo' = Tail(todo)
    /\ UNCHANGED <<multiVars, blockVars, connected, pc, current, before, serveVars>>

(* call propagates EXEC if server.dirty is not what it was before EXEC.    *)
ExecEnd ==
    /\ pc = "exec" /\ todo = <<>>
    /\ discardTransaction(current)
    /\ dirty' = dirty + (IF propagated THEN 1 ELSE 0)
    /\ IF dirty' # before THEN FeedExec ELSE UNCHANGED slaveVars
    /\ pc' = IF ready_keys # <<>> THEN "serve" ELSE "idle"
    /\ current' = NoClient /\ propagated' = FALSE /\ before' = 0
    /\ UNCHANGED <<data, elems, gone, blockVars, ready_keys, connected, todo, serveVars>>

-----------------------------------------------------------------------------
(* handleClientsBlockedOnLists *)

(* A bug that serves one client for each key.                              *)
NumClientsOne(k) == IF data[k].list # <<>> /\ blocking_keys[k] # <<>> THEN 1 ELSE 0

(* The clients that may be served, if the key is a list.                   *)
NumClients(k) == IF data[k].list # <<>> THEN Len(blocking_keys[k]) ELSE 0

(* It takes the next key of the list, or of the list filled meanwhile.     *)
NextReadyKey ==
    /\ pc = "serve" /\ serving = NoKey /\ handling \o ready_keys # <<>>
    /\ LET l == IF handling # <<>> THEN handling ELSE ready_keys
       IN  /\ serving' = Head(l)
           /\ handling' = Tail(l)
           /\ ready_keys' = IF handling # <<>> THEN ready_keys ELSE <<>>
           /\ left' = NumClients(Head(l))
    /\ UNCHANGED <<dataVars, slaveVars, multiVars, dirty_cas, watchVars, blockVars, connected,
                   pc, execVars, value>>

Serves(c) ==
    /\ pc = "serve" /\ serving # NoKey /\ left > 0
    /\ data[serving].list # <<>>
    /\ c = Head(blocking_keys[serving])
    /\ left' = left - 1
    /\ unblockClientWaitingData(c)

ServePop(c) ==
    /\ Serves(c) /\ blocked[c].name = "BLPOP"
    /\ data' = PopHead(serving, data)
    /\ ChangeWatched
    /\ gone' = gone \cup {Head(data[serving].list)}
    /\ Feed([name |-> "LPOP", key |-> serving, dst |-> serving], 0)
    /\ UNCHANGED <<dirty, elems, multiVars, dirty_cas, ready_keys, connected, pc,
                   execVars, handling, serving, value>>

(* Bugs: the pop is not undone; it is propagated before the type is known. *)
ServeWrongTypeLoses(c) ==
    /\ Serves(c) /\ blocked[c].name = "BRPOPLPUSH" /\ data[blocked[c].dst].str
    /\ data' = PopTail(serving, data)
    /\ ChangeWatched
    /\ UNCHANGED <<dirty, elems, gone, slaveVars, multiVars, dirty_cas, ready_keys,
                   connected, pc, execVars, handling, serving, value>>

ServeWrongTypePropagates(c) ==
    /\ Serves(c) /\ blocked[c].name = "BRPOPLPUSH" /\ data[blocked[c].dst].str
    /\ Feed([name |-> "RPOP", key |-> serving, dst |-> serving], 0)
    /\ UNCHANGED <<dataVars, multiVars, dirty_cas, watchVars, ready_keys, connected, pc,
                   execVars, handling, serving, value>>

(* BRPOPLPUSH whose destination is not a list: the pop is undone.          *)
ServeWrongType(c) ==
    /\ Serves(c) /\ blocked[c].name = "BRPOPLPUSH" /\ data[blocked[c].dst].str
    /\ UNCHANGED <<dataVars, slaveVars, multiVars, dirty_cas, watchVars, ready_keys, connected,
                   pc, execVars, handling, serving, value>>

ServePopPush(c) ==
    /\ Serves(c) /\ blocked[c].name = "BRPOPLPUSH" /\ ~data[blocked[c].dst].str
    /\ data' = PopTail(serving, data)
    /\ ChangeWatched
    /\ Feed([name |-> "RPOP", key |-> serving, dst |-> serving], 0)
    /\ value' = [elem |-> Last(data[serving].list), dst |-> blocked[c].dst]
    /\ pc' = "push"
    /\ UNCHANGED <<dirty, elems, gone, multiVars, dirty_cas, ready_keys, connected,
                   execVars, handling, serving>>

(* A bug that leaves the watchers of the destination alone.                *)
HandlePushUnwatched ==
    /\ pc = "push"
    /\ data' = PushHead(value.dst, value.elem, data)
    /\ ChangeWatched
    /\ signalListAsReady({k \in {value.dst} : data[k] = Absent /\ k # serving})
    /\ Feed([name |-> "LPUSH", key |-> value.dst, dst |-> value.dst], value.elem)
    /\ value' = NoValue
    /\ pc' = "serve"
    /\ UNCHANGED <<dirty, elems, gone, multiVars, dirty_cas, blockVars, connected,
                   execVars, handling, serving, left>>

(* The list that is being served still exists when it is empty.            *)
rpoplpushHandlePush ==
    /\ pc = "push"
    /\ data' = PushHead(value.dst, value.elem, data)
    /\ ChangeWatched
    /\ signalListAsReady({k \in {value.dst} : data[k] = Absent /\ k # serving})
    /\ touchWatchedKey(watched_keys[value.dst])
    /\ Feed([name |-> "LPUSH", key |-> value.dst, dst |-> value.dst], value.elem)
    /\ value' = NoValue
    /\ pc' = "serve"
    /\ UNCHANGED <<dirty, elems, gone, multiVars, blockVars, connected, execVars,
                   handling, serving, left>>

KeyServed ==
    /\ pc = "serve" /\ serving # NoKey
    /\ left = 0 \/ data[serving].list = <<>>
    /\ serving' = NoKey /\ left' = 0
    /\ UNCHANGED <<dataVars, slaveVars, multiVars, dirty_cas, watchVars, blockVars, ready_keys,
                   connected, pc, execVars, handling, value>>

AllServed ==
    /\ pc = "serve" /\ serving = NoKey /\ handling \o ready_keys = <<>>
    /\ pc' = "idle"
    /\ UNCHANGED <<dataVars, slaveVars, multiVars, dirty_cas, watchVars, blockVars, ready_keys,
                   connected, execVars, serveVars>>

-----------------------------------------------------------------------------
(* The rest of the event loop *)

(* Before the next iteration, which comes at once after the cron.  What it *)
(* finds in the query buffers of these clients are commands like others.   *)
beforeSleep ==
    /\ pc = "sleep" \/ (pc = "idle" /\ unblocked_clients # <<>>)
    /\ unblocked_clients' = <<>>
    /\ pc' = "idle"
    /\ UNCHANGED <<dataVars, slaveVars, multiVars, dirty_cas, watchVars, blocked, bpop_keys,
                   blocking_keys, ready_keys, connected, execVars, serveVars>>

(* The timeout of a blocked client, in the cron.                           *)
clientsCronHandleTimeout(c) ==
    /\ pc \in {"idle", "sleep"} /\ blocked[c] # Unblocked
    /\ unblockClientWaitingData(c)
    /\ pc' = "sleep"
    /\ UNCHANGED <<dataVars, slaveVars, multiVars, dirty_cas, watchVars, ready_keys, connected,
                   execVars, serveVars>>

(* A BGSAVE that was not overtaken by a write has ended.                   *)
backgroundSaveDoneHandler ==
    /\ pc = "idle" /\ dirty # 0
    /\ dirty' = 0
    /\ UNCHANGED <<data, elems, gone, slaveVars, multiVars, dirty_cas, watchVars, blockVars,
                   ready_keys, connected, pc, execVars, serveVars>>

(* A client that is blocked is first unblocked, and so listed; the list is *)
(* searched once for a client that is listed.                              *)
freeClient(c) ==
    /\ pc \in {"idle", "sleep"} /\ c \in connected
    /\ connected' = connected \ {c}
    /\ LeaveBlockingKeys(c)
    /\ unblocked_clients' = IF blocked[c] # Unblocked
                            THEN RemoveFirst(Append(unblocked_clients, c), c)
                            ELSE RemoveFirst(unblocked_clients, c)
    /\ discardTransaction(c)
    /\ UNCHANGED <<dataVars, slaveVars, ready_keys, pc, execVars, serveVars>>

createClient(c) ==
    /\ pc = "idle" /\ c \notin connected
    /\ connected' = connected \cup {c}
    /\ UNCHANGED <<dataVars, slaveVars, multiVars, dirty_cas, watchVars, blockVars, ready_keys,
                   pc, execVars, serveVars>>

-----------------------------------------------------------------------------
ClientStep(c) ==
    \/ multiCommand(c) \/ discardCommand(c) \/ unwatchCommand(c)
    \/ \E k \in Key : watchCommand(c, k)
    \/ \E cmd \in CommandOf(Names[c]) : queueMultiCommand(c, cmd) \/ call(c, cmd) \/ BlockingPop(c, cmd)
    \/ flagTransaction(c)
    \/ ExecAborts(c) \/ execCommand(c)
    \/ clientsCronHandleTimeout(c) \/ freeClient(c) \/ createClient(c)

ThreadStep ==
    \/ ExecStep \/ ExecEnd
    \/ NextReadyKey \/ KeyServed \/ AllServed
    \/ \E c \in Client : ServePop(c) \/ ServeWrongType(c) \/ ServePopPush(c)
    \/ rpoplpushHandlePush
    \/ beforeSleep \/ backgroundSaveDoneHandler

Next == ThreadStep \/ \E c \in Client : ClientStep(c)

Spec == Init /\ [][Next]_vars

(* A read-only slave, whose clients' writes are refused.                   *)
SlaveNext == Next \/ \E c \in Client : RefuseOnSlave(c)
SlaveSpec == Init /\ [][SlaveNext]_vars
-----------------------------------------------------------------------------
(* Properties *)

(* The key spaces whose lists hold the elements 1..n.                      *)
KeySpaces(n) ==
    {d \in [Key -> [str : BOOLEAN, list : Seq(1..n)]] :
        \A k \in Key : d[k].str => d[k].list = <<>>}

(* The commands that some client sends.                                    *)
Sent == CommandOf(UNION {Names[cl] : cl \in Client})

NoneSends(name) == \A cl \in Client : name \notin Names[cl]

(* Every variable has its type.                                            *)
TypeOK ==
    /\ {data, rdata, rnext} \subseteq KeySpaces(elems)
    /\ dirty \in Nat /\ before \in Nat /\ left \in Nat /\ elems \in Nat /\ gone \subseteq 1..elems
    /\ rmulti \in BOOLEAN /\ propagated \in BOOLEAN
    /\ multi \in [Client -> BOOLEAN] /\ queue \in [Client -> Seq(Sent)] /\ todo \in Seq(Sent)
    /\ dirty_cas \in [Client -> BOOLEAN] /\ dirty_exec \in [Client -> BOOLEAN]
    /\ watched \in [Client -> SUBSET Key] /\ watched_keys \in [Key -> SUBSET Client]
    /\ changed \in [Client -> SUBSET Key] /\ refused \in [Client -> BOOLEAN]
    /\ blocked \in [Client -> {Unblocked} \cup {cmd \in Sent : cmd.name \in {"BLPOP", "BRPOPLPUSH"}}]
    /\ bpop_keys \in [Client -> SUBSET Key] /\ blocking_keys \in [Key -> Seq(Client)]
    /\ unblocked_clients \in Seq(Client) /\ connected \subseteq Client
    /\ ready_keys \in Seq(Key) /\ handling \in Seq(Key) /\ serving \in Key \cup {NoKey}
    /\ value \in {NoValue} \cup [elem : 1..elems, dst : Key]
    /\ pc \in {"idle", "exec", "serve", "push", "sleep"} /\ current \in Client \cup {NoClient}

(* watchForKey, unwatchAllKeys and freeClient keep both sides of WATCH.    *)
WatchLinks ==
    \A cl \in Client, k \in Key :
        /\ k \in watched[cl] <=> cl \in watched_keys[k]
        /\ k \in watched[cl] => cl \in connected

(* blockForKeys, unblockClientWaitingData and freeClient keep both sides   *)
(* of blocking, each client once for each of its keys.                     *)
BlockLinks ==
    /\ \A k \in Key : IsInjective(blocking_keys[k])
    /\ \A cl \in Client :
        /\ bpop_keys[cl] # {} <=> blocked[cl] # Unblocked
        /\ \A k \in Key :
            /\ cl \in ToSet(blocking_keys[k]) <=> k \in bpop_keys[cl]
            /\ k \in bpop_keys[cl] => cl \in connected /\ ~multi[cl]

(* The client a beforeSleep will resume is connected: freeClient removes   *)
(* "it from the list with unblocked clients" (networking.c:663).           *)
UnblockedExist == ToSet(unblocked_clients) \subseteq connected

(* Each pair of tables that multi.c, t_list.c and freeClient keep by hand  *)
(* describes one relation, and no table keeps a client that is not         *)
(* connected, whatever sequence of blocking, service, timeout, EXEC and    *)
(* disconnection led there: the asserts at multi.c:247, t_list.c:798 and   *)
(* networking.c:666, and that no freed client is reached through a table.  *)
LinksInv == TypeOK /\ WatchLinks /\ BlockLinks /\ UnblockedExist

(* Between commands no client sleeps on a list that has elements, though   *)
(* it waited for several keys, pushes came inside a transaction or by the  *)
(* service of BRPOPLPUSH, and other clients waited on the same keys        *)
(* (t_list.c:749: "we serve all the clients waiting for this list").       *)
NoWaiterOnList ==
    pc = "idle" => \A cl \in Client : \A k \in bpop_keys[cl] : data[k].list = <<>>

(* Each transaction and each service of a blocked client is propagated so  *)
(* that the slave, and an AOF, executes to the dataset, and a MULTI is     *)
(* followed by its EXEC (multi.c:151: "we'll deliver the MULTI/..../EXEC   *)
(* block as a whole").                                                     *)
ReplicaIsExact == pc = "idle" => rdata = data /\ rnext = data /\ ~rmulti

(* What a reader of the slave sees never changes while the master is       *)
(* inside EXEC: MULTI precedes the first write of the transaction.         *)
TransactionIsAtomic == [][pc = "exec" /\ pc' = "exec" => rdata' = rdata]_vars

(* EXEC runs a transaction only if no key changed since the client watched *)
(* it, by whatever command or service, and none of its commands was        *)
(* refused (multi.c:80).                                                   *)
ExecIsClean ==
    [][pc = "idle" /\ pc' = "exec" => changed[current'] = {} /\ ~refused[current']]_vars

(* No element is lost or duplicated on its way through pushes, pops, the   *)
(* undone pop of BRPOPLPUSH and the service of several clients.            *)
ElementsKept ==
    /\ Elements(data) \cup gone \cup {value.elem} \cup {0} = 0..elems
    /\ \A k, l \in Key : \A i \in DOMAIN data[k].list, j \in DOMAIN data[l].list :
           data[k].list[i] = data[l].list[j] => k = l /\ i = j
    /\ Elements(data) \cap (gone \cup {value.elem}) = {}

(* What the slave holds of an element that BRPOPLPUSH moves: "a reliable   *)
(* way" (t_list.c:683) would keep it in one of the two lists.              *)
MovedElementStays == value # NoValue => value.elem \in Elements(rdata)

-----------------------------------------------------------------------------
(* The inductive invariants behind the properties, for the proofs          *)

(* What the thread is doing, and what it keeps while it does it.           *)
ControlInv ==
    /\ pc \in {"idle", "sleep"} => ready_keys = <<>> /\ handling = <<>> /\ serving = NoKey
    /\ pc = "exec" => current \in Client /\ handling = <<>> /\ serving = NoKey
    /\ pc = "push" => serving # NoKey /\ value # NoValue /\ ~data[value.dst].str
    /\ pc # "push" => value = NoValue

(* A client is listed to be resumed once, and not while it is blocked.     *)
UnblockedOnce ==
    /\ IsInjective(unblocked_clients)
    /\ \A cl \in ToSet(unblocked_clients) : blocked[cl] = Unblocked

(* numclients counts the clients that still wait for the key being served. *)
ServeInv ==
    /\ left > 0 => serving # NoKey
    /\ serving # NoKey /\ (left > 0 \/ pc = "push") => left = Len(blocking_keys[serving])

(* A list with elements on which a client sleeps is about to be served.    *)
WaitersInv ==
    \A k \in Key :
        blocking_keys[k] # <<>> /\ data[k].list # <<>> =>
            \/ k \in ToSet(ready_keys) \cup ToSet(handling)
            \/ serving = k /\ left = Len(blocking_keys[k])

(* Outside of a MULTI the slave shows what it has read, and EXEC knows     *)
(* whether it has sent one.                                                *)
MultiInv ==
    /\ ~rmulti => rdata = rnext
    /\ pc = "exec" /\ propagated => rmulti

(* What the slave has read is the dataset, and EXEC ends its MULTI.        *)
StreamInv ==
    /\ rnext = data
    /\ rmulti => pc = "exec" /\ propagated
    /\ pc = "exec" => before <= dirty /\ (~propagated => dirty = before)

(* The watchers of a key that changed, or will when it is served, know it. *)
TouchedInv ==
    \A cl \in Client :
        /\ changed[cl] # {} => dirty_cas[cl]
        /\ refused[cl] => dirty_exec[cl]
        /\ \A k \in watched[cl] :
               k \in ToSet(ready_keys) \cup ToSet(handling) \cup {serving} => dirty_cas[cl]

(* The element on its way was neither delivered nor deleted.               *)
ElementsInv == ElementsKept /\ value.elem \notin gone

(* All of them, as each other need them.                                   *)
CommandInv ==
    /\ LinksInv /\ ControlInv /\ UnblockedOnce /\ ServeInv /\ WaitersInv /\ MultiInv
    /\ StreamInv /\ TouchedInv /\ ElementsInv

=============================================================================
