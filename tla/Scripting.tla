----------------------------- MODULE Scripting ------------------------------
(***************************************************************************)
(* Lua scripts, scripting.c.  A script is a sequence of calls and of loops *)
(* in which it may exceed its time limit: then other clients are served,   *)
(* for all but SCRIPT KILL and SHUTDOWN NOSAVE with an error.  A script    *)
(* that wrote is replicated as a whole and runs again on the slave, where  *)
(* commands that are not deterministic may answer differently.             *)
(***************************************************************************)
EXTENDS Integers, Sequences, FiniteSets

CONSTANTS
    Script,        \* scripts: sequences of calls
    LuaKey, LuaValue,
    MaxRuns,       \* scripts run
    Evicts         \* maxmemory is set and reached

LuaCall == [op : {"get", "set", "pset", "random", "loop", "error"}, key : LuaKey]

ASSUME LuaAssumption == \A s \in Script : s \in Seq(LuaCall)

VARIABLES
    dataset,       \* the data of the master
    slaveset,      \* the data of its slave
    lua_scripts,   \* scripts that are known by their SHA1
    slave_scripts, \* the same of the slave
    run,           \* the script that runs, or NoRun
    lua_timedout, lua_kill,
    runs,          \* scripts run so far
    refused,       \* another client was told BUSY while the script ran
    killedDirty    \* history: a script was killed after it wrote

luaVars == <<dataset, slaveset, lua_scripts, slave_scripts, run, lua_timedout, lua_kill, runs, refused, killedDirty>>

NoRun == [script |-> <<>>, pc |-> 0, evalsha |-> FALSE, from |-> <<>>,
          st |-> [data |-> <<>>, got |-> 0, lua_random_dirty |-> FALSE, lua_write_dirty |-> FALSE, err |-> FALSE]]
Busy == run # NoRun
Begin(data) == [data |-> data, got |-> 0, lua_random_dirty |-> FALSE, lua_write_dirty |-> FALSE, err |-> FALSE]

-----------------------------------------------------------------------------
(* A bug that writes after a command that is not deterministic.            *)
NeverRefused(st) == FALSE

(* Write commands are refused after such a command.                        *)
WriteRefused(st) == st.lua_random_dirty

(* luaRedisGenericCommand: redis.call ends the script by an error,         *)
(* redis.pcall returns it.  What is written depends on what was read last. *)
luaRedisGenericCommand(st, call, random) ==
    IF st.err THEN st
    ELSE CASE call.op = "get"    -> [st EXCEPT !.got = st.data[call.key]]
           [] call.op = "random" -> [st EXCEPT !.got = random, !.lua_random_dirty = TRUE]
           [] call.op = "loop"   -> st
           [] call.op = "error"  -> [st EXCEPT !.err = TRUE]
           [] OTHER -> IF WriteRefused(st) THEN [st EXCEPT !.err = (call.op = "set")]
                       ELSE [st EXCEPT !.data[call.key] = (st.got + 1) % Cardinality(LuaValue),
                                       !.lua_write_dirty = TRUE]

(* The state after every call of a script that runs on data.               *)
Execution(data, script, random) ==
    LET st[i \in 0 .. Len(script)] ==
          IF i = 0 THEN Begin(data) ELSE luaRedisGenericCommand(st[i - 1], script[i], random[i])
    IN  st

(* freeMemoryIfNeeded: a key goes, and the slave is told before the script *)
(* is sent to it.                                                          *)
Evicted(d, k) == [d EXCEPT ![k] = 0]

-----------------------------------------------------------------------------
(* evalGenericCommand up to lua_pcall: EVAL makes the script known,        *)
(* EVALSHA needs it to be.                                                 *)
evalGenericCommand(s, evalsha) ==
    /\ ~Busy /\ runs < MaxRuns
    /\ evalsha => s \in lua_scripts
    /\ run' = [script |-> s, pc |-> 1, evalsha |-> evalsha, from |-> dataset, st |-> Begin(dataset)]
    /\ lua_scripts' = lua_scripts \cup {s}
    /\ lua_kill' = FALSE
    /\ runs' = runs + 1
    /\ UNCHANGED <<dataset, slaveset, slave_scripts, lua_timedout, refused, killedDirty>>

(* A call of the script.                                                   *)
ScriptStep ==
    /\ Busy /\ run.pc <= Len(run.script) /\ ~run.st.err
    /\ run.script[run.pc].op # "loop"
    /\ \E random \in LuaValue :
          run' = [run EXCEPT !.st = luaRedisGenericCommand(run.st, run.script[run.pc], random), !.pc = @ + 1]
    /\ UNCHANGED <<dataset, slaveset, lua_scripts, slave_scripts, lua_timedout, lua_kill, runs, refused, killedDirty>>

(* luaMaskCountHook: the time limit is passed.                             *)
HookTimesOut ==
    /\ Busy /\ run.pc <= Len(run.script) /\ run.script[run.pc].op = "loop" /\ ~run.st.err
    /\ ~lua_timedout
    /\ lua_timedout' = TRUE
    /\ UNCHANGED <<dataset, slaveset, lua_scripts, slave_scripts, run, lua_kill, runs, refused, killedDirty>>

(* The loop ends, or the hook raises the error of a kill.                  *)
LoopEnds ==
    /\ Busy /\ run.pc <= Len(run.script) /\ run.script[run.pc].op = "loop" /\ ~run.st.err
    /\ run' = [run EXCEPT !.pc = @ + 1, !.st.err = lua_kill]
    /\ killedDirty' = (killedDirty \/ (lua_kill /\ run.st.lua_write_dirty))
    /\ UNCHANGED <<dataset, slaveset, lua_scripts, slave_scripts, lua_timedout, lua_kill, runs, refused>>

(* A bug that kills a script that wrote.                                   *)
KillAlways == Busy /\ lua_timedout

(* SCRIPT KILL of another client, which is served once the script is slow. *)
scriptKill == Busy /\ lua_timedout /\ ~run.st.lua_write_dirty
ScriptKill ==
    /\ scriptKill /\ run.pc <= Len(run.script) /\ run.script[run.pc].op = "loop" /\ ~run.st.err
    /\ lua_kill' = TRUE
    /\ UNCHANGED <<dataset, slaveset, lua_scripts, slave_scripts, run, lua_timedout, runs, refused, killedDirty>>

(* Any other command of another client is refused, but after the memory    *)
(* was looked at: its keys go while the script runs.                       *)
RefusedCommand ==
    /\ Busy /\ lua_timedout
    /\ run.pc <= Len(run.script) /\ run.script[run.pc].op = "loop" /\ ~run.st.err
    /\ IF Evicts
       THEN \E k \in LuaKey : /\ run' = [run EXCEPT !.st.data = Evicted(@, k)]
                              /\ slaveset' = Evicted(slaveset, k)
       ELSE UNCHANGED <<run, slaveset>>
    /\ refused' = TRUE
    /\ UNCHANGED <<dataset, lua_scripts, slave_scripts, lua_timedout, lua_kill, runs, killedDirty>>

-----------------------------------------------------------------------------
(* A bug that sends EVALSHA as it was received.                            *)
SlaveKnowsSha(evalsha, s) == ~evalsha \/ s \in slave_scripts

(* EVALSHA is rewritten to EVAL before it is propagated.                   *)
SlaveRuns(evalsha, s) == TRUE

(* The end of the command: call() propagates it if the data changed.       *)
EvalEnds ==
    /\ Busy /\ (run.pc > Len(run.script) \/ run.st.err)
    /\ dataset' = run.st.data
    /\ \E random \in [1 .. Len(run.script) -> LuaValue] :
          LET there == Execution(slaveset, run.script, random)[Len(run.script)]
          IN  IF run.st.lua_write_dirty /\ SlaveRuns(run.evalsha, run.script)
              THEN slaveset' = there.data /\ slave_scripts' = slave_scripts \cup {run.script}
              ELSE UNCHANGED <<slaveset, slave_scripts>>
    /\ run' = NoRun
    /\ lua_timedout' = FALSE /\ refused' = FALSE
    /\ UNCHANGED <<lua_scripts, lua_kill, runs, killedDirty>>

(* SCRIPT LOAD is not propagated, SCRIPT FLUSH is.                         *)
scriptLoad(s) ==
    /\ ~Busy
    /\ lua_scripts' = lua_scripts \cup {s}
    /\ UNCHANGED <<dataset, slaveset, slave_scripts, run, lua_timedout, lua_kill, runs, refused, killedDirty>>

scriptFlush ==
    /\ ~Busy
    /\ lua_scripts' = {} /\ slave_scripts' = {}
    /\ UNCHANGED <<dataset, slaveset, run, lua_timedout, lua_kill, runs, refused, killedDirty>>

LuaInit ==
    /\ dataset = [k \in LuaKey |-> 0] /\ slaveset = [k \in LuaKey |-> 0]
    /\ lua_scripts = {} /\ slave_scripts = {} /\ run = NoRun
    /\ lua_timedout = FALSE /\ lua_kill = FALSE /\ runs = 0 /\ refused = FALSE /\ killedDirty = FALSE

LuaNext ==
    \/ \E s \in Script : scriptLoad(s) \/ \E evalsha \in BOOLEAN : evalGenericCommand(s, evalsha)
    \/ ScriptStep \/ HookTimesOut \/ LoopEnds \/ ScriptKill \/ RefusedCommand \/ EvalEnds \/ scriptFlush

-----------------------------------------------------------------------------
(* Between scripts the slave has the data of the master, whatever the      *)
(* commands that are not deterministic answered on each side, however the  *)
(* scripts ended and by whichever of EVAL and EVALSHA they were run; and   *)
(* no script is killed that wrote.                                         *)
ScriptsAreReplayed ==
    /\ ~Busy => slaveset = dataset
    /\ ~killedDirty
=============================================================================
