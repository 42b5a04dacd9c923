------------------------------- MODULE Server -------------------------------
(* The parts that keep their own state, side by side: a behaviour takes    *)
(* the steps of one part, which is chosen at its beginning, and the others *)
(* rest in an initial state.                                               *)
EXTENDS SentinelVotes, SentinelLinks, SentinelScripts, SlaveLink, ClientInput, ClientOutput, PubSub, EventLoop,
        Iocp, QFork, Scripting, BackgroundJobs

CONSTANT Parts    \* the parts that may run

VARIABLE part

ServerInit ==
    /\ part \in Parts
    /\ VotesInit /\ LinksInit /\ ScriptsInit /\ SlaveInit /\ InInit /\ OutInit /\ SubInit /\ LoopInit
    /\ IocpInit /\ QForkInit /\ LuaInit /\ BioInit

Runs(p) ==
    /\ part = p
    /\ UNCHANGED part
    /\ IF p = "votes"    THEN TRUE ELSE UNCHANGED voteVars
    /\ IF p = "links"    THEN TRUE ELSE UNCHANGED linkVars
    /\ IF p = "scripts"  THEN TRUE ELSE UNCHANGED scriptVars
    /\ IF p = "slave"    THEN TRUE ELSE UNCHANGED slaveVars
    /\ IF p = "input"    THEN TRUE ELSE UNCHANGED inVars
    /\ IF p = "output"   THEN TRUE ELSE UNCHANGED outVars
    /\ IF p = "clients"  THEN TRUE ELSE UNCHANGED subVars
    /\ IF p = "loop"     THEN TRUE ELSE UNCHANGED loopVars
    /\ IF p = "iocp"     THEN TRUE ELSE UNCHANGED iocpVars
    /\ IF p = "fork"     THEN TRUE ELSE UNCHANGED qforkVars
    /\ IF p = "lua"      THEN TRUE ELSE UNCHANGED luaVars
    /\ IF p = "bio"      THEN TRUE ELSE UNCHANGED bioVars

ServerNext ==
    \/ Runs("votes") /\ VotesNext
    \/ Runs("links") /\ LinksNext
    \/ Runs("scripts") /\ ScriptsNext
    \/ Runs("slave") /\ SlaveNext
    \/ Runs("input") /\ InNext
    \/ Runs("output") /\ OutNext
    \/ Runs("clients") /\ SubNext
    \/ Runs("loop") /\ LoopNext
    \/ Runs("iocp") /\ IocpNext
    \/ Runs("fork") /\ QForkNext
    \/ Runs("lua") /\ LuaNext
    \/ Runs("bio") /\ BioNext

serverPartVars == <<part, voteVars, linkVars, scriptVars, slaveVars, inVars, outVars, subVars, loopVars, iocpVars,
                    qforkVars, luaVars, bioVars>>
ServerSpec == ServerInit /\ [][ServerNext]_serverPartVars

-----------------------------------------------------------------------------
(* Invariants are looked at in the parts that run: the others are in their *)
(* initial state.                                                          *)

(* Sentinel's queue of scripts and its connections: no process without its *)
(* job, no connection that is used without being there.                    *)
SentinelKeepsBooks ==
    /\ part = "scripts" => ScriptsAreCounted
    /\ part = "links" => LinksAreUsable

(* What clients send is executed once and in order.                        *)
RequestsAreExecuted == part = "input" => CommandsAreThoseSent

(* Clients and slaves are served: what a client is sent is the replies in  *)
(* order, a script has the same effect on a slave, a slave's sockets lead  *)
(* to the master it was told, and the lists of clients and subscriptions   *)
(* hold the clients that are there, once each.                             *)
ClientsAreServed ==
    /\ part = "output" => RepliesInOrder
    /\ part = "lua" => ScriptsAreReplayed
    /\ part = "slave" => LinkIsOfItsMaster
    /\ part = "clients" => TablesAgree

(* What runs beside the server is consistent with it: the operations that  *)
(* Windows has under way, the forked process and the bio threads.          *)
WorkBesideTheServer ==
    /\ part = "iocp" => OperationsAreKnown
    /\ part = "fork" => ForkIsASnapshot
    /\ part = "bio" => JobsAreDone
=============================================================================
