-------------------------------- MODULE Iocp --------------------------------
(***************************************************************************)
(* Sockets on Windows (ae_wsiocp.c, win32_wsiocp.c): the state kept for    *)
(* every descriptor, the operations that the kernel has under way for it,  *)
(* and the completion port that tells of their end.  A socket that is      *)
(* closed while operations are under way stays on a list until the last of *)
(* them ends.                                                              *)
(*                                                                         *)
(* A descriptor is used again after it was closed; gen tells its uses      *)
(* apart.                                                                  *)
(***************************************************************************)
EXTENDS Integers, Sequences, FiniteSets, FiniteSetsExt

CONSTANTS
    Fd,           \* descriptors
    Sends,        \* sends of a socket under way
    MaxGen        \* sockets ever opened

(* 0 stands for no descriptor; a send has a name of its own.               *)
ASSUME IocpAssumption == 0 \notin Fd /\ Sends \cap {"read", "connect", "post"} = {}

VARIABLES
    fdOpen,       \* the use of each descriptor, 0 if it is closed
    lookup,       \* state->lookup: the aeSockState of a descriptor, or NoState
    closingList,  \* state->closing
    kernel,       \* operations under way
    port,         \* operations that are complete
    fired,        \* eventLoop->fired: <<descriptor, event>>
    owned,        \* sockets the server uses
    accepting,    \* the descriptor of the accept under way, or None
    accepted,     \* accepts that are complete: sockstate->reqs of the listening socket
    lastGen,      \* sockets opened so far
    polling       \* in aeApiPoll; otherwise the events that fired are handled

iocpVars == <<fdOpen, lookup, closingList, kernel, port, fired, owned, accepting, accepted, lastGen, polling>>

NoFd == 0
NoState == [fd |-> NoFd, gen |-> 0, masks |-> {}, wreqs |-> {}]
Pending(s) == s.wreqs # {} \/ s.masks \cap {"READ_QUEUED", "CONNECT_PENDING", "SOCKET_ATTACHED"} # {}

(* The operations work on a copy of the state.                             *)
Io == [open |-> fdOpen, lookup |-> lookup, closing |-> closingList, kernel |-> kernel, gen |-> lastGen]
IoBecomes(x) ==
    /\ fdOpen' = x.open /\ lookup' = x.lookup /\ closingList' = x.closing
    /\ kernel' = x.kernel /\ lastGen' = x.gen

Op(x, f, op) == [fd |-> f, gen |-> x.open[f], op |-> op]

(* socket() and the state that is made when it is first asked for.         *)
OpenSocket(x, f, masks) ==
    [x EXCEPT !.gen = @ + 1, !.open[f] = x.gen + 1,
              !.lookup[f] = [fd |-> f, gen |-> x.gen + 1, masks |-> masks, wreqs |-> {}]]

-----------------------------------------------------------------------------
aeDelSockState(x, s) ==
    IF ~Pending(s) /\ "CLOSE_PENDING" \notin s.masks
    THEN [x EXCEPT !.lookup[s.fd] = NoState, !.closing = {c \in @ : c.fd # s.fd}]
    ELSE [x EXCEPT !.lookup[s.fd] = NoState, !.closing = {c \in @ : c.fd # s.fd} \cup {s}]

(* A bug that closes the descriptor although operations are under way.     *)
CloseAtOnce(x, f) ==
    LET s == [x.lookup[f] EXCEPT !.masks = @ \ {"SOCKET_ATTACHED", "WRITABLE", "READABLE"}]
    IN  aeDelSockState([x EXCEPT !.open[f] = 0], s)

aeWinCloseSocket(x, f) ==
    LET s == [x.lookup[f] EXCEPT !.masks = @ \ {"SOCKET_ATTACHED", "WRITABLE", "READABLE"}]
    IN  IF ~Pending(s) THEN aeDelSockState([x EXCEPT !.open[f] = 0], s)
        ELSE aeDelSockState(x, [s EXCEPT !.masks = @ \cup {"CLOSE_PENDING"}])

(* A read of no bytes tells when there is something to read.               *)
aeWinReceiveDone(x, f) ==
    IF "SOCKET_ATTACHED" \notin x.lookup[f].masks THEN x
    ELSE [x EXCEPT !.lookup[f].masks = @ \cup {"READ_QUEUED"}, !.kernel = @ \cup {Op(x, f, "read")}]

aeApiAddRead(x, f) ==
    LET y == [x EXCEPT !.lookup[f].masks = @ \cup {"READABLE"}]
    IN  IF {"CONNECT_PENDING", "READ_QUEUED"} \cap y.lookup[f].masks # {} THEN y ELSE aeWinReceiveDone(y, f)

(* PostQueuedCompletionStatus stands for a send that is already complete.  *)
aeApiAddWrite(x, f) ==
    LET y == [x EXCEPT !.lookup[f].masks = @ \cup {"WRITABLE"}]
    IN  IF "CONNECT_PENDING" \in y.lookup[f].masks \/ y.lookup[f].wreqs # {} THEN y
        ELSE [y EXCEPT !.lookup[f].wreqs = {"post"}, !.kernel = @ \cup {Op(y, f, "post")}]

aeApiDelEvent(x, f, masks) == [x EXCEPT !.lookup[f].masks = @ \ masks]

(* One call for every buffer of the reply.                                 *)
aeWinSocketSend(x, f, ids) ==
    [x EXCEPT !.lookup[f].wreqs = @ \cup ids, !.kernel = @ \cup {Op(x, f, id) : id \in ids}]

-----------------------------------------------------------------------------
Closed == {f \in Fd : fdOpen[f] = 0 /\ lookup[f] = NoState}
CanOpen == lastGen < MaxGen

(* The next accept is queued with a socket of its own, unless there is     *)
(* none: then nothing waits for clients any more.                          *)
QueueAccept(x) ==
    \/ \E f \in Closed :
          /\ x.gen < MaxGen
          /\ IoBecomes(OpenSocket(x, f, {"SOCKET_ATTACHED"}))
          /\ accepting' = f
    \/ (x.gen = MaxGen \/ Closed = {}) /\ IoBecomes(x) /\ accepting' = NoFd

aeWinListen ==
    /\ accepting = NoFd /\ lastGen = 0 /\ ~polling
    /\ QueueAccept(Io)
    /\ UNCHANGED <<port, fired, owned, accepted, polling>>

(* A client connects: the accept completes, and the listening socket is    *)
(* readable.                                                               *)
AcceptCompletes ==
    /\ accepting # NoFd /\ polling
    /\ accepted' = accepted \cup {accepting} /\ accepting' = NoFd
    /\ UNCHANGED <<fdOpen, lookup, closingList, kernel, port, fired, owned, lastGen, polling>>

(* aeWinAccept and createClient: when no further accept can be queued the  *)
(* client is lost too.                                                     *)
aeWinAccept(f) ==
    /\ f \in accepted /\ ~polling
    /\ accepted' = accepted \ {f}
    /\ QueueAccept(IF CanOpen /\ Closed # {} THEN aeApiAddRead([Io EXCEPT !.lookup[f].masks = {"SOCKET_ATTACHED"}], f)
                   ELSE [Io EXCEPT !.lookup[f].masks = {"SOCKET_ATTACHED"}])
    /\ owned' = IF accepting' # NoFd THEN owned \cup {f} ELSE owned
    /\ UNCHANGED <<port, fired, polling>>

(* connectWithMaster, in a time event and so after the events that fired:  *)
(* the connection is under way when the events are registered.             *)
aeWinSocketConnect(f) ==
    /\ f \in Closed /\ CanOpen /\ ~polling /\ fired = {}
    /\ IoBecomes([OpenSocket(Io, f, {"SOCKET_ATTACHED", "CONNECT_PENDING", "READABLE", "WRITABLE"}) EXCEPT
                     !.kernel = @ \cup {[fd |-> f, gen |-> lastGen + 1, op |-> "connect"]}])
    /\ owned' = owned \cup {f}
    /\ UNCHANGED <<port, fired, accepting, accepted, polling>>

(* The kernel ends an operation.                                           *)
OperationCompletes ==
    /\ \E op \in kernel : kernel' = kernel \ {op} /\ port' = port \cup {op}
    /\ UNCHANGED <<fdOpen, lookup, closingList, fired, owned, accepting, accepted, lastGen, polling>>

-----------------------------------------------------------------------------
(* aeApiPoll for one completion of an open socket.  sent: all output was   *)
(* sent, so that the callback of the send deletes the event.               *)
PollConnect(op) ==
    /\ op.op = "connect"
    /\ IoBecomes(aeApiAddWrite(aeApiAddRead([Io EXCEPT !.lookup[op.fd].masks = @ \ {"CONNECT_PENDING"}], op.fd), op.fd))
    /\ UNCHANGED fired

PollRead(op) ==
    /\ op.op = "read"
    /\ IoBecomes([Io EXCEPT !.lookup[op.fd].masks = @ \ {"READ_QUEUED"}])
    /\ fired' = IF "READABLE" \in lookup[op.fd].masks THEN fired \cup {<<op.fd, "READABLE">>} ELSE fired

PollWrite(op) ==
    /\ op.op \notin {"connect", "read"}
    /\ \E sent \in IF op.op = "post" THEN {FALSE} ELSE BOOLEAN :
          LET s == [lookup[op.fd] EXCEPT !.wreqs = @ \ {op.op}, !.masks = IF sent THEN @ \ {"WRITABLE"} ELSE @]
          IN  /\ IoBecomes([Io EXCEPT !.lookup[op.fd] = s])
              /\ fired' = IF s.wreqs = {} /\ "WRITABLE" \in s.masks THEN fired \cup {<<op.fd, "WRITABLE">>} ELSE fired

(* For a closed socket the callback is not called; after the last of its   *)
(* operations the descriptor is closed.                                    *)
AfterCompletion(s, op) ==
    CASE op.op = "connect" -> [s EXCEPT !.masks = @ \ {"CONNECT_PENDING"}]
      [] op.op = "read"    -> [s EXCEPT !.masks = @ \ {"READ_QUEUED"}]
      [] OTHER             -> [s EXCEPT !.wreqs = @ \ {op.op}]

PollClosing(s, op) ==
    LET t == AfterCompletion(s, op)
    IN  /\ IoBecomes(IF Pending(t) THEN [Io EXCEPT !.closing = (@ \ {s}) \cup {t}]
                     ELSE aeDelSockState([Io EXCEPT !.open[s.fd] = 0, !.closing = (@ \ {s}) \cup {t}],
                                         [t EXCEPT !.masks = @ \ {"CLOSE_PENDING"}]))
        /\ UNCHANGED fired

PollCompletion ==
    /\ polling
    /\ \E op \in port :
          /\ port' = port \ {op}
          /\ \/ lookup[op.fd] # NoState /\ (PollConnect(op) \/ PollRead(op) \/ PollWrite(op))
             \/ lookup[op.fd] = NoState /\ \E s \in closingList : s.fd = op.fd /\ PollClosing(s, op)
    /\ UNCHANGED <<owned, accepting, accepted, polling>>

-----------------------------------------------------------------------------
(* The handler of a fired event, if the event is still registered.  It     *)
(* reads and asks for more, stops reading, or closes the socket.           *)
ReadHandler(f) ==
    /\ <<f, "READABLE">> \in fired /\ ~polling
    /\ fired' = fired \ {<<f, "READABLE">>}
    /\ IF f \notin owned \/ "READABLE" \notin lookup[f].masks THEN IoBecomes(Io) /\ UNCHANGED owned
       ELSE \/ IoBecomes(aeWinReceiveDone(Io, f)) /\ UNCHANGED owned
            \/ IoBecomes(aeApiDelEvent(Io, f, {"READABLE"})) /\ UNCHANGED owned
            \/ IoBecomes(aeWinCloseSocket(Io, f)) /\ owned' = owned \ {f}
    /\ UNCHANGED <<port, accepting, accepted, polling>>

(* It sends, or has nothing to send and deletes the event.                 *)
WriteHandler(f) ==
    /\ <<f, "WRITABLE">> \in fired /\ ~polling
    /\ fired' = fired \ {<<f, "WRITABLE">>}
    /\ IF f \notin owned \/ "WRITABLE" \notin lookup[f].masks THEN IoBecomes(Io)
       ELSE \/ \E ids \in SUBSET Sends : ids # {} /\ IoBecomes(aeWinSocketSend(Io, f, ids))
            \/ IoBecomes(aeApiDelEvent(Io, f, {"WRITABLE"}))
    /\ UNCHANGED <<port, owned, accepting, accepted, polling>>

(* A command replies, the reading of the master's payload begins, or the   *)
(* server closes the socket.                                               *)
ServerStep(f) ==
    /\ f \in owned /\ ~polling
    /\ \/ IoBecomes(aeApiAddWrite(Io, f)) /\ UNCHANGED owned
       \/ /\ "READABLE" \notin lookup[f].masks /\ <<f, "READABLE">> \notin fired
          /\ IoBecomes(aeApiAddRead(Io, f)) /\ UNCHANGED owned
       \/ IoBecomes(aeWinCloseSocket(Io, f)) /\ owned' = owned \ {f}
    /\ UNCHANGED <<port, fired, accepting, accepted, polling>>

(* The poll returns; all that fired, and the accepts, are handled before   *)
(* the next one.                                                           *)
PollPhase ==
    /\ polling \/ (fired = {} /\ accepted = {})
    /\ polling' = ~polling
    /\ UNCHANGED <<fdOpen, lookup, closingList, kernel, port, fired, owned, accepting, accepted, lastGen>>

IocpInit ==
    /\ fdOpen = [f \in Fd |-> 0] /\ lookup = [f \in Fd |-> NoState] /\ closingList = {}
    /\ kernel = {} /\ port = {} /\ fired = {} /\ owned = {} /\ accepting = NoFd /\ accepted = {} /\ lastGen = 0
    /\ polling = FALSE

IocpNext ==
    \/ aeWinListen \/ AcceptCompletes \/ OperationCompletes \/ PollCompletion \/ PollPhase
    \/ \E f \in Fd : aeWinAccept(f) \/ aeWinSocketConnect(f) \/ ReadHandler(f) \/ WriteHandler(f) \/ ServerStep(f)

-----------------------------------------------------------------------------
(* However completions, handlers and closes interleave: an operation that  *)
(* the kernel or the port holds has the one state that counts it, of the   *)
(* same use of the descriptor, which is still open; a socket that is being *)
(* closed has an operation whose end will free it; and an event that is    *)
(* registered has something under way that will fire it.                   *)
OperationsAreKnown ==
    LET states == {lookup[f] : f \in Fd} \cup closingList
        ops    == kernel \cup port
        Counts(s, op) == CASE op.op = "read"    -> "READ_QUEUED" \in s.masks
                           [] op.op = "connect" -> "CONNECT_PENDING" \in s.masks
                           [] OTHER             -> op.op \in s.wreqs
    IN  /\ \A op \in ops : \E s \in states : s.fd = op.fd /\ s.gen = op.gen /\ fdOpen[op.fd] = op.gen /\ Counts(s, op)
        /\ \A f \in Fd : Cardinality({s \in states : s.fd = f}) <= 1
        /\ \A s \in closingList : \E op \in ops : op.fd = s.fd
        /\ \A f \in owned :
              /\ "READABLE" \in lookup[f].masks => \/ <<f, "READABLE">> \in fired
                                                   \/ \E op \in ops : op.fd = f /\ op.op \in {"read", "connect"}
              /\ "WRITABLE" \in lookup[f].masks => \/ <<f, "WRITABLE">> \in fired
                                                   \/ \E op \in ops : op.fd = f /\ op.op # "read"

(* "queue another accept": as long as descriptors are free the listening   *)
(* socket waits for a client.  It does not after an accept that found none *)
(* free.                                                                   *)
ListenerAccepts == lastGen > 0 /\ Closed # {} /\ CanOpen => accepting # NoFd \/ accepted # {}

=============================================================================
