--------------------------- MODULE ClientOutput ---------------------------
(***************************************************************************)
(* How the replies to one client reach its socket (networking.c): the      *)
(* static buffer, the list of reply objects with the deferred length of a  *)
(* multi bulk reply, the handler of the writable socket, and the limits    *)
(* of the output buffers.  The server is built for POSIX, where write      *)
(* takes some of the bytes, or for Windows, where a send is queued whole   *)
(* and a callback tells of its end.                                        *)
(*                                                                         *)
(* The bytes of the replies are numbered in the order in which commands    *)
(* add them.                                                               *)
(***************************************************************************)
EXTENDS Integers, Sequences, FiniteSets, SequencesExt

CONSTANTS
    BUF_BYTES,         \* REDIS_REPLY_CHUNK_BYTES: the static buffer, and the size up to which objects are glued
    MAX_WRITE,         \* REDIS_MAX_WRITE_PER_EVENT
    HARD_LIMIT, SOFT_LIMIT, \* limits of reply_bytes for the class of the client
    MaxBytes           \* bytes of replies

ASSUME OutputAssumption == BUF_BYTES \in Nat

VARIABLES
    outIocp,     \* built with WIN32_IOCP
    fromMaster,  \* REDIS_MASTER: nothing is sent
    outBuf,      \* the bytes c->buf[0 .. bufpos-1]
    sentlen,     \* bytes of the buffer, or of the first object, that were sent
    reply,       \* c->reply: objects, null for the deferred length
    reply_bytes, \* c->reply_bytes, without the overhead of the nodes
    softSince,   \* obuf_soft_limit_reached_time is set
    handler,     \* AE_WRITABLE is registered
    afterReply,  \* REDIS_CLOSE_AFTER_REPLY
    asap,        \* REDIS_CLOSE_ASAP
    outClosed,   \* the client was freed
    sending,     \* the queued sends of the socket
    wire,        \* the bytes that left
    produced,    \* bytes that commands replied so far
    totwritten   \* in sendReplyToClient: what it has written; Idle otherwise

outVars == <<outIocp, fromMaster, outBuf, sentlen, reply, reply_bytes, softSince, handler, afterReply, asap,
             outClosed, sending, wire, produced, totwritten>>

Idle == -1

OutputIsEmpty == outBuf = <<>> /\ reply = <<>>
Deferred == \E i \in 1 .. Len(reply) : reply[i].null
(* The bytes of s after the first n.                                       *)
Unsent(s, n) == SubSeq(s, n + 1, Len(s))
Fresh(n) == [i \in 1 .. n |-> produced + i]

-----------------------------------------------------------------------------
(* Adding to the output.  It is not sent before the command returns.       *)

(* A bug that installs the handler only when no send is under way.         *)
PrepareUnlessSending == handler' = (handler \/ (OutputIsEmpty /\ sending = <<>>))

(* The handler is installed when the output was empty.                     *)
prepareClientToWrite == handler' = (handler \/ OutputIsEmpty)

(* asyncCloseClientOnOutputBufferLimitReached: late, the soft limit was    *)
(* reached for longer than its time.                                       *)
checkClientOutputBufferLimits(bytes, late) ==
    /\ softSince' = (bytes >= SOFT_LIMIT)
    /\ asap' = (asap \/ bytes >= HARD_LIMIT \/ (bytes >= SOFT_LIMIT /\ softSince /\ late))

Obj(bytes) == [bytes |-> bytes, null |-> FALSE]

(* The new bytes are glued to the last object if they are small.           *)
AddToList(r, bytes) ==
    IF r # <<>> /\ ~Last(r).null /\ Len(Last(r).bytes) + Len(bytes) <= BUF_BYTES
    THEN [r EXCEPT ![Len(r)].bytes = @ \o bytes]
    ELSE Append(r, Obj(bytes))

FitsBuffer(n) == reply = <<>> /\ Len(outBuf) + n <= BUF_BYTES

addReply(n) ==
    /\ ~outClosed /\ totwritten = Idle /\ ~afterReply /\ produced + n <= MaxBytes
    /\ prepareClientToWrite
    /\ produced' = produced + n
    /\ \/ /\ FitsBuffer(n)
          /\ outBuf' = outBuf \o Fresh(n)
          /\ UNCHANGED <<reply, reply_bytes, softSince, asap>>
       \/ /\ ~FitsBuffer(n)
          /\ reply' = AddToList(reply, Fresh(n))
          /\ reply_bytes' = reply_bytes + n
          /\ IF asap THEN UNCHANGED <<softSince, asap>>
             ELSE \E late \in BOOLEAN : checkClientOutputBufferLimits(reply_bytes + n, late)
          /\ UNCHANGED outBuf
    /\ UNCHANGED <<outIocp, fromMaster, sentlen, afterReply, outClosed, sending, wire, totwritten>>

(* A message or a monitored command for a client that is being closed.     *)
ReplyDropped ==
    /\ ~outClosed /\ totwritten = Idle /\ afterReply
    /\ prepareClientToWrite
    /\ UNCHANGED <<outIocp, fromMaster, outBuf, sentlen, reply, reply_bytes, softSince, afterReply, asap, outClosed,
                   sending, wire, produced, totwritten>>

(* The length is one byte; it takes its place among the replies now.       *)
addDeferredMultiBulkLength ==
    /\ ~outClosed /\ totwritten = Idle /\ ~afterReply /\ produced < MaxBytes
    /\ prepareClientToWrite
    /\ produced' = produced + 1
    /\ reply' = Append(reply, [bytes |-> Fresh(1), null |-> TRUE])
    /\ UNCHANGED <<outIocp, fromMaster, outBuf, sentlen, reply_bytes, softSince, afterReply, asap, outClosed,
                   sending, wire, totwritten>>

setDeferredMultiBulkLength ==
    /\ \E i \in 1 .. Len(reply) :
          /\ reply[i].null
          /\ reply' = IF i < Len(reply) /\ ~reply[i + 1].null
                      THEN RemoveAt([reply EXCEPT ![i] = Obj(reply[i].bytes \o reply[i + 1].bytes)], i + 1)
                      ELSE [reply EXCEPT ![i].null = FALSE]
          /\ reply_bytes' = reply_bytes + Len(reply[i].bytes)
          /\ \E late \in BOOLEAN : IF asap THEN UNCHANGED <<softSince, asap>>
                                   ELSE checkClientOutputBufferLimits(reply_bytes', late)
    /\ UNCHANGED <<outIocp, fromMaster, outBuf, sentlen, handler, afterReply, outClosed, sending, wire, produced,
                   totwritten>>

(* QUIT, CLIENT KILL of the client itself or a protocol error, each with a *)
(* last reply.                                                             *)
CloseAfterReply ==
    /\ ~outClosed /\ totwritten = Idle /\ ~Deferred /\ ~OutputIsEmpty /\ handler
    /\ afterReply' = TRUE
    /\ UNCHANGED <<outIocp, fromMaster, outBuf, sentlen, reply, reply_bytes, softSince, handler, asap, outClosed,
                   sending, wire, produced, totwritten>>

-----------------------------------------------------------------------------
(* Sending: sendReplyToClient is one step for every turn of its loop.      *)

FreeIt == outClosed' = TRUE /\ handler' = FALSE /\ totwritten' = Idle

(* The socket is writable.  On Windows what a master would get is dropped  *)
(* at once, and the handler stays.                                         *)
DropReplies ==
    /\ outIocp /\ fromMaster
    /\ outBuf' = <<>> /\ sentlen' = 0 /\ reply' = <<>>
    /\ UNCHANGED totwritten

sendReplyToClient ==
    /\ handler /\ ~outClosed /\ totwritten = Idle /\ ~Deferred
    /\ \/ DropReplies
       \/ ~(outIocp /\ fromMaster) /\ totwritten' = 0 /\ UNCHANGED <<outBuf, sentlen, reply>>
    /\ UNCHANGED <<outIocp, fromMaster, reply_bytes, softSince, handler, afterReply, asap, outClosed, sending, wire,
                   produced>>

Written(n) == totwritten' = IF totwritten + n > MAX_WRITE THEN MAX_WRITE + 1 ELSE totwritten + n

(* POSIX: n bytes of the buffer are written, all of them for a master.     *)
WriteBuffer(n) ==
    /\ ~outIocp /\ totwritten # Idle
    /\ outBuf # <<>> /\ sentlen + n <= Len(outBuf)
    /\ fromMaster => sentlen + n = Len(outBuf)
    /\ wire' = IF fromMaster THEN wire ELSE wire \o SubSeq(outBuf, sentlen + 1, sentlen + n)
    /\ IF sentlen + n = Len(outBuf) THEN outBuf' = <<>> /\ sentlen' = 0 ELSE sentlen' = sentlen + n /\ UNCHANGED outBuf
    /\ Written(n)
    /\ UNCHANGED <<outIocp, fromMaster, reply, reply_bytes, softSince, handler, afterReply, asap, outClosed, sending,
                   produced>>

WriteObject(n) ==
    LET o == Head(reply).bytes
    IN  /\ ~outIocp /\ totwritten # Idle
        /\ outBuf = <<>> /\ reply # <<>> /\ sentlen + n <= Len(o)
        /\ fromMaster => sentlen + n = Len(o)
        /\ wire' = IF fromMaster THEN wire ELSE wire \o SubSeq(o, sentlen + 1, sentlen + n)
        /\ IF sentlen + n = Len(o)
           THEN reply' = Tail(reply) /\ sentlen' = 0 /\ reply_bytes' = reply_bytes - Len(o)
           ELSE sentlen' = sentlen + n /\ UNCHANGED <<reply, reply_bytes>>
        /\ Written(n)
        /\ UNCHANGED <<outIocp, fromMaster, outBuf, softSince, handler, afterReply, asap, outClosed, sending, produced>>

(* The loop ends when nothing is left, the socket is full or much was      *)
(* written; over the memory limit it goes on all the same.                 *)
WriteEnds ==
    /\ ~outIocp /\ totwritten # Idle
    /\ OutputIsEmpty \/ ~fromMaster \/ totwritten > MAX_WRITE
    /\ IF OutputIsEmpty
       THEN /\ sentlen' = 0
            /\ IF afterReply THEN FreeIt ELSE handler' = FALSE /\ totwritten' = Idle /\ UNCHANGED outClosed
       ELSE totwritten' = Idle /\ UNCHANGED <<sentlen, handler, outClosed>>
    /\ UNCHANGED <<outIocp, fromMaster, outBuf, reply, reply_bytes, softSince, afterReply, asap, sending, wire,
                   produced>>

(* Windows: the buffer, then the objects, are queued whole.                *)
SendBuffer ==
    /\ outIocp /\ totwritten # Idle
    /\ Len(outBuf) > sentlen
    /\ sending' = Append(sending, [buf |-> TRUE, end |-> Len(outBuf), bytes |-> Unsent(outBuf, sentlen)])
    /\ sentlen' = Len(outBuf)
    /\ Written(Len(outBuf) - sentlen)
    /\ UNCHANGED <<outIocp, fromMaster, outBuf, reply, reply_bytes, softSince, handler, afterReply, asap, outClosed,
                   wire, produced>>

SendObject ==
    /\ outIocp /\ totwritten # Idle
    /\ Len(outBuf) = sentlen /\ reply # <<>>
    /\ sending' = Append(sending, [buf |-> FALSE, end |-> 0, bytes |-> Head(reply).bytes])
    /\ reply' = Tail(reply)
    /\ reply_bytes' = reply_bytes - Len(Head(reply).bytes)
    /\ Written(Len(Head(reply).bytes))
    /\ UNCHANGED <<outIocp, fromMaster, outBuf, sentlen, softSince, handler, afterReply, asap, outClosed, wire,
                   produced>>

SendEnds ==
    /\ outIocp /\ totwritten # Idle
    /\ totwritten > MAX_WRITE \/ (Len(outBuf) = sentlen /\ reply = <<>>)
    /\ totwritten' = Idle
    /\ UNCHANGED <<outIocp, fromMaster, outBuf, sentlen, reply, reply_bytes, softSince, handler, afterReply, asap,
                   outClosed, sending, wire, produced>>

(* A write or a send fails.                                                *)
SendFails ==
    /\ totwritten # Idle /\ ~OutputIsEmpty /\ ~fromMaster
    /\ FreeIt
    /\ UNCHANGED <<outIocp, fromMaster, outBuf, sentlen, reply, reply_bytes, softSince, afterReply, asap, sending,
                   wire, produced>>

(* A bug that resets the buffer at the end of any send of it.              *)
AnyOfBuffer(req) == TRUE

(* More may have been added to the buffer since the send was queued.       *)
LastOfBuffer(req) == Len(outBuf) = req.end

(* The first of the queued sends is complete: sendReplyBufferDone or       *)
(* sendReplyListDone.  The callback is not called for a closed socket.     *)
SendDone ==
    LET req == Head(sending)
        buf == IF req.buf /\ LastOfBuffer(req) THEN <<>> ELSE outBuf
        ends == buf = <<>> /\ reply = <<>>
    IN  /\ sending # <<>> /\ totwritten = Idle /\ ~Deferred
        /\ sending' = Tail(sending)
        /\ wire' = wire \o req.bytes
        /\ IF outClosed THEN UNCHANGED <<outBuf, sentlen, handler, asap>>
           ELSE /\ outBuf' = buf
                /\ sentlen' = IF (req.buf /\ LastOfBuffer(req)) \/ ends THEN 0 ELSE sentlen
                /\ handler' = (handler /\ ~ends)
                /\ asap' = (asap \/ (ends /\ afterReply))
        /\ UNCHANGED <<outIocp, fromMaster, reply, reply_bytes, softSince, afterReply, outClosed, produced, totwritten>>

(* freeClientsInAsyncFreeQueue, or the peer closes the connection.         *)
FreeClientLater ==
    /\ ~outClosed /\ totwritten = Idle /\ ~Deferred
    /\ asap
    /\ FreeIt
    /\ UNCHANGED <<outIocp, fromMaster, outBuf, sentlen, reply, reply_bytes, softSince, afterReply, asap, sending,
                   wire, produced>>

OutInit ==
    /\ outIocp \in BOOLEAN /\ fromMaster \in BOOLEAN
    /\ outBuf = <<>> /\ sentlen = 0 /\ reply = <<>> /\ reply_bytes = 0 /\ softSince = FALSE
    /\ handler = FALSE /\ afterReply = FALSE /\ asap = FALSE /\ outClosed = FALSE
    /\ sending = <<>> /\ wire = <<>> /\ produced = 0 /\ totwritten = Idle

OutNext ==
    \/ \E n \in 1 .. BUF_BYTES + 1 : addReply(n) \/ WriteBuffer(n) \/ WriteObject(n)
    \/ addDeferredMultiBulkLength \/ setDeferredMultiBulkLength \/ ReplyDropped \/ CloseAfterReply
    \/ sendReplyToClient \/ WriteEnds \/ SendBuffer \/ SendObject \/ SendEnds \/ SendFails \/ SendDone
    \/ FreeClientLater

-----------------------------------------------------------------------------
(* The bytes of the first objects of r, or of the first sends.             *)
JoinedTo(r) ==
    LET joined[i \in 0 .. Len(r)] == IF i = 0 THEN <<>> ELSE joined[i - 1] \o r[i].bytes IN joined
Joined(r) == JoinedTo(r)[Len(r)]

(* How many they are, without the deferred lengths.                        *)
CountedTo(r) ==
    LET counted[i \in 0 .. Len(r)] ==
          IF i = 0 THEN 0 ELSE counted[i - 1] + (IF r[i].null THEN 0 ELSE Len(r[i].bytes))
    IN  counted
Counted(r) == CountedTo(r)[Len(r)]

(* However commands, writes, sends and their callbacks interleave, the     *)
(* bytes that left, those in flight and those that wait are the replies in *)
(* order, without a gap and none twice; output that waits has a handler    *)
(* that will send it, and a client that is to be closed after its reply    *)
(* has something left that closes it.  reply_bytes counts the objects, but *)
(* for a master on Windows.                                                *)
RepliesInOrder ==
    LET inBuf == IF outBuf = <<>> THEN 0 ELSE sentlen
        inObj == IF outBuf = <<>> THEN sentlen ELSE 0
        left  == Unsent(outBuf, inBuf) \o Unsent(Joined(reply), inObj)
    IN  ~outClosed =>
        /\ ~fromMaster => wire \o Joined(sending) \o left = [i \in 1 .. produced |-> i]
        /\ ~OutputIsEmpty => handler
        /\ afterReply => handler \/ asap
        /\ (outIocp /\ fromMaster) \/ reply_bytes = Counted(reply)

=============================================================================
