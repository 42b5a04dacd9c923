---------------------------- MODULE ClientInput ----------------------------
(***************************************************************************)
(* How the requests of a client are read from its socket (networking.c):   *)
(* the query buffer, inline and multi bulk requests that arrive in pieces, *)
(* large arguments, and a client that blocks or is closed while more of    *)
(* its input is on the way.                                                *)
(*                                                                         *)
(* The stream is a sequence of tokens.  A length with its prefix is one    *)
(* token, CR and LF are one each: the socket may end a read between any    *)
(* two of them.                                                            *)
(***************************************************************************)
EXTENDS Integers, Sequences, FiniteSets, SequencesExt

CONSTANTS
    Streams,         \* the requests that a client may send
    IOBUF_LEN,       \* REDIS_IOBUF_LEN
    INLINE_MAX,      \* REDIS_INLINE_MAX_SIZE
    BIG_ARG,         \* REDIS_MBULK_BIG_ARG
    MAX_QUERYBUF     \* client_max_querybuf_len

Invalid == -2
Tok(kind, v) == [kind |-> kind, v |-> v]
CR == Tok("CR", 0)
LF == Tok("LF", 0)
Space == Tok("space", 0)
Byte == Tok("byte", 0)
Quit == Tok("byte", 1)

ASSUME InputAssumption ==
    /\ IOBUF_LEN \in Nat \ {0} /\ INLINE_MAX \in Nat /\ BIG_ARG \in Nat \ {0} /\ MAX_QUERYBUF \in Nat
    \* a read and an argument that is not big fit below the limit of a line
    /\ BIG_ARG + 1 + IOBUF_LEN <= INLINE_MAX

(* A request is complete, or breaks the protocol: the number of arguments  *)
(* is not one; after its arguments comes a line that is no length; a line  *)
(* is too long, and does not end.                                          *)
Token == [kind : {"CR", "LF", "space", "byte", "*", "$"}, v : Int]
Request == [type : {"multibulk", "inline", "badcount", "badbulk", "endless"}, args : Seq(Seq(Token)), line : Seq(Token)]
Malformed(r) == r.type \in {"badcount", "badbulk", "endless"}

(* How a client writes a request.                                          *)
Bulk(arg) == <<Tok("$", Len(arg)), CR, LF>> \o arg \o <<CR, LF>>

(* Its last k arguments, as a multi bulk request.                          *)
BulksOf(args) ==
    LET bulks[k \in 0 .. Len(args)] == IF k = 0 THEN <<>> ELSE Bulk(args[Len(args) + 1 - k]) \o bulks[k - 1]
    IN  bulks

(* Its first k arguments, on one line.                                     *)
InlineOf(args) ==
    LET words[k \in 0 .. Len(args)] == IF k = 0 THEN <<>> ELSE words[k - 1] \o (<<Space>> \o args[k] \o <<Space>>)
    IN  words

ArgCount(r) == IF r.type = "badbulk" THEN Len(r.args) + 1 ELSE Len(r.args)
Ending(r) == IF r.type = "badbulk" THEN r.line \o <<CR, LF>> ELSE <<>>
Encode(r) ==
    CASE r.type \in {"multibulk", "badbulk"} ->
           <<Tok("*", ArgCount(r)), CR, LF>> \o (BulksOf(r.args)[Len(r.args)] \o Ending(r))
      [] r.type = "inline"   -> InlineOf(r.args)[Len(r.args)] \o <<CR, LF>>
      [] r.type = "badcount" -> <<Tok("*", Invalid), CR, LF>>
      [] r.type = "endless"  -> r.line

(* The last k requests.                                                    *)
Stream(rs) ==
    LET stream[k \in 0 .. Len(rs)] == IF k = 0 THEN <<>> ELSE Encode(rs[Len(rs) + 1 - k]) \o stream[k - 1]
    IN  stream

(* A request that breaks the protocol does, and a line that is one ends    *)
(* before it is too long.                                                  *)
IsLine(line) == \A i \in 1 .. Len(line) : line[i] # CR
IsWord(w) == w # <<>> /\ \A i \in 1 .. Len(w) : w[i].kind = "byte"
IsSendable(r) ==
    /\ r.type = "inline"  => /\ \A i \in 1 .. Len(r.args) : IsWord(r.args[i])
                             /\ Len(Encode(r)) <= INLINE_MAX + 1
    /\ r.type = "badbulk" => /\ IsLine(r.line)
                             /\ Len(r.line) = 1 => r.line[1].kind # "$" \/ r.line[1].v = Invalid
    /\ r.type = "endless" => IsLine(r.line) /\ Len(r.line) > INLINE_MAX

(* A line that was refused for its length may be accepted when it ends,    *)
(* after the client was blocked: here it does not end.                     *)
ASSUME StreamsAssumption ==
    \A rs \in Streams :
        /\ rs \in Seq(Request)
        /\ \A i \in 1 .. Len(rs) : IsSendable(rs[i]) /\ (rs[i].type = "endless" => i = Len(rs))

VARIABLES
    requests,      \* what the client sends
    incoming,      \* tokens that were not read yet
    querybuf, reqtype, multibulklen, bulklen, argv, \* fields of the client
    at,            \* where processInputBuffer is: "idle", "top" of its loop, "bulk" in the loop of the arguments
    pos,           \* in processMultibulkBuffer
    executed,      \* the commands handed to processCommand
    inBlocked,     \* REDIS_BLOCKED
    wasBlocked,    \* the client was blocked before
    inAfterReply,  \* REDIS_CLOSE_AFTER_REPLY
    inFreed        \* the client was freed

inVars == <<requests, incoming, querybuf, reqtype, multibulklen, bulklen, argv, at, pos, executed, inBlocked,
            wasBlocked, inAfterReply, inFreed>>

None == -1
From(s, i) == SubSeq(s, i + 1, Len(s))

-----------------------------------------------------------------------------
(* A large argument is read up to its end and no further.                  *)
ReadLen ==
    IF reqtype = "multibulk" /\ multibulklen > 0 /\ bulklen # None /\ bulklen >= BIG_ARG
       /\ bulklen + 2 - Len(querybuf) < IOBUF_LEN
    THEN bulklen + 2 - Len(querybuf) ELSE IOBUF_LEN

readQueryFromClient(n) ==
    /\ ~inFreed /\ at = "idle"
    /\ n <= ReadLen /\ n <= Len(incoming)
    /\ querybuf' = querybuf \o SubSeq(incoming, 1, n)
    /\ incoming' = From(incoming, n)
    /\ IF Len(querybuf') > MAX_QUERYBUF THEN inFreed' = TRUE /\ UNCHANGED at
       ELSE at' = "top" /\ UNCHANGED inFreed
    /\ UNCHANGED <<requests, reqtype, multibulklen, bulklen, argv, pos, executed, inBlocked, wasBlocked, inAfterReply>>

-----------------------------------------------------------------------------
(* The command is executed; a command may block the client, and QUIT is    *)
(* not reset.                                                              *)
ProcessCommand(args, rest) ==
    /\ querybuf' = rest /\ pos' = 0 /\ at' = "top"
    /\ bulklen' = None /\ multibulklen' = 0
    /\ executed' = IF args = <<>> THEN executed ELSE Append(executed, args)
    /\ IF args # <<>> /\ args[1] = <<Quit>>
       THEN /\ argv' = args
            /\ inAfterReply' = TRUE
            /\ UNCHANGED <<reqtype, inBlocked, wasBlocked>>
       ELSE /\ reqtype' = "none" /\ argv' = <<>>
            /\ inBlocked' \in IF args = <<>> \/ wasBlocked THEN {FALSE} ELSE BOOLEAN
            /\ wasBlocked' = (wasBlocked \/ inBlocked')
            /\ UNCHANGED inAfterReply
    /\ UNCHANGED <<requests, incoming, inFreed>>

(* A bug that leaves what was consumed in the buffer.                      *)
IncompleteUntrimmed(rest) ==
    /\ pos' = 0 /\ at' = "idle"
    /\ UNCHANGED <<requests, incoming, querybuf, multibulklen, bulklen, argv, executed, inBlocked, wasBlocked, inFreed>>

(* processInputBuffer returns: the request is not complete.                *)
Incomplete(rest) ==
    /\ querybuf' = rest /\ pos' = 0 /\ at' = "idle"
    /\ UNCHANGED <<requests, incoming, multibulklen, bulklen, argv, executed, inBlocked, wasBlocked, inFreed>>

setProtocolError(rest) == Incomplete(rest) /\ inAfterReply' = TRUE

(* A line that does not end is refused when it is too long.                *)
NoNewline(rest) == IF Len(querybuf) > INLINE_MAX THEN setProtocolError(rest) ELSE Incomplete(rest) /\ UNCHANGED inAfterReply

MayContinue == querybuf # <<>> /\ ~inBlocked /\ ~inAfterReply
ReqType == IF reqtype # "none" THEN reqtype ELSE IF Head(querybuf).kind = "*" THEN "multibulk" ELSE "inline"

InputDone ==
    /\ at = "top" /\ ~MayContinue
    /\ at' = "idle"
    /\ UNCHANGED <<requests, incoming, querybuf, reqtype, multibulklen, bulklen, argv, pos, executed, inBlocked,
                   wasBlocked, inAfterReply, inFreed>>

(* The words of a line: a space ends one.                                  *)
WordsTo(line) ==
    LET words[k \in 0 .. Len(line)] ==
            IF k = 0 THEN <<>>
            ELSE IF line[k] = Space THEN words[k - 1]
            ELSE IF k = 1 \/ line[k - 1] = Space THEN Append(words[k - 1], <<line[k]>>)
            ELSE [words[k - 1] EXCEPT ![Len(words[k - 1])] = Append(@, line[k])]
    IN  words
Words(line) == WordsTo(line)[Len(line)]

First(S) == CHOOSE i \in S : \A j \in S : i <= j
CRLFs == {i \in 1 .. Len(querybuf) - 1 : querybuf[i] = CR /\ querybuf[i + 1] = LF}
CRs(from) == {i \in from + 1 .. Len(querybuf) : querybuf[i] = CR}

processInlineBuffer ==
    /\ at = "top" /\ MayContinue /\ ReqType = "inline"
    /\ \/ CRLFs = {} /\ NoNewline(querybuf) /\ reqtype' = "inline"
       \/ /\ CRLFs # {}
          /\ ProcessCommand(Words(SubSeq(querybuf, 1, First(CRLFs) - 1)), From(querybuf, First(CRLFs) + 1))

(* The line [from + 1 .. cr - 1] is one length with the prefix kind.       *)
IsLength(kind, from, cr) == cr = from + 2 /\ querybuf[from + 1].kind = kind /\ querybuf[from + 1].v # Invalid

MultibulkLength ==
    /\ at = "top" /\ MayContinue /\ ReqType = "multibulk" /\ multibulklen = 0
    /\ IF CRs(0) = {} THEN NoNewline(querybuf) /\ reqtype' = "multibulk"
       ELSE LET cr == First(CRs(0))
            IN  IF cr = Len(querybuf) THEN Incomplete(querybuf) /\ reqtype' = "multibulk" /\ UNCHANGED inAfterReply
                ELSE IF ~IsLength("*", 0, cr) THEN setProtocolError(querybuf) /\ reqtype' = "multibulk"
                ELSE IF querybuf[1].v <= 0 THEN ProcessCommand(<<>>, From(querybuf, cr + 1))
                ELSE /\ multibulklen' = querybuf[1].v
                     /\ reqtype' = "multibulk" /\ argv' = <<>>
                     /\ pos' = cr + 1 /\ at' = "bulk"
                     /\ UNCHANGED <<requests, incoming, querybuf, bulklen, executed, inBlocked, wasBlocked,
                                    inAfterReply, inFreed>>

(* A request that was begun by an earlier read.                            *)
MultibulkResumes ==
    /\ at = "top" /\ MayContinue /\ ReqType = "multibulk" /\ multibulklen > 0
    /\ at' = "bulk" /\ pos' = 0
    /\ UNCHANGED <<requests, incoming, querybuf, reqtype, multibulklen, bulklen, argv, executed, inBlocked,
                   wasBlocked, inAfterReply, inFreed>>

(* The buffer is trimmed before a large argument.                          *)
TrimForBigArg(rest, cr) ==
    IF querybuf[pos + 1].v >= BIG_ARG THEN querybuf' = rest /\ pos' = 0 ELSE pos' = cr + 1 /\ UNCHANGED querybuf

BulkLength ==
    /\ at = "bulk" /\ multibulklen > 0 /\ bulklen = None
    /\ UNCHANGED reqtype
    /\ IF CRs(pos) = {} THEN NoNewline(From(querybuf, pos))
       ELSE LET cr == First(CRs(pos))
            IN  IF cr = Len(querybuf) THEN Incomplete(From(querybuf, pos)) /\ UNCHANGED inAfterReply
                ELSE IF ~IsLength("$", pos, cr) THEN setProtocolError(From(querybuf, pos))
                ELSE /\ bulklen' = querybuf[pos + 1].v
                     /\ TrimForBigArg(From(querybuf, cr + 1), cr)
                     /\ UNCHANGED <<requests, incoming, multibulklen, argv, at, executed, inBlocked, wasBlocked,
                                    inAfterReply, inFreed>>

BulkArgument ==
    /\ at = "bulk" /\ multibulklen > 0 /\ bulklen # None
    /\ UNCHANGED <<reqtype, inAfterReply>>
    /\ IF Len(querybuf) - pos < bulklen + 2 THEN Incomplete(From(querybuf, pos))
       ELSE /\ argv' = Append(argv, SubSeq(querybuf, pos + 1, pos + bulklen))
            /\ IF pos = 0 /\ bulklen >= BIG_ARG /\ Len(querybuf) = bulklen + 2
               THEN querybuf' = <<>> /\ pos' = 0
               ELSE pos' = pos + bulklen + 2 /\ UNCHANGED querybuf
            /\ bulklen' = None
            /\ multibulklen' = multibulklen - 1
            /\ UNCHANGED <<requests, incoming, at, executed, inBlocked, wasBlocked, inFreed>>

MultibulkComplete ==
    /\ at = "bulk" /\ multibulklen = 0
    /\ ProcessCommand(argv, From(querybuf, pos))

(* The blocked client is served; beforeSleep processes what came since.    *)
InputUnblocked ==
    /\ at = "idle" /\ inBlocked /\ ~inFreed
    /\ inBlocked' = FALSE /\ at' = "top"
    /\ UNCHANGED <<requests, incoming, querybuf, reqtype, multibulklen, bulklen, argv, pos, executed, wasBlocked,
                   inAfterReply, inFreed>>

InInit ==
    /\ requests \in Streams
    /\ incoming = Stream(requests)[Len(requests)]
    /\ querybuf = <<>> /\ reqtype = "none" /\ multibulklen = 0 /\ bulklen = None /\ argv = <<>>
    /\ at = "idle" /\ pos = 0 /\ executed = <<>>
    /\ inBlocked = FALSE /\ wasBlocked = FALSE /\ inAfterReply = FALSE /\ inFreed = FALSE

InNext ==
    \/ \E n \in 1 .. IOBUF_LEN : readQueryFromClient(n)
    \/ InputDone \/ processInlineBuffer \/ MultibulkLength \/ MultibulkResumes
    \/ BulkLength \/ BulkArgument \/ MultibulkComplete \/ InputUnblocked

-----------------------------------------------------------------------------
(* The commands of the first k requests; those executed end with a QUIT or *)
(* before a malformed request.                                             *)
CommandsTo(rs) ==
    LET commands[k \in 0 .. Len(rs)] ==
            IF k = 0 THEN <<>>
            ELSE IF Malformed(rs[k]) \/ rs[k].args = <<>> THEN commands[k - 1]
            ELSE Append(commands[k - 1], rs[k].args)
    IN  commands
Ends(r) == Malformed(r) \/ (r.args # <<>> /\ r.args[1] = <<Quit>>)
Endings == {i \in 1 .. Len(requests) : Ends(requests[i])}
Expected == CommandsTo(requests)[IF Endings = {} THEN Len(requests) ELSE First(Endings)]
IsClosing == Endings # {}

(* However the stream is cut into reads, and wherever the client blocks,   *)
(* the commands executed are the commands sent, in order; when all was     *)
(* read they were all executed, and a client that never blocked is refused *)
(* only for a request that is malformed.                                   *)
CommandsAreThoseSent ==
    /\ IsPrefix(executed, Expected)
    /\ inAfterReply /\ ~wasBlocked => IsClosing
    /\ incoming = <<>> /\ at = "idle" /\ ~inBlocked /\ ~inFreed
         => inAfterReply \/ (executed = Expected /\ querybuf = <<>> /\ ~IsClosing)

(* "Protocol error: too big bulk count string" is for a length that is too *)
(* long.  A client that was blocked while its input went on gets it too:   *)
(* the whole buffer is measured, with the arguments that were consumed.    *)
WellFormedIsAccepted == inAfterReply => IsClosing

=============================================================================
