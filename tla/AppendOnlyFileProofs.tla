------------------------ MODULE AppendOnlyFileProofs ------------------------
(***************************************************************************)
(* Theorems about AppendOnlyFile.  DataInv, the invariant on the texts,    *)
(* holds whatever the configuration and the faults.  AnswerInv and         *)
(* SyncedInv, on what clients were told, need the Setting stated before    *)
(* them.  A refinement of DurableLog follows from all of them.             *)
(***************************************************************************)
EXTENDS AppendOnlyFile, SequenceTheorems, TLAPS

-----------------------------------------------------------------------------
(* Facts about datasets and their prefixes *)

LEMMA EmptyDataset == <<>> \in Dataset /\ Len(<<>>) = 0
  BY DEF Dataset

LEMMA LenDataset ==
    ASSUME NEW p \in Dataset
    PROVE  Len(p) \in Nat /\ (Len(p) = 0 <=> p = <<>>)
  BY EmptySeq, LenProperties DEF Dataset

LEMMA AppendDataset ==
    ASSUME NEW p \in Dataset, NEW e \in Command
    PROVE  /\ Append(p, e) \in Dataset
           /\ Append(p, e) # <<>>
           /\ Len(Append(p, e)) = Len(p) + 1
  BY AppendProperties DEF Dataset

LEMMA ConcatDataset ==
    ASSUME NEW p \in Dataset, NEW q \in Dataset
    PROVE  /\ p \o q \in Dataset
           /\ Len(p \o q) = Len(p) + Len(q)
           /\ p \o <<>> = p
           /\ <<>> \o p = p
  BY ConcatProperties, ConcatEmptySeq DEF Dataset

(* Appending to the second part appends to the whole.                      *)
LEMMA ConcatAppend ==
    ASSUME NEW p \in Dataset, NEW q \in Dataset, NEW e \in Command
    PROVE  p \o Append(q, e) = Append(p \o q, e)
<1>1. <<e>> \in Dataset /\ p \o q \in Dataset
  BY ConcatProperties DEF Dataset
<1>2. Append(q, e) = q \o <<e>> /\ Append(p \o q, e) = (p \o q) \o <<e>>
  BY <1>1, AppendIsConcat DEF Dataset
<1>3. (p \o q) \o <<e>> = p \o (q \o <<e>>)
  BY <1>1, ConcatAssociative DEF Dataset
<1> QED
  BY <1>2, <1>3

(* What SubSeq from the first element on returns.                          *)
LEMMA FirstPart ==
    ASSUME NEW p \in Dataset, NEW n \in 0 .. Len(p)
    PROVE  /\ SubSeq(p, 1, n) \in Dataset
           /\ Len(SubSeq(p, 1, n)) = n
           /\ \A i \in 1 .. n : SubSeq(p, 1, n)[i] = p[i]
<1>1. n \in Nat /\ Len(p) \in Nat /\ n <= Len(p)
  BY LenDataset
<1>2. \A i \in 1 .. n : p[i] \in Command
  BY <1>1, ElementOfSeq DEF Dataset
<1> QED
  BY <1>1, <1>2, SubSeqProperties DEF Dataset

(* A prefix is a sequence that is not longer and has the same elements.    *)
LEMMA PrefixElements ==
    ASSUME NEW p \in Dataset, NEW q \in Dataset
    PROVE  PrefixOf(p, q) <=> /\ Len(p) <= Len(q)
                              /\ \A i \in 1 .. Len(p) : p[i] = q[i]
<1>1. Len(p) \in Nat /\ Len(q) \in Nat
  BY LenDataset
<1>2. ASSUME Len(p) <= Len(q)
      PROVE  /\ SubSeq(q, 1, Len(p)) \in Dataset
             /\ Len(SubSeq(q, 1, Len(p))) = Len(p)
             /\ \A i \in 1 .. Len(p) : SubSeq(q, 1, Len(p))[i] = q[i]
  BY <1>1, <1>2, FirstPart
<1>3. ASSUME Len(p) <= Len(q), \A i \in 1 .. Len(p) : p[i] = q[i]
      PROVE  p = SubSeq(q, 1, Len(p))
  BY <1>2, <1>3, SeqEqual DEF Dataset
<1> QED
  BY <1>2, <1>3 DEF PrefixOf

LEMMA PrefixReflexive ==
    ASSUME NEW p \in Dataset
    PROVE  PrefixOf(p, p) /\ PrefixOf(<<>>, p)
  BY PrefixElements, EmptyDataset, LenDataset

LEMMA PrefixTransitive ==
    ASSUME NEW p \in Dataset, NEW q \in Dataset, NEW r \in Dataset,
           PrefixOf(p, q), PrefixOf(q, r)
    PROVE  PrefixOf(p, r)
  BY PrefixElements, LenDataset

LEMMA PrefixOfConcat ==
    ASSUME NEW p \in Dataset, NEW q \in Dataset
    PROVE  PrefixOf(p, p \o q)
<1>1. \A i \in 1 .. Len(p) : (p \o q)[i] = p[i]
  BY ConcatProperties DEF Dataset
<1>2. p \o q \in Dataset /\ Len(p) <= Len(p \o q)
  BY ConcatDataset, LenDataset
<1> QED
  BY <1>1, <1>2, PrefixElements

LEMMA PrefixAppend ==
    ASSUME NEW p \in Dataset, NEW q \in Dataset, NEW e \in Command, PrefixOf(p, q)
    PROVE  PrefixOf(p, Append(q, e))
<1>1. /\ Append(q, e) \in Dataset
      /\ Len(Append(q, e)) = Len(q) + 1
      /\ \A i \in 1 .. Len(q) : Append(q, e)[i] = q[i]
  BY AppendProperties DEF Dataset
<1>2. /\ Len(p) \in Nat /\ Len(q) \in Nat
      /\ Len(p) <= Len(q) /\ \A i \in 1 .. Len(p) : p[i] = q[i]
  BY LenDataset, PrefixElements
<1>3. Len(p) <= Len(Append(q, e)) /\ \A i \in 1 .. Len(p) : p[i] = Append(q, e)[i]
  BY <1>1, <1>2
<1> QED
  BY <1>1, <1>3, PrefixElements

LEMMA PrefixFirstPart ==
    ASSUME NEW p \in Dataset, NEW n \in 0 .. Len(p)
    PROVE  PrefixOf(SubSeq(p, 1, n), p)
<1>1. n \in Nat /\ Len(p) \in Nat /\ n <= Len(p)
  BY LenDataset
<1>2. /\ SubSeq(p, 1, n) \in Dataset
      /\ Len(SubSeq(p, 1, n)) <= Len(p)
      /\ \A i \in 1 .. Len(SubSeq(p, 1, n)) : SubSeq(p, 1, n)[i] = p[i]
  BY <1>1, FirstPart
<1> QED
  BY <1>2, PrefixElements

(* Concatenation keeps prefixes of the second part.                        *)
LEMMA PrefixConcat ==
    ASSUME NEW p \in Dataset, NEW q \in Dataset, NEW r \in Dataset, PrefixOf(q, r)
    PROVE  PrefixOf(p \o q, p \o r)
<1>1. /\ Len(p) \in Nat /\ Len(q) \in Nat /\ Len(r) \in Nat
      /\ Len(q) <= Len(r)
      /\ \A i \in 1 .. Len(q) : q[i] = r[i]
  BY LenDataset, PrefixElements
<1>2. /\ p \o q \in Dataset /\ Len(p \o q) = Len(p) + Len(q)
      /\ p \o r \in Dataset /\ Len(p \o r) = Len(p) + Len(r)
  BY ConcatDataset
<1>3. ASSUME NEW i \in 1 .. Len(p \o q) PROVE (p \o q)[i] = (p \o r)[i]
  <2>1. CASE i <= Len(p)
    <3>1. i \in 1 .. Len(p)
      BY <1>1, <1>2, <2>1
    <3> QED
      BY <3>1, ConcatProperties DEF Dataset
  <2>2. CASE i > Len(p)
    <3>1. i - Len(p) \in 1 .. Len(q) /\ i - Len(p) \in 1 .. Len(r)
      BY <1>1, <1>2, <2>2
    <3>2. (p \o q)[i] = q[i - Len(p)] /\ (p \o r)[i] = r[i - Len(p)]
      BY <1>1, <1>2, <2>2, <3>1, ConcatProperties DEF Dataset
    <3> QED
      BY <1>1, <3>1, <3>2
  <2> QED
    BY <1>1, <1>2, <2>1, <2>2
<1>4. Len(p \o q) <= Len(p \o r)
  BY <1>1, <1>2
<1> QED
  BY <1>2, <1>3, <1>4, PrefixElements

(* Queues of fsync jobs.                                                   *)
LEMMA QueueFacts ==
    ASSUME NEW q \in Seq({"aof", "old"})
    PROVE  /\ \A j \in {"aof", "old"} : /\ Append(q, j) \in Seq({"aof", "old"})
                                       /\ Append(q, j) # <<>>
                                       /\ q # <<>> => Head(Append(q, j)) = Head(q)
           /\ q # <<>> => Tail(q) \in Seq({"aof", "old"}) /\ Head(q) \in {"aof", "old"}
           /\ <<>> \in Seq({"aof", "old"})
           /\ <<"old">> \in Seq({"aof", "old"})
           /\ Head(<<"old">>) = "old" /\ <<"old">> # <<>>
<1>1. ASSUME NEW j \in {"aof", "old"}
      PROVE  /\ Append(q, j) \in Seq({"aof", "old"})
             /\ Append(q, j) # <<>>
             /\ q # <<>> => Head(Append(q, j)) = Head(q)
  BY AppendProperties, HeadTailProperties, EmptySeq, LenProperties
<1>2. q # <<>> => Tail(q) \in Seq({"aof", "old"}) /\ Head(q) \in {"aof", "old"}
  BY HeadTailProperties
<1> QED
  BY <1>1, <1>2

-----------------------------------------------------------------------------
(* Parts of the actions *)

(* What flushAppendOnlyFile does to the buffer, the file and the fsyncs.   *)
Flushed ==
    /\ file' \in Dataset /\ aof_buf' \in Dataset
    /\ file' \o aof_buf' = file \o aof_buf
    /\ PrefixOf(file, file')
    /\ aof_buf = <<>> => aof_buf' = <<>> /\ file' = file
    /\ synced' \in Nat /\ synced <= synced' /\ synced' <= Len(file')
    /\ fsyncq' \in Seq({"aof", "old"})
    /\ fsyncq # <<>> => fsyncq' # <<>> /\ Head(fsyncq') = Head(fsyncq)
    /\ syncing' = syncing /\ torn' = torn
    /\ aof_flush_postponed_start' \in Nat /\ aof_last_fsync' \in Nat

LEMMA NotFlushed ==
    ASSUME TypeOK, DiskInv, UNCHANGED <<aof_buf, diskVars, flushVars, bioVars>>
    PROVE  Flushed
<1>1. PrefixOf(file, file)
  BY PrefixReflexive DEF TypeOK
<1> QED
  BY <1>1 DEF Flushed, TypeOK, DiskInv, diskVars, flushVars, bioVars

LEMMA FlushStep ==
    ASSUME TypeOK, DiskInv, NEW force \in BOOLEAN, flushAppendOnlyFile(force)
    PROVE  Flushed
<1> USE DEF TypeOK, DiskInv
<1>1. CASE aof_buf = <<>> /\ UNCHANGED <<aof_buf, diskVars, flushVars, bioVars>>
  BY <1>1, NotFlushed
<1>2. CASE /\ aof_buf # <<>>
           /\ aof_flush_postponed_start' \in Nat
           /\ UNCHANGED <<aof_buf, diskVars, aof_last_fsync, bioVars>>
  <2>1. PrefixOf(file, file)
    BY PrefixReflexive
  <2> QED
    BY <1>2, <2>1 DEF Flushed, diskVars, bioVars
<1>3. CASE /\ aof_buf # <<>>
           /\ aof_flush_postponed_start' = 0
           /\ file' = file \o aof_buf
           /\ aof_buf' = <<>>
           /\ FsyncAfterWrite
           /\ UNCHANGED torn
  <2>1. /\ file' \in Dataset /\ aof_buf' \in Dataset
        /\ Len(file) \in Nat /\ Len(aof_buf) \in Nat /\ Len(file') \in Nat
        /\ Len(file') = Len(file) + Len(aof_buf)
        /\ PrefixOf(file, file')
    BY <1>3, ConcatDataset, LenDataset, EmptyDataset, PrefixOfConcat
  <2>2. file' \o aof_buf' = file \o aof_buf
    BY <1>3, <2>1, ConcatDataset
  <2>3. synced' \in Nat /\ synced <= synced' /\ synced' <= Len(file')
    BY <1>3, <2>1 DEF FsyncAfterWrite
  <2>4. /\ fsyncq' \in Seq({"aof", "old"})
        /\ fsyncq # <<>> => fsyncq' # <<>> /\ Head(fsyncq') = Head(fsyncq)
        /\ syncing' = syncing /\ aof_last_fsync' \in Nat
    BY <1>3, QueueFacts DEF FsyncAfterWrite
  <2> QED
    BY <1>3, <2>1, <2>2, <2>3, <2>4 DEF Flushed
<1> QED
  BY <1>1, <1>2, <1>3 DEF flushAppendOnlyFile, WritesBuffer

(* The write that is fed to a buffer whose text selects db.                *)
FedIn(d, id, db) == [db |-> IF aof_selected_db # d THEN d ELSE db, id |-> id]

LEMMA FeedStep ==
    ASSUME TypeOK, NEW d \in DB, NEW id \in Nat, feedAppendOnlyFile(d, id)
    PROVE  /\ aof_selected_db' = d
           /\ aof_state = "on" => /\ aof_buf' = Append(aof_buf, FedIn(d, id, enddb))
                                  /\ enddb' = FedIn(d, id, enddb).db
           /\ aof_state # "on" => UNCHANGED bufVars
           /\ aof_child_pid => /\ aof_rewrite_buf' = Append(aof_rewrite_buf, FedIn(d, id, rwdb))
                               /\ rwdb' = FedIn(d, id, rwdb).db
           /\ ~aof_child_pid => UNCHANGED <<aof_rewrite_buf, rwdb>>
           /\ UNCHANGED snap
           /\ \A db \in DB : FedIn(d, id, db) \in Command
           /\ aof_buf' \in Dataset /\ enddb' \in DB
           /\ aof_rewrite_buf' \in Dataset /\ rwdb' \in DB
<1>1. \A db \in DB : FedIn(d, id, db) \in Command /\ FedIn(d, id, db).db \in DB
  BY DEF FedIn, Command
<1>2. /\ Append(aof_buf, FedIn(d, id, enddb)) \in Dataset
      /\ Append(aof_rewrite_buf, FedIn(d, id, rwdb)) \in Dataset
  BY <1>1, AppendDataset DEF TypeOK
<1> QED
  BY <1>1, <1>2 DEF feedAppendOnlyFile, FedIn, TypeOK, bufVars

-----------------------------------------------------------------------------
(* Type correctness *)

LEMMA StopTypes ==
    ASSUME TypeOK, NEW where \in {"down", "exited"}, Stop(where),
           file' \in Dataset, synced' \in Nat, torn' \in BOOLEAN
    PROVE  TypeOK'
  BY EmptyDataset, QueueFacts, AofAssumption DEF TypeOK, Stop, ForgetMemory

LEMMA TypeStep ==
    ASSUME TypeOK, DiskInv, [Next]_vars
    PROVE  TypeOK'
<1> USE AofAssumption, EmptyDataset, LenDataset
    DEF TypeOK, diskVars, bufVars, rwVars, flushVars, childVars, bioVars, clientVars
<1>1. ASSUME NEW c \in Clients, NEW d \in DB, WriteCommand(c, d) PROVE TypeOK'
  <2>1. /\ Len(data) + 1 \in Nat
        /\ [db |-> d, id |-> Len(data) + 1] \in Command
    BY DEF Command
  <2>2. data' \in Dataset
    BY <1>1, <2>1, AppendDataset DEF WriteCommand
  <2>3. /\ aof_buf' \in Dataset /\ enddb' \in DB
        /\ aof_rewrite_buf' \in Dataset /\ rwdb' \in DB /\ snap' \in Dataset
        /\ aof_selected_db' \in DB \cup {-1}
    BY <1>1, <2>1, FeedStep DEF WriteCommand
  <2>4. reply' \in [Clients -> Nat]
    BY <1>1, <2>1 DEF WriteCommand
  <2> QED
    BY <1>1, <2>2, <2>3, <2>4, SMTT(60) DEF WriteCommand
<1>2. ASSUME NEW c \in Clients, SendReply(c) PROVE TypeOK'
  BY <1>2 DEF SendReply, Larger
<1>3. CASE beforeSleep
  <2>1. Flushed
    BY <1>3, FlushStep DEF beforeSleep
  <2>2. /\ file' \in Dataset /\ aof_buf' \in Dataset /\ synced' \in Nat /\ torn' \in BOOLEAN
        /\ fsyncq' \in Seq({"aof", "old"}) /\ syncing' \in Nat \cup {-1}
        /\ aof_flush_postponed_start' \in Nat /\ aof_last_fsync' \in Nat
    BY <2>1 DEF Flushed
  <2> QED
    BY <1>3, <2>2 DEF beforeSleep
<1>4. CASE EndOfEvents
  BY <1>4 DEF EndOfEvents
<1>5. ASSUME ForkRewrite
      PROVE  /\ snap' \in Dataset /\ rwdb' \in DB /\ aof_rewrite_buf' \in Dataset
             /\ aof_rewrite_scheduled' \in BOOLEAN /\ aof_selected_db' \in DB \cup {-1}
             /\ aof_child_pid' \in BOOLEAN /\ aofproc' \in {"none", "running", "ok", "error", "signal"}
             /\ UNCHANGED <<rdb_child_pid, rdbproc, zombie>>
  BY <1>5 DEF ForkRewrite, LastDb
<1>6. CASE serverCron
  BY <1>5, <1>6 DEF serverCron, rewriteAppendOnlyFileBackground, ForkFails
<1>7. CASE StartBackgroundWork
  BY <1>5, <1>7 DEF StartBackgroundWork, rdbSaveBackground
<1>8. CASE ReapOther
  <2>1. /\ aof_child_pid' \in BOOLEAN /\ rdb_child_pid' \in BOOLEAN /\ zombie' \in BOOLEAN
        /\ aofproc' \in {"none", "running", "ok", "error", "signal"}
        /\ rdbproc' \in {"none", "running", "dead"}
    BY <1>8 DEF ReapOther
  <2> QED
    BY <1>8, <2>1 DEF ReapOther
<1>9. CASE RewriteFails
  BY <1>9 DEF RewriteFails, CleanupRewrite
<1>10. CASE RewriteRenames
  <2>1. snap \o aof_rewrite_buf \in Dataset
    BY ConcatDataset
  <2> QED
    BY <1>10, <2>1, QueueFacts DEF RewriteRenames, Stale
<1>11. CASE RewriteSwitches
  <2>1. Append(fsyncq, "aof") \in Seq({"aof", "old"}) /\ Len(file) \in Nat
    BY QueueFacts
  <2> QED
    BY <1>11, <2>1 DEF RewriteSwitches, CleanupRewrite
<1>12. CASE CronFlush
  <2>1. Flushed
    BY <1>12, FlushStep, NotFlushed DEF CronFlush
  <2>2. /\ file' \in Dataset /\ aof_buf' \in Dataset /\ synced' \in Nat /\ torn' \in BOOLEAN
        /\ fsyncq' \in Seq({"aof", "old"}) /\ syncing' \in Nat \cup {-1}
        /\ aof_flush_postponed_start' \in Nat /\ aof_last_fsync' \in Nat
    BY <2>1 DEF Flushed
  <2> QED
    BY <1>12, <2>2 DEF CronFlush
<1>13. CASE bgrewriteaofCommand
  <2>1. \/ ForkRewrite
        \/ /\ aof_rewrite_scheduled' \in BOOLEAN
           /\ UNCHANGED <<rwVars, childVars, aof_selected_db>>
    BY <1>13 DEF bgrewriteaofCommand, rewriteAppendOnlyFileBackground, ForkFails
  <2> QED
    BY <1>5, <1>13, <2>1 DEF bgrewriteaofCommand
<1>14. CASE SaveOrSyncCommand
  BY <1>14 DEF SaveOrSyncCommand, rdbSaveBackground
<1>15. CASE startAppendOnly
  BY <1>5, <1>15 DEF startAppendOnly
<1>16. CASE stopAppendOnly
  <2>1. file \o aof_buf \in Dataset
    BY ConcatDataset
  <2>2. fsyncq' \in Seq({"aof", "old"})
    BY <1>16, QueueFacts DEF stopAppendOnly, Stale
  <2>3. /\ snap' \in Dataset /\ rwdb' \in DB /\ aof_rewrite_buf' \in Dataset
        /\ aof_child_pid' \in BOOLEAN /\ rdb_child_pid' \in BOOLEAN /\ zombie' \in BOOLEAN
        /\ aofproc' \in {"none", "running", "ok", "error", "signal"}
        /\ rdbproc' \in {"none", "running", "dead"}
    BY <1>16 DEF stopAppendOnly, KillAofChild
  <2> QED
    BY <1>16, <2>1, <2>2, <2>3 DEF stopAppendOnly
<1>17. CASE ShutdownCommand
  BY <1>17, StopTypes DEF ShutdownCommand
<1>18. CASE ShutdownFails
  BY <1>18 DEF ShutdownFails
<1>19. CASE BioFsyncStarts
  BY <1>19 DEF BioFsyncStarts
<1>20. CASE BioFsyncEnds
  BY <1>20, QueueFacts DEF BioFsyncEnds, Larger, DiskInv
<1>21. CASE AofChildEnds
  BY <1>21 DEF AofChildEnds
<1>22. CASE RdbChildEnds
  BY <1>22 DEF RdbChildEnds
<1>23. CASE WriteError
  <2>1. ASSUME NEW k \in 0 .. Len(aof_buf) - 1
        PROVE  file \o SubSeq(aof_buf, 1, k) \in Dataset
    <3>1. k \in 0 .. Len(aof_buf)
      OBVIOUS
    <3> QED
      BY <3>1, FirstPart, ConcatDataset
  <2> QED
    BY <1>23, <2>1, StopTypes DEF WriteError
<1>24. CASE Kill
  BY <1>24, StopTypes DEF Kill
<1>25. CASE PowerLoss
  <2>1. PICK n \in synced .. Len(file) :
          /\ file' = SubSeq(file, 1, n) /\ synced' = n
          /\ torn' \in IF n < Len(file) THEN BOOLEAN ELSE {torn}
    BY <1>25 DEF PowerLoss
  <2>2. n \in Nat /\ n \in 0 .. Len(file)
    OBVIOUS
  <2>3. file' \in Dataset /\ synced' \in Nat /\ torn' \in BOOLEAN
    BY <2>1, <2>2, FirstPart
  <2> QED
    BY <1>25, <2>3, StopTypes DEF PowerLoss
<1>26. CASE CheckAofFix
  BY <1>26, ZenonT(60) DEF CheckAofFix
<1>27. CASE loadAppendOnlyFile
  BY <1>27, QueueFacts DEF loadAppendOnlyFile, ForgetMemory
<1>28. CASE UNCHANGED vars
  BY <1>28 DEF vars
<1> QED
  BY <1>1, <1>2, <1>3, <1>4, <1>6, <1>7, <1>8, <1>9, <1>10, <1>11, <1>12, <1>13, <1>14,
     <1>15, <1>16, <1>17, <1>18, <1>19, <1>20, <1>21, <1>22, <1>23, <1>24, <1>25, <1>26,
     <1>27, <1>28
  DEF Next, MainLoop, Commands

-----------------------------------------------------------------------------
(* Where the main thread is, and the children *)

LEMMA StopControl ==
    ASSUME NEW where \in {"down", "exited"}, Stop(where)
    PROVE  ControlInv' /\ SelectInv'
  BY DEF ControlInv, SelectInv, Stop, ForgetMemory

LEMMA ControlStep ==
    ASSUME TypeOK, ControlInv, [Next]_vars
    PROVE  ControlInv'
<1> USE DEF TypeOK, ControlInv, diskVars, bufVars, rwVars, flushVars, childVars, bioVars,
            clientVars
<1>1. ASSUME NEW c \in Clients, NEW d \in DB, WriteCommand(c, d) PROVE ControlInv'
  BY <1>1 DEF WriteCommand, ClientsSend
<1>2. ASSUME NEW c \in Clients, SendReply(c) PROVE ControlInv'
  BY <1>2 DEF SendReply
<1>3. CASE beforeSleep
  BY <1>3 DEF beforeSleep
<1>4. CASE EndOfEvents
  BY <1>4 DEF EndOfEvents
<1>5. CASE serverCron
  BY <1>5 DEF serverCron, rewriteAppendOnlyFileBackground, ForkRewrite, ForkFails
<1>6. CASE StartBackgroundWork
  BY <1>6 DEF StartBackgroundWork, rdbSaveBackground, ForkRewrite
<1>7. CASE ReapOther
  BY <1>7 DEF ReapOther
<1>8. CASE RewriteFails
  BY <1>8 DEF RewriteFails, CleanupRewrite
<1>9. CASE RewriteRenames
  BY <1>9 DEF RewriteRenames
<1>10. CASE RewriteSwitches
  BY <1>10 DEF RewriteSwitches, CleanupRewrite
<1>11. CASE CronFlush
  BY <1>11 DEF CronFlush
<1>12. CASE bgrewriteaofCommand
  BY <1>12 DEF bgrewriteaofCommand, ClientsSend, rewriteAppendOnlyFileBackground, ForkRewrite,
               ForkFails
<1>13. CASE SaveOrSyncCommand
  BY <1>13 DEF SaveOrSyncCommand, rdbSaveBackground, ClientsSend
<1>14. CASE startAppendOnly
  BY <1>14 DEF startAppendOnly, ForkRewrite, ClientsSend
<1>15. CASE stopAppendOnly
  BY <1>15 DEF stopAppendOnly, KillAofChild, ClientsSend
<1>16. CASE ShutdownCommand
  BY <1>16, StopControl DEF ShutdownCommand
<1>17. CASE ShutdownFails
  BY <1>17 DEF ShutdownFails, ClientsSend
<1>18. CASE BioFsyncStarts
  BY <1>18 DEF BioFsyncStarts
<1>19. CASE BioFsyncEnds
  BY <1>19 DEF BioFsyncEnds
<1>20. CASE AofChildEnds
  BY <1>20 DEF AofChildEnds
<1>21. CASE RdbChildEnds
  BY <1>21 DEF RdbChildEnds
<1>22. CASE WriteError
  BY <1>22, StopControl DEF WriteError
<1>23. CASE Kill
  BY <1>23, StopControl DEF Kill
<1>24. CASE PowerLoss
  BY <1>24, StopControl DEF PowerLoss
<1>25. CASE CheckAofFix
  BY <1>25 DEF CheckAofFix
<1>26. CASE loadAppendOnlyFile
  BY <1>26 DEF loadAppendOnlyFile, ForgetMemory
<1>27. CASE UNCHANGED vars
  BY <1>27 DEF vars
<1> QED
  BY <1>1, <1>2, <1>3, <1>4, <1>5, <1>6, <1>7, <1>8, <1>9, <1>10, <1>11, <1>12, <1>13, <1>14,
     <1>15, <1>16, <1>17, <1>18, <1>19, <1>20, <1>21, <1>22, <1>23, <1>24, <1>25, <1>26, <1>27
  DEF Next, MainLoop, Commands

(* aof_selected_db is set to -1 wherever the text it speaks of is replaced. *)
LEMMA SelectStep ==
    ASSUME TypeOK, SelectInv, [Next]_vars
    PROVE  SelectInv'
<1> USE DEF TypeOK, SelectInv, diskVars, bufVars, rwVars, flushVars, childVars, bioVars,
            clientVars
<1>1. ASSUME NEW c \in Clients, NEW d \in DB, WriteCommand(c, d) PROVE SelectInv'
  <2>1. CASE aof_state = "off"
    BY <1>1, <2>1 DEF WriteCommand
  <2>2. CASE aof_state # "off"
    <3>1. feedAppendOnlyFile(d, Len(data) + 1) /\ Len(data) + 1 \in Nat
      BY <1>1, <2>2, LenDataset DEF WriteCommand
    <3>2. \A db \in DB : FedIn(d, Len(data) + 1, db).db = IF aof_selected_db # d THEN d ELSE db
      BY DEF FedIn
    <3>3. /\ aof_selected_db' = d
          /\ aof_state = "on" => enddb' = FedIn(d, Len(data) + 1, enddb).db
          /\ aof_child_pid => rwdb' = FedIn(d, Len(data) + 1, rwdb).db
      BY <3>1, FeedStep
    <3>4. d # -1
      BY AofAssumption
    <3>5. aof_state = "on" => enddb' = d
      BY <3>2, <3>3, <3>4
    <3>6. aof_child_pid => rwdb' = d
      BY <2>2, <3>2, <3>3, <3>4
    <3> QED
      BY <1>1, <3>3, <3>5, <3>6 DEF WriteCommand
  <2> QED
    BY <2>1, <2>2
<1>2. ASSUME NEW c \in Clients, SendReply(c) PROVE SelectInv'
  BY <1>2 DEF SendReply
<1>3. CASE beforeSleep
  BY <1>3 DEF beforeSleep
<1>4. CASE EndOfEvents
  BY <1>4 DEF EndOfEvents
<1>5. CASE serverCron
  BY <1>5 DEF serverCron, rewriteAppendOnlyFileBackground, ForkRewrite, ForkFails
<1>6. CASE StartBackgroundWork
  BY <1>6 DEF StartBackgroundWork, rdbSaveBackground, ForkRewrite
<1>7. CASE ReapOther
  BY <1>7 DEF ReapOther
<1>8. CASE RewriteFails
  BY <1>8 DEF RewriteFails, CleanupRewrite
<1>9. CASE RewriteRenames
  BY <1>9 DEF RewriteRenames
<1>10. CASE RewriteSwitches
  BY <1>10 DEF RewriteSwitches, CleanupRewrite
<1>11. CASE CronFlush
  BY <1>11 DEF CronFlush
<1>12. CASE bgrewriteaofCommand
  BY <1>12 DEF bgrewriteaofCommand, rewriteAppendOnlyFileBackground, ForkRewrite, ForkFails
<1>13. CASE SaveOrSyncCommand
  BY <1>13 DEF SaveOrSyncCommand, rdbSaveBackground
<1>14. CASE startAppendOnly
  BY <1>14 DEF startAppendOnly, ForkRewrite
<1>15. CASE stopAppendOnly
  BY <1>15 DEF stopAppendOnly
<1>16. CASE ShutdownCommand
  BY <1>16, StopControl DEF ShutdownCommand
<1>17. CASE ShutdownFails
  BY <1>17 DEF ShutdownFails
<1>18. CASE BioFsyncStarts
  BY <1>18 DEF BioFsyncStarts
<1>19. CASE BioFsyncEnds
  BY <1>19 DEF BioFsyncEnds
<1>20. CASE AofChildEnds
  BY <1>20 DEF AofChildEnds
<1>21. CASE RdbChildEnds
  BY <1>21 DEF RdbChildEnds
<1>22. CASE WriteError
  BY <1>22, StopControl DEF WriteError
<1>23. CASE Kill
  BY <1>23, StopControl DEF Kill
<1>24. CASE PowerLoss
  BY <1>24, StopControl DEF PowerLoss
<1>25. CASE CheckAofFix
  BY <1>25 DEF CheckAofFix
<1>26. CASE loadAppendOnlyFile
  BY <1>26 DEF loadAppendOnlyFile, ForgetMemory
<1>27. CASE UNCHANGED vars
  BY <1>27 DEF vars
<1> QED
  BY <1>1, <1>2, <1>3, <1>4, <1>5, <1>6, <1>7, <1>8, <1>9, <1>10, <1>11, <1>12, <1>13, <1>14,
     <1>15, <1>16, <1>17, <1>18, <1>19, <1>20, <1>21, <1>22, <1>23, <1>24, <1>25, <1>26, <1>27
  DEF Next, MainLoop, Commands

-----------------------------------------------------------------------------
(* The disk *)

LEMMA DiskStep ==
    ASSUME TypeOK, ControlInv, DiskInv, [Next]_vars
    PROVE  DiskInv'
<1> USE LenDataset
    DEF TypeOK, DiskInv, diskVars, bufVars, rwVars, flushVars, childVars, bioVars, clientVars
<1>1. ASSUME NEW c \in Clients, NEW d \in DB, WriteCommand(c, d) PROVE DiskInv'
  BY <1>1 DEF WriteCommand, ClientsSend
<1>2. ASSUME NEW c \in Clients, SendReply(c) PROVE DiskInv'
  BY <1>2 DEF SendReply
<1>3. ASSUME Flushed, pc' # "switch" PROVE DiskInv'
  <2>1. Len(file) <= Len(file') /\ Len(file) \in Nat /\ Len(file') \in Nat
    BY <1>3 DEF Flushed, PrefixOf
  <2> QED
    BY <1>3, <2>1, SMTT(60) DEF Flushed
<1>4. CASE beforeSleep
  BY <1>3, <1>4, FlushStep DEF beforeSleep
<1>5. CASE CronFlush
  BY <1>3, <1>5, FlushStep, NotFlushed DEF CronFlush
<1>6. CASE EndOfEvents
  BY <1>6 DEF EndOfEvents
<1>7. CASE serverCron
  BY <1>7 DEF serverCron
<1>8. CASE StartBackgroundWork
  BY <1>8 DEF StartBackgroundWork
<1>9. CASE ReapOther
  BY <1>9 DEF ReapOther
<1>10. CASE RewriteFails
  BY <1>10 DEF RewriteFails
<1>11. CASE RewriteRenames
  <2>1. /\ Len(snap) \in Nat /\ Len(aof_rewrite_buf) \in Nat
        /\ Len(file') = Len(snap) + Len(aof_rewrite_buf)
    BY <1>11, ConcatDataset DEF RewriteRenames
  <2>2. fsyncq # <<>> => fsyncq' # <<>> /\ Head(fsyncq') = "old"
    BY <1>11, QueueFacts DEF RewriteRenames, Stale
  <2> QED
    BY <1>11, <2>1, <2>2 DEF RewriteRenames
<1>12. CASE RewriteSwitches
  <2>1. /\ fsyncq # <<>> => /\ Append(fsyncq, "aof") # <<>>
                            /\ Head(Append(fsyncq, "aof")) = Head(fsyncq)
        /\ Len(file) \in Nat
    BY QueueFacts
  <2>2. fsyncq # <<>> => fsyncq' # <<>> /\ Head(fsyncq') = Head(fsyncq)
    BY <1>12, <2>1 DEF RewriteSwitches
  <2>3. synced' <= Len(file)
    BY <1>12, <2>1 DEF RewriteSwitches
  <2> QED
    BY <1>12, <2>2, <2>3 DEF RewriteSwitches
<1>13. CASE bgrewriteaofCommand
  BY <1>13 DEF bgrewriteaofCommand, ClientsSend
<1>14. CASE SaveOrSyncCommand
  BY <1>14 DEF SaveOrSyncCommand
<1>15. CASE startAppendOnly
  BY <1>15 DEF startAppendOnly, ClientsSend
<1>16. CASE stopAppendOnly
  <2>1. /\ Len(file) \in Nat /\ Len(aof_buf) \in Nat
        /\ Len(file') = Len(file) + Len(aof_buf)
    BY <1>16, ConcatDataset DEF stopAppendOnly
  <2>2. fsyncq # <<>> => fsyncq' # <<>> /\ Head(fsyncq') = "old"
    BY <1>16, QueueFacts DEF stopAppendOnly, Stale
  <2> QED
    BY <1>16, <2>1, <2>2 DEF stopAppendOnly, ClientsSend
<1>17. CASE ShutdownCommand
  BY <1>17 DEF ShutdownCommand, Stop, ForgetMemory
<1>18. CASE ShutdownFails
  BY <1>18 DEF ShutdownFails, ClientsSend
<1>19. CASE BioFsyncStarts
  BY <1>19, QueueFacts DEF BioFsyncStarts
<1>20. CASE BioFsyncEnds
  BY <1>20, QueueFacts DEF BioFsyncEnds, Larger
<1>21. CASE AofChildEnds
  BY <1>21 DEF AofChildEnds
<1>22. CASE RdbChildEnds
  BY <1>22 DEF RdbChildEnds
<1>23. CASE WriteError
  <2>1. ASSUME NEW k \in 0 .. Len(aof_buf) - 1
        PROVE  Len(file) <= Len(file \o SubSeq(aof_buf, 1, k))
    <3>1. k \in 0 .. Len(aof_buf)
      OBVIOUS
    <3>2. SubSeq(aof_buf, 1, k) \in Dataset
      BY <3>1, FirstPart
    <3> QED
      BY <3>2, ConcatDataset
  <2>2. Len(file) <= Len(file')
    BY <1>23, <2>1 DEF WriteError
  <2>3. file' \in Dataset
    BY <1>23, TypeStep
  <2> QED
    BY <1>23, <2>2, <2>3 DEF WriteError, Stop, ForgetMemory
<1>24. CASE Kill
  BY <1>24 DEF Kill, Stop, ForgetMemory
<1>25. CASE PowerLoss
  <2>1. PICK n \in synced .. Len(file) : file' = SubSeq(file, 1, n) /\ synced' = n
    BY <1>25 DEF PowerLoss
  <2>2. n \in 0 .. Len(file)
    OBVIOUS
  <2>3. Len(file') = n
    BY <2>1, <2>2, FirstPart
  <2> QED
    BY <1>25, <2>1, <2>3 DEF PowerLoss, Stop, ForgetMemory
<1>26. CASE CheckAofFix
  BY <1>26 DEF CheckAofFix
<1>27. CASE loadAppendOnlyFile
  BY <1>27 DEF loadAppendOnlyFile, ForgetMemory
<1>28. CASE UNCHANGED vars
  BY <1>28 DEF vars
<1> QED
  BY <1>1, <1>2, <1>4, <1>5, <1>6, <1>7, <1>8, <1>9, <1>10, <1>11, <1>12, <1>13, <1>14,
     <1>15, <1>16, <1>17, <1>18, <1>19, <1>20, <1>21, <1>22, <1>23, <1>24, <1>25, <1>26,
     <1>27, <1>28
  DEF Next, MainLoop, Commands

-----------------------------------------------------------------------------
(* What the texts stand for *)

LEMMA TextUnchanged ==
    ASSUME TypeOK, TextInv, pc' = "switch" <=> pc = "switch", Down' <=> Down,
           UNCHANGED <<data, file, aof_buf, snap, aof_rewrite_buf, aof_child_pid, aof_state>>
    PROVE  TextInv'
  BY DEF TextInv, TextIsData, RewriteIsData, PrefixOf

LEMMA StopText ==
    ASSUME NEW where \in {"down", "exited"}, Stop(where)
    PROVE  TextInv'
  BY DEF TextInv, TextIsData, RewriteIsData, Stop, ForgetMemory, Down

(* A flush moves writes from the buffer to the file.                       *)
LEMMA FlushText ==
    ASSUME TypeOK, TextInv, Flushed, ~Down, ~Down', pc # "switch", pc' # "switch",
           UNCHANGED <<data, snap, aof_rewrite_buf, aof_child_pid, aof_state>>
    PROVE  TextInv'
<1> USE DEF TypeOK
<1>1. CASE aof_state = "on"
  <2>1. file' \o aof_buf' = data
    BY <1>1 DEF TextInv, TextIsData, Flushed
  <2>2. PrefixOf(file', data)
    BY <2>1, PrefixOfConcat DEF Flushed
  <2>3. aof_child_pid => snap \o aof_rewrite_buf = data
    BY <1>1 DEF TextInv, RewriteIsData
  <2> QED
    BY <1>1, <2>1, <2>2, <2>3 DEF TextInv, TextIsData, RewriteIsData, PrefixOf
<1>2. CASE aof_state # "on"
  <2>1. aof_buf = <<>> /\ aof_buf' = aof_buf /\ file' = file
    BY <1>2, SMTT(60) DEF TextInv, Flushed
  <2> QED
    BY <2>1, TextUnchanged
<1> QED
  BY <1>1, <1>2

(* A child that is forked dumps the dataset as it is.                      *)
LEMMA ForkText ==
    ASSUME TypeOK, TextInv, ForkRewrite, ~aof_child_pid, ~Down, ~Down',
           pc # "switch", pc' # "switch", UNCHANGED <<data, file, aof_buf>>,
           aof_state' = aof_state \/ (aof_state = "off" /\ aof_state' = "wait")
    PROVE  TextInv'
<1> USE DEF TypeOK
<1>1. snap' = data /\ aof_rewrite_buf' = <<>> /\ aof_child_pid' = TRUE
  BY DEF ForkRewrite, TextInv
<1>2. snap' \o aof_rewrite_buf' = data
  BY <1>1, ConcatDataset
<1>3. PrefixOf(data, data)
  BY PrefixReflexive
<1> QED
  BY <1>1, <1>2, <1>3 DEF TextInv, TextIsData, RewriteIsData, PrefixOf

(* A write is added to the dataset and to each text that is kept.          *)
LEMMA WriteText ==
    ASSUME TypeOK, TextInv, SelectInv, NEW c \in Clients, NEW d \in DB, WriteCommand(c, d)
    PROVE  TextInv'
<1> DEFINE e == [db |-> d, id |-> Len(data) + 1]
<1> USE DEF TypeOK
<1>1. e \in Command /\ Len(data) + 1 \in Nat /\ d # -1
  BY LenDataset, AofAssumption DEF Command
<1>2. /\ data' = Append(data, e) /\ pc = "events"
      /\ UNCHANGED <<pc, file, aof_state, aof_child_pid>>
  BY DEF WriteCommand, ClientsSend, diskVars, childVars
<1>3. PrefixOf(file, data')
  BY <1>1, <1>2, PrefixAppend DEF TextInv, Down
<1>4. CASE aof_state = "off"
  <2>1. UNCHANGED <<aof_buf, aof_rewrite_buf, snap>>
    BY <1>4 DEF WriteCommand, bufVars, rwVars
  <2>2. aof_child_pid => PrefixOf(snap \o aof_rewrite_buf, data')
    BY <1>1, <1>2, PrefixAppend, ConcatDataset DEF TextInv
  <2> QED
    BY <1>2, <1>3, <1>4, <2>1, <2>2 DEF TextInv, TextIsData, RewriteIsData, Down, PrefixOf
<1>5. CASE aof_state # "off"
  <2>1. feedAppendOnlyFile(d, Len(data) + 1)
    BY <1>5 DEF WriteCommand
  <2>3. ASSUME aof_state = "on" PROVE file' \o aof_buf' = data'
    <3>1. FedIn(d, Len(data) + 1, enddb) = e
      BY <1>1, <2>3 DEF FedIn, SelectInv
    <3>2. aof_buf' = Append(aof_buf, e)
      BY <1>1, <2>1, <2>3, <3>1, FeedStep
    <3>3. file \o aof_buf = data
      BY <1>2, <2>3 DEF TextInv, TextIsData, Down
    <3> QED
      BY <1>1, <1>2, <3>2, <3>3, ConcatAppend
  <2>4. aof_state # "on" => aof_buf' = aof_buf
    BY <1>1, <2>1, FeedStep DEF bufVars
  <2>5. ASSUME aof_child_pid PROVE snap' \o aof_rewrite_buf' = data'
    <3>1. FedIn(d, Len(data) + 1, rwdb) = e
      BY <1>1, <1>5, <2>5 DEF FedIn, SelectInv
    <3>2. aof_rewrite_buf' = Append(aof_rewrite_buf, e) /\ snap' = snap
      BY <1>1, <2>1, <2>5, <3>1, FeedStep
    <3>3. snap \o aof_rewrite_buf = data
      BY <1>5, <2>5 DEF TextInv, RewriteIsData
    <3> QED
      BY <1>1, <1>2, <3>2, <3>3, ConcatAppend
  <2>6. ~aof_child_pid => aof_rewrite_buf' = aof_rewrite_buf /\ snap' = snap
    BY <1>1, <2>1, FeedStep
  <2>7. PrefixOf(data', data')
    BY <1>1, <1>2, AppendDataset, PrefixReflexive
  <2> QED
    BY <1>2, <1>3, <1>5, <2>3, <2>4, <2>5, <2>6, <2>7
    DEF TextInv, TextIsData, RewriteIsData, Down, PrefixOf
<1> QED
  BY <1>4, <1>5

LEMMA TextStep ==
    ASSUME TypeOK, ControlInv, SelectInv, DiskInv, TextInv, [Next]_vars
    PROVE  TextInv'
<1> USE DEF TypeOK, diskVars, bufVars, rwVars, flushVars, childVars, bioVars, clientVars
<1>1. ASSUME NEW c \in Clients, NEW d \in DB, WriteCommand(c, d) PROVE TextInv'
  BY <1>1, WriteText
<1>2. ASSUME NEW c \in Clients, SendReply(c) PROVE TextInv'
  BY <1>2, TextUnchanged DEF SendReply, Down
<1>3. CASE beforeSleep
  BY <1>3, FlushStep, FlushText DEF beforeSleep, Down
<1>4. CASE EndOfEvents
  BY <1>4, TextUnchanged DEF EndOfEvents, Down
<1>5. CASE serverCron
  <2>1. CASE ForkRewrite /\ ~aof_child_pid
    <3>1. /\ ~Down /\ ~Down' /\ pc # "switch" /\ pc' # "switch"
          /\ UNCHANGED <<data, file, aof_buf, aof_state>>
      BY <1>5 DEF serverCron, Down
    <3> QED
      BY <2>1, <3>1, ForkText
  <2>2. CASE UNCHANGED <<rwVars, childVars>>
    BY <1>5, <2>2, TextUnchanged DEF serverCron, Down
  <2> QED
    BY <1>5, <2>1, <2>2 DEF serverCron, rewriteAppendOnlyFileBackground, ForkFails
<1>6. CASE StartBackgroundWork
  <2>1. CASE ForkRewrite /\ ~aof_child_pid
    <3>1. /\ ~Down /\ ~Down' /\ pc # "switch" /\ pc' # "switch"
          /\ UNCHANGED <<data, file, aof_buf, aof_state>>
      BY <1>6 DEF StartBackgroundWork, Down
    <3> QED
      BY <2>1, <3>1, ForkText
  <2>2. CASE UNCHANGED <<rwVars, aof_child_pid>>
    BY <1>6, <2>2, TextUnchanged DEF StartBackgroundWork, Down
  <2> QED
    BY <1>6, <2>1, <2>2 DEF StartBackgroundWork, rdbSaveBackground
<1>7. CASE ReapOther
  <2>1. UNCHANGED aof_child_pid
    BY <1>7 DEF ReapOther
  <2> QED
    BY <1>7, <2>1, TextUnchanged DEF ReapOther, Down
<1>8. CASE RewriteFails
  <2>1. /\ ~aof_child_pid' /\ snap' = <<>> /\ aof_rewrite_buf' = <<>>
        /\ ~Down /\ ~Down' /\ pc # "switch" /\ pc' # "switch"
        /\ UNCHANGED <<data, file, aof_buf, aof_state>>
    BY <1>8 DEF RewriteFails, CleanupRewrite, Down
  <2> QED
    BY <2>1 DEF TextInv, TextIsData, RewriteIsData, PrefixOf
<1>9. CASE RewriteRenames
  <2>1. /\ pc = "reap" /\ pc' = "switch" /\ aof_child_pid /\ file' = snap \o aof_rewrite_buf
        /\ UNCHANGED <<data, aof_buf, aof_state, snap, aof_rewrite_buf, aof_child_pid>>
    BY <1>9 DEF RewriteRenames
  <2>2. file' \in Dataset /\ PrefixOf(file', file') /\ PrefixOf(file', data)
    BY <2>1, ConcatDataset, PrefixReflexive DEF TextInv
  <2>3. aof_state # "off" => file' \o <<>> = data
    BY <2>1, <2>2, ConcatDataset DEF TextInv, RewriteIsData
  <2> QED
    BY <2>1, <2>2, <2>3 DEF TextInv, TextIsData, RewriteIsData, Down, PrefixOf
<1>10. CASE RewriteSwitches
  <2>1. /\ pc = "switch" /\ pc' = "flush" /\ UNCHANGED <<file, data>>
        /\ ~aof_child_pid' /\ snap' = <<>> /\ aof_rewrite_buf' = <<>>
        /\ aof_state # "off" => aof_state' = "on" /\ aof_buf' = <<>>
        /\ aof_state = "off" => aof_state' = "off" /\ aof_buf' = aof_buf
    BY <1>10 DEF RewriteSwitches, CleanupRewrite
  <2>2. aof_child_pid /\ file = snap \o aof_rewrite_buf /\ file \o <<>> = file
    BY <2>1, ConcatDataset DEF ControlInv
  <2>3. aof_state # "off" => file \o <<>> = data
    BY <2>1, <2>2 DEF TextInv, RewriteIsData
  <2> QED
    BY <2>1, <2>2, <2>3 DEF TextInv, TextIsData, RewriteIsData, Down, PrefixOf
<1>11. CASE CronFlush
  BY <1>11, FlushStep, NotFlushed, FlushText DEF CronFlush, Down
<1>12. CASE bgrewriteaofCommand
  <2>1. CASE ForkRewrite /\ ~aof_child_pid
    <3>1. /\ ~Down /\ ~Down' /\ pc # "switch" /\ pc' # "switch"
          /\ UNCHANGED <<data, file, aof_buf, aof_state>>
      BY <1>12 DEF bgrewriteaofCommand, ClientsSend, Down
    <3> QED
      BY <2>1, <3>1, ForkText
  <2>2. CASE UNCHANGED <<rwVars, childVars>>
    BY <1>12, <2>2, TextUnchanged DEF bgrewriteaofCommand, ClientsSend, Down
  <2> QED
    BY <1>12, <2>1, <2>2 DEF bgrewriteaofCommand, rewriteAppendOnlyFileBackground, ForkFails
<1>13. CASE SaveOrSyncCommand
  BY <1>13, TextUnchanged DEF SaveOrSyncCommand, rdbSaveBackground, Down
<1>14. CASE startAppendOnly
  <2>1. CASE ForkRewrite /\ ~aof_child_pid /\ aof_state' = "wait"
    BY <1>14, <2>1, ForkText DEF startAppendOnly, ClientsSend, Down
  <2>2. CASE UNCHANGED <<rwVars, childVars, aof_state>>
    BY <1>14, <2>2, TextUnchanged DEF startAppendOnly, ClientsSend, Down
  <2> QED
    BY <1>14, <2>1, <2>2 DEF startAppendOnly
<1>15. CASE stopAppendOnly
  <2>1. /\ pc = "events" /\ pc' = "events" /\ data' = data /\ aof_state' = "off"
        /\ aof_buf' = <<>> /\ file' = file \o aof_buf
    BY <1>15 DEF stopAppendOnly, ClientsSend
  <2>2. ~aof_child_pid' /\ snap' = <<>> /\ aof_rewrite_buf' = <<>>
    BY <1>15, SMTT(60) DEF stopAppendOnly, KillAofChild, TextInv
  <2>3. CASE aof_state = "on"
    <3>1. file' = data
      BY <2>1, <2>3 DEF TextInv, TextIsData, Down
    <3>2. PrefixOf(data, data)
      BY PrefixReflexive
    <3> QED
      BY <2>1, <2>2, <3>1, <3>2 DEF TextInv, TextIsData, RewriteIsData, Down, PrefixOf
  <2>4. CASE aof_state # "on"
    <3>1. file' = file
      BY <2>1, <2>4, ConcatDataset DEF TextInv
    <3> QED
      BY <2>1, <2>2, <3>1 DEF TextInv, TextIsData, RewriteIsData, Down, PrefixOf
  <2> QED
    BY <2>3, <2>4
<1>16. CASE ShutdownCommand
  BY <1>16, StopText DEF ShutdownCommand
<1>17. CASE ShutdownFails
  BY <1>17, TextUnchanged DEF ShutdownFails, Down
<1>18. CASE BioFsyncStarts
  BY <1>18, TextUnchanged DEF BioFsyncStarts, Down
<1>19. CASE BioFsyncEnds
  BY <1>19, TextUnchanged DEF BioFsyncEnds, Down
<1>20. CASE AofChildEnds
  BY <1>20, TextUnchanged DEF AofChildEnds, Down
<1>21. CASE RdbChildEnds
  BY <1>21, TextUnchanged DEF RdbChildEnds, Down
<1>22. CASE WriteError
  BY <1>22, StopText DEF WriteError
<1>23. CASE Kill
  BY <1>23, StopText DEF Kill
<1>24. CASE PowerLoss
  BY <1>24, StopText DEF PowerLoss
<1>25. CASE CheckAofFix
  BY <1>25, TextUnchanged DEF CheckAofFix, Down
<1>26. CASE loadAppendOnlyFile
  <2>1. /\ pc' = "sleep" /\ data' = file /\ file' = file /\ aof_state' = "on"
        /\ aof_buf' = <<>> /\ ~aof_child_pid' /\ snap' = <<>> /\ aof_rewrite_buf' = <<>>
    BY <1>26 DEF loadAppendOnlyFile, ForgetMemory
  <2>2. file \o <<>> = file /\ PrefixOf(file, file)
    BY ConcatDataset, EmptyDataset, PrefixReflexive
  <2> QED
    BY <2>1, <2>2 DEF TextInv, TextIsData, RewriteIsData, Down, PrefixOf
<1>27. CASE UNCHANGED vars
  BY <1>27, TextUnchanged DEF vars, Down
<1> QED
  BY <1>1, <1>2, <1>3, <1>4, <1>5, <1>6, <1>7, <1>8, <1>9, <1>10, <1>11, <1>12, <1>13, <1>14,
     <1>15, <1>16, <1>17, <1>18, <1>19, <1>20, <1>21, <1>22, <1>23, <1>24, <1>25, <1>26, <1>27
  DEF Next, MainLoop, Commands

-----------------------------------------------------------------------------
(* The invariant on the data *)

LEMMA DataInit ==
    ASSUME Init
    PROVE  DataInv
<1>1. TypeOK
  BY EmptyDataset, EmptySeq, AofAssumption DEF Init, TypeOK
<1>2. <<>> \o <<>> = <<>> /\ PrefixOf(<<>>, <<>>)
  BY EmptyDataset, ConcatDataset, PrefixReflexive
<1>3. TextInv
  BY <1>2 DEF Init, TextInv, TextIsData, RewriteIsData, Down, PrefixOf
<1>4. ControlInv /\ DiskInv /\ SelectInv
  BY EmptyDataset DEF Init, ControlInv, DiskInv, SelectInv
<1> QED
  BY <1>1, <1>3, <1>4 DEF DataInv

LEMMA DataStep ==
    ASSUME DataInv, [Next]_vars
    PROVE  DataInv'
  BY TypeStep, TextStep, ControlStep, DiskStep, SelectStep DEF DataInv

LEMMA DataAlways == Spec => []DataInv
  BY DataInit, DataStep, PTL DEF Spec

(* Every variable keeps its type, in every interleaving of the main thread,*)
(* the bio thread, the children and the crashes (aof.c).                   *)
THEOREM TypeCorrect == Spec => []TypeOK
  BY DataAlways, PTL DEF DataInv

(* Replaying the AOF and the buffer that follows gives the dataset, through*)
(* rewrites, failed rewrites, CONFIG SET appendonly, crashes and restarts  *)
(* (feedAppendOnlyFile, backgroundRewriteDoneHandler).                     *)
THEOREM TextIsDataAlways == Spec => []TextIsData
  BY DataAlways, PTL DEF DataInv, TextInv

(* The dump of the child and the buffered writes together are the dataset, *)
(* whatever happens while the child runs (rewriteAppendOnlyFileBackground).*)
THEOREM RewriteIsDataAlways == Spec => []RewriteIsData
  BY DataAlways, PTL DEF DataInv, TextInv

-----------------------------------------------------------------------------
(* What is answered *)

(* Where a client is answered after its write was written: no flush is     *)
(* postponed, and no command joins a reply that is being sent.  Where the  *)
(* machine may lose its power, each write is synced as well.               *)
Setting ==
    /\ AofFsync # "everysec" /\ ~Pipelining
    /\ "power" \in Faults => SyncsEachWrite

LEMMA AnswerKept ==
    ASSUME TypeOK, TypeOK', AnswerInv, UNCHANGED clientVars,
           Len(data) <= Len(data'), Len(file) <= Len(file'),
           aof_state' = "on" => (aof_state = "on" \/ fired = {})
    PROVE  AnswerInv'
<1> USE DEF TypeOK, AnswerInv, AckedIsWritten, clientVars
<1>0. /\ Len(file) \in Nat /\ Len(file') \in Nat
      /\ Len(data) \in Nat /\ Len(data') \in Nat
  BY LenDataset
<1>1. acked' <= Len(file')
  BY <1>0
<1>2. \A c \in Clients : reply'[c] <= Len(data')
  BY <1>0
<1>3. ASSUME NEW c \in fired'
      PROVE  reply'[c] # 0 /\ (aof_state' = "on" => reply'[c] <= Len(file'))
  <2>1. c \in fired /\ reply'[c] = reply[c] /\ reply[c] \in Nat /\ reply[c] # 0
    OBVIOUS
  <2>2. aof_state = "on" => reply[c] <= Len(file)
    OBVIOUS
  <2> QED
    BY <1>0, <2>1, <2>2
<1> QED
  BY <1>1, <1>2, <1>3

LEMMA SyncedKept ==
    ASSUME TypeOK, TypeOK', SyncedInv, UNCHANGED clientVars, synced <= synced',
           pc # "switch", pc' # "switch",
           aof_state' = "on" => aof_state = "on" /\ (aof_buf' = <<>> => aof_buf = <<>>)
    PROVE  SyncedInv'
<1> SUFFICES ASSUME SyncsEachWrite PROVE SyncedInv'
  BY DEF SyncedInv
<1> USE DEF TypeOK, SyncedInv, AckedIsSynced, SyncsEachWrite, clientVars
<1>1. acked' <= synced'
  OBVIOUS
<1>2. ASSUME NEW c \in Clients, aof_state' = "on", aof_buf' = <<>> PROVE reply'[c] <= synced'
  BY <1>2
<1>3. ASSUME NEW c \in fired', aof_state' = "on" PROVE reply'[c] <= synced'
  BY <1>3
<1> QED
  BY <1>1, <1>2, <1>3

LEMMA StopAnswer ==
    ASSUME TypeOK', NEW where \in {"down", "exited"}, Stop(where),
           acked <= Len(file'), SyncsEachWrite => acked <= synced'
    PROVE  AnswerInv' /\ SyncedInv'
<1> USE LenDataset DEF TypeOK
<1>1. acked' = acked /\ fired' = {} /\ \A c \in Clients : reply'[c] = 0
  BY DEF Stop, ForgetMemory
<1> QED
  BY <1>1 DEF AnswerInv, SyncedInv, AckedIsWritten, AckedIsSynced, SyncsEachWrite

(* Without everysec a flush leaves nothing in the buffer.                  *)
LEMMA FlushWrites ==
    ASSUME Setting, TypeOK, NEW force \in BOOLEAN, flushAppendOnlyFile(force)
    PROVE  /\ aof_buf' = <<>>
           /\ SyncsEachWrite /\ aof_buf # <<>> => synced' = Len(file')
  BY DEF Setting, flushAppendOnlyFile, MayPostpone, SyncInProgress, WritesBuffer, FsyncAfterWrite,
         FsyncIsDue, SyncsEachWrite

(* beforeSleep: what the poll reports is answered after the flush.         *)
LEMMA BeforeSleepAnswer ==
    ASSUME Setting, DataInv, DataInv', AnswerInv, SyncedInv, beforeSleep
    PROVE  AnswerInv' /\ SyncedInv'
<1> USE LenDataset DEF TypeOK
<1>1. /\ TypeOK /\ TypeOK' /\ DiskInv /\ pc = "sleep" /\ pc' = "events"
      /\ UNCHANGED <<data, aof_state, reply, acked>>
      /\ fired' \subseteq {c \in Clients : reply[c] # 0}
      /\ flushAppendOnlyFile(FALSE)
  BY DEF DataInv, beforeSleep
<1>2. /\ aof_buf' = <<>> /\ Len(file) <= Len(file') /\ synced <= synced'
      /\ SyncsEachWrite /\ aof_buf # <<>> => synced' = Len(file')
  BY <1>1, FlushStep, FlushWrites DEF Flushed, PrefixOf
<1>3. aof_state = "on" => file' = data
  BY <1>1, <1>2, ConcatDataset DEF DataInv, TextInv, TextIsData, Down
<1>4. AnswerInv'
  <2>1. acked' <= Len(file') /\ \A c \in Clients : reply'[c] <= Len(data')
    BY <1>1, <1>2 DEF AnswerInv, AckedIsWritten
  <2>2. \A c \in fired' : reply'[c] # 0 /\ (aof_state' = "on" => reply'[c] <= Len(file'))
    BY <1>1, <1>3, <2>1
  <2> QED
    BY <2>1, <2>2 DEF AnswerInv, AckedIsWritten
<1>5. ASSUME SyncsEachWrite PROVE SyncedInv'
  <2>1. acked' <= synced'
    BY <1>1, <1>2, <1>5 DEF SyncedInv, AckedIsSynced, SyncsEachWrite
  <2>2. ASSUME NEW c \in Clients, aof_state = "on" PROVE reply'[c] <= synced'
    <3>1. CASE aof_buf = <<>>
      BY <1>1, <1>2, <1>5, <2>2, <3>1 DEF SyncedInv
    <3>2. CASE aof_buf # <<>>
      BY <1>1, <1>2, <1>3, <1>5, <2>2, <3>2 DEF AnswerInv
    <3> QED
      BY <3>1, <3>2
  <2> QED
    BY <1>1, <2>1, <2>2 DEF SyncedInv, AckedIsSynced
<1> QED
  BY <1>4, <1>5 DEF SyncedInv

(* A client that has a reply waiting sends nothing.                        *)
LEMMA WriteAnswer ==
    ASSUME Setting, DataInv, DataInv', AnswerInv, SyncedInv,
           NEW c \in Clients, NEW d \in DB, WriteCommand(c, d)
    PROVE  AnswerInv' /\ SyncedInv'
<1>1. /\ TypeOK /\ TypeOK' /\ pc = "events" /\ pc' = "events"
      /\ data' = Append(data, [db |-> d, id |-> Len(data) + 1])
      /\ reply' = [reply EXCEPT ![c] = Len(data) + 1] /\ reply[c] = 0
      /\ UNCHANGED <<file, synced, aof_state, fired, acked>>
  BY DEF DataInv, WriteCommand, ClientsSend, Setting, diskVars
<1>2. Len(data) \in Nat /\ Len(data') = Len(data) + 1 /\ Len(file) \in Nat
  BY <1>1, LenDataset, AppendDataset DEF TypeOK, Command
<1>3. c \notin fired
  BY <1>1 DEF AnswerInv
<1>4. reply'[c] = Len(data') /\ \A e \in Clients \ {c} : reply'[e] = reply[e]
  BY <1>1, <1>2 DEF TypeOK
<1>5. AnswerInv'
  BY <1>1, <1>2, <1>3, <1>4 DEF TypeOK, AnswerInv, AckedIsWritten
<1>6. aof_state = "on" => aof_buf' # <<>>
  <2>1. ASSUME aof_state = "on" PROVE feedAppendOnlyFile(d, Len(data) + 1)
    BY <2>1 DEF WriteCommand
  <2> QED
    BY <1>1, <1>2, <2>1, FeedStep, AppendDataset DEF TypeOK
<1>7. SyncedInv'
  BY <1>1, <1>3, <1>4, <1>6 DEF TypeOK, SyncedInv, AckedIsSynced, SyncsEachWrite
<1> QED
  BY <1>5, <1>7

LEMMA ReplyAnswer ==
    ASSUME DataInv, DataInv', AnswerInv, SyncedInv, NEW c \in Clients, SendReply(c)
    PROVE  AnswerInv' /\ SyncedInv'
<1>1. /\ TypeOK /\ pc = "events" /\ pc' = "events" /\ c \in fired /\ fired' = fired \ {c}
      /\ reply' = [reply EXCEPT ![c] = 0]
      /\ acked' = IF aof_state = "on" THEN Larger(acked, reply[c]) ELSE acked
      /\ UNCHANGED <<data, file, synced, aof_state, aof_buf>>
  BY DEF DataInv, SendReply, diskVars, bufVars
<1>2. /\ reply'[c] = 0 /\ \A e \in Clients \ {c} : reply'[e] = reply[e]
      /\ Len(data) \in Nat /\ Len(file) \in Nat
  BY <1>1, LenDataset DEF TypeOK
<1>3. AnswerInv'
  <2>1. acked' <= Len(file)
    BY <1>1, <1>2 DEF TypeOK, AnswerInv, AckedIsWritten, Larger
  <2> QED
    BY <1>1, <1>2, <2>1 DEF TypeOK, AnswerInv, AckedIsWritten
<1>4. ASSUME SyncsEachWrite PROVE SyncedInv'
  <2>1. acked' <= synced
    BY <1>1, <1>2, <1>4 DEF TypeOK, SyncedInv, AckedIsSynced, SyncsEachWrite, Larger
  <2>2. \A e \in Clients : aof_state = "on" /\ aof_buf = <<>> => reply'[e] <= synced
    BY <1>1, <1>2, <1>4 DEF TypeOK, SyncedInv
  <2>3. \A e \in fired' : aof_state = "on" => reply'[e] <= synced
    BY <1>1, <1>2, <1>4 DEF TypeOK, SyncedInv
  <2> QED
    BY <1>1, <2>1, <2>2, <2>3 DEF SyncedInv, AckedIsSynced
<1> QED
  BY <1>3, <1>4 DEF SyncedInv

(* The old file is replaced by one that continues it.                      *)
LEMMA RenamesAnswer ==
    ASSUME DataInv, DataInv', AnswerInv, SyncedInv, RewriteRenames
    PROVE  AnswerInv' /\ SyncedInv'
<1>1. /\ TypeOK /\ TypeOK' /\ pc = "reap" /\ pc' = "switch" /\ aof_child_pid
      /\ file' = snap \o aof_rewrite_buf
      /\ UNCHANGED <<data, aof_state, clientVars>>
  BY DEF DataInv, RewriteRenames
<1>2. fired = {}
  BY <1>1 DEF DataInv, ControlInv
<1>3. Len(file) <= Len(file') /\ Len(data) \in Nat
  BY <1>1, LenDataset DEF DataInv, TextInv, TypeOK, PrefixOf
<1>4. AnswerInv'
  BY <1>1, <1>2, <1>3, AnswerKept
<1>5. SyncedInv'
  BY <1>1, <1>2 DEF SyncedInv, AckedIsSynced, clientVars
<1> QED
  BY <1>4, <1>5

(* With the AOF off nothing is answered while the child runs, and the child*)
(* has synced what was answered before.                                    *)
LEMMA SwitchesAnswer ==
    ASSUME DataInv, DataInv', AnswerInv, SyncedInv, RewriteSwitches
    PROVE  AnswerInv' /\ SyncedInv'
<1> USE LenDataset
<1>1. /\ TypeOK /\ TypeOK' /\ pc = "switch" /\ pc' = "flush"
      /\ aof_state' = IF aof_state = "wait" THEN "on" ELSE aof_state
      /\ aof_state # "off" /\ AofFsync = "always" => synced' = Len(file)
      /\ aof_state = "off" => synced' = synced
      /\ UNCHANGED <<file, data, clientVars>>
  BY DEF DataInv, RewriteSwitches
<1>2. fired = {} /\ aof_child_pid /\ file = snap \o aof_rewrite_buf /\ Len(snap) <= synced
  BY <1>1 DEF DataInv, ControlInv, DiskInv, TypeOK
<1>3. AnswerInv'
  BY <1>1, <1>2, AnswerKept, SMTT(60) DEF TypeOK
<1>4. aof_state = "off" => Len(file) <= synced
  BY <1>1, <1>2, ConcatDataset DEF DataInv, TextInv, TypeOK
<1>5. acked <= Len(file) /\ acked \in Nat /\ Len(file) \in Nat
  BY <1>1 DEF AnswerInv, AckedIsWritten, TypeOK
<1>6. aof_state # "off" => file = data
  BY <1>1, <1>2, ConcatDataset DEF DataInv, TextInv, RewriteIsData, TypeOK
<1>7. ASSUME SyncsEachWrite PROVE SyncedInv'
  <2>1. acked' <= synced'
    BY <1>1, <1>4, <1>5, <1>7 DEF SyncsEachWrite, TypeOK, clientVars
  <2>2. ASSUME NEW c \in Clients, aof_state' = "on" PROVE reply'[c] <= synced'
    <3>1. synced' = Len(data)
      BY <1>1, <1>6, <1>7, <2>2 DEF SyncsEachWrite
    <3> QED
      BY <1>1, <3>1 DEF AnswerInv, clientVars
  <2>3. fired' = {}
    BY <1>1, <1>2 DEF clientVars
  <2> QED
    BY <2>1, <2>2, <2>3 DEF SyncedInv, AckedIsSynced
<1> QED
  BY <1>3, <1>7 DEF SyncedInv

LEMMA CronFlushAnswer ==
    ASSUME Setting, DataInv, DataInv', AnswerInv, SyncedInv, CronFlush
    PROVE  AnswerInv' /\ SyncedInv'
<1> USE LenDataset
<1>1. /\ TypeOK /\ TypeOK' /\ DiskInv /\ pc = "flush" /\ pc' = "sleep"
      /\ UNCHANGED <<data, aof_state, clientVars>>
      /\ flushAppendOnlyFile(FALSE) \/ UNCHANGED <<aof_buf, diskVars, flushVars, bioVars>>
  BY DEF DataInv, CronFlush
<1>2. Flushed
  BY <1>1, FlushStep, NotFlushed
<1>3. Len(file) <= Len(file') /\ synced <= synced' /\ Len(data) \in Nat /\ fired = {}
  BY <1>1, <1>2 DEF Flushed, PrefixOf, DataInv, ControlInv, TypeOK
<1>4. AnswerInv'
  BY <1>1, <1>3, AnswerKept
<1>5. SyncedInv'
  <2>1. CASE aof_buf' = aof_buf
    BY <1>1, <1>3, <2>1, SyncedKept
  <2>2. CASE aof_buf' # aof_buf
    <3>1. flushAppendOnlyFile(FALSE) /\ aof_buf # <<>>
      BY <1>1, <1>2, <2>2 DEF Flushed
    <3>2. aof_buf' = <<>> /\ (SyncsEachWrite => synced' = Len(file'))
      BY <1>1, <3>1, FlushWrites
    <3>3. aof_state = "on" => file' = data
      BY <1>1, <3>2, ConcatDataset DEF DataInv, TextInv, TextIsData, Down, TypeOK
    <3> QED
      BY <1>1, <1>3, <1>4, <3>2, <3>3
      DEF AnswerInv, AckedIsWritten, SyncedInv, AckedIsSynced, clientVars, TypeOK
  <2> QED
    BY <2>1, <2>2
<1> QED
  BY <1>4, <1>5

(* However the process ends, what was answered is in the file.             *)
LEMMA EndAnswer ==
    ASSUME Setting, DataInv, DataInv', AnswerInv, SyncedInv,
           WriteError \/ ShutdownCommand \/ Kill \/ PowerLoss
    PROVE  AnswerInv' /\ SyncedInv'
<1> USE LenDataset DEF TypeOK, SyncsEachWrite
<1>1. TypeOK /\ TypeOK' /\ DiskInv /\ acked <= Len(file)
  BY DEF DataInv, AnswerInv, AckedIsWritten
<1>2. ASSUME SyncsEachWrite, pc # "switch" PROVE acked <= synced
  BY <1>2 DEF SyncedInv, AckedIsSynced
<1>3. CASE WriteError
  <2>1. Len(file) <= Len(file')
    <3>1. ASSUME NEW k \in 0 .. Len(aof_buf) - 1
          PROVE  Len(file) <= Len(file \o SubSeq(aof_buf, 1, k))
      <4>1. k \in 0 .. Len(aof_buf)
        BY <1>1
      <4>2. SubSeq(aof_buf, 1, k) \in Dataset
        BY <1>1, <4>1, FirstPart
      <4> QED
        BY <1>1, <4>2, ConcatDataset
    <3>2. \/ file' = file
          \/ \E k \in 0 .. Len(aof_buf) - 1 : file' = file \o SubSeq(aof_buf, 1, k)
      BY <1>3 DEF WriteError
    <3>3. CASE file' = file
      BY <1>1, <3>3
    <3> QED
      BY <3>1, <3>2, <3>3
  <2>2. Stop("down") /\ synced' = synced /\ pc # "switch"
    BY <1>3 DEF WriteError, ClientsSend
  <2>3. acked <= Len(file')
    BY <1>1, <2>1
  <2> QED
    BY <1>1, <1>2, <2>2, <2>3, StopAnswer
<1>4. CASE ShutdownCommand
  <2>1. Stop("exited") /\ file' = file /\ pc # "switch"
    BY <1>4 DEF ShutdownCommand, ClientsSend
  <2>2. synced <= synced'
    BY <1>1, <1>4 DEF ShutdownCommand, DiskInv
  <2>3. SyncsEachWrite => acked <= synced'
    BY <1>1, <1>2, <2>1, <2>2
  <2> QED
    BY <1>1, <2>1, <2>3, StopAnswer
<1>5. CASE Kill
  <2>1. Stop("down") /\ file' = file /\ synced' = synced
        /\ (pc = "switch" => "midrewrite" \in Faults)
    BY <1>5 DEF Kill, diskVars
  <2> QED
    BY <1>1, <1>2, <2>1, StopAnswer
<1>6. CASE PowerLoss
  <2>1. PICK n \in synced .. Len(file) : file' = SubSeq(file, 1, n) /\ synced' = n
    BY <1>6 DEF PowerLoss
  <2>2. n \in 0 .. Len(file) /\ synced <= n
    BY <1>1
  <2>3. Len(file') = n
    BY <1>1, <2>1, <2>2, FirstPart
  <2>4. Stop("down") /\ "power" \in Faults /\ (pc = "switch" => "midrewrite" \in Faults)
    BY <1>6 DEF PowerLoss
  <2>5. acked <= synced
    BY <1>2, <2>4 DEF Setting
  <2>6. acked <= n
    BY <1>1, <2>2, <2>5
  <2> QED
    BY <1>1, <2>1, <2>3, <2>4, <2>6, StopAnswer
<1> QED
  BY <1>3, <1>4, <1>5, <1>6

LEMMA AnswerStep ==
    ASSUME Setting, DataInv, DataInv', AnswerInv, SyncedInv, [Next]_vars
    PROVE  AnswerInv' /\ SyncedInv'
<1>0. /\ TypeOK /\ TypeOK'
      /\ Len(data) \in Nat /\ Len(file) \in Nat /\ Len(file') \in Nat
      /\ synced <= Len(file) /\ synced \in Nat
  BY LenDataset DEF DataInv, TypeOK, DiskInv
<1>1. ASSUME Len(file) <= Len(file'), synced <= synced', data' = data, UNCHANGED clientVars,
             pc # "switch", pc' # "switch",
             aof_state' = "on" => aof_state = "on" /\ (aof_buf' = <<>> => aof_buf = <<>>)
      PROVE  AnswerInv' /\ SyncedInv'
  <2>1. Len(data) <= Len(data')
    BY <1>0, <1>1
  <2> QED
    BY <1>0, <1>1, <2>1, AnswerKept, SyncedKept
<1>2. ASSUME UNCHANGED <<diskVars, bufVars, data, aof_state, clientVars>>,
             pc # "switch", pc' # "switch"
      PROVE  AnswerInv' /\ SyncedInv'
  BY <1>0, <1>1, <1>2 DEF diskVars, bufVars
<1>3. ASSUME NEW c \in Clients, NEW d \in DB, WriteCommand(c, d)
      PROVE  AnswerInv' /\ SyncedInv'
  BY <1>3, WriteAnswer
<1>4. ASSUME NEW c \in Clients, SendReply(c) PROVE AnswerInv' /\ SyncedInv'
  BY <1>4, ReplyAnswer
<1>5. CASE beforeSleep
  BY <1>5, BeforeSleepAnswer
<1>6. CASE EndOfEvents
  <2>1. /\ fired' = {} /\ pc = "events" /\ pc' # "switch"
        /\ UNCHANGED <<data, file, synced, aof_buf, aof_state, reply, acked>>
    BY <1>6 DEF EndOfEvents, diskVars, bufVars
  <2> QED
    BY <2>1 DEF AnswerInv, SyncedInv, AckedIsWritten, AckedIsSynced
<1>7. CASE serverCron
  BY <1>2, <1>7 DEF serverCron
<1>8. CASE StartBackgroundWork
  BY <1>2, <1>8 DEF StartBackgroundWork
<1>9. CASE ReapOther
  BY <1>2, <1>9 DEF ReapOther
<1>10. CASE RewriteFails
  BY <1>2, <1>10 DEF RewriteFails
<1>11. CASE RewriteRenames
  BY <1>11, RenamesAnswer
<1>12. CASE RewriteSwitches
  BY <1>12, SwitchesAnswer
<1>13. CASE CronFlush
  BY <1>13, CronFlushAnswer
<1>14. CASE bgrewriteaofCommand
  BY <1>2, <1>14 DEF bgrewriteaofCommand, ClientsSend
<1>15. CASE SaveOrSyncCommand
  BY <1>2, <1>15 DEF SaveOrSyncCommand, ClientsSend
<1>16. CASE startAppendOnly
  <2>1. /\ pc = "events" /\ pc' = "events" /\ aof_state' # "on"
        /\ UNCHANGED <<data, file, synced, clientVars>>
    BY <1>16 DEF startAppendOnly, ClientsSend, diskVars
  <2> QED
    BY <1>0, <1>1, <2>1
<1>17. CASE stopAppendOnly
  <2>1. /\ pc = "events" /\ pc' = "events" /\ aof_state' = "off"
        /\ file' = file \o aof_buf /\ synced' = Len(file')
        /\ UNCHANGED <<data, clientVars>>
    BY <1>17 DEF stopAppendOnly, ClientsSend
  <2>2. Len(file) <= Len(file')
    BY <1>0, <2>1, ConcatDataset, LenDataset DEF TypeOK
  <2> QED
    BY <1>0, <1>1, <2>1, <2>2
<1>18. CASE ShutdownFails
  <2>1. /\ pc = "events" /\ pc' = "events" /\ synced <= synced'
        /\ UNCHANGED <<data, file, aof_buf, aof_state, clientVars>>
    BY <1>0, <1>18 DEF ShutdownFails, ClientsSend, bufVars
  <2> QED
    BY <1>0, <1>1, <2>1
<1>19. CASE BioFsyncStarts
  <2>1. UNCHANGED <<pc, diskVars, bufVars, data, aof_state, clientVars>>
    BY <1>19 DEF BioFsyncStarts
  <2> QED
    BY <2>1
    DEF AnswerInv, SyncedInv, AckedIsWritten, AckedIsSynced, diskVars, bufVars, clientVars
<1>20. CASE BioFsyncEnds
  <2>1. /\ synced <= synced'
        /\ UNCHANGED <<pc, data, file, aof_buf, aof_state, reply, fired, acked>>
    BY <1>0, <1>20 DEF BioFsyncEnds, Larger, TypeOK, bufVars, clientVars
  <2>2. AnswerInv'
    BY <2>1 DEF AnswerInv, AckedIsWritten
  <2>3. SyncedInv'
    BY <1>0, <2>1 DEF SyncedInv, AckedIsSynced, TypeOK
  <2> QED
    BY <2>2, <2>3
<1>21. ASSUME UNCHANGED <<pc, diskVars, bufVars, data, aof_state, clientVars>>
       PROVE  AnswerInv' /\ SyncedInv'
  BY <1>21
  DEF AnswerInv, SyncedInv, AckedIsWritten, AckedIsSynced, diskVars, bufVars, clientVars
<1>22. CASE AofChildEnds
  BY <1>21, <1>22 DEF AofChildEnds
<1>23. CASE RdbChildEnds
  BY <1>21, <1>23 DEF RdbChildEnds
<1>24. CASE WriteError \/ ShutdownCommand \/ Kill \/ PowerLoss
  BY <1>24, EndAnswer
<1>25. CASE CheckAofFix
  <2>1. UNCHANGED <<pc, file, synced, aof_buf, data, aof_state, clientVars>>
    BY <1>25 DEF CheckAofFix, bufVars
  <2> QED
    BY <2>1 DEF AnswerInv, SyncedInv, AckedIsWritten, AckedIsSynced, clientVars
<1>26. CASE loadAppendOnlyFile
  <2>1. /\ Down /\ pc' = "sleep" /\ fired' = {} /\ \A c \in Clients : reply'[c] = 0
        /\ data' = file /\ UNCHANGED <<file, synced, acked>>
    BY <1>26 DEF loadAppendOnlyFile, ForgetMemory, diskVars
  <2>2. AnswerInv'
    BY <1>0, <2>1 DEF AnswerInv, AckedIsWritten
  <2>3. SyncedInv'
    BY <1>0, <2>1 DEF SyncedInv, AckedIsSynced, Down
  <2> QED
    BY <2>2, <2>3
<1>27. CASE UNCHANGED vars
  BY <1>21, <1>27 DEF vars
<1> QED
  BY <1>3, <1>4, <1>5, <1>6, <1>7, <1>8, <1>9, <1>10, <1>11, <1>12, <1>13, <1>14,
     <1>15, <1>16, <1>17, <1>18, <1>19, <1>20, <1>22, <1>23, <1>24, <1>25, <1>26, <1>27
  DEF Next, MainLoop, Commands

LEMMA AnswerInit ==
    ASSUME Init
    PROVE  AnswerInv /\ SyncedInv
  BY EmptyDataset DEF Init, AnswerInv, SyncedInv, AckedIsWritten, AckedIsSynced

(* What the file, the buffers, the dump of the child, the answers and the  *)
(* fsyncs have to do with each other at every moment, crashes and restarts *)
(* included (aof.c, networking.c).                                         *)
THEOREM InductiveInvariant ==
    ASSUME Setting
    PROVE  Spec => []IInv
<1>1. Init => IInv
  BY DataInit, AnswerInit DEF IInv
<1>2. IInv /\ [Next]_vars => IInv'
  BY DataStep, AnswerStep DEF IInv
<1> QED
  BY <1>1, <1>2, PTL DEF Spec

(* A client is answered only after its write reached the kernel, unless a  *)
(* flush can be postponed or the client pipelines (flushAppendOnlyFile,    *)
(* sendReplyToClient).                                                     *)
THEOREM AckedIsWrittenAlways ==
    ASSUME Setting
    PROVE  Spec => []AckedIsWritten
  BY InductiveInvariant, PTL DEF IInv, AnswerInv

(* With appendfsync always and no exception for rewrites, a client is      *)
(* answered only after its write reached the disk, whether the process dies*)
(* or the machine (flushAppendOnlyFile, backgroundRewriteDoneHandler).     *)
THEOREM AckedIsSyncedAlways ==
    ASSUME Setting, SyncsEachWrite
    PROVE  Spec => []AckedIsSynced
<1>1. SyncedInv => AckedIsSynced
  BY DEF SyncedInv
<1> QED
  BY <1>1, InductiveInvariant, PTL DEF IInv

-----------------------------------------------------------------------------
(* How the file changes *)

LEMMA GrowStep ==
    ASSUME DataInv, DataInv', [Next]_vars, ~Down, ~Down'
    PROVE  PrefixOf(file, file')
<1>1. TypeOK /\ TypeOK' /\ DiskInv
  BY DEF DataInv
<1>2. ASSUME UNCHANGED file PROVE PrefixOf(file, file')
  BY <1>1, <1>2, PrefixReflexive DEF TypeOK
<1>3. CASE beforeSleep
  BY <1>1, <1>3, FlushStep DEF beforeSleep, Flushed
<1>4. CASE CronFlush
  BY <1>1, <1>4, FlushStep, NotFlushed DEF CronFlush, Flushed
<1>5. CASE RewriteRenames
  BY <1>5 DEF RewriteRenames, DataInv, TextInv
<1>6. CASE stopAppendOnly
  BY <1>1, <1>6, PrefixOfConcat DEF stopAppendOnly, TypeOK
<1>7. CASE \/ EndOfEvents \/ serverCron \/ StartBackgroundWork \/ ReapOther \/ RewriteFails
           \/ RewriteSwitches \/ bgrewriteaofCommand \/ SaveOrSyncCommand \/ startAppendOnly
           \/ ShutdownFails \/ BioFsyncStarts \/ BioFsyncEnds \/ AofChildEnds \/ RdbChildEnds
           \/ CheckAofFix \/ loadAppendOnlyFile
           \/ \E c \in Clients : SendReply(c) \/ \E d \in DB : WriteCommand(c, d)
  <2>1. UNCHANGED file
    BY <1>7
    DEF EndOfEvents, serverCron, StartBackgroundWork, ReapOther, RewriteFails, RewriteSwitches,
        bgrewriteaofCommand, SaveOrSyncCommand, startAppendOnly, ShutdownFails, BioFsyncStarts,
        BioFsyncEnds, AofChildEnds, RdbChildEnds, CheckAofFix, loadAppendOnlyFile, SendReply,
        WriteCommand, diskVars
  <2> QED
    BY <1>2, <2>1
<1>8. CASE WriteError \/ ShutdownCommand \/ Kill \/ PowerLoss
  BY <1>8 DEF WriteError, ShutdownCommand, Kill, PowerLoss, Stop, Down
<1>9. CASE UNCHANGED vars
  BY <1>2, <1>9 DEF vars, diskVars
<1> QED
  BY <1>3, <1>4, <1>5, <1>6, <1>7, <1>8, <1>9 DEF Next, MainLoop, Commands

(* While the server runs the file is never replaced by one that has less,  *)
(* or something else: a rewrite, or a stop and a start of the AOF, extends *)
(* what a reader of the file saw before (backgroundRewriteDoneHandler).    *)
THEOREM FileOnlyGrowsAlways == Spec => FileOnlyGrows
<1> DEFINE Grows == ~Down /\ ~Down' => Len(file') >= Len(file)
                                       /\ SubSeq(file', 1, Len(file)) = file
<1>1. DataInv /\ DataInv' /\ [Next]_vars => [Grows]_vars
  <2> SUFFICES ASSUME DataInv, DataInv', [Next]_vars, ~Down, ~Down'
               PROVE  Len(file') >= Len(file) /\ SubSeq(file', 1, Len(file)) = file
    OBVIOUS
  <2>1. PrefixOf(file, file')
    BY GrowStep
  <2>2. Len(file) \in Nat /\ Len(file') \in Nat
    BY LenDataset DEF DataInv, TypeOK
  <2> QED
    BY <2>1, <2>2 DEF PrefixOf
<1> QED
  BY <1>1, DataAlways, PTL DEF Spec, FileOnlyGrows

-----------------------------------------------------------------------------
(* The server implements the durable log *)

LEMMA LogInit ==
    ASSUME Init
    PROVE  Log!Init
  BY DEF Init, Log!Init, Down

(* The end of the process leaves a prefix of the dataset.                  *)
LEMMA EndLog ==
    ASSUME DataInv, DataInv', AnswerInv',
           WriteError \/ ShutdownCommand \/ Kill \/ PowerLoss
    PROVE  Log!Crash
<1> DEFINE lg == IF Down THEN file ELSE data
<1>1. /\ TypeOK /\ TypeOK' /\ DiskInv /\ TextInv
      /\ Down' /\ acked' = acked /\ lg \in Dataset
  BY DEF DataInv, TypeOK, WriteError, ShutdownCommand, Kill, PowerLoss, Stop, Down
<1>2. PrefixOf(file, lg)
  BY <1>1, PrefixReflexive DEF TextInv, TypeOK
<1>3. PrefixOf(file', lg)
  <2>1. CASE UNCHANGED file
    BY <1>2, <2>1
  <2>2. ASSUME NEW n \in synced .. Len(file), file' = SubSeq(file, 1, n)
        PROVE  PrefixOf(file', lg)
    <3>1. n \in 0 .. Len(file)
      BY <1>1 DEF TypeOK
    <3>2. PrefixOf(file', file)
      BY <1>1, <2>2, <3>1, PrefixFirstPart DEF TypeOK
    <3> QED
      BY <1>1, <1>2, <3>2, PrefixTransitive DEF TypeOK
  <2>3. ASSUME NEW k \in 0 .. Len(aof_buf) - 1, file' = file \o SubSeq(aof_buf, 1, k), WriteError
        PROVE  PrefixOf(file', lg)
    <3>1. k \in 0 .. Len(aof_buf) /\ Len(aof_buf) \in Nat
      BY <1>1, LenDataset DEF TypeOK
    <3>2. SubSeq(aof_buf, 1, k) \in Dataset /\ PrefixOf(SubSeq(aof_buf, 1, k), aof_buf)
      BY <1>1, <3>1, FirstPart, PrefixFirstPart DEF TypeOK
    <3>3. PrefixOf(file', file \o aof_buf)
      BY <1>1, <2>3, <3>2, PrefixConcat DEF TypeOK
    <3>4. ~Down /\ pc # "switch"
      BY <2>3 DEF WriteError, ClientsSend, Down
    <3>5. aof_buf # <<>>
      BY <3>1, EmptyDataset
    <3>6. file \o aof_buf = data
      BY <1>1, <3>4, <3>5 DEF TextInv, TextIsData
    <3> QED
      BY <3>3, <3>4, <3>6
  <2> QED
    BY <2>1, <2>2, <2>3 DEF WriteError, ShutdownCommand, Kill, PowerLoss, diskVars
<1>4. Len(file') \in acked .. Len(lg)
  BY <1>1, <1>3, LenDataset DEF PrefixOf, AnswerInv, AckedIsWritten, TypeOK
<1> QED
  BY <1>1, <1>3, <1>4 DEF Log!Crash, PrefixOf

LEMMA LogStep ==
    ASSUME IInv, IInv', [Next]_vars
    PROVE  [Log!Next]_(Log!vars)
<1>1. /\ DataInv /\ DataInv' /\ TypeOK /\ TypeOK' /\ AnswerInv /\ AnswerInv'
      /\ Len(data) \in Nat
  BY LenDataset DEF IInv, DataInv, TypeOK
<1>2. ASSUME UNCHANGED <<data, acked>>, ~Down, ~Down' PROVE UNCHANGED Log!vars
  BY <1>2 DEF Log!vars
<1>3. ASSUME UNCHANGED <<pc, data, file, acked>> PROVE UNCHANGED Log!vars
  BY <1>3 DEF Log!vars, Down
<1>4. ASSUME NEW c \in Clients, NEW d \in DB, WriteCommand(c, d) PROVE Log!Next
  <2>1. /\ ~Down /\ ~Down' /\ acked' = acked
        /\ data' = Append(data, [db |-> d, id |-> Len(data) + 1])
    BY <1>4 DEF WriteCommand, ClientsSend, Down, clientVars
  <2> QED
    BY <2>1 DEF Log!Next, Log!Execute
<1>5. ASSUME NEW c \in Clients, SendReply(c) PROVE [Log!Next]_(Log!vars)
  <2>1. /\ ~Down /\ ~Down' /\ data' = data
        /\ acked' = IF aof_state = "on" THEN Larger(acked, reply[c]) ELSE acked
    BY <1>5 DEF SendReply, Down
  <2>2. CASE acked' = acked
    BY <1>2, <2>1, <2>2
  <2>3. CASE acked' # acked
    <3>1. acked' = reply[c] /\ reply[c] > acked
      BY <1>1, <2>1, <2>3 DEF Larger, TypeOK
    <3>2. acked' \in acked + 1 .. Len(data)
      BY <1>1, <3>1 DEF AnswerInv, TypeOK
    <3> QED
      BY <2>1, <3>2 DEF Log!Next, Log!Answer
  <2> QED
    BY <2>2, <2>3
<1>6. CASE \/ beforeSleep \/ EndOfEvents \/ serverCron \/ StartBackgroundWork \/ ReapOther
           \/ RewriteFails \/ RewriteRenames \/ RewriteSwitches \/ CronFlush
           \/ bgrewriteaofCommand \/ SaveOrSyncCommand \/ startAppendOnly \/ stopAppendOnly
           \/ ShutdownFails
  <2>1. UNCHANGED <<data, acked>> /\ ~Down /\ ~Down'
    BY <1>6
    DEF beforeSleep, EndOfEvents, serverCron, StartBackgroundWork, ReapOther, RewriteFails,
        RewriteRenames, RewriteSwitches, CronFlush, bgrewriteaofCommand, SaveOrSyncCommand,
        startAppendOnly, stopAppendOnly, ShutdownFails, ClientsSend, Down, clientVars
  <2> QED
    BY <1>2, <2>1
<1>7. CASE BioFsyncStarts \/ BioFsyncEnds \/ AofChildEnds \/ RdbChildEnds \/ CheckAofFix
  <2>1. UNCHANGED <<pc, data, file, acked>>
    BY <1>7
    DEF BioFsyncStarts, BioFsyncEnds, AofChildEnds, RdbChildEnds, CheckAofFix, clientVars, diskVars
  <2> QED
    BY <1>3, <2>1
<1>8. CASE WriteError \/ ShutdownCommand \/ Kill \/ PowerLoss
  BY <1>1, <1>8, EndLog DEF Log!Next
<1>9. CASE loadAppendOnlyFile
  BY <1>9 DEF loadAppendOnlyFile, Log!vars, Down, diskVars
<1>10. CASE UNCHANGED vars
  BY <1>3, <1>10 DEF vars, diskVars, clientVars
<1> QED
  BY <1>4, <1>5, <1>6, <1>7, <1>8, <1>9, <1>10 DEF Next, MainLoop, Commands

(* A buffer that a slow fsync holds back past a flush was held back for    *)
(* less than two seconds: only beforeSleep and serverCron flush without    *)
(* force, and both look at the clock (flushAppendOnlyFile).                *)
THEOREM PostponedBrieflyAlways == Spec => PostponedBriefly
<1> DEFINE Held == aof_buf # <<>> /\ aof_buf' = aof_buf /\ pc \in {"sleep", "flush"} /\ pc' # pc
                   /\ ~Down' /\ aof_flush_postponed_start # 0
<1>1. ASSUME [Next]_vars, Held PROVE unixtime - aof_flush_postponed_start < 2
  <2>1. CASE flushAppendOnlyFile(FALSE)
    <3>1. MayPostpone(FALSE)
      BY <1>1, <2>1 DEF flushAppendOnlyFile
    <3> QED
      BY <1>1, <3>1 DEF MayPostpone
  <2>2. CASE beforeSleep
    BY <2>1, <2>2 DEF beforeSleep
  <2>3. CASE CronFlush
    BY <1>1, <2>1, <2>3 DEF CronFlush
  <2>4. pc \in {"sleep", "flush"} /\ pc' # pc /\ pc' \notin {"down", "exited"}
    BY <1>1 DEF Down
  <2>5. CASE EndOfEvents \/ serverCron \/ StartBackgroundWork \/ ReapOther
             \/ RewriteFails \/ RewriteRenames \/ RewriteSwitches
    BY <2>4, <2>5
    DEF EndOfEvents, serverCron, StartBackgroundWork, ReapOther, RewriteFails, RewriteRenames, RewriteSwitches
  <2>6. CASE Commands
    BY <2>4, <2>6
    DEF Commands, SendReply, WriteCommand, bgrewriteaofCommand, SaveOrSyncCommand, startAppendOnly,
        stopAppendOnly, ShutdownCommand, ShutdownFails, ClientsSend
  <2>7. CASE BioFsyncStarts \/ BioFsyncEnds \/ AofChildEnds \/ RdbChildEnds \/ CheckAofFix
    BY <2>4, <2>7 DEF BioFsyncStarts, BioFsyncEnds, AofChildEnds, RdbChildEnds, CheckAofFix
  <2>8. CASE WriteError \/ Kill \/ PowerLoss
    BY <2>4, <2>8 DEF WriteError, Kill, PowerLoss, Stop
  <2>9. CASE loadAppendOnlyFile
    BY <2>4, <2>9 DEF loadAppendOnlyFile, Down
  <2>10. CASE UNCHANGED vars
    BY <2>4, <2>10 DEF vars
  <2> QED
    BY <1>1, <2>2, <2>3, <2>5, <2>6, <2>7, <2>8, <2>9, <2>10 DEF Next, MainLoop
<1>2. [Next]_vars => [Held => unixtime - aof_flush_postponed_start < 2]_vars
  BY <1>1
<1> QED
  BY <1>2, PTL DEF Spec, PostponedBriefly

(* The server with its AOF is a durable log: a crash of any kind drops only*)
(* an unanswered end of what was executed, and a restart drops nothing     *)
(* (aof.c, loadAppendOnlyFile).                                            *)
THEOREM Implementation ==
    ASSUME Setting
    PROVE  Spec => ImplementsDurableLog
<1>1. Init => Log!Init
  BY LogInit
<1>2. IInv /\ IInv' /\ [Next]_vars => [Log!Next]_(Log!vars)
  BY LogStep
<1> QED
  BY <1>1, <1>2, InductiveInvariant, PTL DEF Spec, ImplementsDurableLog, Log!Spec

=============================================================================
