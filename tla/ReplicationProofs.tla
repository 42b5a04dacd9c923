------------------------- MODULE ReplicationProofs -------------------------
(***************************************************************************)
(* Theorems about Replication.                                             *)
(***************************************************************************)
EXTENDS Replication, SequenceTheorems, TLAPS

----------------------------------------------------------------------------
(* Type correctness *)

\* The empty dataset; datasets are closed under the operators of the model.
LEMMA EmptyDataset == <<>> \in Dataset
  BY DEF Dataset

LEMMA AppendDataset ==
    ASSUME NEW p \in Dataset, NEW d \in DB, NEW n \in Nat
    PROVE  Append(p, <<d, n>>) \in Dataset
  BY DEF Dataset, Command

LEMMA HeadTailDataset ==
    ASSUME NEW p \in Dataset, p # <<>>
    PROVE  /\ Tail(p) \in Dataset
           /\ Head(p) \in Command
           /\ \A q \in Dataset : Append(q, Head(p)) \in Dataset
  BY HeadTailProperties, AppendProperties DEF Dataset

LEMMA LenDataset == ASSUME NEW p \in Dataset PROVE Len(p) \in Nat
  BY DEF Dataset

\* Every step keeps the variables in their types.
LEMMA TypeStep ==
    ASSUME TypeOK, [Next]_vars
    PROVE  TypeOK'
<1> USE ReplicationAssumption, EmptyDataset
    DEF TypeOK, childVars, clientVars, slaveVars
<1>1. ASSUME NEW d \in DB, WriteCommand(d) PROVE TypeOK'
  <2>1. Len(data) + 1 \in Nat
    BY LenDataset
  <2>2. slaveseldb' \in [Slave -> DB] /\ outdb' \in [Slave -> DB]
    BY <1>1 DEF WriteCommand, replicationFeedSlaves
  <2>3. \A s \in Slave : Append(reply[s], <<outdb'[s], Len(data) + 1>>) \in Dataset
    BY <2>1, <2>2, AppendDataset
  <2>4. reply' \in [Slave -> Dataset]
    BY <1>1, <2>3 DEF WriteCommand, replicationFeedSlaves
  <2>5. data' \in Dataset
    BY <1>1, <2>1, AppendDataset DEF WriteCommand
  <2> QED
    BY <1>1, <2>2, <2>4, <2>5 DEF WriteCommand
<1>2. CASE SaveCommand
  BY <1>2 DEF SaveCommand
<1>3. CASE BgsaveCommand
  BY <1>3 DEF BgsaveCommand, rdbSaveBackground
<1>4. CASE ChildSucceeds
  BY <1>4 DEF ChildSucceeds
<1>5. CASE ChildFails
  BY <1>5 DEF ChildFails, CountFault
<1>6. CASE backgroundSaveDoneHandler
  <2>1. PICK unopened \in SUBSET {s \in Slave : replstate[s] = "WAIT_BGSAVE_END"} :
          updateSlavesWaitingBgsave(unopened)
    BY <1>6 DEF backgroundSaveDoneHandler
  <2>2. replstate' \in [Slave -> ReplState]
    BY <2>1 DEF updateSlavesWaitingBgsave, StateAfterBgsave, ReplState
  <2>3. /\ slaveseldb' \in [Slave -> DB]
        /\ outdb' \in [Slave -> DB]
        /\ reply' \in [Slave -> Dataset]
        /\ repldb' \in [Slave -> Dataset]
    BY <2>1 DEF updateSlavesWaitingBgsave, freeClients
  <2>4. /\ child' \in {"none", "running", "ok", "err", "signaled"}
        /\ snap' \in Dataset
        /\ lastbgsave_status' \in {"OK", "ERR"}
        /\ faults' \in Nat
    BY <1>6 DEF backgroundSaveDoneHandler, rdbSaveBackground
  <2> QED
    BY <1>6, <2>2, <2>3, <2>4 DEF backgroundSaveDoneHandler
<1>7. ASSUME NEW s \in Slave, SyncCommand(s) PROVE TypeOK'
  <2>1. reply' \in [Slave -> Dataset] /\ outdb' \in [Slave -> DB]
    BY <1>7 DEF SyncCommand, copyClientOutputBuffer
  <2>2. replstate' \in [Slave -> ReplState]
    BY <1>7 DEF SyncCommand, ReplState
  <2>3. /\ slaveseldb' \in [Slave -> DB]
        /\ repl_state' \in [Slave -> {"CONNECT", "TRANSFER", "CONNECTED"}]
    BY <1>7 DEF SyncCommand
  <2>4. /\ child' \in {"none", "running", "ok", "err", "signaled"}
        /\ snap' \in Dataset
    BY <1>7 DEF SyncCommand, rdbSaveBackground
  <2> QED
    BY <1>7, <2>1, <2>2, <2>3, <2>4 DEF SyncCommand
<1>8. ASSUME NEW s \in Slave, sendBulkToSlave(s) PROVE TypeOK'
  <2>1. replstate' \in [Slave -> ReplState]
    BY <1>8 DEF sendBulkToSlave, ReplState
  <2> QED
    BY <1>8, <2>1 DEF sendBulkToSlave
<1>9. ASSUME NEW s \in Slave, sendReplyToClient(s) PROVE TypeOK'
  <2>1. /\ Tail(reply[s]) \in Dataset
        /\ Append(sock[s], Head(reply[s])) \in Dataset
    BY <1>9, HeadTailDataset DEF sendReplyToClient
  <2> QED
    BY <1>9, <2>1 DEF sendReplyToClient
<1>10. ASSUME NEW s \in Slave, FreeClient(s) PROVE TypeOK'
  <2>1. replstate' \in [Slave -> ReplState]
    BY <1>10 DEF FreeClient, ReplState
  <2>2. faults' \in Nat
    BY <1>10 DEF FreeClient, ReasonToFree, CountFault
  <2> QED
    BY <1>10, <2>1, <2>2 DEF FreeClient, freeClients
<1>11. ASSUME NEW s \in Slave, readSyncBulkPayload(s) PROVE TypeOK'
  BY <1>11 DEF readSyncBulkPayload, LoadedDataset
<1>12. ASSUME NEW s \in Slave, ProcessStream(s) PROVE TypeOK'
  <2>1. /\ Tail(sock[s]) \in Dataset
        /\ Append(sdata[s], Head(sock[s])) \in Dataset
    BY <1>12, HeadTailDataset DEF ProcessStream
  <2> QED
    BY <1>12, <2>1 DEF ProcessStream
<1>13. ASSUME NEW s \in Slave, LinkLost(s) PROVE TypeOK'
  <2>1. faults' \in Nat
    BY <1>13 DEF LinkLost, CountFault
  <2> QED
    BY <1>13, <2>1 DEF LinkLost
<1>14. ASSUME NEW s \in Slave, SlaveBgsaveDone(s) PROVE TypeOK'
  BY <1>14 DEF SlaveBgsaveDone, CountFault
<1>15. CASE UNCHANGED vars
  BY <1>15 DEF vars
<1> QED
  BY <1>1, <1>2, <1>3, <1>4, <1>5, <1>6, <1>7, <1>8, <1>9, <1>10, <1>11, <1>12,
     <1>13, <1>14, <1>15 DEF Next

\* The variables keep their types: in particular the database of every queued
\* command is one that clients use.
THEOREM TypeCorrect == Spec => []TypeOK
<1>1. Init => TypeOK
  BY ReplicationAssumption, EmptyDataset DEF Init, TypeOK, ReplState
<1>2. TypeOK /\ [Next]_vars => TypeOK'
  BY TypeStep
<1> QED
  BY <1>1, <1>2, PTL DEF Spec

----------------------------------------------------------------------------
(* A slave never waits for the start of a BGSAVE nobody will start *)

LEMMA StartHasChildStep ==
    ASSUME TypeOK, StartHasChild, [Next]_vars
    PROVE  StartHasChild'
<1> USE DEF TypeOK, StartHasChild, childVars, clientVars, slaveVars
<1>1. ASSUME NEW d \in DB, WriteCommand(d) PROVE StartHasChild'
  BY <1>1 DEF WriteCommand
<1>2. CASE SaveCommand
  BY <1>2 DEF SaveCommand
<1>3. CASE BgsaveCommand
  BY <1>3 DEF BgsaveCommand, rdbSaveBackground
<1>4. CASE ChildSucceeds
  BY <1>4 DEF ChildSucceeds
<1>5. CASE ChildFails
  BY <1>5 DEF ChildFails
<1>6. CASE backgroundSaveDoneHandler
  BY <1>6 DEF backgroundSaveDoneHandler, updateSlavesWaitingBgsave,
              StateAfterBgsave
<1>7. ASSUME NEW s \in Slave, SyncCommand(s) PROVE StartHasChild'
  BY <1>7 DEF SyncCommand, rdbSaveBackground
<1>8. ASSUME NEW s \in Slave, sendBulkToSlave(s) PROVE StartHasChild'
  BY <1>8 DEF sendBulkToSlave
<1>9. ASSUME NEW s \in Slave, sendReplyToClient(s) PROVE StartHasChild'
  BY <1>9 DEF sendReplyToClient
<1>10. ASSUME NEW s \in Slave, FreeClient(s) PROVE StartHasChild'
  BY <1>10 DEF FreeClient
<1>11. ASSUME NEW s \in Slave, readSyncBulkPayload(s) PROVE StartHasChild'
  BY <1>11 DEF readSyncBulkPayload
<1>12. ASSUME NEW s \in Slave, ProcessStream(s) PROVE StartHasChild'
  BY <1>12 DEF ProcessStream
<1>13. ASSUME NEW s \in Slave, LinkLost(s) PROVE StartHasChild'
  BY <1>13 DEF LinkLost
<1>14. ASSUME NEW s \in Slave, SlaveBgsaveDone(s) PROVE StartHasChild'
  BY <1>14 DEF SlaveBgsaveDone
<1>15. CASE UNCHANGED vars
  BY <1>15 DEF vars
<1> QED
  BY <1>1, <1>2, <1>3, <1>4, <1>5, <1>6, <1>7, <1>8, <1>9, <1>10, <1>11, <1>12,
     <1>13, <1>14, <1>15 DEF Next

\* Whatever fails, a slave in WAIT_BGSAVE_START has a child to wait for.
THEOREM StartHasChildAlways == Spec => []StartHasChild
<1>1. Init => StartHasChild
  BY DEF Init, StartHasChild
<1>2. TypeOK /\ StartHasChild /\ [Next]_vars => StartHasChild'
  BY StartHasChildStep
<1> QED
  BY <1>1, <1>2, TypeCorrect, PTL DEF Spec

\* Unless a fork() fails, neither does a slave that waits for the end of one.
LEMMA EndHasChildStep ==
    ASSUME "fork" \notin Faults, TypeOK, EndHasChild, [Next]_vars
    PROVE  EndHasChild'
<1> USE DEF TypeOK, EndHasChild, childVars, clientVars, slaveVars
<1>1. ASSUME NEW d \in DB, WriteCommand(d) PROVE EndHasChild'
  BY <1>1 DEF WriteCommand
<1>2. CASE SaveCommand
  BY <1>2 DEF SaveCommand
<1>3. CASE BgsaveCommand
  BY <1>3 DEF BgsaveCommand, rdbSaveBackground
<1>4. CASE ChildSucceeds
  BY <1>4 DEF ChildSucceeds
<1>5. CASE ChildFails
  BY <1>5 DEF ChildFails
<1>6. CASE backgroundSaveDoneHandler
  <2>1. PICK unopened \in SUBSET {s \in Slave : replstate[s] = "WAIT_BGSAVE_END"} :
          /\ updateSlavesWaitingBgsave(unopened)
          /\ SlavesWaitingStart # {} => rdbSaveBackground
    BY <1>6 DEF backgroundSaveDoneHandler, MayFail
  <2> SUFFICES ASSUME NEW s \in Slave, replstate'[s] = "WAIT_BGSAVE_END"
               PROVE  child' # "none"
    BY DEF EndHasChild
  <2>2. replstate'[s] = StateAfterBgsave(s, unopened)
    BY <2>1 DEF updateSlavesWaitingBgsave
  <2>3. replstate[s] = "WAIT_BGSAVE_START"
    BY <2>2 DEF StateAfterBgsave
  <2>4. SlavesWaitingStart # {}
    BY <2>3 DEF SlavesWaitingStart
  <2> QED
    BY <2>1, <2>4 DEF rdbSaveBackground
<1>7. ASSUME NEW s \in Slave, SyncCommand(s) PROVE EndHasChild'
  BY <1>7 DEF SyncCommand, rdbSaveBackground
<1>8. ASSUME NEW s \in Slave, sendBulkToSlave(s) PROVE EndHasChild'
  BY <1>8 DEF sendBulkToSlave
<1>9. ASSUME NEW s \in Slave, sendReplyToClient(s) PROVE EndHasChild'
  BY <1>9 DEF sendReplyToClient
<1>10. ASSUME NEW s \in Slave, FreeClient(s) PROVE EndHasChild'
  BY <1>10 DEF FreeClient
<1>11. ASSUME NEW s \in Slave, readSyncBulkPayload(s) PROVE EndHasChild'
  BY <1>11 DEF readSyncBulkPayload
<1>12. ASSUME NEW s \in Slave, ProcessStream(s) PROVE EndHasChild'
  BY <1>12 DEF ProcessStream
<1>13. ASSUME NEW s \in Slave, LinkLost(s) PROVE EndHasChild'
  BY <1>13 DEF LinkLost
<1>14. ASSUME NEW s \in Slave, SlaveBgsaveDone(s) PROVE EndHasChild'
  BY <1>14 DEF SlaveBgsaveDone
<1>15. CASE UNCHANGED vars
  BY <1>15 DEF vars
<1> QED
  BY <1>1, <1>2, <1>3, <1>4, <1>5, <1>6, <1>7, <1>8, <1>9, <1>10, <1>11, <1>12,
     <1>13, <1>14, <1>15 DEF Next

\* Unless a fork() fails, and whatever else does (children that exit with an
\* error or are killed, files, links, the slaves' own saves), a slave that waits
\* for a BGSAVE has a child to wait for (syncCommand, updateSlavesWaitingBgsave).
THEOREM WaitersHaveChildAlways ==
    ASSUME "fork" \notin Faults
    PROVE  Spec => []WaitersHaveChild
<1>1. Init => EndHasChild
  BY DEF Init, EndHasChild
<1>2. TypeOK /\ EndHasChild /\ [Next]_vars => EndHasChild'
  BY EndHasChildStep
<1> QED
  BY <1>1, <1>2, TypeCorrect, StartHasChildAlways, PTL DEF Spec, WaitersHaveChild

----------------------------------------------------------------------------
(* Facts about datasets *)

LEMMA ConcatDataset ==
    ASSUME NEW p \in Dataset, NEW q \in Dataset
    PROVE  /\ p \o q \in Dataset
           /\ p \o <<>> = p
           /\ <<>> \o p = p
  BY ConcatProperties, ConcatEmptySeq DEF Dataset

\* Appending to the second part appends to the whole.
LEMMA ConcatAppend ==
    ASSUME NEW p \in Dataset, NEW q \in Dataset, NEW e \in Command
    PROVE  p \o Append(q, e) = Append(p \o q, e)
<1>1. <<e>> \in Dataset /\ p \o q \in Dataset
  BY ConcatProperties DEF Dataset
<1>2. Append(q, e) = q \o <<e>> /\ Append(p \o q, e) = (p \o q) \o <<e>>
  BY <1>1, AppendIsConcat DEF Dataset
<1>3. (p \o q) \o <<e>> = p \o (q \o <<e>>)
  BY <1>1, ConcatAssociative DEF Dataset
<1> QED
  BY <1>2, <1>3

\* Moving the head of the second part to the end of the first one changes
\* nothing.
LEMMA MoveHead ==
    ASSUME NEW p \in Dataset, NEW q \in Dataset, q # <<>>
    PROVE  Append(p, Head(q)) \o Tail(q) = p \o q
<1>1. /\ Head(q) \in Command
      /\ Tail(q) \in Dataset
      /\ <<Head(q)>> \in Dataset
  BY HeadTailProperties DEF Dataset
<1>2. q = <<Head(q)>> \o Tail(q)
  <2>1. /\ Len(<<Head(q)>> \o Tail(q)) = Len(q)
        /\ \A i \in 1..Len(q) : (<<Head(q)>> \o Tail(q))[i] = q[i]
    BY <1>1, HeadTailProperties, ConcatProperties, LenProperties DEF Dataset
  <2>2. <<Head(q)>> \o Tail(q) \in Dataset
    BY <1>1, ConcatProperties DEF Dataset
  <2> QED
    BY <2>1, <2>2, SeqEqual DEF Dataset
<1>3. Append(p, Head(q)) = p \o <<Head(q)>>
  BY <1>1, AppendIsConcat DEF Dataset
<1>4. (p \o <<Head(q)>>) \o Tail(q) = p \o (<<Head(q)>> \o Tail(q))
  BY <1>1, ConcatAssociative DEF Dataset
<1> QED
  BY <1>2, <1>3, <1>4

LEMMA PrefixOfConcat ==
    ASSUME NEW p \in Dataset, NEW q \in Dataset
    PROVE  Prefix(p, p \o q)
<1>1. /\ p \o q \in Dataset
      /\ Len(p \o q) = Len(p) + Len(q)
      /\ \A i \in 1..Len(p) : (p \o q)[i] = p[i]
      /\ Len(p) \in Nat /\ Len(q) \in Nat
  BY ConcatProperties, LenProperties DEF Dataset
<1>2. \A i \in 1..Len(p) : (p \o q)[i] \in Command
  BY <1>1, ElementOfSeq DEF Dataset
<1>3. /\ SubSeq(p \o q, 1, Len(p)) \in Dataset
      /\ Len(SubSeq(p \o q, 1, Len(p))) = Len(p)
      /\ \A i \in 1..Len(p) : SubSeq(p \o q, 1, Len(p))[i] = (p \o q)[i]
  BY <1>1, <1>2, SubSeqProperties DEF Dataset
<1>4. p = SubSeq(p \o q, 1, Len(p))
  BY <1>1, <1>3, SeqEqual DEF Dataset
<1> QED
  BY <1>1, <1>4 DEF Prefix

\* A prefix leaves a rest, and conversely.
LEMMA PrefixRest ==
    ASSUME NEW p \in Dataset, NEW q \in Dataset
    PROVE  Prefix(p, q) <=> \E r \in Dataset : q = p \o r
<1>1. ASSUME Prefix(p, q) PROVE \E r \in Dataset : q = p \o r
  <2>1. Len(p) \in Nat /\ Len(q) \in Nat /\ Len(p) <= Len(q)
    BY <1>1, LenProperties DEF Dataset, Prefix
  <2>2. SubSeq(q, 1, Len(p)) \o SubSeq(q, Len(p) + 1, Len(q)) = SubSeq(q, 1, Len(q))
    <3>1. /\ q \in Seq(Command)
          /\ 1 \in 1..(Len(q) + 1)
          /\ Len(p) \in (1 - 1)..Len(q)
          /\ Len(q) \in Len(p)..Len(q)
      BY <2>1 DEF Dataset
    <3> QED
      BY <3>1, ConcatAdjacentSubSeq
  <2>3. SubSeq(q, 1, Len(q)) = q
    BY SubSeqFull DEF Dataset
  <2>4. SubSeq(q, Len(p) + 1, Len(q)) \in Dataset
    <3>1. \A i \in (Len(p) + 1)..Len(q) : q[i] \in Command
      BY <2>1, ElementOfSeq DEF Dataset
    <3> QED
      BY <2>1, <3>1, SubSeqProperties DEF Dataset
  <2> QED
    BY <1>1, <2>2, <2>3, <2>4 DEF Prefix
<1>2. ASSUME NEW r \in Dataset, q = p \o r PROVE Prefix(p, q)
  BY <1>2, PrefixOfConcat
<1> QED
  BY <1>1, <1>2, SMTT(60)

LEMMA PrefixAppend ==
    ASSUME NEW p \in Dataset, NEW q \in Dataset, NEW e \in Command, Prefix(p, q)
    PROVE  Prefix(p, Append(q, e))
<1>1. PICK r \in Dataset : q = p \o r
  BY PrefixRest
<1>2. Append(q, e) = p \o Append(r, e)
  BY <1>1, ConcatAppend
<1>3. Append(r, e) \in Dataset /\ Append(q, e) \in Dataset
  BY AppendProperties DEF Dataset
<1> QED
  BY <1>2, <1>3, PrefixRest

LEMMA PrefixOfFirstPart ==
    ASSUME NEW p \in Dataset, NEW q \in Dataset, NEW d \in Dataset,
           Prefix(p \o q, d)
    PROVE  Prefix(p, d)
<1>1. p \o q \in Dataset
  BY ConcatDataset
<1>2. PICK r \in Dataset : d = (p \o q) \o r
  BY <1>1, PrefixRest
<1>3. d = p \o (q \o r) /\ q \o r \in Dataset
  BY <1>2, ConcatAssociative, ConcatDataset DEF Dataset
<1> QED
  BY <1>3, PrefixRest

----------------------------------------------------------------------------
(* The inductive invariant *)

\* One database, and none of the faults replication does not survive.
Setting == DB = {0} /\ Faults \cap {"signal", "fork", "slavebgsave"} = {}

LEMMA IInvInit == ASSUME Setting, Init PROVE IInv
<1>1. TypeOK
  BY ReplicationAssumption, EmptyDataset DEF Init, TypeOK, ReplState
<1>2. Prefix(<<>>, <<>>)
  BY EmptyDataset, ConcatDataset, PrefixOfConcat
<1> QED
  BY <1>1, <1>2 DEF Init, IInv, ChildInv, ClientInv, LinkInv, StreamInv

\* A write reaches the output buffer of every slave that is fed as the command
\* the master executed.
LEMMA WriteStep ==
    ASSUME Setting, IInv, TypeOK', NEW d \in DB, WriteCommand(d)
    PROVE  IInv'
<1> DEFINE e == <<d, Len(data) + 1>>
<1>1. e \in Command
  BY LenDataset DEF Command, IInv, TypeOK
<1>2. data' = Append(data, e)
  BY DEF WriteCommand
<1>3. ASSUME NEW s \in Slave
      PROVE  reply'[s] = IF Fed(s) THEN Append(reply[s], e) ELSE reply[s]
  <2>1. outdb'[s] = d
    BY DEF IInv, TypeOK, Setting
  <2> QED
    BY <2>1 DEF WriteCommand, replicationFeedSlaves
<1>4. UNCHANGED <<childVars, replstate, repldb, slaveVars>>
  BY DEF WriteCommand
<1>5. ChildInv'
  BY <1>4 DEF IInv, ChildInv, childVars
<1>6. ASSUME NEW s \in Slave PROVE ClientInv(s)' /\ LinkInv(s)' /\ StreamInv(s)'
  <2> USE DEF childVars, slaveVars
  <2>1. /\ ClientInv(s) /\ LinkInv(s) /\ StreamInv(s)
        /\ snap \in Dataset /\ repldb[s] \in Dataset /\ reply[s] \in Dataset
        /\ sdata[s] \in Dataset /\ bulk[s] \in Dataset /\ sock[s] \in Dataset
        /\ data \in Dataset
        /\ replstate[s] \in ReplState
    BY DEF IInv, TypeOK
  <2>2. \A p \in Dataset : p \o Append(reply[s], e) = Append(p \o reply[s], e)
    BY <1>1, <2>1, ConcatAppend
  <2>3. \A p \in Dataset : Prefix(p, data) => Prefix(p, data')
    BY <1>1, <1>2, <2>1, PrefixAppend
  <2>4. bulk[s] \o sock[s] \in Dataset /\ sdata[s] \o sock[s] \in Dataset
    BY <2>1, ConcatDataset
  <2>5. ClientInv(s)'
    BY <1>2, <1>3, <1>4, <2>1, <2>2 DEF ClientInv, Fed
  <2>6. LinkInv(s)'
    BY <1>4, <2>1 DEF LinkInv
  <2>7. StreamInv(s)'
    BY <1>2, <1>3, <1>4, <2>1, <2>2, <2>3, <2>4 DEF StreamInv, Fed
  <2> QED
    BY <2>5, <2>6, <2>7
<1> QED
  BY <1>5, <1>6 DEF IInv

\* The end of a child: its snapshot is in dump.rdb when it succeeded, and the
\* slaves that waited for the next one get a child that sees the dataset as it is.
LEMMA SaveDoneStep ==
    ASSUME Setting, IInv, TypeOK', backgroundSaveDoneHandler
    PROVE  IInv'
<1>1. PICK unopened \in SUBSET {s \in Slave : replstate[s] = "WAIT_BGSAVE_END"} :
        /\ updateSlavesWaitingBgsave(unopened)
        /\ SlavesWaitingStart # {} => rdbSaveBackground
        /\ SlavesWaitingStart = {} => child' = "none"
  BY DEF backgroundSaveDoneHandler, Setting, MayFail
<1>2. child \in {"ok", "err", "signaled"} /\ UNCHANGED <<data, rdb, slaveVars>>
  BY DEF backgroundSaveDoneHandler
<1>3. ChildInv'
  BY <1>1 DEF ChildInv, rdbSaveBackground
<1>4. ASSUME NEW s \in Slave PROVE ClientInv(s)' /\ LinkInv(s)' /\ StreamInv(s)'
  <2>1. /\ ClientInv(s) /\ LinkInv(s) /\ StreamInv(s) /\ ChildInv
        /\ replstate[s] \in ReplState
        /\ data \in Dataset
    BY DEF IInv, TypeOK
  <2>2. replstate'[s] = StateAfterBgsave(s, unopened)
    BY <1>1 DEF updateSlavesWaitingBgsave
  <2>3. reply'[s] = IF replstate'[s] = "NONE" THEN <<>> ELSE reply[s]
    BY <1>1 DEF updateSlavesWaitingBgsave, freeClients
  <2>4. repldb'[s] = IF replstate'[s] = "NONE" THEN <<>>
                     ELSE IF replstate[s] # "SEND_BULK" /\ replstate'[s] = "SEND_BULK"
                          THEN rdb ELSE repldb[s]
    BY <1>1 DEF updateSlavesWaitingBgsave, freeClients
  <2>5. replstate[s] = "WAIT_BGSAVE_START" => child' = "running" /\ snap' = data
    BY <1>1 DEF SlavesWaitingStart, rdbSaveBackground
  <2>6. replstate'[s] = "SEND_BULK" /\ replstate[s] # "SEND_BULK"
          => replstate[s] = "WAIT_BGSAVE_END" /\ rdb = snap
    BY <1>2, <2>1, <2>2 DEF StateAfterBgsave, BgsaveErr, ChildInv, ReplState
  <2>7. ClientInv(s)'
    <3>1. data \o <<>> = data
      BY <2>1, ConcatDataset
    <3> QED
      BY <1>2, <2>1, <2>2, <2>3, <2>4, <2>5, <2>6, <3>1
      DEF ClientInv, StateAfterBgsave, ReplState
  <2>8. LinkInv(s)'
    BY <1>2, <2>1, <2>2 DEF LinkInv, StateAfterBgsave, ReplState, slaveVars
  <2>9. StreamInv(s)'
    BY <1>2, <2>1, <2>2, <2>3 DEF StreamInv, StateAfterBgsave, ReplState, slaveVars
  <2> QED
    BY <2>7, <2>8, <2>9
<1> QED
  BY <1>3, <1>4 DEF IInv

\* A joining slave either shares the differences of one that registers them
\* already, or waits, or gets a child that sees the dataset as it is.
LEMMA SyncStep ==
    ASSUME Setting, IInv, TypeOK', NEW s \in Slave, SyncCommand(s)
    PROVE  IInv'
<1> USE DEF IInv, TypeOK
<1>1. UNCHANGED <<data, rdb, repldb, bulksent, bulk, sock, sdata, sbgsave_status>>
  BY DEF SyncCommand
<1>2. /\ replstate[s] = "NONE" /\ repl_state[s] = "CONNECT"
      /\ repl_state' = [repl_state EXCEPT ![s] = "TRANSFER"]
  BY DEF SyncCommand
<1>3. ChildInv'
  BY <1>1 DEF SyncCommand, rdbSaveBackground, ChildInv
<1>4. ASSUME NEW t \in Slave, t # s
      PROVE  ClientInv(t)' /\ LinkInv(t)' /\ StreamInv(t)'
  <2>1. ClientInv(t) /\ LinkInv(t) /\ StreamInv(t)
    OBVIOUS
  <2>2. replstate'[t] = replstate[t] /\ reply'[t] = reply[t]
    BY <1>4 DEF SyncCommand, copyClientOutputBuffer
  <2>3. repl_state'[t] = repl_state[t]
    BY <1>2, <1>4
  <2>4. replstate[t] = "WAIT_BGSAVE_END" => UNCHANGED <<child, snap>>
    BY <2>1 DEF SyncCommand, ClientInv
  <2> QED
    BY <1>1, <2>1, <2>2, <2>3, <2>4 DEF ClientInv, LinkInv, StreamInv
<1>5. ClientInv(s)'
  <2>1. reply[s] = <<>> /\ data \o <<>> = data
    BY <1>2, ConcatDataset DEF ClientInv
  <2>2. CASE child # "none" /\ \E t \in Slave : replstate[t] = "WAIT_BGSAVE_END"
    <3>1. PICK t \in Slave : replstate[t] = "WAIT_BGSAVE_END"
                             /\ copyClientOutputBuffer(s, t)
      BY <2>2 DEF SyncCommand
    <3>2. /\ replstate'[s] = "WAIT_BGSAVE_END"
          /\ UNCHANGED <<child, snap>>
      BY <2>2 DEF SyncCommand
    <3>3. reply'[s] = reply[t]
      BY <3>1 DEF copyClientOutputBuffer
    <3> QED
      BY <1>1, <2>2, <3>1, <3>2, <3>3 DEF ClientInv
  <2>3. CASE child # "none" /\ \A t \in Slave : replstate[t] # "WAIT_BGSAVE_END"
    BY <2>1, <2>3 DEF SyncCommand, ClientInv
  <2>4. CASE child = "none"
    BY <1>1, <2>1, <2>4 DEF SyncCommand, rdbSaveBackground, ClientInv
  <2> QED
    BY <2>2, <2>3, <2>4
<1>6. LinkInv(s)' /\ StreamInv(s)'
  <2>1. replstate'[s] \in {"WAIT_BGSAVE_START", "WAIT_BGSAVE_END"}
    BY DEF SyncCommand
  <2>2. repl_state'[s] = "TRANSFER"
    BY <1>2
  <2> QED
    BY <1>1, <1>2, <2>1, <2>2 DEF LinkInv, StreamInv
<1> QED
  BY <1>3, <1>4, <1>5, <1>6

\* The steps of one slave leave the invariant of the others alone.
LEMMA OtherSlaves ==
    ASSUME IInv, TypeOK', NEW s \in Slave, NEW t \in Slave, t # s,
           UNCHANGED <<data, child, snap>>,
           replstate'[t] = replstate[t], reply'[t] = reply[t],
           repldb'[t] = repldb[t], bulksent'[t] = bulksent[t],
           bulk'[t] = bulk[t], sock'[t] = sock[t],
           repl_state'[t] = repl_state[t], sdata'[t] = sdata[t],
           sbgsave_status'[t] = sbgsave_status[t]
    PROVE  ClientInv(t)' /\ LinkInv(t)' /\ StreamInv(t)'
  BY DEF IInv, ClientInv, LinkInv, StreamInv

LEMMA SendBulkStep ==
    ASSUME IInv, TypeOK', NEW s \in Slave, sendBulkToSlave(s)
    PROVE  IInv'
<1> USE DEF TypeOK, childVars
<1>1. ChildInv'
  BY DEF IInv, ChildInv, sendBulkToSlave
<1>2. ASSUME NEW t \in Slave, t # s
      PROVE  ClientInv(t)' /\ LinkInv(t)' /\ StreamInv(t)'
  <2>1. /\ UNCHANGED <<data, child, snap, reply, sock, repl_state, sdata, sbgsave_status>>
        /\ replstate'[t] = replstate[t] /\ repldb'[t] = repldb[t]
        /\ bulksent'[t] = bulksent[t] /\ bulk'[t] = bulk[t]
    BY <1>2 DEF sendBulkToSlave, IInv
  <2> QED
    BY <1>2, <2>1, OtherSlaves
<1>3. ClientInv(s)' /\ LinkInv(s)' /\ StreamInv(s)'
  <2>1. /\ ClientInv(s) /\ LinkInv(s) /\ StreamInv(s)
        /\ repldb[s] \in Dataset /\ reply[s] \in Dataset /\ data \in Dataset
    BY DEF IInv
  <2>2. /\ replstate[s] = "SEND_BULK" /\ replstate'[s] = "ONLINE"
        /\ UNCHANGED <<data, reply, sock, repl_state, sdata, sbgsave_status>>
    BY DEF sendBulkToSlave, IInv
  <2>3. /\ repldb[s] \o reply[s] = data
        /\ ~bulksent[s] /\ sock[s] = <<>> /\ repl_state[s] \in {"CONNECT", "TRANSFER"}
    BY <2>1, <2>2 DEF ClientInv, LinkInv, IInv
  <2>4. repldb[s] \o sock[s] = repldb[s] /\ Prefix(repldb[s], data)
    BY <2>1, <2>3, ConcatDataset, PrefixOfConcat
  <2>5. CASE repl_state[s] = "TRANSFER"
    <3>1. bulksent'[s] /\ bulk'[s] = repldb[s]
      BY <2>5 DEF sendBulkToSlave, IInv
    <3> QED
      BY <2>1, <2>2, <2>3, <2>4, <2>5, <3>1 DEF ClientInv, LinkInv, StreamInv
  <2>6. CASE repl_state[s] = "CONNECT"
    <3>1. UNCHANGED <<bulksent, bulk>>
      BY <2>6 DEF sendBulkToSlave
    <3> QED
      BY <2>1, <2>2, <2>3, <2>6, <3>1 DEF ClientInv, LinkInv, StreamInv
  <2> QED
    BY <2>3, <2>5, <2>6
<1> QED
  BY <1>1, <1>2, <1>3 DEF IInv

LEMMA SendReplyStep ==
    ASSUME IInv, TypeOK', NEW s \in Slave, sendReplyToClient(s)
    PROVE  IInv'
<1> USE DEF TypeOK, childVars
<1>1. ChildInv'
  BY DEF IInv, ChildInv, sendReplyToClient
<1>2. ASSUME NEW t \in Slave, t # s
      PROVE  ClientInv(t)' /\ LinkInv(t)' /\ StreamInv(t)'
  <2>1. /\ UNCHANGED <<data, child, snap, replstate, repldb, bulksent, bulk,
                       repl_state, sdata, sbgsave_status>>
        /\ reply'[t] = reply[t] /\ sock'[t] = sock[t]
    BY <1>2 DEF sendReplyToClient, IInv
  <2> QED
    BY <1>2, <2>1, OtherSlaves
<1>3. ClientInv(s)' /\ LinkInv(s)' /\ StreamInv(s)'
  <2>1. /\ ClientInv(s) /\ LinkInv(s) /\ StreamInv(s)
        /\ bulk[s] \in Dataset /\ sdata[s] \in Dataset /\ sock[s] \in Dataset
        /\ reply[s] \in Dataset /\ sock'[s] \in Dataset /\ reply'[s] \in Dataset
    BY DEF IInv
  <2>2. /\ replstate[s] = "ONLINE" /\ reply[s] # <<>>
        /\ UNCHANGED <<data, replstate, bulksent, bulk, repl_state, sdata, sbgsave_status>>
    BY DEF sendReplyToClient
  <2>3. CASE repl_state[s] = "CONNECT"
    <3>1. UNCHANGED sock
      BY <2>3 DEF sendReplyToClient
    <3> QED
      BY <2>1, <2>2, <2>3, <3>1 DEF ClientInv, LinkInv, StreamInv
  <2>4. CASE repl_state[s] # "CONNECT"
    <3>1. sock'[s] = Append(sock[s], Head(reply[s])) /\ reply'[s] = Tail(reply[s])
      BY <2>4 DEF sendReplyToClient, IInv
    <3>2. ASSUME NEW p \in Dataset, (p \o sock[s]) \o reply[s] = data
          PROVE  /\ (p \o sock'[s]) \o reply'[s] = data
                 /\ Prefix(p \o sock'[s], data)
      <4>1. Head(reply[s]) \in Command
        BY <2>1, <2>2, HeadTailDataset
      <4>2. p \o sock'[s] = Append(p \o sock[s], Head(reply[s]))
        BY <2>1, <3>1, <4>1, ConcatAppend
      <4>3. (p \o sock'[s]) \o reply'[s] = data
        <5>1. p \o sock[s] \in Dataset
          BY <2>1, ConcatDataset
        <5>2. Append(p \o sock[s], Head(reply[s])) \o Tail(reply[s])
                = (p \o sock[s]) \o reply[s]
          BY <2>1, <2>2, <5>1, MoveHead
        <5> QED
          BY <3>1, <3>2, <4>2, <5>2
      <4> QED
        BY <2>1, <4>3, ConcatDataset, PrefixOfConcat
    <3>3. repl_state[s] = "CONNECTED" \/ bulksent[s]
      BY <2>1, <2>2, <2>4 DEF LinkInv, IInv
    <3> QED
      BY <2>1, <2>2, <2>4, <3>2, <3>3 DEF ClientInv, LinkInv, StreamInv
  <2> QED
    BY <2>3, <2>4
<1> QED
  BY <1>1, <1>2, <1>3 DEF IInv

LEMMA FreeClientStep ==
    ASSUME IInv, TypeOK', NEW s \in Slave, FreeClient(s)
    PROVE  IInv'
<1> USE DEF TypeOK, childVars, slaveVars
<1>1. ChildInv'
  BY DEF IInv, ChildInv, FreeClient
<1>2. ASSUME NEW t \in Slave, t # s
      PROVE  ClientInv(t)' /\ LinkInv(t)' /\ StreamInv(t)'
  <2>1. /\ UNCHANGED <<data, child, snap, bulksent, bulk, sock, repl_state,
                       sdata, sbgsave_status>>
        /\ replstate'[t] = replstate[t] /\ reply'[t] = reply[t]
        /\ repldb'[t] = repldb[t]
    BY <1>2 DEF FreeClient, freeClients, IInv
  <2> QED
    BY <1>2, <2>1, OtherSlaves
<1>3. ClientInv(s)' /\ LinkInv(s)' /\ StreamInv(s)'
  <2>1. ClientInv(s) /\ LinkInv(s) /\ StreamInv(s)
    BY DEF IInv
  <2>2. /\ replstate'[s] = "NONE" /\ reply'[s] = <<>>
        /\ UNCHANGED <<data, slaveVars>>
    BY DEF FreeClient, freeClients, IInv
  <2> QED
    BY <2>1, <2>2 DEF ClientInv, LinkInv, StreamInv
<1> QED
  BY <1>1, <1>2, <1>3 DEF IInv

LEMMA LoadStep ==
    ASSUME IInv, TypeOK', NEW s \in Slave, readSyncBulkPayload(s)
    PROVE  IInv'
<1> USE DEF TypeOK, childVars, clientVars
<1>1. ChildInv'
  BY DEF IInv, ChildInv, readSyncBulkPayload
<1>2. ASSUME NEW t \in Slave, t # s
      PROVE  ClientInv(t)' /\ LinkInv(t)' /\ StreamInv(t)'
  <2>1. /\ UNCHANGED <<data, child, snap, replstate, reply, repldb, sock, sbgsave_status>>
        /\ bulksent'[t] = bulksent[t] /\ bulk'[t] = bulk[t]
        /\ repl_state'[t] = repl_state[t] /\ sdata'[t] = sdata[t]
    BY <1>2 DEF readSyncBulkPayload, IInv
  <2> QED
    BY <1>2, <2>1, OtherSlaves
<1>3. ClientInv(s)' /\ LinkInv(s)' /\ StreamInv(s)'
  <2>1. /\ ClientInv(s) /\ LinkInv(s) /\ StreamInv(s)
        /\ bulk[s] \in Dataset /\ sock[s] \in Dataset /\ data \in Dataset
    BY DEF IInv
  <2>2. /\ bulksent[s] /\ ~bulksent'[s]
        /\ repl_state'[s] = "CONNECTED" /\ sdata'[s] = bulk[s]
        /\ UNCHANGED <<data, child, snap, replstate, reply, repldb, sock, sbgsave_status>>
    BY DEF readSyncBulkPayload, LoadedDataset, IInv
  <2>3. Prefix(bulk[s], data)
    BY <2>1, <2>2, PrefixOfFirstPart DEF StreamInv
  <2> QED
    BY <2>1, <2>2, <2>3 DEF ClientInv, LinkInv, StreamInv
<1> QED
  BY <1>1, <1>2, <1>3 DEF IInv

LEMMA ProcessStreamStep ==
    ASSUME IInv, TypeOK', NEW s \in Slave, ProcessStream(s)
    PROVE  IInv'
<1> USE DEF TypeOK, childVars, clientVars
<1>1. ChildInv'
  BY DEF IInv, ChildInv, ProcessStream
<1>2. ASSUME NEW t \in Slave, t # s
      PROVE  ClientInv(t)' /\ LinkInv(t)' /\ StreamInv(t)'
  <2>1. /\ UNCHANGED <<data, child, snap, replstate, reply, repldb, bulksent,
                       bulk, repl_state, sbgsave_status>>
        /\ sock'[t] = sock[t] /\ sdata'[t] = sdata[t]
    BY <1>2 DEF ProcessStream, IInv
  <2> QED
    BY <1>2, <2>1, OtherSlaves
<1>3. ClientInv(s)' /\ LinkInv(s)' /\ StreamInv(s)'
  <2>1. /\ ClientInv(s) /\ LinkInv(s) /\ StreamInv(s)
        /\ sdata[s] \in Dataset /\ sock[s] \in Dataset /\ data \in Dataset
        /\ sdata'[s] \in Dataset /\ sock'[s] \in Dataset
    BY DEF IInv
  <2>2. /\ repl_state[s] = "CONNECTED" /\ sock[s] # <<>>
        /\ UNCHANGED <<data, child, snap, replstate, reply, repldb, bulksent,
                       bulk, repl_state, sbgsave_status>>
    BY DEF ProcessStream
  <2>3. /\ sock'[s] = Tail(sock[s])
        /\ sdata'[s] = Append(sdata[s], Head(sock[s]))
    BY <2>1 DEF ProcessStream, IInv, StreamInv
  <2>4. sdata'[s] \o sock'[s] = sdata[s] \o sock[s]
    BY <2>1, <2>2, <2>3, MoveHead
  <2>5. Prefix(sdata'[s], data)
    BY <2>1, <2>2, <2>4, PrefixOfFirstPart DEF StreamInv
  <2>6. ~bulksent[s]
    BY <2>1, <2>2 DEF LinkInv
  <2>7. ClientInv(s)' /\ LinkInv(s)'
    BY <2>1, <2>2, <2>6 DEF ClientInv, LinkInv
  <2>8. StreamInv(s)'
    BY <2>1, <2>2, <2>4, <2>5, <2>6 DEF StreamInv
  <2> QED
    BY <2>7, <2>8
<1> QED
  BY <1>1, <1>2, <1>3 DEF IInv

LEMMA LinkLostStep ==
    ASSUME IInv, TypeOK', NEW s \in Slave, LinkLost(s)
    PROVE  IInv'
<1> USE DEF TypeOK, childVars, clientVars
<1>1. ChildInv'
  BY DEF IInv, ChildInv, LinkLost
<1>2. ASSUME NEW t \in Slave, t # s
      PROVE  ClientInv(t)' /\ LinkInv(t)' /\ StreamInv(t)'
  <2>1. /\ UNCHANGED <<data, child, snap, replstate, reply, repldb, sdata, sbgsave_status>>
        /\ bulksent'[t] = bulksent[t] /\ bulk'[t] = bulk[t]
        /\ sock'[t] = sock[t] /\ repl_state'[t] = repl_state[t]
    BY <1>2 DEF LinkLost, IInv
  <2> QED
    BY <1>2, <2>1, OtherSlaves
<1>3. ClientInv(s)' /\ LinkInv(s)' /\ StreamInv(s)'
  <2>1. ClientInv(s) /\ LinkInv(s) /\ StreamInv(s)
    BY DEF IInv
  <2>2. /\ repl_state'[s] = "CONNECT" /\ ~bulksent'[s] /\ sock'[s] = <<>>
        /\ UNCHANGED <<data, child, snap, replstate, reply, repldb, sdata, sbgsave_status>>
    BY DEF LinkLost, IInv
  <2> QED
    BY <2>1, <2>2 DEF ClientInv, LinkInv, StreamInv
<1> QED
  BY <1>1, <1>2, <1>3 DEF IInv

LEMMA IInvStep ==
    ASSUME Setting, IInv, [Next]_vars
    PROVE  IInv'
<1>1. TypeOK'
  BY TypeStep DEF IInv
<1>2. ASSUME NEW d \in DB, WriteCommand(d) PROVE IInv'
  BY <1>1, <1>2, WriteStep
<1>3. CASE SaveCommand
  BY <1>1, <1>3
  DEF SaveCommand, IInv, ChildInv, ClientInv, LinkInv, StreamInv, clientVars, slaveVars
<1>4. CASE BgsaveCommand
  BY <1>1, <1>4
  DEF BgsaveCommand, rdbSaveBackground, IInv, ChildInv, ClientInv, LinkInv,
      StreamInv, clientVars, slaveVars
<1>5. CASE ChildSucceeds
  BY <1>1, <1>5
  DEF ChildSucceeds, IInv, ChildInv, ClientInv, LinkInv, StreamInv, clientVars, slaveVars
<1>6. CASE ChildFails
  BY <1>1, <1>6
  DEF ChildFails, MayFail, Setting, IInv, ChildInv, ClientInv, LinkInv, StreamInv,
      clientVars, slaveVars
<1>7. CASE backgroundSaveDoneHandler
  BY <1>1, <1>7, SaveDoneStep
<1>8. ASSUME NEW s \in Slave, SyncCommand(s) PROVE IInv'
  BY <1>1, <1>8, SyncStep
<1>9. ASSUME NEW s \in Slave, sendBulkToSlave(s) PROVE IInv'
  BY <1>1, <1>9, SendBulkStep
<1>10. ASSUME NEW s \in Slave, sendReplyToClient(s) PROVE IInv'
  BY <1>1, <1>10, SendReplyStep
<1>11. ASSUME NEW s \in Slave, FreeClient(s) PROVE IInv'
  BY <1>1, <1>11, FreeClientStep
<1>12. ASSUME NEW s \in Slave, readSyncBulkPayload(s) PROVE IInv'
  BY <1>1, <1>12, LoadStep
<1>13. ASSUME NEW s \in Slave, ProcessStream(s) PROVE IInv'
  BY <1>1, <1>13, ProcessStreamStep
<1>14. ASSUME NEW s \in Slave, LinkLost(s) PROVE IInv'
  BY <1>1, <1>14, LinkLostStep
<1>15. ASSUME NEW s \in Slave, SlaveBgsaveDone(s) PROVE IInv'
  <2>1. sbgsave_status[s] = "OK"
    BY DEF IInv, StreamInv
  <2> QED
    BY <1>15, <2>1 DEF SlaveBgsaveDone, MayFail, Setting
<1>16. CASE UNCHANGED vars
  BY <1>1, <1>16
  DEF vars, childVars, clientVars, slaveVars, IInv, ChildInv, ClientInv, LinkInv, StreamInv
<1> QED
  BY <1>2, <1>3, <1>4, <1>5, <1>6, <1>7, <1>8, <1>9, <1>10, <1>11, <1>12, <1>13,
     <1>14, <1>15, <1>16 DEF Next

THEOREM InductiveInvariant == ASSUME Setting PROVE Spec => []IInv
<1>1. Init => IInv
  BY IInvInit
<1>2. IInv /\ [Next]_vars => IInv'
  BY IInvStep
<1> QED
  BY <1>1, <1>2, PTL DEF Spec

----------------------------------------------------------------------------
(* What follows from it *)

\* With one database, and as long as no child is killed by a signal, no fork()
\* fails and no slave refuses the master's writes, a slave holds a dataset the
\* master has had, whatever connections, children and files fail.
THEOREM CopyIsPrefixAlways == ASSUME Setting PROVE Spec => []CopyIsPrefix
<1>1. IInv => CopyIsPrefix
  BY DEF IInv, StreamInv, CopyIsPrefix
<1> QED
  BY <1>1, InductiveInvariant, PTL

\* In the same setting no write is lost or repeated between the snapshot and the
\* stream of commands that follows it.
THEOREM NothingLostAlways == ASSUME Setting PROVE Spec => []NothingLostInFlight
<1>1. IInv => NothingLostInFlight
  <2> SUFFICES ASSUME IInv, NEW s \in Slave, Attached(s)
               PROVE  WillHold(s) = data
    BY DEF NothingLostInFlight
  <2>1. /\ ClientInv(s) /\ LinkInv(s) /\ StreamInv(s)
        /\ replstate[s] \in ReplState
        /\ repl_state[s] \in {"TRANSFER", "CONNECTED"}
    BY DEF IInv, TypeOK, Attached
  <2>2. CASE replstate[s] = "WAIT_BGSAVE_END"
    <3>1. WillHold(s) = snap \o reply[s]
      BY <2>2 DEF WillHold
    <3> QED
      BY <2>1, <2>2, <3>1 DEF ClientInv
  <2>3. CASE replstate[s] = "SEND_BULK"
    <3>1. WillHold(s) = repldb[s] \o reply[s]
      BY <2>3 DEF WillHold
    <3> QED
      BY <2>1, <2>3, <3>1 DEF ClientInv
  <2>4. CASE replstate[s] = "ONLINE" /\ bulksent[s]
    <3>1. WillHold(s) = (bulk[s] \o sock[s]) \o reply[s]
      BY <2>4 DEF WillHold
    <3> QED
      BY <2>1, <2>4, <3>1 DEF StreamInv
  <2>5. CASE replstate[s] = "ONLINE" /\ ~bulksent[s]
    <3>1. WillHold(s) = (sdata[s] \o sock[s]) \o reply[s]
      BY <2>5 DEF WillHold
    <3> QED
      BY <2>1, <2>5, <3>1 DEF StreamInv, LinkInv
  <2> QED
    BY <2>1, <2>2, <2>3, <2>4, <2>5 DEF Attached, Fed, ReplState
<1> QED
  BY <1>1, InductiveInvariant, PTL

----------------------------------------------------------------------------
(* Replication implements AsyncReplication *)

\* A prefix that is one longer ends in the next element.
LEMMA PrefixNext ==
    ASSUME NEW p \in Dataset, NEW e \in Command, NEW d \in Dataset,
           Prefix(Append(p, e), d)
    PROVE  Len(p) < Len(d) /\ e = d[Len(p) + 1]
<1>1. PICK r \in Dataset : d = Append(p, e) \o r
  BY PrefixRest, AppendProperties DEF Dataset
<1>2. /\ Append(p, e) \in Dataset
      /\ Len(Append(p, e)) = Len(p) + 1
      /\ Append(p, e)[Len(p) + 1] = e
      /\ Len(p) \in Nat /\ Len(r) \in Nat
  BY AppendProperties, LenProperties DEF Dataset
<1> QED
  BY <1>1, <1>2, ConcatProperties DEF Dataset

LEMMA AbstractStep ==
    ASSUME Setting, IInv, IInv', [Next]_vars
    PROVE  [Abstract!Next]_(Abstract!avars)
<1> DEFINE linked == [s \in Slave |-> repl_state[s] = "CONNECTED"]
<1> USE DEF Abstract!Next, Abstract!avars
<1>1. ASSUME NEW d \in DB, WriteCommand(d) PROVE Abstract!Write
  <2>1. data \in Dataset /\ <<d, Len(data) + 1>> \in Command
    BY LenDataset DEF IInv, TypeOK, Command
  <2>2. data' = Append(data, <<d, Len(data) + 1>>)
    BY <1>1 DEF WriteCommand
  <2>3. /\ Len(data') = Len(data) + 1
        /\ data'[Len(data) + 1] = <<d, Len(data) + 1>>
    BY <2>1, <2>2, AppendProperties DEF Dataset
  <2>4. UNCHANGED <<sdata, repl_state>>
    BY <1>1 DEF WriteCommand, slaveVars
  <2> QED
    BY <2>2, <2>3, <2>4 DEF Abstract!Write
<1>2. ASSUME NEW s \in Slave, readSyncBulkPayload(s) PROVE Abstract!Load(s)
  <2>1. /\ bulk[s] \in Dataset /\ sock[s] \in Dataset /\ data \in Dataset
        /\ Prefix(bulk[s] \o sock[s], data)
        /\ sdata \in [Slave -> Dataset]
        /\ repl_state[s] = "TRANSFER"
        /\ repl_state \in [Slave -> {"CONNECT", "TRANSFER", "CONNECTED"}]
    BY <1>2 DEF IInv, TypeOK, StreamInv, readSyncBulkPayload
  <2>2. Prefix(bulk[s], data)
    BY <2>1, PrefixOfFirstPart
  <2>3. Len(bulk[s]) \in 0..Len(data) /\ bulk[s] = SubSeq(data, 1, Len(bulk[s]))
    BY <2>1, <2>2, LenDataset DEF Prefix
  <2>4. /\ sdata' = [sdata EXCEPT ![s] = bulk[s]]
        /\ repl_state' = [repl_state EXCEPT ![s] = "CONNECTED"]
        /\ UNCHANGED data
    BY <1>2 DEF readSyncBulkPayload, LoadedDataset
  <2>5. linked' = [linked EXCEPT ![s] = TRUE] /\ ~linked[s]
    BY <2>1, <2>4
  <2> QED
    BY <2>3, <2>4, <2>5 DEF Abstract!Load
<1>3. ASSUME NEW s \in Slave, ProcessStream(s) PROVE Abstract!Apply(s)
  <2>1. /\ sdata[s] \in Dataset /\ sock[s] \in Dataset /\ data \in Dataset
        /\ sdata \in [Slave -> Dataset]
        /\ sbgsave_status[s] = "OK"
        /\ repl_state[s] = "CONNECTED" /\ sock[s] # <<>>
    BY <1>3 DEF IInv, TypeOK, StreamInv, ProcessStream
  <2>2. /\ sdata' = [sdata EXCEPT ![s] = Append(sdata[s], Head(sock[s]))]
        /\ UNCHANGED <<data, repl_state>>
    BY <1>3, <2>1 DEF ProcessStream
  <2>3. Head(sock[s]) \in Command
    BY <2>1, HeadTailDataset
  <2>4. Prefix(Append(sdata[s], Head(sock[s])), data)
    BY <2>1, <2>2 DEF IInv, StreamInv
  <2>5. Len(sdata[s]) < Len(data) /\ Head(sock[s]) = data[Len(sdata[s]) + 1]
    BY <2>1, <2>3, <2>4, PrefixNext
  <2>6. linked' = linked /\ linked[s]
    BY <2>1, <2>2
  <2> QED
    BY <2>2, <2>5, <2>6 DEF Abstract!Apply
<1>4. ASSUME NEW s \in Slave, LinkLost(s)
      PROVE  Abstract!Unlink(s) \/ UNCHANGED Abstract!avars
  <2>1. /\ repl_state' = [repl_state EXCEPT ![s] = "CONNECT"]
        /\ UNCHANGED <<data, sdata>>
        /\ repl_state \in [Slave -> {"CONNECT", "TRANSFER", "CONNECTED"}]
    BY <1>4 DEF LinkLost, IInv, TypeOK
  <2>2. linked' = [linked EXCEPT ![s] = FALSE]
    BY <2>1
  <2>3. CASE linked[s]
    BY <2>1, <2>2, <2>3 DEF Abstract!Unlink
  <2>4. CASE ~linked[s]
    BY <2>1, <2>2, <2>4
  <2> QED
    BY <2>3, <2>4
<1>5. ASSUME NEW s \in Slave, SyncCommand(s) PROVE UNCHANGED Abstract!avars
  <2>1. /\ repl_state' = [repl_state EXCEPT ![s] = "TRANSFER"]
        /\ repl_state[s] = "CONNECT"
        /\ UNCHANGED <<data, sdata>>
        /\ repl_state \in [Slave -> {"CONNECT", "TRANSFER", "CONNECTED"}]
    BY <1>5 DEF SyncCommand, IInv, TypeOK
  <2>2. linked' = linked
    BY <2>1
  <2> QED
    BY <2>1, <2>2
<1>6. ASSUME UNCHANGED <<data, sdata, repl_state>> PROVE UNCHANGED Abstract!avars
  BY <1>6
<1> QED
  BY <1>1, <1>2, <1>3, <1>4, <1>5, <1>6
  DEF Next, vars, slaveVars, SaveCommand, BgsaveCommand, ChildSucceeds, ChildFails,
      backgroundSaveDoneHandler, sendBulkToSlave, sendReplyToClient, FreeClient,
      SlaveBgsaveDone

\* In the same setting every behaviour of Replication is one of
\* AsyncReplication: slaves execute the master's commands in order, each once,
\* and start over only when a link comes up.
THEOREM Refinement == ASSUME Setting PROVE Spec => ImplementsAsyncReplication
<1>1. Init => Abstract!Init
  BY DEF Init, Abstract!Init
<1>2. IInv /\ IInv' /\ [Next]_vars => [Abstract!Next]_(Abstract!avars)
  BY AbstractStep
<1> QED
  BY <1>1, <1>2, InductiveInvariant, PTL
  DEF Spec, ImplementsAsyncReplication, Abstract!Spec
=============================================================================
