----------------------------- MODULE WorkProofs -----------------------------
(***************************************************************************)
(* What runs beside the server, proved for any values of the constants:    *)
(* the bio threads, the forked process and the operations of Windows; and  *)
(* the hash table and the sets of integers, on which the server's data     *)
(* rest.                                                                   *)
(***************************************************************************)
EXTENDS Server, Dict, IntSet, SequenceLemmas

----------------------------------------------------------------------------
(* The bio threads.                                                        *)

BioJob  == [id : Nat, fd : Descriptor, file : Nat]
BioCall == [type : JobType, fd : Descriptor, file : Nat]
ThreadStates == {"locks", "loop", "asleep", "woken", "works", "worked"}

BioTypes ==
    /\ bio_jobs \in [JobType -> Seq(BioJob)]
    /\ bio_pending \in [JobType -> Nat] /\ created \in [JobType -> Nat] /\ worked \in [JobType -> Nat]
    /\ waiters \in [JobType -> Nat] /\ sema \in [JobType -> Nat]
    /\ thread \in [JobType -> ThreadStates]
    /\ creates \in {"locks", "signals", "releases", "unlocks"}
    /\ creating \in Seq(BioCall) /\ Len(creating) <= 2
    /\ Len(creating) = 2 => creating[1].type = "AOF_FSYNC"
    /\ creating = <<>> => creates = "locks"
    /\ fds \in [Descriptor -> Nat] /\ aof \in Descriptor \cup {NoFile} /\ opens \in Nat

(* The jobs of the list that were executed already: the first one, until   *)
(* the thread deletes it.                                                  *)
Executed(t) == IF thread[t] = "worked" THEN 1 ELSE 0

(* The queue of a type, and the wakeup of its thread.                      *)
QueueInv(t) ==
    /\ thread[t] \in {"works", "worked"} => bio_jobs[t] # <<>>
    /\ bio_pending[t] = Len(bio_jobs[t])
    /\ created[t] + Executed(t) = worked[t] + Len(bio_jobs[t])
    /\ \A i \in 1 .. Len(bio_jobs[t]) : bio_jobs[t][i].id + Executed(t) = worked[t] + i
    /\ waiters[t] = IF thread[t] \in {"asleep", "woken"} THEN 1 ELSE 0
    /\ (thread[t] = "asleep" /\ bio_jobs[t] # <<>>)
         => sema[t] > 0 \/ Creating(t, "signals") \/ Creating(t, "releases")

(* The descriptors that have to be closed: those of the queue, and the one *)
(* of a job that is not on it yet.                                         *)
Listed == Executed("CLOSE_FILE") + 1 .. Len(bio_jobs["CLOSE_FILE"])
ToCome == {k \in 1 .. Len(creating) : creating[k].type = "CLOSE_FILE" /\ (k > 1 \/ creates = "locks")}

(* L: the positions on the queue q; K: those of the calls c; f, a: the     *)
(* descriptors and that of the append only file.                           *)
Closing(L, q, K, c, f, a) ==
    /\ \A i \in L : f[q[i].fd] = q[i].file /\ q[i].file # NoFile /\ q[i].fd # a
    /\ \A i, j \in L : q[i].fd = q[j].fd => i = j
    /\ \A k \in K : /\ f[c[k].fd] = c[k].file /\ c[k].file # NoFile /\ c[k].fd # a
                    /\ \A i \in L : q[i].fd # c[k].fd
    /\ \A k, l \in K : k = l
    /\ \A d \in Descriptor : f[d] # NoFile =>
          d = a \/ (\E i \in L : q[i].fd = d) \/ (\E k \in K : c[k].fd = d)
    /\ a # NoFile => f[a] # NoFile

ClosingInv == Closing(Listed, bio_jobs["CLOSE_FILE"], ToCome, creating, fds, aof)

BioInv == BioTypes /\ (\A t \in JobType : QueueInv(t)) /\ ClosingInv

LEMMA BioStarts == ASSUME BioInit PROVE BioInv
<1>1. BioTypes
  <2>1. <<>> \in Seq(BioJob) /\ <<>> \in Seq(BioCall) /\ Len(<<>>) = 0
    OBVIOUS
  <2> QED
    BY <2>1 DEF BioInit, BioTypes, ThreadStates, NoFile
<1>2. \A t \in JobType : QueueInv(t)
  BY DEF BioInit, QueueInv, Executed
<1>3. ClosingInv
  <2>1. /\ bio_jobs["CLOSE_FILE"] = <<>> /\ creating = <<>> /\ aof = NoFile
        /\ \A d \in Descriptor : fds[d] = NoFile
    BY DEF BioInit, JobType
  <2>2. Listed = {} /\ ToCome = {}
    <3>1. thread["CLOSE_FILE"] = "locks"
      BY DEF BioInit, JobType
    <3> QED
      BY <2>1, <3>1 DEF Listed, ToCome, Executed
  <2> QED
    BY <2>1, <2>2 DEF ClosingInv, Closing
<1> QED
  BY <1>1, <1>2, <1>3 DEF BioInv

\* The jobs on the list.
LEMMA ListedJobs ==
    ASSUME BioTypes
    PROVE  /\ bio_jobs["CLOSE_FILE"] \in Seq(BioJob)
           /\ \A i \in Listed : /\ i \in 1 .. Len(bio_jobs["CLOSE_FILE"])
                                  /\ bio_jobs["CLOSE_FILE"][i] \in BioJob
                                  /\ bio_jobs["CLOSE_FILE"][i].fd \in Descriptor
<1> DEFINE q == bio_jobs["CLOSE_FILE"]
<1>1. q \in Seq(BioJob) /\ Len(q) \in Nat
  BY DEF BioTypes, JobType
<1>2. \A i \in Listed : i \in 1 .. Len(q)
  BY <1>1 DEF Listed, Executed
<1>3. \A i \in 1 .. Len(q) : q[i] \in BioJob
  BY <1>1
<1> QED
  BY <1>1, <1>2, <1>3 DEF BioJob

\* The lowest free descriptor.
LEMMA LowestIsFree ==
    ASSUME BioTypes, FreeFds # {} \/ Cardinality(FreeFds) > 1
    PROVE  Lowest \in Descriptor /\ fds[Lowest] = NoFile
<1>1. FreeFds # {}
  BY FS_EmptySet
<1>2. FreeFds \subseteq Nat
  BY BioAssumption DEF FreeFds
<1>3. \E d \in FreeFds : \A e \in FreeFds : d <= e
  BY <1>1, <1>2, MinOfNaturals
<1>4. Lowest \in FreeFds
  BY <1>3 DEF Lowest
<1> QED
  BY <1>4 DEF FreeFds

\* What the main thread does while it has no job to create.
LEMMA MainSteps ==
    ASSUME BioInv, EverySecond \/ RewriteDone \/ stopAppendOnly \/ startAppendOnly
    PROVE  BioInv'
<1> USE DEF BioInv
<1>1. Unoccupied /\ creates = "locks" /\ UNCHANGED <<queueVars, thread, creates, worked>>
  BY DEF EverySecond, RewriteDone, stopAppendOnly, startAppendOnly, BioTypes, Unoccupied
<1>2. \A t \in JobType : QueueInv(t)'
  BY <1>1 DEF QueueInv, Creating, queueVars, Executed, Unoccupied
<1>3. Listed' = Listed
  BY <1>1 DEF Listed, Executed, queueVars
<1>4. ToCome = {}
  BY <1>1 DEF ToCome, Unoccupied
<1>5. NoFile \notin Descriptor /\ Descriptor \subseteq Nat /\ NoFile \in Nat
  BY BioAssumption DEF NoFile
<1>6. CASE EverySecond
  <2> DEFINE j == Job("AOF_FSYNC", aof, fds)
  <2>1. j \in BioCall /\ j.type = "AOF_FSYNC"
    BY <1>6 DEF EverySecond, BioTypes, Job, BioCall, JobType
  <2>2. creating' = <<j>> /\ UNCHANGED <<fds, aof, opens>>
    BY <1>6 DEF EverySecond
  <2> HIDE DEF j
  <2>3. BioTypes'
    BY <1>1, <2>1, <2>2 DEF BioTypes, queueVars
  <2>4. ToCome' = {}
    BY <2>1, <2>2 DEF ToCome
  <2>5. ClosingInv'
    BY <1>1, <1>3, <1>4, <2>2, <2>4 DEF ClosingInv, Closing, queueVars
  <2> QED
    BY <1>2, <2>3, <2>5
<1>7. CASE stopAppendOnly
  <2>1. creating' = creating /\ aof # NoFile /\ fds' = [fds EXCEPT ![aof] = NoFile] /\ aof' = NoFile /\ UNCHANGED opens
    BY <1>7 DEF stopAppendOnly
  <2>2. BioTypes'
    BY <1>1, <1>5, <2>1 DEF BioTypes, queueVars
  <2>3. ToCome' = {}
    BY <1>1, <1>4, <2>1 DEF ToCome
  <2>4. \A i \in Listed : bio_jobs["CLOSE_FILE"][i].fd \in Descriptor
    BY ListedJobs
  <2>5. ClosingInv'
    <3>1. /\ \A d \in Descriptor : d # aof => fds'[d] = fds[d]
          /\ aof \in Descriptor /\ fds'[aof] = NoFile
      BY <1>5, <2>1 DEF BioTypes
    <3> QED
      BY <1>1, <1>3, <1>4, <1>5, <2>1, <2>3, <2>4, <3>1 DEF ClosingInv, Closing, queueVars
  <2> QED
    BY <1>2, <2>2, <2>5
<1>8. ASSUME FreeFds # {} \/ Cardinality(FreeFds) > 1, opens' = opens + 1, fds' = [fds EXCEPT ![Lowest] = opens + 1]
      PROVE  /\ Lowest \in Descriptor /\ fds[Lowest] = NoFile /\ Lowest # NoFile /\ Lowest # aof
             /\ fds' \in [Descriptor -> Nat] /\ opens' \in Nat
             /\ fds'[Lowest] # NoFile /\ \A d \in Descriptor : d # Lowest => fds'[d] = fds[d]
             /\ \A i \in Listed : /\ bio_jobs["CLOSE_FILE"][i].fd \in Descriptor
                                    /\ bio_jobs["CLOSE_FILE"][i].fd # Lowest
  <2>1. Lowest \in Descriptor /\ fds[Lowest] = NoFile
    BY <1>8, LowestIsFree
  <2>2. opens + 1 \in Nat /\ opens + 1 # NoFile
    BY DEF BioTypes, NoFile
  <2>3. Lowest # aof /\ Lowest # NoFile
    BY <1>5, <2>1 DEF ClosingInv, Closing
  <2>4. \A i \in Listed : bio_jobs["CLOSE_FILE"][i].fd \in Descriptor
    BY ListedJobs
  <2>5. \A i \in Listed : bio_jobs["CLOSE_FILE"][i].fd # Lowest
    BY <2>1 DEF ClosingInv, Closing
  <2>6. fds \in [Descriptor -> Nat]
    BY DEF BioTypes
  <2> HIDE DEF BioInv
  <2> QED
    BY <1>8, <2>1, <2>2, <2>3, <2>4, <2>5, <2>6
<1>9. CASE startAppendOnly
  <2>1. /\ FreeFds # {} /\ opens' = opens + 1 /\ fds' = [fds EXCEPT ![Lowest] = opens + 1]
        /\ aof = NoFile /\ aof' = Lowest /\ creating' = creating
    BY <1>9 DEF startAppendOnly
  <2>2. BioTypes'
    BY <1>1, <1>8, <2>1 DEF BioTypes, queueVars
  <2>3. ToCome' = {}
    BY <1>1, <1>4, <2>1 DEF ToCome
  <2>4. ClosingInv'
    BY <1>1, <1>3, <1>4, <1>5, <1>8, <2>1, <2>3 DEF ClosingInv, Closing, queueVars
  <2> QED
    BY <1>2, <2>2, <2>4
<1>10. CASE RewriteDone
  <2>1. /\ Cardinality(FreeFds) > 1 /\ opens' = opens + 1 /\ fds' = [fds EXCEPT ![Lowest] = opens + 1]
    BY <1>10 DEF RewriteDone
  <2>2. CASE aof # NoFile
    <3> DEFINE j == Job("AOF_FSYNC", Lowest, fds')
               c == Job("CLOSE_FILE", aof, fds)
    <3>1. aof' = Lowest /\ creating' = <<j, c>>
      BY <1>10, <2>2 DEF RewriteDone
    <3>2. j \in BioCall /\ j.type = "AOF_FSYNC"
      BY <1>8, <2>1 DEF Job, BioCall, JobType
    <3>3. c \in BioCall /\ c.type = "CLOSE_FILE" /\ c.fd = aof /\ c.file = fds[aof]
      BY <2>2 DEF Job, BioCall, JobType, BioTypes
    <3> HIDE DEF j, c
    <3>4. BioTypes'
      BY <1>1, <1>8, <2>1, <3>1, <3>2, <3>3 DEF BioTypes, queueVars
    <3>5. ToCome' = {2}
      BY <1>1, <3>1, <3>2, <3>3 DEF ToCome
    <3>6. creating'[2] = c /\ aof \in Descriptor /\ fds[aof] # NoFile
      BY <2>2, <3>1 DEF BioTypes, ClosingInv, Closing
    <3>7. ClosingInv'
      BY <1>1, <1>3, <1>4, <1>5, <1>8, <2>1, <3>1, <3>3, <3>5, <3>6 DEF ClosingInv, Closing, queueVars
    <3> QED
      BY <1>2, <3>4, <3>7
  <2>3. CASE aof = NoFile
    <3> DEFINE c == Job("CLOSE_FILE", Lowest, fds')
    <3>1. aof' = aof /\ creating' = <<c>>
      BY <1>10, <2>3 DEF RewriteDone
    <3>2. c \in BioCall /\ c.type = "CLOSE_FILE" /\ c.fd = Lowest /\ c.file = fds'[Lowest]
      BY <1>8, <2>1 DEF Job, BioCall, JobType
    <3> HIDE DEF c
    <3>3. BioTypes'
      BY <1>1, <1>8, <2>1, <2>3, <3>1, <3>2 DEF BioTypes, queueVars
    <3>4. ToCome' = {1}
      BY <1>1, <3>1, <3>2 DEF ToCome
    <3>5. creating'[1] = c
      BY <3>1
    <3>6. ClosingInv'
      BY <1>1, <1>3, <1>4, <1>5, <1>8, <2>1, <2>3, <3>1, <3>2, <3>4, <3>5 DEF ClosingInv, Closing, queueVars
    <3> QED
      BY <1>2, <3>3, <3>6
  <2> QED
    BY <2>2, <2>3
<1> QED
  BY <1>6, <1>7, <1>9, <1>10

\* What bioCreateBackgroundJob does with the job at the head of the calls.
LEMMA CallFacts ==
    ASSUME BioTypes, NEW t \in JobType, NEW ph, Creating(t, ph)
    PROVE  /\ creating # <<>> /\ creates = ph
           /\ Len(creating) \in 1 .. 2 /\ Head(creating) = creating[1] /\ creating[1].type = t
           /\ Head(creating).fd \in Descriptor /\ Head(creating).file \in Nat
           /\ Tail(creating) \in Seq(BioCall) /\ Len(Tail(creating)) = Len(creating) - 1
           /\ \A i \in 1 .. Len(creating) - 1 : Tail(creating)[i] = creating[i + 1]
<1>1. creating \in Seq(BioCall) /\ creating # <<>> /\ creates = ph /\ Head(creating).type = t /\ Len(creating) <= 2
  BY DEF BioTypes, Creating, Unoccupied
<1>2. /\ Tail(creating) \in Seq(BioCall)
      /\ Len(Tail(creating)) = Len(creating) - 1
      /\ \A i \in 1 .. Len(creating) - 1 : Tail(creating)[i] = creating[i + 1]
      /\ Head(creating) \in BioCall /\ Head(creating) = creating[1]
      /\ Len(creating) \in Nat /\ Len(creating) > 0
  BY <1>1, PopHeadSequence
<1> QED
  BY <1>1, <1>2 DEF BioCall

\* A job with the next number at the end of a queue.
LEMMA NumberedInOrder ==
    ASSUME NEW m \in Nat, NEW e \in Nat, NEW c \in Nat, NEW w \in Nat, c + e = w + m,
           NEW q, NEW r, \A i \in 1 .. m : q[i].id + e = w + i,
           \A i \in 1 .. m : r[i] = q[i], r[m + 1].id = c + 1
    PROVE  \A i \in 1 .. m + 1 : r[i].id + e = w + i
<1> TAKE i \in 1 .. m + 1
<1>1. CASE i = m + 1
  <2>1. r[i].id = c + 1
    BY <1>1
  <2>2. (c + 1) + e = w + i
    BY <1>1
  <2> QED
    BY <2>1, <2>2
<1>2. CASE i \in 1 .. m
  BY <1>2
<1> QED
  BY <1>1, <1>2

LEMMA CreateLocksStep ==
    ASSUME BioInv, NEW t \in JobType, CreateLocks(t)
    PROVE  BioInv'
<1> USE DEF BioInv
<1> DEFINE j == [id |-> created[t] + 1, fd |-> Head(creating).fd, file |-> Head(creating).file]
<1>1. /\ Creating(t, "locks") /\ creates' = "signals"
      /\ bio_jobs' = [bio_jobs EXCEPT ![t] = Append(bio_jobs[t], j)]
      /\ bio_pending' = [bio_pending EXCEPT ![t] = @ + 1] /\ created' = [created EXCEPT ![t] = @ + 1]
      /\ UNCHANGED <<waiters, sema, thread, creating, fds, aof, opens, worked>>
  BY DEF CreateLocks
<1>2. /\ creating # <<>> /\ creates = "locks" /\ Len(creating) \in 1 .. 2
      /\ Head(creating) = creating[1] /\ creating[1].type = t
      /\ Head(creating).fd \in Descriptor /\ Head(creating).file \in Nat
  BY <1>1, CallFacts
<1>3. j \in BioJob /\ j.id = created[t] + 1 /\ j.fd = creating[1].fd /\ j.file = creating[1].file
  <2>1. created[t] + 1 \in Nat
    BY DEF BioTypes
  <2> QED
    BY <1>2, <2>1 DEF BioJob
<1> HIDE DEF j
<1>4. \A u \in JobType : bio_jobs[u] \in Seq(BioJob) /\ Len(bio_jobs[u]) \in Nat
  BY DEF BioTypes
<1>5. /\ bio_jobs'[t] = Append(bio_jobs[t], j)
      /\ \A u \in JobType : u # t => bio_jobs'[u] = bio_jobs[u]
  BY <1>1 DEF BioTypes
<1>6. /\ bio_jobs'[t] \in Seq(BioJob) /\ bio_jobs'[t] # <<>>
      /\ Len(bio_jobs'[t]) = Len(bio_jobs[t]) + 1 /\ bio_jobs'[t][Len(bio_jobs[t]) + 1] = j
      /\ \A i \in 1 .. Len(bio_jobs[t]) : bio_jobs'[t][i] = bio_jobs[t][i]
  BY <1>3, <1>4, <1>5, PushTailSequence
<1>7. BioTypes'
  <2>1. bio_jobs' \in [JobType -> Seq(BioJob)]
    BY <1>1, <1>3, <1>4, <1>6 DEF BioTypes
  <2>2. bio_pending' \in [JobType -> Nat] /\ created' \in [JobType -> Nat]
    BY <1>1 DEF BioTypes
  <2> QED
    BY <1>1, <1>2, <2>1, <2>2 DEF BioTypes
<1>8. ASSUME NEW u \in JobType PROVE QueueInv(u)'
  <2>1. CASE u = t
    <3>1. /\ bio_pending'[t] = bio_pending[t] + 1 /\ created'[t] = created[t] + 1
          /\ created[t] \in Nat /\ worked[t] \in Nat /\ Executed(t) \in Nat /\ Executed(t)' = Executed(t)
          /\ QueueInv(t)
      BY <1>1 DEF BioTypes, Executed
    <3>2. Creating(t, "signals")'
      BY <1>1, <1>2 DEF Creating, Unoccupied
    <3>3. \A i \in 1 .. Len(bio_jobs'[t]) : bio_jobs'[t][i].id + Executed(t) = worked[t] + i
      <4> DEFINE m == Len(bio_jobs[t])
                 e == Executed(t)
      <4>1. /\ m \in Nat /\ e \in Nat /\ created[t] \in Nat /\ worked[t] \in Nat
            /\ created[t] + e = worked[t] + m
            /\ \A i \in 1 .. m : bio_jobs[t][i].id + e = worked[t] + i
        BY <1>4, <3>1 DEF QueueInv
      <4>2. /\ Len(bio_jobs'[t]) = m + 1 /\ bio_jobs'[t][m + 1].id = created[t] + 1
            /\ \A i \in 1 .. m : bio_jobs'[t][i] = bio_jobs[t][i]
        BY <1>3, <1>6
      <4> DEFINE q == bio_jobs[t]
                 r == bio_jobs'[t]
      <4>3. \A i \in 1 .. m + 1 : r[i].id + e = worked[t] + i
        <5> HIDE DEF m, e
        <5>1. /\ \A i \in 1 .. m : q[i].id + e = worked[t] + i
              /\ \A i \in 1 .. m : r[i] = q[i]
              /\ r[m + 1].id = created[t] + 1
          BY <4>1, <4>2
        <5> HIDE DEF q, r
        <5>2. created[t] + e = worked[t] + m
          BY <4>1
        <5>3. m \in Nat /\ e \in Nat /\ created[t] \in Nat /\ worked[t] \in Nat
          BY <4>1
        <5>4. \A i \in 1 .. m : r[i].id + e = worked[t] + i
          BY <5>1
        <5>5. r[m+1].id + e = worked[t] + (m + 1)
          BY <5>1, <5>2, <5>3
        <5>6. \A i : i \in 1 .. m + 1 <=> i \in 1 .. m \/ i = m + 1
          BY <5>3
        <5> HIDE DEF BioInv
        <5> QED
          BY <5>4, <5>5, <5>6
      <4> QED
        BY <4>2, <4>3
    <3>4. created'[t] + Executed(t) = worked[t] + Len(bio_jobs'[t])
      <4>1. created[t] + Executed(t) = worked[t] + Len(bio_jobs[t])
        BY <3>1 DEF QueueInv
      <4>2. Len(bio_jobs'[t]) = Len(bio_jobs[t]) + 1 /\ Len(bio_jobs[t]) \in Nat
        BY <1>4, <1>6
      <4>3. created'[t] = created[t] + 1 /\ created[t] \in Nat /\ worked[t] \in Nat /\ Executed(t) \in Nat
        BY <3>1
      <4> HIDE DEF BioInv
      <4> QED
        BY <4>1, <4>2, <4>3, SMTT(60)
    <3>5. bio_pending'[t] = Len(bio_jobs'[t])
      BY <1>4, <1>6, <3>1 DEF QueueInv
    <3>6. waiters[t] = IF thread[t] \in {"asleep", "woken"} THEN 1 ELSE 0
      BY <3>1 DEF QueueInv
    <3> QED
      BY <1>1, <1>6, <2>1, <3>1, <3>2, <3>3, <3>4, <3>5, <3>6 DEF QueueInv
  <2>2. CASE u # t
    <3>1. QueueInv(u) /\ bio_pending'[u] = bio_pending[u] /\ created'[u] = created[u] /\ bio_jobs'[u] = bio_jobs[u]
      BY <1>1, <1>5, <2>2 DEF BioTypes
    <3>2. ~Creating(u, "signals") /\ ~Creating(u, "releases")
      BY <1>2 DEF Creating
    <3> QED
      BY <1>1, <3>1, <3>2 DEF QueueInv, Executed
  <2> QED
    BY <2>1, <2>2
<1>9. ClosingInv'
  <2>1. CASE t = "AOF_FSYNC"
    <3>1. bio_jobs'["CLOSE_FILE"] = bio_jobs["CLOSE_FILE"]
      BY <1>5, <2>1 DEF JobType
    <3>2. Listed' = Listed
      BY <1>1, <3>1 DEF Listed, Executed
    <3>3. ToCome' = ToCome
      BY <1>1, <1>2, <2>1 DEF ToCome
    <3> QED
      BY <1>1, <3>1, <3>2, <3>3 DEF ClosingInv
  <2>2. CASE t = "CLOSE_FILE"
    <3> DEFINE n == Len(bio_jobs[t]) + 1
    <3>1. Len(creating) = 1
      BY <1>2, <2>2 DEF BioTypes
    <3>2. ToCome' = {}
      BY <1>1, <3>1 DEF ToCome
    <3>3. ToCome = {1}
      BY <1>2, <2>2, <3>1 DEF ToCome
    <3>4. QueueInv(t)
      OBVIOUS
    <3>5. Listed' = Listed \cup {n}
      <4>1. Executed(t)' = Executed(t) /\ Executed(t) + 1 <= n /\ Executed(t) \in Nat
        <5>1. CASE thread[t] = "worked"
          <6>1. bio_jobs[t] # <<>>
            BY <3>4, <5>1 DEF QueueInv
          <6>2. Len(bio_jobs[t]) > 0
            BY <1>4, <6>1
          <6> QED
            BY <1>1, <1>4, <5>1, <6>2 DEF Executed
        <5>2. CASE thread[t] # "worked"
          BY <1>1, <1>4, <5>2 DEF Executed
        <5> QED
          BY <5>1, <5>2
      <4>2. Listed = Executed(t) + 1 .. Len(bio_jobs[t])
        BY <2>2 DEF Listed
      <4>3. Listed' = Executed(t) + 1 .. Len(bio_jobs[t]) + 1
        BY <1>6, <2>2, <4>1 DEF Listed
      <4> QED
        BY <1>4, <4>1, <4>2, <4>3
    <3>6. \A i \in Listed : bio_jobs'[t][i] = bio_jobs[t][i] /\ i # n
      BY <1>4, <1>6, <2>2, ListedJobs
    <3>7. bio_jobs'[t][n] = j
      BY <1>6
    <3>8. Closing(Listed, bio_jobs[t], {1}, creating, fds, aof)
      BY <2>2, <3>3 DEF ClosingInv
    <3> HIDE DEF n
    <3> DEFINE q == bio_jobs[t]
               r == bio_jobs'[t]
               L == Listed
    <3>9. /\ \A i \in L : r[i] = q[i] /\ i # n
          /\ r[n].fd = creating[1].fd /\ r[n].file = creating[1].file
      BY <1>3, <3>6, <3>7
    <3>10. Closing(L \cup {n}, r, {}, creating, fds, aof)
      <4> HIDE DEF q, r, L
      <4> QED
        BY <3>8, <3>9 DEF Closing, q, L
    <3> QED
      BY <1>1, <2>2, <3>2, <3>5, <3>10 DEF ClosingInv
  <2> QED
    BY <2>1, <2>2 DEF JobType
<1> QED
  BY <1>7, <1>8, <1>9

\* Steps that leave the jobs and the descriptors as they are.
LEMMA JobsRest ==
    ASSUME BioInv, UNCHANGED <<bio_jobs, bio_pending, created, worked, fds, aof, opens>>,
           BioTypes', ToCome' = ToCome, \A u \in JobType : Executed(u)' = Executed(u),
           ToCome # {} => creating' = creating \/ \A k \in ToCome : creating'[k] = creating[k],
           NEW t \in JobType,
           \A u \in JobType : u # t =>
               /\ waiters'[u] = waiters[u] /\ thread'[u] = thread[u] /\ sema'[u] = sema[u]
               /\ Creating(u, "signals") \/ Creating(u, "releases") =>
                    Creating(u, "signals")' \/ Creating(u, "releases")',
           QueueInv(t) => /\ waiters'[t] = IF thread'[t] \in {"asleep", "woken"} THEN 1 ELSE 0
                          /\ thread'[t] \in {"works", "worked"} => bio_jobs[t] # <<>>
                          /\ (thread'[t] = "asleep" /\ bio_jobs[t] # <<>>)
                               => sema'[t] > 0 \/ Creating(t, "signals")' \/ Creating(t, "releases")'
    PROVE  BioInv'
<1>1. \A u \in JobType : QueueInv(u)'
  <2>1. ASSUME NEW u \in JobType, u # t PROVE QueueInv(u)'
    <3>1. QueueInv(u) /\ Executed(u)' = Executed(u)
      BY DEF BioInv
    <3> QED
      BY <2>1, <3>1 DEF QueueInv
  <2>2. QueueInv(t)'
    <3>1. QueueInv(t) /\ Executed(t)' = Executed(t)
      BY DEF BioInv
    <3> QED
      BY <3>1 DEF QueueInv
  <2> QED
    BY <2>1, <2>2
<1>2. ClosingInv'
  <2>1. Listed' = Listed
    BY DEF Listed, JobType
  <2> QED
    BY <2>1 DEF BioInv, ClosingInv, Closing
<1> QED
  BY <1>1, <1>2 DEF BioInv

LEMMA SignalSteps ==
    ASSUME BioInv, NEW t \in JobType, SignalTests(t) \/ SignalReleases(t)
    PROVE  BioInv'
<1>0. BioTypes /\ QueueInv(t)
  BY DEF BioInv
<1>1. /\ UNCHANGED <<bio_jobs, bio_pending, created, worked, fds, aof, opens, waiters, thread, creating>>
      /\ \A u \in JobType : Executed(u)' = Executed(u)
  BY DEF SignalTests, SignalReleases, queueVars, Executed
<1>2. Creating(t, "signals") \/ Creating(t, "releases")
  BY DEF SignalTests, SignalReleases
<1>3. /\ creating # <<>> /\ creates # "locks" /\ creates' \in {"releases", "unlocks"}
      /\ Head(creating).type = t
  BY <1>2 DEF SignalTests, SignalReleases, Creating, Unoccupied
<1>4. BioTypes'
  <2>1. sema' \in [JobType -> Nat]
    <3>1. sema' = sema \/ sema' = [sema EXCEPT ![t] = sema[t] + 1]
      BY DEF SignalTests, SignalReleases, queueVars
    <3>2. sema \in [JobType -> Nat] /\ sema[t] + 1 \in Nat
      BY <1>0 DEF BioTypes
    <3> QED
      BY <3>1, <3>2
  <2> QED
    BY <1>0, <1>1, <1>3, <2>1 DEF BioTypes
<1>5. ToCome' = ToCome
  BY <1>1, <1>3 DEF ToCome
<1>6. ASSUME NEW u \in JobType, u # t
      PROVE  sema'[u] = sema[u] /\ ~Creating(u, "signals") /\ ~Creating(u, "releases")
  BY <1>0, <1>3, <1>6 DEF SignalTests, SignalReleases, queueVars, BioTypes, Creating
<1>7. ASSUME thread[t] = "asleep", bio_jobs[t] # <<>>
      PROVE  sema'[t] > 0 \/ Creating(t, "releases")'
  <2>1. CASE SignalTests(t)
    <3>1. waiters[t] = 1
      BY <1>0, <1>7 DEF QueueInv
    <3>2. creates' = "releases"
      BY <2>1, <3>1 DEF SignalTests, HaveWaiters
    <3> QED
      BY <1>1, <1>3, <3>2 DEF Creating, Unoccupied
  <2>2. CASE SignalReleases(t)
    BY <1>0, <2>2 DEF SignalReleases, BioTypes
  <2> QED
    BY <2>1, <2>2
<1>8. QueueInv(t) => /\ waiters'[t] = IF thread'[t] \in {"asleep", "woken"} THEN 1 ELSE 0
                     /\ thread'[t] \in {"works", "worked"} => bio_jobs[t] # <<>>
  BY <1>1 DEF QueueInv
<1> QED
  BY <1>1, <1>4, <1>5, <1>6, <1>7, <1>8, JobsRest

LEMMA CreateUnlocksStep ==
    ASSUME BioInv, NEW t \in JobType, CreateUnlocks(t)
    PROVE  BioInv'
<1>0. BioTypes /\ QueueInv(t)
  BY DEF BioInv
<1>1. /\ Creating(t, "unlocks") /\ creating' = Tail(creating) /\ creates' = "locks"
      /\ UNCHANGED <<bio_jobs, bio_pending, waiters, sema, created, thread, fds, aof, opens, worked>>
  BY DEF CreateUnlocks
<1>2. /\ creating # <<>> /\ creates = "unlocks"
      /\ Len(creating) \in 1 .. 2 /\ creating[1].type = t
      /\ Tail(creating) \in Seq(BioCall) /\ Len(Tail(creating)) = Len(creating) - 1
      /\ \A i \in 1 .. Len(creating) - 1 : Tail(creating)[i] = creating[i + 1]
  BY <1>0, <1>1, CallFacts
<1>3. BioTypes'
  <2>1. Len(creating') \in 0 .. 1 /\ creating' \in Seq(BioCall)
    <3>1. Len(creating) \in 1 .. 2 /\ Len(Tail(creating)) = Len(creating) - 1
      BY <1>2
    <3>2. creating' = Tail(creating) /\ Tail(creating) \in Seq(BioCall)
      BY <1>1, <1>2
    <3> QED
      BY <3>1, <3>2
  <2>2. Len(creating') <= 2 /\ Len(creating') # 2
    <3> DEFINE m == Len(creating')
    <3>1. m \in 0 .. 1
      BY <2>1
    <3> HIDE DEF m
    <3>2. m <= 2 /\ m # 2
      BY <3>1
    <3> QED
      BY <3>2 DEF m
  <2> QED
    BY <1>0, <1>1, <2>1, <2>2 DEF BioTypes
<1>4. \A u \in JobType : QueueInv(u)'
  <2> SUFFICES ASSUME NEW u \in JobType PROVE QueueInv(u)'
    OBVIOUS
  <2>1. QueueInv(u) /\ Executed(u)' = Executed(u) /\ ~Creating(u, "signals") /\ ~Creating(u, "releases")
    BY <1>1, <1>2 DEF BioInv, Executed, Creating
  <2> QED
    BY <1>1, <2>1 DEF QueueInv
<1>5. ClosingInv'
  <2>1. Listed' = Listed
    BY <1>1 DEF Listed, Executed
  <2>2. CASE Len(creating) = 1
    <3>1. ToCome = {} /\ ToCome' = {}
      BY <1>1, <1>2, <2>2 DEF ToCome
    <3> QED
      BY <1>1, <2>1, <3>1 DEF BioInv, ClosingInv, Closing
  <2>3. CASE Len(creating) = 2
    <3>1. Len(creating') = 1 /\ creating'[1] = creating[2]
      <4>1. Len(Tail(creating)) = 1 /\ 1 \in 1 .. Len(creating) - 1
        BY <1>2, <2>3
      <4>2. Tail(creating)[1] = creating[1 + 1]
        BY <1>2, <4>1
      <4> QED
        BY <1>1, <4>1, <4>2
    <3>2. CASE creating[2].type = "CLOSE_FILE"
      <4>1. ToCome = {2}
        BY <1>2, <2>3, <3>2 DEF ToCome
      <4>2. ToCome' = {1}
        BY <1>1, <3>1, <3>2 DEF ToCome
      <4> QED
        BY <1>1, <2>1, <3>1, <4>1, <4>2 DEF BioInv, ClosingInv, Closing
    <3>3. CASE creating[2].type # "CLOSE_FILE"
      <4>1. ToCome = {} /\ ToCome' = {}
        BY <1>1, <1>2, <2>3, <3>1, <3>3 DEF ToCome
      <4> QED
        BY <1>1, <2>1, <3>1, <4>1 DEF BioInv, ClosingInv, Closing
    <3> QED
      BY <3>2, <3>3
  <2> QED
    BY <1>2, <2>2, <2>3
<1> QED
  BY <1>3, <1>4, <1>5 DEF BioInv

\* Steps of a thread that neither executes nor deletes a job.
LEMMA ThreadMoves ==
    ASSUME BioInv, NEW t \in JobType,
           ThreadLocks(t) \/ ThreadWaits(t) \/ ThreadWakes(t) \/ ThreadLeaves(t) \/ ThreadTakes(t)
    PROVE  BioInv'
<1>0. BioTypes /\ QueueInv(t)
  BY DEF BioInv
<1>1. UNCHANGED <<bio_jobs, bio_pending, created, worked, fds, aof, opens, creating, creates>>
  BY DEF ThreadLocks, ThreadWaits, ThreadWakes, ThreadLeaves, ThreadTakes, serverVars
<1>2. /\ thread[t] \in {"locks", "loop", "asleep", "woken"}
      /\ thread' = [thread EXCEPT ![t] = thread'[t]]
      /\ thread'[t] \in ThreadStates \ {"worked"}
  <2>1. \A s : thread' = [thread EXCEPT ![t] = s] => thread'[t] = s
    BY <1>0 DEF BioTypes
  <2> QED
    BY <2>1 DEF ThreadLocks, ThreadWaits, ThreadWakes, ThreadLeaves, ThreadTakes, ThreadStates
<1>3. \A u \in JobType : u # t => thread'[u] = thread[u] /\ waiters'[u] = waiters[u] /\ sema'[u] = sema[u]
  BY <1>0, <1>2 DEF ThreadLocks, ThreadWaits, ThreadWakes, ThreadLeaves, ThreadTakes, BioTypes
<1>4. \A u \in JobType : Executed(u)' = Executed(u)
  BY <1>2, <1>3 DEF Executed
<1>5. waiters[t] = IF thread[t] \in {"asleep", "woken"} THEN 1 ELSE 0
  BY <1>0 DEF QueueInv
<1>6. /\ waiters'[t] = IF thread'[t] \in {"asleep", "woken"} THEN 1 ELSE 0
      /\ thread'[t] \in {"works", "worked"} => bio_jobs[t] # <<>>
      /\ thread'[t] = "asleep" => bio_jobs[t] = <<>>
  <2>1. CASE ThreadLocks(t)
    BY <1>0, <1>5, <2>1 DEF ThreadLocks, BioTypes
  <2>2. CASE ThreadWaits(t)
    BY <1>0, <1>5, <2>2 DEF ThreadWaits, BioTypes
  <2>3. CASE ThreadWakes(t)
    BY <1>0, <1>5, <2>3 DEF ThreadWakes, BioTypes
  <2>4. CASE ThreadLeaves(t)
    BY <1>0, <1>5, <2>4 DEF ThreadLeaves, BioTypes
  <2>5. CASE ThreadTakes(t)
    BY <1>0, <1>5, <2>5 DEF ThreadTakes, BioTypes
  <2> QED
    BY <2>1, <2>2, <2>3, <2>4, <2>5
<1>7. BioTypes'
  <2>1. thread' \in [JobType -> ThreadStates]
    BY <1>0, <1>2 DEF BioTypes
  <2>2. waiters' \in [JobType -> Nat]
    <3>1. waiters'[t] \in Nat
      BY <1>6
    <3>2. waiters' = [waiters EXCEPT ![t] = waiters'[t]]
      BY <1>0 DEF ThreadLocks, ThreadWaits, ThreadWakes, ThreadLeaves, ThreadTakes, BioTypes
    <3> QED
      BY <1>0, <3>1, <3>2 DEF BioTypes
  <2>3. sema' \in [JobType -> Nat]
    BY <1>0, SMTT(60) DEF ThreadLocks, ThreadWaits, ThreadWakes, ThreadLeaves, ThreadTakes, BioTypes
  <2> QED
    BY <1>0, <1>1, <2>1, <2>2, <2>3 DEF BioTypes
<1>8. ToCome' = ToCome
  BY <1>1 DEF ToCome
<1>9. \A u \in JobType, ph \in {"signals", "releases"} : Creating(u, ph)' = Creating(u, ph)
  BY <1>1 DEF Creating, Unoccupied
<1> QED
  BY <1>1, <1>3, <1>4, <1>6, <1>7, <1>8, <1>9, JobsRest

\* The thread executes the job at the head of the list.
LEMMA ThreadWorksStep ==
    ASSUME BioInv, NEW t \in JobType, ThreadWorks(t)
    PROVE  BioInv'
<1> DEFINE q == bio_jobs["CLOSE_FILE"]
<1>0. BioTypes /\ QueueInv(t)
  BY DEF BioInv
<1>1. /\ thread[t] = "works" /\ thread' = [thread EXCEPT ![t] = "worked"]
      /\ worked' = [worked EXCEPT ![t] = worked[t] + 1]
      /\ fds' = IF t = "CLOSE_FILE" THEN [fds EXCEPT ![Head(bio_jobs[t]).fd] = NoFile] ELSE fds
      /\ UNCHANGED <<bio_jobs, bio_pending, waiters, sema, created, creating, creates, aof, opens>>
  BY DEF ThreadWorks, queueVars
<1>2. /\ thread'[t] = "worked" /\ worked'[t] = worked[t] + 1 /\ worked[t] \in Nat
      /\ Executed(t) = 0 /\ Executed(t)' = 1
      /\ \A u \in JobType : u # t => /\ thread'[u] = thread[u] /\ worked'[u] = worked[u]
                                     /\ Executed(u)' = Executed(u)
  BY <1>0, <1>1 DEF BioTypes, Executed
<1>3. /\ bio_jobs[t] \in Seq(BioJob) /\ bio_jobs[t] # <<>>
      /\ Head(bio_jobs[t]) = bio_jobs[t][1] /\ Head(bio_jobs[t]) \in BioJob /\ Len(bio_jobs[t]) \in Nat \ {0}
  <2>1. bio_jobs[t] \in Seq(BioJob) /\ bio_jobs[t] # <<>>
    BY <1>0, <1>1 DEF BioTypes, QueueInv
  <2> QED
    BY <2>1, PopHeadSequence
<1>4. BioTypes'
  <2>1. thread' \in [JobType -> ThreadStates]
    BY <1>0, <1>1 DEF BioTypes, ThreadStates
  <2>2. worked' \in [JobType -> Nat]
    <3>1. worked \in [JobType -> Nat] /\ worked[t] + 1 \in Nat
      BY <1>0 DEF BioTypes
    <3> QED
      BY <1>1, <3>1
  <2>3. fds' \in [Descriptor -> Nat]
    <3>1. fds \in [Descriptor -> Nat] /\ NoFile \in Nat
      BY <1>0 DEF BioTypes, NoFile
    <3> QED
      BY <1>1, <3>1
  <2> QED
    BY <1>0, <1>1, <2>1, <2>2, <2>3 DEF BioTypes
<1>5. ASSUME NEW u \in JobType PROVE QueueInv(u)'
  <2>0. UNCHANGED <<creating, creates>> /\ \A ph : Creating(u, ph)' = Creating(u, ph)
    BY <1>1 DEF Creating, Unoccupied
  <2>1. CASE u # t
    <3>1. QueueInv(u)
      BY DEF BioInv
    <3> QED
      BY <1>1, <1>2, <2>0, <2>1, <3>1 DEF QueueInv
  <2>2. CASE u = t
    <3>1. created[t] \in Nat /\ \A i \in 1 .. Len(bio_jobs[t]) : bio_jobs[t][i].id \in Nat
      <4>1. \A i \in 1 .. Len(bio_jobs[t]) : bio_jobs[t][i] \in BioJob
        BY <1>3
      <4> QED
        BY <1>0, <4>1 DEF BioTypes, BioJob
    <3>2. created[t] + 1 = worked'[t] + Len(bio_jobs[t])
      <4>1. created[t] + Executed(t) = worked[t] + Len(bio_jobs[t])
        BY <1>0 DEF QueueInv
      <4>2. Executed(t) = 0 /\ worked'[t] = worked[t] + 1 /\ worked[t] \in Nat
        BY <1>2
      <4>3. Len(bio_jobs[t]) \in Nat /\ created[t] \in Nat
        BY <1>3, <3>1
      <4> QED
        BY <4>1, <4>2, <4>3
    <3>3. \A i \in 1 .. Len(bio_jobs[t]) : bio_jobs[t][i].id + 1 = worked'[t] + i
      <4> TAKE i \in 1 .. Len(bio_jobs[t])
      <4>1. bio_jobs[t][i].id + Executed(t) = worked[t] + i
        BY <1>0 DEF QueueInv
      <4> QED
        BY <1>2, <3>1, <4>1
    <3>4. waiters[t] = 0 /\ bio_pending[t] = Len(bio_jobs[t])
      BY <1>0, <1>1 DEF QueueInv
    <3> QED
      BY <1>1, <1>2, <1>3, <2>2, <3>2, <3>3, <3>4 DEF QueueInv
  <2> QED
    BY <2>1, <2>2
<1>6. ClosingInv'
  <2>0. ToCome' = ToCome
    BY <1>1 DEF ToCome
  <2>1. CASE t # "CLOSE_FILE"
    <3>1. Listed' = Listed
      BY <1>1, <1>2, <2>1 DEF Listed, JobType
    <3> QED
      BY <1>1, <2>0, <2>1, <3>1 DEF BioInv, ClosingInv
  <2>2. CASE t = "CLOSE_FILE"
    <3> DEFINE n == Len(q)
    <3>1. Listed = 1 .. n /\ Listed' = 2 .. n /\ n \in Nat \ {0}
      BY <1>1, <1>2, <1>3, <2>2 DEF Listed
    <3>2. /\ fds' = [fds EXCEPT ![q[1].fd] = NoFile] /\ q[1].fd \in Descriptor
          /\ fds \in [Descriptor -> Nat]
      BY <1>0, <1>1, <1>3, <2>2 DEF BioJob, BioTypes
    <3>3. Closing(1 .. n, q, ToCome, creating, fds, aof)
      BY <3>1 DEF BioInv, ClosingInv
    <3>4. 1 \in 1 .. n /\ \A i : i \in 1 .. n <=> i = 1 \/ i \in 2 .. n
      BY <3>1
    <3>5. 1 \notin 2 .. n
      OBVIOUS
    <3>6. \A i \in 1 .. n : q[i].fd \in Descriptor
      <4>1. \A i \in 1 .. n : q[i] \in BioJob
        BY <1>3, <2>2
      <4> QED
        BY <4>1 DEF BioJob
    <3>7. \A k \in ToCome : creating[k].fd \in Descriptor
      <4>1. creating \in Seq(BioCall)
        BY <1>0 DEF BioTypes
      <4>2. \A k \in 1 .. Len(creating) : creating[k] \in BioCall
        BY <4>1
      <4> QED
        BY <4>2 DEF ToCome, BioCall
    <3>8. aof # NoFile => aof \in Descriptor
      BY <1>0 DEF BioTypes
    <3>9. Closing(2 .. n, q, ToCome, creating, fds', aof)
      <4> DEFINE A == 1 .. n
                 B == 2 .. n
                 h == q[1].fd
      <4>1. 1 \in A /\ 1 \notin B /\ \A i : i \in A <=> i = 1 \/ i \in B
        BY <3>4, <3>5
      <4>2. /\ \A d \in Descriptor : d # h => fds'[d] = fds[d]
            /\ fds'[h] = NoFile
        BY <3>2
      <4>3. Closing(A, q, ToCome, creating, fds, aof)
        BY <3>3
      <4>4. /\ \A i \in A : q[i].fd \in Descriptor
            /\ h = q[1].fd
        BY <3>6
      <4> HIDE DEF A, B, h, q
      <4> QED
        BY <3>7, <3>8, <4>1, <4>2, <4>3, <4>4 DEF Closing, B
    <3> QED
      BY <1>1, <2>0, <3>1, <3>9 DEF ClosingInv
  <2> QED
    BY <2>1, <2>2
<1> QED
  BY <1>4, <1>5, <1>6 DEF BioInv

\* The thread deletes the job that it executed.
LEMMA ThreadDeletesStep ==
    ASSUME BioInv, NEW t \in JobType, ThreadDeletes(t)
    PROVE  BioInv'
<1>0. BioTypes /\ QueueInv(t)
  BY DEF BioInv
<1>1. /\ thread[t] = "worked" /\ thread' = [thread EXCEPT ![t] = "loop"]
      /\ bio_jobs' = [bio_jobs EXCEPT ![t] = Tail(bio_jobs[t])]
      /\ bio_pending' = [bio_pending EXCEPT ![t] = bio_pending[t] - 1]
      /\ UNCHANGED <<waiters, sema, created, creating, creates, fds, aof, opens, worked>>
  BY DEF ThreadDeletes, serverVars
<1> DEFINE q == bio_jobs[t]
           r == bio_jobs'[t]
           n == Len(q)
<1>2. /\ thread'[t] = "loop" /\ r = Tail(q) /\ bio_pending'[t] = bio_pending[t] - 1
      /\ Executed(t) = 1 /\ Executed(t)' = 0
      /\ \A u \in JobType : u # t => /\ thread'[u] = thread[u] /\ bio_jobs'[u] = bio_jobs[u]
                                     /\ bio_pending'[u] = bio_pending[u] /\ Executed(u)' = Executed(u)
  BY <1>0, <1>1 DEF BioTypes, Executed
<1>3. /\ q \in Seq(BioJob) /\ n \in Nat \ {0} /\ r \in Seq(BioJob) /\ Len(r) = n - 1
      /\ \A i \in 1 .. n - 1 : r[i] = q[i + 1]
  <2>1. q \in Seq(BioJob) /\ q # <<>>
    BY <1>0, <1>1 DEF BioTypes, QueueInv
  <2> QED
    BY <1>2, <2>1, PopHeadSequence
<1>4. bio_pending[t] = n
  BY <1>0 DEF QueueInv
<1>5. BioTypes'
  <2>1. thread' \in [JobType -> ThreadStates]
    BY <1>0, <1>1 DEF BioTypes, ThreadStates
  <2>2. bio_jobs' \in [JobType -> Seq(BioJob)]
    BY <1>0, <1>1, <1>2, <1>3 DEF BioTypes
  <2>3. bio_pending' \in [JobType -> Nat]
    <3>1. bio_pending \in [JobType -> Nat] /\ bio_pending[t] - 1 \in Nat
      BY <1>0, <1>3, <1>4 DEF BioTypes
    <3> QED
      BY <1>1, <3>1
  <2> QED
    BY <1>0, <1>1, <2>1, <2>2, <2>3 DEF BioTypes
<1>6. ASSUME NEW u \in JobType PROVE QueueInv(u)'
  <2>0. UNCHANGED <<creating, creates>> /\ \A ph : Creating(u, ph)' = Creating(u, ph)
    BY <1>1 DEF Creating, Unoccupied
  <2>1. CASE u # t
    <3>1. QueueInv(u)
      BY DEF BioInv
    <3> QED
      BY <1>1, <1>2, <2>0, <2>1, <3>1 DEF QueueInv
  <2>2. CASE u = t
    <3>1. /\ created[t] \in Nat /\ worked[t] \in Nat /\ \A i \in 1 .. n : q[i].id \in Nat
      <4>1. \A i \in 1 .. n : q[i] \in BioJob
        BY <1>3
      <4> QED
        BY <1>0, <4>1 DEF BioTypes, BioJob
    <3>2. created[t] + 0 = worked[t] + Len(r)
      <4>1. created[t] + Executed(t) = worked[t] + n
        BY <1>0 DEF QueueInv
      <4>2. Executed(t) = 1 /\ Len(r) = n - 1 /\ n \in Nat
        BY <1>2, <1>3
      <4>3. created[t] \in Nat /\ worked[t] \in Nat
        BY <3>1
      <4> QED
        BY <4>1, <4>2, <4>3
    <3>3. \A i \in 1 .. Len(r) : r[i].id + 0 = worked[t] + i
      <4> TAKE i \in 1 .. Len(r)
      <4>1. i + 1 \in 1 .. n /\ i \in 1 .. n - 1 /\ i \in Nat
        BY <1>3
      <4>2. q[i + 1].id + 1 = worked[t] + (i + 1)
        BY <1>0, <1>2, <4>1 DEF QueueInv
      <4>3. r[i] = q[i + 1] /\ q[i + 1].id \in Nat
        BY <1>3, <3>1, <4>1
      <4>4. q[i + 1].id \in Nat /\ worked[t] \in Nat /\ i \in Nat
        BY <3>1, <4>1
      <4>5. q[i + 1].id + 0 = worked[t] + i
        BY <4>2, <4>4
      <4> QED
        BY <4>3, <4>5
    <3>4. waiters[t] = 0 /\ bio_pending'[t] = Len(r)
      BY <1>0, <1>1, <1>2, <1>3, <1>4 DEF QueueInv
    <3> QED
      BY <1>1, <1>2, <2>2, <3>2, <3>3, <3>4 DEF QueueInv
  <2> QED
    BY <2>1, <2>2
<1>7. ClosingInv'
  <2>0. ToCome' = ToCome
    BY <1>1 DEF ToCome
  <2>1. CASE t # "CLOSE_FILE"
    <3>1. Listed' = Listed /\ bio_jobs'["CLOSE_FILE"] = bio_jobs["CLOSE_FILE"]
      BY <1>1, <1>2, <2>1 DEF Listed, JobType
    <3> QED
      BY <1>1, <2>0, <3>1 DEF BioInv, ClosingInv
  <2>2. CASE t = "CLOSE_FILE"
    <3>1. Listed = 2 .. n /\ Listed' = 1 .. n - 1
      BY <1>1, <1>2, <1>3, <2>2 DEF Listed
    <3>2. Closing(2 .. n, q, ToCome, creating, fds, aof)
      BY <2>2, <3>1 DEF BioInv, ClosingInv
    <3> DEFINE A == 2 .. n
               B == 1 .. n - 1
               up(i) == i + 1
    <3>3. /\ \A i \in B : up(i) \in A /\ r[i] = q[up(i)]
          /\ \A i, j \in B : up(i) = up(j) => i = j
          /\ \A j \in A : \E i \in B : up(i) = j
      <4>1. \A i \in B : up(i) \in A /\ r[i] = q[up(i)]
        BY <1>3
      <4>2. \A i, j \in B : up(i) = up(j) => i = j
        OBVIOUS
      <4>3. \A j \in A : j - 1 \in B /\ up(j - 1) = j
        BY <1>3
      <4> QED
        BY <4>1, <4>2, <4>3
    <3>4. Closing(A, q, ToCome, creating, fds, aof)
      BY <3>2
    <3>5. Closing(B, r, ToCome, creating, fds, aof)
      <4> HIDE DEF A, B, up, q, r
      <4> QED
        BY <3>3, <3>4 DEF Closing
    <3> QED
      BY <1>1, <2>0, <2>2, <3>1, <3>5 DEF ClosingInv
  <2> QED
    BY <2>1, <2>2
<1> QED
  BY <1>5, <1>6, <1>7 DEF BioInv

LEMMA BioSteps ==
    ASSUME BioInv, BioNext \/ UNCHANGED bioVars
    PROVE  BioInv'
<1>1. CASE UNCHANGED bioVars
  <2>1. UNCHANGED <<bio_jobs, bio_pending, waiters, sema, thread, creating, creates, fds, aof, opens, created, worked>>
    BY <1>1 DEF bioVars
  <2>2. /\ \A t \in JobType : Executed(t)' = Executed(t)
        /\ \A t \in JobType : \A ph : Creating(t, ph)' = Creating(t, ph)
    BY <2>1 DEF Executed, Creating, Unoccupied
  <2>3. Listed' = Listed /\ ToCome' = ToCome
    BY <2>1 DEF Listed, Executed, ToCome
  <2>4. BioTypes'
    BY <2>1 DEF BioInv, BioTypes
  <2>5. \A t \in JobType : QueueInv(t)'
    <3> SUFFICES ASSUME NEW t \in JobType PROVE QueueInv(t)'
      OBVIOUS
    <3>1. QueueInv(t)
      BY DEF BioInv
    <3> QED
      BY <2>1, <2>2, <3>1 DEF QueueInv
  <2>6. ClosingInv'
    BY <2>1, <2>3 DEF BioInv, ClosingInv
  <2> QED
    BY <2>4, <2>5, <2>6 DEF BioInv
<1>2. CASE BioNext
  BY <1>2, MainSteps, CreateLocksStep, SignalSteps, CreateUnlocksStep, ThreadMoves, ThreadWorksStep, ThreadDeletesStep
     DEF BioNext
<1> QED
  BY <1>1, <1>2

LEMMA BioInvImplies ==
    ASSUME BioInv PROVE JobsAreDone
<1>1. ASSUME NEW t \in JobType
      PROVE  LET first == worked[t] + (IF thread[t] = "worked" THEN 0 ELSE 1)
             IN  /\ bio_pending[t] = created[t] + 1 - first
                 /\ \A i \in 1 .. Len(bio_jobs[t]) : bio_jobs[t][i].id = first + i - 1
                 /\ (thread[t] = "asleep" /\ bio_jobs[t] # <<>>)
                       => sema[t] > 0 \/ Creating(t, "signals") \/ Creating(t, "releases")
  <2> DEFINE q == bio_jobs[t]
             first == worked[t] + (IF thread[t] = "worked" THEN 0 ELSE 1)
             e == Executed(t)
  <2>1. QueueInv(t) /\ q \in Seq(BioJob)
    BY DEF BioInv, BioTypes
  <2>2. created[t] \in Nat /\ worked[t] \in Nat /\ Len(q) \in Nat /\ e \in Nat
    BY <2>1 DEF BioInv, BioTypes, Executed
  <2>3. first = worked[t] + 1 - e
    BY <2>2 DEF Executed
  <2>4. \A i \in 1 .. Len(q) : q[i] \in BioJob
    BY <2>1
  <2>5. \A i \in 1 .. Len(q) : q[i].id \in Nat
    BY <2>4 DEF BioJob
  <2>6. /\ bio_pending[t] = Len(q) /\ created[t] + e = worked[t] + Len(q)
        /\ \A i \in 1 .. Len(q) : q[i].id + e = worked[t] + i
    BY <2>1 DEF QueueInv
  <2> HIDE DEF e, first
  <2>7. bio_pending[t] = created[t] + 1 - first
    <3> DEFINE c == created[t]
               w == worked[t]
               m == Len(q)
    <3>2. c \in Nat /\ w \in Nat /\ m \in Nat /\ e \in Nat /\ first = w + 1 - e /\ c + e = w + m
      BY <2>2, <2>3, <2>6
    <3> HIDE DEF c, w, m
    <3>3. c + 1 - first = m
      BY <3>2
    <3>1. created[t] + 1 - first = Len(q)
      BY <3>3 DEF c, m
    <3> QED
      BY <2>6, <3>1
  <2>8. \A i \in 1 .. Len(q) : q[i].id = first + i - 1
    <3> TAKE i \in 1 .. Len(q)
    <3>1. q[i].id \in Nat /\ i \in Nat /\ q[i].id + e = worked[t] + i
      BY <2>2, <2>5, <2>6
    <3> DEFINE x == q[i].id
               w == worked[t]
    <3>2. w \in Nat /\ x \in Nat /\ i \in Nat /\ e \in Nat /\ first = w + 1 - e /\ x + e = w + i
      BY <2>2, <2>3, <3>1
    <3> HIDE DEF x, w
    <3>3. x = first + i - 1
      BY <3>2
    <3> QED
      BY <3>3 DEF x
  <2> QED
    BY <2>1, <2>7, <2>8 DEF QueueInv, first
<1>2. LET left == {j \in ToSet(bio_jobs["CLOSE_FILE"]) : j.id > worked["CLOSE_FILE"]}
          due  == {creating[i] : i \in {k \in 1 .. Len(creating) : creating[k].type = "CLOSE_FILE"}}
      IN  /\ \A j \in left : fds[j.fd] = j.file
          /\ Descriptor \ FreeFds \subseteq {j.fd : j \in left} \cup {j.fd : j \in due} \cup {aof}
  <2> DEFINE q == bio_jobs["CLOSE_FILE"]
             w == worked["CLOSE_FILE"]
             e == Executed("CLOSE_FILE")
             left == {j \in ToSet(q) : j.id > w}
             due  == {creating[i] : i \in {k \in 1 .. Len(creating) : creating[k].type = "CLOSE_FILE"}}
  <2>1. QueueInv("CLOSE_FILE") /\ q \in Seq(BioJob) /\ ClosingInv
    BY DEF BioInv, BioTypes, JobType
  <2>2. w \in Nat /\ Len(q) \in Nat /\ e \in {0, 1}
    BY <2>1 DEF BioInv, BioTypes, JobType, Executed
  <2>3. \A i \in 1 .. Len(q) : q[i] \in BioJob
    BY <2>1
  <2>4. \A i \in 1 .. Len(q) : q[i].id \in Nat /\ q[i].id + e = w + i
    BY <2>1, <2>3 DEF BioJob, QueueInv
  <2>5. \A j : j \in ToSet(q) <=> \E i \in 1 .. Len(q) : q[i] = j
    BY <2>1, ToSetMember
  <2>6. Listed = e + 1 .. Len(q)
    BY DEF Listed
  <2> HIDE DEF q, w, e
  <2>7. \A i \in 1 .. Len(q) : q[i].id > w <=> i \in e + 1 .. Len(q)
    <3> TAKE i \in 1 .. Len(q)
    <3>1. q[i].id \in Nat /\ q[i].id + e = w + i
      BY <2>4
    <3> QED
      BY <2>2, <3>1
  <2>8. /\ \A j \in left : \E i \in Listed : q[i] = j
        /\ \A i \in Listed : q[i] \in left
    <3>1. \A i \in Listed : i \in 1 .. Len(q)
      BY <2>2, <2>6
    <3> QED
      BY <2>5, <2>6, <2>7, <3>1
  <2>9. \A k \in ToCome : creating[k] \in due
    BY DEF ToCome
  <2>10. Closing(Listed, q, ToCome, creating, fds, aof)
    BY <2>1 DEF ClosingInv, q
  <2> HIDE DEF left, due
  <2>11. \A j \in left : fds[j.fd] = j.file
    BY <2>8, <2>10 DEF Closing
  <2>12. ASSUME NEW d \in Descriptor, fds[d] # NoFile
         PROVE  d \in {j.fd : j \in left} \cup {j.fd : j \in due} \cup {aof}
    <3>1. d = aof \/ (\E i \in Listed : q[i].fd = d) \/ (\E k \in ToCome : creating[k].fd = d)
      BY <2>10, <2>12 DEF Closing
    <3> QED
      BY <2>8, <2>9, <3>1
  <2>13. Descriptor \ FreeFds \subseteq {j.fd : j \in left} \cup {j.fd : j \in due} \cup {aof}
    BY <2>12 DEF FreeFds
  <2> QED
    BY <2>11, <2>13 DEF left, due, q, w
<1> QED
  BY <1>1, <1>2 DEF JobsAreDone

\* However the main thread and the threads of bio.c interleave: a job is
\* pending until it was executed, jobs of a type are executed in order and
\* once, no thread sleeps while it has a job and no signal is on its way, and
\* what a CLOSE_FILE job closes is the file it was made for, so that no
\* descriptor stays open but that of the file in use.
THEOREM BioJobsAreDone ==
    BioInit /\ [][BioNext]_bioVars => []JobsAreDone
<1>1. BioInit => BioInv
  BY BioStarts
<1>2. BioInv /\ [BioNext]_bioVars => BioInv'
  BY BioSteps
<1>3. BioInv => JobsAreDone
  BY BioInvImplies
<1> QED
  BY <1>1, <1>2, <1>3, PTL

----------------------------------------------------------------------------
(* The forked process.                                                     *)

IsChild(c) ==
    /\ c = [type |-> c.type, at |-> c.at, read |-> c.read, ok |-> c.ok, forked |-> c.forked,
            frozen |-> c.frozen, whole |-> c.whole]
    /\ c.whole \in BOOLEAN
    /\ c.at \in {"starting", "waiting", "saving", "complete"}

ForkTypes ==
    /\ section \in [Page -> Nat] /\ private \in [Page -> Nat \cup {NoCopy}] /\ written \in [Page -> Nat]
    /\ writes \in Nat /\ forks \in Nat /\ disturbed \in BOOLEAN
    /\ rdb_child_pid \in Nat /\ aof_child_pid \in Nat
    /\ frozen \in [Page -> Nat] /\ protected \in BOOLEAN
    /\ DOMAIN qchild \subseteq Nat \ {NoChild} /\ qchild = [i \in DOMAIN qchild |-> qchild[i]]
    /\ \A i \in DOMAIN qchild : IsChild(qchild[i])

(* A process that no end of an operation has met while it was reading sees *)
(* the pages that were protected, and these are still in the section.      *)
ReadsFrozen(c) == \A p \in DOMAIN c.read : c.read[p] = c.frozen[p]
FrozenIsInSection(c, s) == \A p \in Page : c.frozen[p] = s[p]

Snapshots ==
    /\ ~protected => \A p \in Page : private[p] = NoCopy
    /\ protected => \A p \in Page : section[p] = frozen[p]
    /\ \A i \in DOMAIN qchild : qchild[i].whole =>
          /\ ReadsFrozen(qchild[i])
          /\ qchild[i].at # "complete" => protected /\ FrozenIsInSection(qchild[i], section)

(* What the process of an operation that began alone sees: f, s are the    *)
(* pages at the fork and in the section.                                   *)
ReadsTheFork(c) == \A p \in DOMAIN c.read : c.read[p] = c.forked[p]
ForkIsInSection(c, s) == \A p \in Page : c.forked[p] = s[p]
Current == {i \in {rdb_child_pid, aof_child_pid} : i # NoChild}

Undisturbed ==
    /\ rdb_child_pid = NoChild \/ aof_child_pid = NoChild
    /\ Current = {} => "complete" \notin events
    /\ protected <=> Current # {}
    /\ \A i \in DOMAIN qchild :
          /\ qchild[i].at # "starting"
          /\ i \notin Current => qchild[i].at = "complete"
          /\ i \in Current => /\ ReadsTheFork(qchild[i]) /\ ForkIsInSection(qchild[i], section)
                              /\ "complete" \in events => qchild[i].at = "complete"

ForkInv ==
    /\ ForkTypes
    /\ \A p \in Page : View(p) = written[p]
    /\ Snapshots
    /\ ~disturbed => Undisturbed

LEMMA ForkStarts == ASSUME QForkInit PROVE ForkInv
<1>1. ForkTypes
  <2>1. /\ section \in [Page -> Nat] /\ written \in [Page -> Nat] /\ writes \in Nat /\ forks \in Nat
        /\ disturbed \in BOOLEAN /\ rdb_child_pid \in Nat /\ aof_child_pid \in Nat
        /\ frozen \in [Page -> Nat] /\ protected \in BOOLEAN
    BY DEF QForkInit, NoChild
  <2>2. private \in [Page -> Nat \cup {NoCopy}]
    BY DEF QForkInit
  <2>3. DOMAIN qchild = {} /\ qchild = [i \in DOMAIN qchild |-> qchild[i]]
    BY DEF QForkInit
  <2> QED
    BY <2>1, <2>2, <2>3 DEF ForkTypes
<1>2. \A p \in Page : View(p) = written[p]
  BY DEF QForkInit, View
<1>3. Undisturbed
  <2>1. DOMAIN qchild = {} /\ Current = {}
    BY DEF QForkInit, Current
  <2> QED
    BY <2>1 DEF QForkInit, Undisturbed
<1>4. Snapshots
  <2>1. DOMAIN qchild = {} /\ ~protected /\ \A p \in Page : private[p] = NoCopy
    BY DEF QForkInit
  <2> QED
    BY <2>1 DEF Snapshots
<1> QED
  BY <1>1, <1>2, <1>3, <1>4 DEF ForkInv

LEMMA ServerWritesStep ==
    ASSUME ForkInv, NEW p \in Page, ServerWrites(p)
    PROVE  ForkInv'
<1>1. ForkTypes /\ Snapshots /\ \A q \in Page : View(q) = written[q]
  BY DEF ForkInv
<1>2. /\ writes' = writes + 1 /\ written' = [written EXCEPT ![p] = writes + 1]
      /\ UNCHANGED <<protected, events, rdb_child_pid, aof_child_pid, qchild, forks, frozen, disturbed>>
      /\ \/ (protected \/ private[p] # NoCopy) /\ private' = [private EXCEPT ![p] = writes + 1] /\ section' = section
         \/ ~protected /\ private[p] = NoCopy /\ section' = [section EXCEPT ![p] = writes + 1] /\ private' = private
  BY DEF ServerWrites
<1>3. writes + 1 \in Nat /\ writes + 1 # NoCopy /\ NoCopy \notin Nat
  BY <1>1 DEF ForkTypes, NoCopy
<1>4. /\ section \in [Page -> Nat] /\ private \in [Page -> Nat \cup {NoCopy}] /\ written \in [Page -> Nat]
  BY <1>1 DEF ForkTypes
<1>5. ForkTypes'
  <2>1. section' \in [Page -> Nat] /\ private' \in [Page -> Nat \cup {NoCopy}] /\ written' \in [Page -> Nat]
    BY <1>2, <1>3, <1>4
  <2> QED
    BY <1>1, <1>2, <1>3, <2>1 DEF ForkTypes
<1>6. \A q \in Page : View(q)' = written'[q]
  <2> TAKE q \in Page
  <2>1. View(q) = written[q] /\ (q # p => written'[q] = written[q]) /\ (q = p => written'[q] = writes + 1)
    BY <1>1, <1>2, <1>4
  <2> QED
    BY <1>2, <1>3, <1>4, <2>1 DEF View
<1>7. ASSUME ~disturbed' PROVE Undisturbed'
  <2>1. Undisturbed /\ Current' = Current
    BY <1>2, <1>7 DEF ForkInv, Current
  <2>2. Current # {} => section' = section
    BY <1>2, <2>1 DEF Undisturbed
  <2> QED
    BY <1>2, <2>1, <2>2 DEF Undisturbed
<1>8. Snapshots'
  <2>1. CASE protected
    <3>1. section' = section /\ UNCHANGED <<protected, frozen, qchild>>
      BY <1>2, <2>1
    <3> QED
      BY <1>1, <2>1, <3>1 DEF Snapshots
  <2>2. CASE ~protected
    <3>1. /\ private' = private /\ \A q \in Page : private[q] = NoCopy
          /\ UNCHANGED <<protected, frozen, qchild>>
      BY <1>1, <1>2, <2>2 DEF Snapshots
    <3>2. \A i \in DOMAIN qchild : qchild[i].whole => ReadsFrozen(qchild[i]) /\ qchild[i].at = "complete"
      BY <1>1, <2>2 DEF Snapshots
    <3> QED
      BY <2>2, <3>1, <3>2 DEF Snapshots
  <2> QED
    BY <2>1, <2>2
<1> QED
  BY <1>5, <1>6, <1>7, <1>8 DEF ForkInv

\* A process is started, and the heap is protected.
LEMMA BeginStep ==
    ASSUME ForkInv, NEW type \in {"rdb", "aof"}, BeginForkOperation(type),
           UNCHANGED <<section, private, written, writes>>,
           type = "rdb" => rdb_child_pid = NoChild, type = "aof" => aof_child_pid = NoChild
    PROVE  ForkInv'
<1>0. ForkTypes /\ Snapshots /\ \A q \in Page : View(q) = written[q]
  BY DEF ForkInv
<1>1. \A q \in Page : View(q)' = written'[q]
  BY <1>0 DEF View
<1>10. protected' = TRUE /\ frozen' \in [Page -> Nat] /\ \A p \in Page : section[p] = frozen'[p]
  <2>1. protected' = TRUE /\ frozen' = IF protected THEN frozen ELSE Heap
    BY DEF BeginForkOperation, WriteCopy
  <2>2. CASE protected
    BY <1>0, <2>1, <2>2 DEF Snapshots, ForkTypes
  <2>3. CASE ~protected
    <3>1. \A p \in Page : private[p] = NoCopy
      BY <1>0, <2>3 DEF Snapshots
    <3>2. \A p \in Page : View(p) = section[p]
      BY <3>1 DEF View
    <3>3. frozen' = [p \in Page |-> View(p)]
      BY <2>1, <2>3 DEF Heap
    <3>4. section \in [Page -> Nat]
      BY <1>0 DEF ForkTypes
    <3> QED
      BY <2>1, <3>2, <3>3, <3>4
  <2> QED
    BY <2>2, <2>3
<1> DEFINE n == forks + 1
           add(c) == [i \in DOMAIN qchild \cup {n} |-> IF i = n THEN c ELSE qchild[i]]
           Dom == DOMAIN qchild \cup {n}
<1>2. n \in Nat /\ n # NoChild
  BY <1>0 DEF ForkTypes, NoChild
<1>3. ASSUME NEW c, IsChild(c), qchild' = add(c)
      PROVE  /\ DOMAIN qchild' = Dom /\ Dom \subseteq Nat \ {NoChild} /\ qchild' = [i \in DOMAIN qchild' |-> qchild'[i]]
             /\ qchild'[n] = c /\ \A i \in Dom : i # n => qchild'[i] = qchild[i] /\ i \in DOMAIN qchild
             /\ \A i \in DOMAIN qchild' : IsChild(qchild'[i])
  BY <1>0, <1>2, <1>3 DEF ForkTypes
<1>4. ASSUME NEW ph \in {"waiting", "starting"}
      PROVE  /\ IsChild(Child(type, ph)) /\ Child(type, ph).at = ph
             /\ Child(type, ph).read = <<>> /\ Child(type, ph).forked = Heap
             /\ Child(type, ph).frozen = frozen'
  BY DEF IsChild, Child
<1>5. \A i \in DOMAIN qchild : qchild[i].whole =>
         ReadsFrozen(qchild[i]) /\ (qchild[i].at # "complete" => FrozenIsInSection(qchild[i], section))
  BY <1>0 DEF Snapshots
<1>11. ASSUME NEW c, IsChild(c), qchild' = add(c), c.read = <<>>, c.frozen = frozen' PROVE Snapshots'
  <2>1. /\ DOMAIN qchild' = Dom /\ qchild'[n] = c
        /\ \A i \in Dom : i # n => qchild'[i] = qchild[i] /\ i \in DOMAIN qchild
    BY <1>3, <1>11
  <2>2. ReadsFrozen(c) /\ FrozenIsInSection(c, section)
    BY <1>10, <1>11 DEF ReadsFrozen, FrozenIsInSection
  <2> HIDE DEF n, Dom
  <2>3. \A i \in DOMAIN qchild' : qchild'[i].whole =>
           ReadsFrozen(qchild'[i]) /\ (qchild'[i].at # "complete" => FrozenIsInSection(qchild'[i], section))
    BY <1>5, <2>1, <2>2
  <2> QED
    BY <1>10, <2>3 DEF Snapshots
<1>6. CASE qchild' = add(Child(type, "waiting")) /\ forks' = n /\ events' = {"ready", "start"} /\ SetPid(type, n)
           /\ disturbed' = ~BeginsAlone
  <2> DEFINE c == Child(type, "waiting")
  <2>1. /\ IsChild(c) /\ c.at = "waiting" /\ c.read = <<>> /\ c.forked = Heap /\ c.frozen = frozen'
    BY <1>4
  <2> HIDE DEF c
  <2>2. /\ DOMAIN qchild' = Dom /\ Dom \subseteq Nat \ {NoChild} /\ qchild' = [i \in DOMAIN qchild' |-> qchild'[i]]
        /\ qchild'[n] = c /\ \A i \in Dom : i # n => qchild'[i] = qchild[i] /\ i \in DOMAIN qchild
        /\ \A i \in DOMAIN qchild' : IsChild(qchild'[i])
    BY <1>3, <1>6, <2>1 DEF c
  <2>3. rdb_child_pid' \in Nat /\ aof_child_pid' \in Nat /\ disturbed' \in BOOLEAN
    BY <1>0, <1>2, <1>6 DEF ForkTypes, SetPid
  <2>4. ForkTypes'
    BY <1>0, <1>2, <1>6, <1>10, <2>2, <2>3 DEF ForkTypes
  <2>6. Snapshots'
    BY <1>6, <1>11, <2>1 DEF c
  <2>5. ASSUME ~disturbed' PROVE Undisturbed'
    <3>1. BeginsAlone /\ rdb_child_pid = NoChild /\ aof_child_pid = NoChild
      BY <1>6, <2>5 DEF BeginsAlone
    <3>2. Current = {} /\ Current' = {n} /\ (rdb_child_pid' = NoChild \/ aof_child_pid' = NoChild)
      BY <1>2, <1>6, <3>1 DEF Current, SetPid, NoChild
    <3>3. /\ \A p \in Page : private[p] = NoCopy
          /\ \A i \in DOMAIN qchild : qchild[i].at = "complete"
      BY <1>0, <3>1 DEF BeginsAlone, Snapshots
    <3>4. \A p \in Page : c.forked[p] = section[p]
      BY <2>1, <3>3 DEF Heap, View
    <3>5. ReadsTheFork(c) /\ ForkIsInSection(c, section)
      BY <2>1, <3>4 DEF ReadsTheFork, ForkIsInSection
    <3>6. "complete" \notin events'
      BY <1>6
    <3> HIDE DEF n, Dom
    <3>7. ASSUME NEW i \in DOMAIN qchild'
          PROVE  /\ qchild'[i].at # "starting"
                 /\ i \notin {n} => qchild'[i].at = "complete"
                 /\ i \in {n} => ReadsTheFork(qchild'[i]) /\ ForkIsInSection(qchild'[i], section)
      <4>1. CASE i = n
        BY <2>1, <2>2, <3>5, <4>1
      <4>2. CASE i # n
        BY <2>2, <3>3, <4>2
      <4> QED
        BY <4>1, <4>2
    <3> QED
      BY <1>10, <3>2, <3>6, <3>7 DEF Undisturbed
  <2> QED
    BY <1>1, <2>4, <2>5, <2>6 DEF ForkInv
<1>7. CASE qchild' = add(Child(type, "starting")) /\ forks' = n /\ SetPid(type, n) /\ disturbed' = TRUE
  <2> DEFINE c == Child(type, "starting")
  <2>1. IsChild(c) /\ c.read = <<>> /\ c.frozen = frozen'
    BY <1>4
  <2> HIDE DEF c
  <2>2. /\ DOMAIN qchild' \subseteq Nat \ {NoChild} /\ qchild' = [i \in DOMAIN qchild' |-> qchild'[i]]
        /\ \A i \in DOMAIN qchild' : IsChild(qchild'[i])
    BY <1>3, <1>7, <2>1 DEF c
  <2>3. rdb_child_pid' \in Nat /\ aof_child_pid' \in Nat
    BY <1>0, <1>2, <1>7 DEF ForkTypes, SetPid
  <2>4. ForkTypes'
    BY <1>0, <1>2, <1>7, <1>10, <2>2, <2>3 DEF ForkTypes
  <2>5. Snapshots'
    BY <1>7, <1>11, <2>1 DEF c
  <2> QED
    BY <1>1, <1>7, <2>4, <2>5 DEF ForkInv
<1>8. CASE disturbed' = TRUE /\ UNCHANGED <<qchild, forks, rdb_child_pid, aof_child_pid>>
  <2>1. ForkTypes'
    BY <1>0, <1>8, <1>10 DEF ForkTypes
  <2>2. Snapshots'
    BY <1>5, <1>8, <1>10 DEF Snapshots
  <2> QED
    BY <1>1, <1>8, <2>1, <2>2 DEF ForkInv
<1>9. \/ qchild' = add(Child(type, "waiting")) /\ forks' = n /\ events' = {"ready", "start"} /\ SetPid(type, n)
         /\ disturbed' = ~BeginsAlone
      \/ qchild' = add(Child(type, "starting")) /\ forks' = n /\ SetPid(type, n) /\ disturbed' = TRUE
      \/ disturbed' = TRUE /\ UNCHANGED <<qchild, forks, rdb_child_pid, aof_child_pid>>
  BY DEF BeginForkOperation
<1> QED
  BY <1>6, <1>7, <1>8, <1>9

\* The pages are copied back, and the processes that ended leave.
LEMMA EndFacts ==
    ASSUME ForkInv, EndForkOperation, ~MayPageOut
    PROVE  /\ section' \in [Page -> Nat] /\ private' = [p \in Page |-> NoCopy]
           /\ \A p \in Page : section'[p] = View(p)
           /\ protected' = FALSE /\ events' = {}
           /\ DOMAIN qchild' \subseteq DOMAIN qchild /\ qchild' = [i \in DOMAIN qchild' |-> qchild'[i]]
           /\ \A i \in DOMAIN qchild' : qchild'[i] = [qchild[i] EXCEPT !.whole = @ /\ qchild[i].at = "complete"]
<1>1. PICK leave \in SUBSET {i \in DOMAIN qchild : qchild[i].at = "complete"},
           lost \in SUBSET {p \in Page : private[p] # NoCopy /\ MayPageOut} :
             /\ qchild' = [i \in DOMAIN qchild \ leave |->
                             [qchild[i] EXCEPT !.whole = @ /\ qchild[i].at = "complete"]]
             /\ section' = CopyBack(lost)
  BY DEF EndForkOperation
<1>2. lost = {}
  BY <1>1
<1>3. section' = [p \in Page |-> View(p)]
  BY <1>1, <1>2 DEF CopyBack, View
<1>4. \A p \in Page : View(p) \in Nat
  BY DEF ForkInv, ForkTypes, View
<1>5. /\ DOMAIN qchild' \subseteq DOMAIN qchild /\ qchild' = [i \in DOMAIN qchild' |-> qchild'[i]]
      /\ \A i \in DOMAIN qchild' : qchild'[i] = [qchild[i] EXCEPT !.whole = @ /\ qchild[i].at = "complete"]
  BY <1>1
<1> QED
  BY <1>3, <1>4, <1>5 DEF EndForkOperation

LEMMA EndStep ==
    ASSUME ForkInv, EndForkOperation, ~MayPageOut, UNCHANGED <<written, writes, forks, frozen>>,
           rdb_child_pid' \in {rdb_child_pid, NoChild}, aof_child_pid' \in {aof_child_pid, NoChild},
           disturbed' = TRUE \/ disturbed' = disturbed,
           ~disturbed' => "complete" \in events /\ Current' = {}
    PROVE  ForkInv'
<1>0. ForkTypes /\ Snapshots /\ \A q \in Page : View(q) = written[q]
  BY DEF ForkInv
<1>1. /\ section' \in [Page -> Nat] /\ private' = [p \in Page |-> NoCopy]
      /\ \A p \in Page : section'[p] = View(p)
      /\ protected' = FALSE /\ events' = {}
      /\ DOMAIN qchild' \subseteq DOMAIN qchild /\ qchild' = [i \in DOMAIN qchild' |-> qchild'[i]]
      /\ \A i \in DOMAIN qchild' : qchild'[i] = [qchild[i] EXCEPT !.whole = @ /\ qchild[i].at = "complete"]
  BY EndFacts
<1>5. ASSUME NEW i \in DOMAIN qchild'
      PROVE  /\ i \in DOMAIN qchild /\ IsChild(qchild'[i])
             /\ qchild'[i].at = qchild[i].at /\ qchild'[i].read = qchild[i].read
             /\ qchild'[i].frozen = qchild[i].frozen
             /\ qchild'[i].whole => qchild[i].whole /\ qchild[i].at = "complete"
  <2> DEFINE o == qchild[i]
             w == o.whole /\ o.at = "complete"
             c == [o EXCEPT !.whole = w]
  <2>1. i \in DOMAIN qchild /\ IsChild(o) /\ qchild'[i] = c
    BY <1>0, <1>1, <1>5 DEF ForkTypes
  <2> HIDE DEF o
  <2>2. o = [type |-> o.type, at |-> o.at, read |-> o.read, ok |-> o.ok, forked |-> o.forked,
             frozen |-> o.frozen, whole |-> o.whole]
    BY <2>1 DEF IsChild
  <2>3. w \in BOOLEAN
    OBVIOUS
  <2> HIDE DEF w
  <2>4. c = [type |-> o.type, at |-> o.at, read |-> o.read, ok |-> o.ok, forked |-> o.forked,
             frozen |-> o.frozen, whole |-> w]
    BY <2>2
  <2> HIDE DEF c
  <2>5. IsChild(c) /\ c.at = o.at /\ c.read = o.read /\ c.frozen = o.frozen /\ c.whole = w
    BY <2>1, <2>3, <2>4 DEF IsChild
  <2> QED
    BY <2>1, <2>5 DEF o, w
<1>2. ForkTypes'
  <2>1. private' \in [Page -> Nat \cup {NoCopy}]
    BY <1>1
  <2>2. rdb_child_pid' \in Nat /\ aof_child_pid' \in Nat /\ disturbed' \in BOOLEAN
    <3>1. rdb_child_pid \in Nat /\ aof_child_pid \in Nat /\ disturbed \in BOOLEAN /\ NoChild \in Nat
      BY <1>0 DEF ForkTypes, NoChild
    <3>2. disturbed' \in BOOLEAN
      BY <3>1
    <3> QED
      BY <3>1, <3>2
  <2>3. \A i \in DOMAIN qchild' : IsChild(qchild'[i]) /\ i \in Nat \ {NoChild}
    BY <1>0, <1>5 DEF ForkTypes
  <2> QED
    BY <1>0, <1>1, <2>1, <2>2, <2>3 DEF ForkTypes
<1>3. \A q \in Page : View(q)' = written'[q]
  <2> TAKE q \in Page
  <2>1. private'[q] = NoCopy /\ section'[q] = written[q]
    BY <1>0, <1>1
  <2> QED
    BY <2>1 DEF View
<1>4. ASSUME ~disturbed' PROVE Undisturbed'
  <2>1. ~disturbed /\ Undisturbed /\ "complete" \in events /\ Current' = {}
    BY <1>4 DEF ForkInv
  <2>2. \A i \in DOMAIN qchild' : qchild'[i].at = "complete"
    BY <1>5, <2>1 DEF Undisturbed
  <2>3. rdb_child_pid' = NoChild
    BY <2>1 DEF Current
  <2> QED
    BY <1>1, <2>1, <2>2, <2>3 DEF Undisturbed
<1>6. Snapshots'
  <2>1. \A i \in DOMAIN qchild' : qchild'[i].whole => ReadsFrozen(qchild'[i]) /\ qchild'[i].at = "complete"
    BY <1>0, <1>5 DEF Snapshots, ReadsFrozen
  <2>2. protected' = FALSE /\ \A p \in Page : private'[p] = NoCopy
    BY <1>1
  <2> QED
    BY <2>1, <2>2 DEF Snapshots
<1> QED
  BY <1>2, <1>3, <1>4, <1>6 DEF ForkInv

\* A step of a process that ends in c, or in which it ends.
LEMMA ChildStep ==
    ASSUME ForkInv, NEW i \in DOMAIN qchild,
           ChildReady(i) \/ ChildStarts(i) \/ ChildCompletes(i) \/ ChildDies(i) \/ \E p \in Page : ChildReads(i, p)
    PROVE  ForkInv'
<1>0. ForkTypes /\ Snapshots /\ \A q \in Page : View(q) = written[q]
  BY DEF ForkInv
<1> DEFINE o == qchild[i]
<1>1. /\ UNCHANGED <<section, private, protected, written, writes, rdb_child_pid, aof_child_pid, forks, frozen, disturbed>>
      /\ Current' = Current
  BY DEF ChildReady, ChildStarts, ChildCompletes, ChildDies, ChildReads, ParentKeeps, Current
<1>2. \A q \in Page : View(q)' = written'[q]
  BY <1>0, <1>1 DEF View
<1>3. CASE ChildDies(i)
  <2>1. /\ DOMAIN qchild' = DOMAIN qchild \ {i} /\ qchild' = [k \in DOMAIN qchild' |-> qchild'[k]]
        /\ \A k \in DOMAIN qchild' : qchild'[k] = qchild[k]
        /\ events' = events
    BY <1>3 DEF ChildDies
  <2>2. ForkTypes'
    <3>1. DOMAIN qchild' \subseteq Nat \ {NoChild} /\ \A k \in DOMAIN qchild' : IsChild(qchild'[k])
      BY <1>0, <2>1 DEF ForkTypes
    <3> QED
      BY <1>0, <1>1, <2>1, <3>1 DEF ForkTypes
  <2>3. Undisturbed => Undisturbed'
    BY <1>1, <2>1 DEF Undisturbed
  <2>4. Snapshots'
    BY <1>0, <1>1, <2>1 DEF Snapshots
  <2> QED
    BY <1>1, <1>2, <2>2, <2>3, <2>4 DEF ForkInv
<1>4. ASSUME NEW c, ChildIs(i, c), IsChild(c),
             o.at # "complete", c.forked = o.forked, c.frozen = o.frozen, c.whole = o.whole,
             o.whole => ReadsFrozen(c),
             o.at # "starting" => c.at # "starting",
             Undisturbed => /\ ReadsTheFork(c)
                            /\ "complete" \in events' => "complete" \in events \/ c.at = "complete"
      PROVE  ForkInv'
  <2>1. /\ DOMAIN qchild' = DOMAIN qchild /\ qchild' = [k \in DOMAIN qchild' |-> qchild'[k]]
        /\ qchild'[i] = c /\ \A k \in DOMAIN qchild' : k # i => qchild'[k] = qchild[k]
    BY <1>0, <1>4 DEF ForkTypes, ChildIs
  <2>2. ForkTypes'
    <3>1. DOMAIN qchild' \subseteq Nat \ {NoChild} /\ \A k \in DOMAIN qchild' : IsChild(qchild'[k])
      BY <1>0, <1>4, <2>1 DEF ForkTypes
    <3> QED
      BY <1>0, <1>1, <2>1, <3>1 DEF ForkTypes
  <2>3. ASSUME Undisturbed PROVE Undisturbed'
    <3>1. /\ i \in Current /\ o.at # "complete" /\ o.at # "starting" /\ "complete" \notin events
      BY <1>4, <2>3 DEF Undisturbed
    <3>2. /\ ReadsTheFork(c) /\ c.at # "starting" /\ c.forked = o.forked
          /\ "complete" \in events' => c.at = "complete"
      BY <1>4, <2>3, <3>1
    <3>3. Current = {i}
      BY <2>3, <3>1 DEF Undisturbed, Current
    <3>4. ForkIsInSection(c, section)
      BY <2>3, <3>1, <3>2 DEF Undisturbed, ForkIsInSection
    <3>5. \A k \in DOMAIN qchild' : k # i => qchild'[k].at = "complete"
      BY <2>1, <2>3, <3>3 DEF Undisturbed
    <3>6. \A k \in DOMAIN qchild' : /\ qchild'[k].at # "starting"
                                    /\ k \notin {i} => qchild'[k].at = "complete"
                                    /\ k \in {i} => /\ ReadsTheFork(qchild'[k])
                                                    /\ ForkIsInSection(qchild'[k], section)
                                                    /\ "complete" \in events' => qchild'[k].at = "complete"
      BY <2>1, <3>2, <3>4, <3>5
    <3>7. /\ rdb_child_pid = NoChild \/ aof_child_pid = NoChild
          /\ protected
      BY <2>3, <3>1 DEF Undisturbed
    <3> QED
      BY <1>1, <3>3, <3>6, <3>7 DEF Undisturbed
  <2>4. Snapshots'
    <3>1. o.whole => protected /\ FrozenIsInSection(c, section)
      BY <1>0, <1>4 DEF Snapshots, FrozenIsInSection
    <3>2. \A k \in DOMAIN qchild' : qchild'[k].whole =>
             /\ ReadsFrozen(qchild'[k])
             /\ qchild'[k].at # "complete" => protected /\ FrozenIsInSection(qchild'[k], section)
      BY <1>0, <1>4, <2>1, <3>1 DEF Snapshots
    <3> QED
      BY <1>0, <1>1, <3>2 DEF Snapshots
  <2> QED
    BY <1>1, <1>2, <2>2, <2>3, <2>4 DEF ForkInv
<1>5. /\ o = [type |-> o.type, at |-> o.at, read |-> o.read, ok |-> o.ok, forked |-> o.forked,
              frozen |-> o.frozen, whole |-> o.whole]
      /\ o.whole \in BOOLEAN
      /\ o.whole => ReadsFrozen(o)
      /\ o.at # "complete" => (Undisturbed => ReadsTheFork(o) /\ ForkIsInSection(o, section))
      /\ o.at # "complete" => (o.whole => FrozenIsInSection(o, section))
  BY <1>0 DEF ForkTypes, IsChild, Undisturbed, Snapshots
<1> HIDE DEF o
<1> DEFINE SameSight(c) == c.forked = o.forked /\ c.frozen = o.frozen /\ c.whole = o.whole /\ c.read = o.read
<1>10. ASSUME NEW c, ChildIs(i, c), IsChild(c), SameSight(c), o.at # "complete", c.at # "starting",
              "complete" \in events' => "complete" \in events \/ c.at = "complete"
       PROVE  ForkInv'
  <2>1. (o.whole => ReadsFrozen(c)) /\ (Undisturbed => ReadsTheFork(c))
    BY <1>5, <1>10 DEF ReadsTheFork, ReadsFrozen
  <2> QED
    BY <1>4, <1>10, <2>1
<1>6. CASE ChildReady(i)
  <2> DEFINE c == [o EXCEPT !.at = "waiting"]
  <2>1. ChildIs(i, c) /\ o.at = "starting" /\ events' = events \cup {"ready"}
    BY <1>6 DEF ChildReady, o
  <2>2. c = [type |-> o.type, at |-> "waiting", read |-> o.read, ok |-> o.ok, forked |-> o.forked,
             frozen |-> o.frozen, whole |-> o.whole]
    BY <1>5
  <2> HIDE DEF c
  <2>3. IsChild(c) /\ SameSight(c) /\ c.at = "waiting"
    BY <1>5, <2>2 DEF IsChild
  <2> QED
    BY <1>10, <2>1, <2>3
<1>7. CASE ChildStarts(i)
  <2> DEFINE c == [o EXCEPT !.at = "saving"]
  <2>1. ChildIs(i, c) /\ o.at = "waiting" /\ events' = events
    BY <1>7 DEF ChildStarts, o
  <2>2. c = [type |-> o.type, at |-> "saving", read |-> o.read, ok |-> o.ok, forked |-> o.forked,
             frozen |-> o.frozen, whole |-> o.whole]
    BY <1>5
  <2> HIDE DEF c
  <2>3. IsChild(c) /\ SameSight(c) /\ c.at = "saving"
    BY <1>5, <2>2 DEF IsChild
  <2> QED
    BY <1>10, <2>1, <2>3
<1>8. CASE ChildCompletes(i)
  <2>1. /\ o.at = "saving" /\ events' = events \cup {"complete"}
        /\ ChildIs(i, [o EXCEPT !.at = "complete"]) \/ ChildIs(i, [o EXCEPT !.at = "complete", !.ok = FALSE])
    BY <1>8 DEF ChildCompletes, o
  <2>2. ASSUME NEW ok, NEW c, ChildIs(i, c),
               c = [type |-> o.type, at |-> "complete", read |-> o.read, ok |-> ok, forked |-> o.forked,
                    frozen |-> o.frozen, whole |-> o.whole]
        PROVE  ForkInv'
    <3>1. IsChild(c) /\ SameSight(c) /\ c.at = "complete"
      BY <1>5, <2>2 DEF IsChild
    <3> QED
      BY <1>10, <2>1, <2>2, <3>1
  <2>3. [o EXCEPT !.at = "complete"]
          = [type |-> o.type, at |-> "complete", read |-> o.read, ok |-> o.ok, forked |-> o.forked,
             frozen |-> o.frozen, whole |-> o.whole]
    BY <1>5
  <2>4. [o EXCEPT !.at = "complete", !.ok = FALSE]
          = [type |-> o.type, at |-> "complete", read |-> o.read, ok |-> FALSE, forked |-> o.forked,
               frozen |-> o.frozen, whole |-> o.whole]
    <3> DEFINE c == [o EXCEPT !.at = "complete", !.ok = FALSE]
    <3>1. c = [o EXCEPT !.at = "complete", !.ok = FALSE]
      OBVIOUS
    <3> HIDE DEF c
    <3>2. c = [type |-> o.type, at |-> "complete", read |-> o.read, ok |-> FALSE, forked |-> o.forked,
               frozen |-> o.frozen, whole |-> o.whole]
      BY <1>5, <3>1
    <3> QED
      BY <3>2 DEF c
  <2> QED
    BY <2>1, <2>2, <2>3, <2>4
<1>9. ASSUME NEW p \in Page, ChildReads(i, p) PROVE ForkInv'
  <2> DEFINE r == [q \in DOMAIN o.read \cup {p} |-> IF q = p THEN section[p] ELSE o.read[q]]
             c == [o EXCEPT !.read = r]
  <2>1. ChildIs(i, c) /\ o.at = "saving" /\ events' = events
    BY <1>9, <1>5 DEF ChildReads, o
  <2>2. DOMAIN r = DOMAIN o.read \cup {p} /\ \A q \in DOMAIN r : r[q] = IF q = p THEN section[p] ELSE o.read[q]
    OBVIOUS
  <2> HIDE DEF r
  <2>3. c = [type |-> o.type, at |-> o.at, read |-> r, ok |-> o.ok, forked |-> o.forked,
             frozen |-> o.frozen, whole |-> o.whole]
    BY <1>5
  <2> HIDE DEF c
  <2>4. IsChild(c) /\ c.forked = o.forked /\ c.frozen = o.frozen /\ c.whole = o.whole /\ c.read = r /\ c.at = "saving"
    BY <1>5, <2>1, <2>3 DEF IsChild
  <2>5. ASSUME Undisturbed PROVE ReadsTheFork(c)
    <3>1. o.forked[p] = section[p] /\ ReadsTheFork(o)
      BY <1>5, <2>1, <2>5 DEF ForkIsInSection
    <3> QED
      BY <2>2, <2>4, <3>1 DEF ReadsTheFork
  <2>6. ASSUME o.whole PROVE ReadsFrozen(c)
    <3>1. o.frozen[p] = section[p] /\ ReadsFrozen(o)
      BY <1>5, <2>1, <2>6 DEF FrozenIsInSection
    <3> QED
      BY <2>2, <2>4, <3>1 DEF ReadsFrozen
  <2> QED
    BY <1>4, <2>1, <2>4, <2>5, <2>6
<1> QED
  BY <1>3, <1>6, <1>7, <1>8, <1>9

LEMMA ForkSteps ==
    ASSUME ForkInv, QForkNext \/ UNCHANGED qforkVars, ~MayPageOut
    PROVE  ForkInv'
<1>1. CASE UNCHANGED qforkVars
  <2>1. UNCHANGED <<section, private, protected, written, writes, events, rdb_child_pid, aof_child_pid, qchild, forks,
                    frozen, disturbed>>
    BY <1>1 DEF qforkVars
  <2>2. Current' = Current /\ \A p \in Page : View(p)' = View(p)
    BY <2>1 DEF Current, View
  <2>3. Undisturbed => Undisturbed'
    BY <2>1, <2>2 DEF Undisturbed
  <2>4. ForkTypes'
    BY <2>1 DEF ForkInv, ForkTypes
  <2>5. Snapshots'
    BY <2>1 DEF ForkInv, Snapshots
  <2> QED
    BY <2>1, <2>2, <2>3, <2>4, <2>5 DEF ForkInv
<1>2. CASE rdbSaveBackground
  <2> DEFINE type == "rdb"
  <2>1. /\ BeginForkOperation(type) /\ UNCHANGED <<section, private, written, writes>>
        /\ type = "rdb" /\ rdb_child_pid = NoChild /\ type # "aof"
    BY <1>2 DEF rdbSaveBackground
  <2> HIDE DEF type
  <2> QED
    BY <2>1, BeginStep
<1>3. CASE rewriteAppendOnlyFileBackground
  <2> DEFINE type == "aof"
  <2>1. /\ BeginForkOperation(type) /\ UNCHANGED <<section, private, written, writes>>
        /\ type = "aof" /\ aof_child_pid = NoChild /\ type # "rdb"
    BY <1>3 DEF rewriteAppendOnlyFileBackground
  <2> HIDE DEF type
  <2> QED
    BY <2>1, BeginStep
<1>4. CASE AbortRdb
  BY <1>4, EndStep DEF AbortRdb
<1>5. CASE AbortAof
  BY <1>5, EndStep DEF AbortAof
<1>6. CASE ForkOperationEnds
  <2>1. /\ EndForkOperation /\ UNCHANGED <<written, writes, forks, frozen, disturbed>> /\ "complete" \in events
        /\ rdb_child_pid' \in {rdb_child_pid, NoChild} /\ aof_child_pid' \in {aof_child_pid, NoChild}
    BY <1>6 DEF ForkOperationEnds
  <2>2. ~disturbed => Current' = {}
    <3>1. ~disturbed => rdb_child_pid = NoChild \/ aof_child_pid = NoChild
      BY DEF ForkInv, Undisturbed
    <3>2. ~disturbed => rdb_child_pid' = NoChild /\ aof_child_pid' = NoChild
      BY <1>6, <3>1 DEF ForkOperationEnds
    <3> QED
      BY <3>2 DEF Current
  <2> QED
    BY <2>1, <2>2, EndStep
<1>7. CASE \E p \in Page : ServerWrites(p)
  BY <1>7, ServerWritesStep
<1>8. ASSUME NEW i \in DOMAIN qchild,
             ChildReady(i) \/ ChildStarts(i) \/ ChildCompletes(i) \/ ChildDies(i) \/ \E p \in Page : ChildReads(i, p)
      PROVE  ForkInv'
  BY <1>8, ChildStep
<1> QED
  BY <1>1, <1>2, <1>3, <1>4, <1>5, <1>6, <1>7, <1>8 DEF QForkNext

LEMMA ForkInvImplies ==
    ASSUME ForkInv PROVE ForkIsASnapshot
<1>1. ASSUME ~disturbed
      PROVE  /\ \A i \in DOMAIN qchild \cap {rdb_child_pid, aof_child_pid} :
                   \A p \in DOMAIN qchild[i].read : qchild[i].read[p] = qchild[i].forked[p]
             /\ "complete" \in events => \E i \in {rdb_child_pid, aof_child_pid} :
                                           i # NoChild /\ (i \in DOMAIN qchild => qchild[i].at = "complete")
  <2>1. Undisturbed
    BY <1>1 DEF ForkInv
  <2>2. ASSUME NEW i \in DOMAIN qchild \cap {rdb_child_pid, aof_child_pid}
        PROVE  ReadsTheFork(qchild[i])
    <3>1. i \in Current
      BY DEF ForkInv, ForkTypes, Current
    <3> QED
      BY <2>1, <3>1 DEF Undisturbed
  <2>3. ASSUME "complete" \in events
        PROVE  \E i \in {rdb_child_pid, aof_child_pid} :
                  i # NoChild /\ (i \in DOMAIN qchild => qchild[i].at = "complete")
    <3>1. Current # {}
      BY <2>1, <2>3 DEF Undisturbed
    <3>2. PICK i \in Current : TRUE
      BY <3>1
    <3>3. i \in DOMAIN qchild => qchild[i].at = "complete"
      BY <2>1, <2>3 DEF Undisturbed
    <3> QED
      BY <3>3 DEF Current
  <2> QED
    BY <2>2, <2>3 DEF ReadsTheFork
<1>2. \A i \in DOMAIN qchild : qchild[i].whole =>
         \A p \in DOMAIN qchild[i].read : qchild[i].read[p] = qchild[i].frozen[p]
  BY DEF ForkInv, Snapshots, ReadsFrozen
<1> QED
  BY <1>1, <1>2 DEF ForkInv, ForkIsASnapshot

\* What stands for fork() on Windows (BeginForkOperation, EndForkOperation,
\* Win32_QFork.cpp), if no private page is out of the working set when the
\* pages are copied back.  Whatever is begun, overlaps, is aborted and ends, the
\* server sees what it wrote last, and what a process has read before the end of
\* an operation is one state of the heap: that of the moment at which the heap
\* was protected, for its own operation or for an earlier one that has not
\* ended.  If its operation began alone and is not aborted, it is the heap of
\* its fork, and the completion that the server sees is its own.
THEOREM ForkTakesASnapshot ==
    ASSUME ~MayPageOut
    PROVE  QForkInit /\ [][QForkNext]_qforkVars => []ForkIsASnapshot
<1>1. QForkInit => ForkInv
  BY ForkStarts
<1>2. ForkInv /\ [QForkNext]_qforkVars => ForkInv'
  BY ForkSteps
<1>3. ForkInv => ForkIsASnapshot
  BY ForkInvImplies
<1> QED
  BY <1>1, <1>2, <1>3, PTL

----------------------------------------------------------------------------
(* The operations of Windows: the handlers work on a copy x of the state,  *)
(* and P is the port.                                                      *)

Masks == {"SOCKET_ATTACHED", "CONNECT_PENDING", "READABLE", "WRITABLE", "READ_QUEUED", "CLOSE_PENDING"}
SockState == [fd : Fd, gen : Nat, masks : SUBSET Masks, wreqs : SUBSET (Sends \cup {"post"})]
OpRecord == [fd : Fd, gen : Nat, op : Sends \cup {"post", "read", "connect"}]
OpRec(f, g, n) == [fd |-> f, gen |-> g, op |-> n]

(* The operations that a state counts.                                     *)
Names(s) ==
    s.wreqs \cup {n \in {"read"} : "READ_QUEUED" \in s.masks}
            \cup {n \in {"connect"} : "CONNECT_PENDING" \in s.masks}
OpsOf(f, g, N) == {OpRec(f, g, n) : n \in N}
OfFd(S, f) == {s \in S : s.fd = f}

IsIo(x) ==
    /\ x = [open |-> x.open, lookup |-> x.lookup, closing |-> x.closing, kernel |-> x.kernel, gen |-> x.gen]
    /\ x.open \in [Fd -> Nat] /\ x.lookup \in [Fd -> SockState \cup {NoState}]
    /\ x.closing \subseteq SockState /\ x.kernel \subseteq OpRecord /\ x.gen \in Nat

(* The state l of a descriptor in use, and the state s of one that is      *)
(* being closed: g is the use of the descriptor, O its operations.         *)
InUse(f, l, g, C, O) ==
    /\ l.fd = f /\ l.gen = g /\ g # 0
    /\ "SOCKET_ATTACHED" \in l.masks /\ "CLOSE_PENDING" \notin l.masks
    /\ "CONNECT_PENDING" \in l.masks => Names(l) = {"connect"}
    /\ C = {} /\ O = OpsOf(f, g, Names(l))
BeingClosed(f, s, g, C, O) ==
    /\ C = {s} /\ s.gen = g /\ g # 0
    /\ "SOCKET_ATTACHED" \notin s.masks /\ Names(s) # {}
    /\ O = OpsOf(f, g, Names(s))

FdOk(f, l, g, C, O) ==
    /\ l # NoState => InUse(f, l, g, C, O)
    /\ l = NoState => (C = {} /\ O = {}) \/ (\E s : BeingClosed(f, s, g, C, O))

IoOk(x, P) ==
    /\ IsIo(x) /\ P \subseteq OpRecord /\ x.kernel \cap P = {}
    /\ \A f \in Fd : FdOk(f, x.lookup[f], x.open[f], OfFd(x.closing, f), OfFd(x.kernel \cup P, f))

LEMMA StateFacts ==
    /\ NoState \notin SockState
    /\ \A s \in SockState : s = [fd |-> s.fd, gen |-> s.gen, masks |-> s.masks, wreqs |-> s.wreqs]
    /\ \A s \in SockState : Names(s) \subseteq Sends \cup {"post", "read", "connect"}
    /\ \A s \in SockState : Pending(s) <=> Names(s) # {} \/ "SOCKET_ATTACHED" \in s.masks
    /\ \A s \in SockState : /\ "read" \in Names(s) <=> "READ_QUEUED" \in s.masks
                            /\ "connect" \in Names(s) <=> "CONNECT_PENDING" \in s.masks
                            /\ \A n : n \notin {"read", "connect"} => (n \in Names(s) <=> n \in s.wreqs)
<1>1. NoState \notin SockState
  BY IocpAssumption DEF NoState, SockState, NoFd
<1>2. \A s \in SockState : Names(s) \subseteq Sends \cup {"post", "read", "connect"}
  BY DEF SockState, Names
<1>3. \A s \in SockState : Pending(s) <=> Names(s) # {} \/ "SOCKET_ATTACHED" \in s.masks
  BY DEF SockState, Names, Pending
<1>4. \A s \in SockState : /\ "read" \in Names(s) <=> "READ_QUEUED" \in s.masks
                           /\ "connect" \in Names(s) <=> "CONNECT_PENDING" \in s.masks
                           /\ \A n : n \notin {"read", "connect"} => (n \in Names(s) <=> n \in s.wreqs)
  <2> SUFFICES ASSUME NEW s \in SockState
               PROVE  /\ "read" \in Names(s) <=> "READ_QUEUED" \in s.masks
                      /\ "connect" \in Names(s) <=> "CONNECT_PENDING" \in s.masks
                      /\ \A n : n \notin {"read", "connect"} => (n \in Names(s) <=> n \in s.wreqs)
    OBVIOUS
  <2>1. "read" \notin s.wreqs /\ "connect" \notin s.wreqs
    BY IocpAssumption DEF SockState
  <2> QED
    BY <2>1 DEF Names
<1>5. \A s \in SockState : s = [fd |-> s.fd, gen |-> s.gen, masks |-> s.masks, wreqs |-> s.wreqs]
  BY DEF SockState
<1> QED
  BY <1>1, <1>2, <1>3, <1>4, <1>5

\* The state of a descriptor in use changes: A are the operations that begin,
\* R those whose end was told.
LEMMA LookupChange ==
    ASSUME NEW x, NEW P, IoOk(x, P), NEW f \in Fd, x.lookup[f] # NoState,
           NEW s \in SockState, s.fd = f, s.gen = x.open[f],
           "SOCKET_ATTACHED" \in s.masks, "CLOSE_PENDING" \notin s.masks,
           "CONNECT_PENDING" \in s.masks => Names(s) = {"connect"},
           NEW A, A \cap Names(x.lookup[f]) = {}, NEW R, A \cap R = {},
           Names(s) = (Names(x.lookup[f]) \cup A) \ R, OpsOf(f, x.open[f], R) \subseteq P,
           NEW K, K = x.kernel \cup OpsOf(f, x.open[f], A)
    PROVE  IoOk([open |-> x.open, lookup |-> [x.lookup EXCEPT ![f] = s], closing |-> x.closing,
                 kernel |-> K, gen |-> x.gen],
                P \ OpsOf(f, x.open[f], R))
<1> DEFINE l == x.lookup[f]
           g == x.open[f]
           Q == P \ OpsOf(f, g, R)
           t == [x.lookup EXCEPT ![f] = s]
           y == [open |-> x.open, lookup |-> t, closing |-> x.closing, kernel |-> K, gen |-> x.gen]
<1>1. /\ InUse(f, l, g, OfFd(x.closing, f), OfFd(x.kernel \cup P, f))
      /\ x.open \in [Fd -> Nat] /\ x.lookup \in [Fd -> SockState \cup {NoState}]
      /\ x.closing \subseteq SockState /\ x.kernel \subseteq OpRecord /\ P \subseteq OpRecord /\ x.gen \in Nat
      /\ x.kernel \cap P = {}
  BY DEF IoOk, IsIo, FdOk
<1>2. A \subseteq Sends \cup {"post", "read", "connect"}
  BY StateFacts
<1>3. K \subseteq OpRecord /\ Q \subseteq OpRecord
  BY <1>1, <1>2 DEF OpsOf, OpRec, OpRecord
<1>4. \A n, m : OpRec(f, g, n) = OpRec(f, g, m) => n = m
  BY DEF OpRec
<1>5. \A n : OpRec(f, g, n) \in x.kernel \cup P <=> n \in Names(l)
  <2>1. \A n : OpRec(f, g, n).fd = f
    BY DEF OpRec
  <2>2. OfFd(x.kernel \cup P, f) = OpsOf(f, g, Names(l))
    BY <1>1 DEF InUse
  <2>3. \A n : OpRec(f, g, n) \in OpsOf(f, g, Names(l)) <=> n \in Names(l)
    BY <1>4 DEF OpsOf
  <2> QED
    BY <2>1, <2>2, <2>3 DEF OfFd
<1>6. \A o : o \in OfFd(x.kernel \cup P, f) <=> \E n \in Names(l) : o = OpRec(f, g, n)
  BY <1>1 DEF InUse, OpsOf
<1>7. K \cap Q = {}
  <2> SUFFICES ASSUME NEW o \in K, o \in Q PROVE FALSE
    OBVIOUS
  <2>1. o \notin x.kernel
    BY <1>1
  <2>2. PICK n \in A : o = OpRec(f, g, n)
    BY <2>1 DEF OpsOf
  <2> QED
    BY <1>5, <2>2
<1>8. OfFd(K \cup Q, f) = OpsOf(f, g, Names(s))
  <2>1. ASSUME NEW o \in OfFd(K \cup Q, f) PROVE o \in OpsOf(f, g, Names(s))
    <3>1. CASE o \in OpsOf(f, g, A)
      BY <3>1 DEF OpsOf
    <3>2. CASE o \notin OpsOf(f, g, A)
      <4>1. o.fd = f /\ (o \in x.kernel \/ (o \in P /\ o \notin OpsOf(f, g, R)))
        BY <2>1, <3>2 DEF OfFd
      <4>2. PICK n \in Names(l) : o = OpRec(f, g, n)
        BY <1>6, <4>1 DEF OfFd
      <4>3. n \notin R
        <5> SUFFICES ASSUME n \in R PROVE FALSE
          OBVIOUS
        <5>1. o \in OpsOf(f, g, R) /\ o \in P
          BY <4>2 DEF OpsOf
        <5> QED
          BY <1>1, <4>1, <5>1
      <4> QED
        BY <4>2, <4>3 DEF OpsOf
    <3> QED
      BY <3>1, <3>2
  <2>2. ASSUME NEW o \in OpsOf(f, g, Names(s)) PROVE o \in OfFd(K \cup Q, f)
    <3>1. PICK n \in Names(s) : o = OpRec(f, g, n)
      BY <2>2 DEF OpsOf
    <3>2. o.fd = f /\ n \notin R
      BY <3>1 DEF OpRec
    <3>3. CASE n \in A
      BY <3>1, <3>2, <3>3 DEF OpsOf, OfFd
    <3>4. CASE n \in Names(l)
      <4>1. o \in x.kernel \cup P
        BY <1>5, <3>1, <3>4
      <4>2. o \notin OpsOf(f, g, R)
        BY <1>4, <3>1, <3>2 DEF OpsOf
      <4> QED
        BY <3>2, <4>1, <4>2 DEF OfFd
    <3> QED
      BY <3>3, <3>4
  <2> QED
    BY <2>1, <2>2
<1>9. ASSUME NEW h \in Fd, h # f PROVE OfFd(K \cup Q, h) = OfFd(x.kernel \cup P, h)
  <2>1. \A N : \A o \in OpsOf(f, g, N) : o.fd = f
    BY DEF OpsOf, OpRec
  <2> QED
    BY <1>9, <2>1 DEF OfFd
<1>10. t \in [Fd -> SockState \cup {NoState}] /\ t[f] = s /\ \A h \in Fd : h # f => t[h] = x.lookup[h]
  BY <1>1
<1>11. y.open = x.open /\ y.lookup = t /\ y.closing = x.closing /\ y.kernel = K /\ y.gen = x.gen
  OBVIOUS
<1>12. IsIo(y)
  BY <1>1, <1>3, <1>10, <1>11 DEF IsIo
<1> HIDE DEF y, Q, t
<1>13. ASSUME NEW h \in Fd
       PROVE  FdOk(h, y.lookup[h], y.open[h], OfFd(y.closing, h), OfFd(y.kernel \cup Q, h))
  <2>1. CASE h = f
    <3>1. InUse(f, s, g, OfFd(x.closing, f), OfFd(K \cup Q, f))
      BY <1>1, <1>8 DEF InUse
    <3>2. s # NoState
      BY StateFacts
    <3> QED
      BY <1>10, <1>11, <2>1, <3>1, <3>2 DEF FdOk
  <2>2. CASE h # f
    <3>1. FdOk(h, x.lookup[h], x.open[h], OfFd(x.closing, h), OfFd(x.kernel \cup P, h))
      BY DEF IoOk
    <3> QED
      BY <1>9, <1>10, <1>11, <2>2, <3>1
  <2> QED
    BY <2>1, <2>2
<1>14. IoOk(y, Q)
  BY <1>3, <1>7, <1>11, <1>12, <1>13 DEF IoOk
<1> QED
  BY <1>14 DEF y, Q, t

\* What the operations make of the state, and what it is to change the state
\* of one descriptor.
Become(l, m, W) == [fd |-> l.fd, gen |-> l.gen, masks |-> m, wreqs |-> W]
SetState(x, f, s, K) ==
    [open |-> x.open, lookup |-> [x.lookup EXCEPT ![f] = s], closing |-> x.closing, kernel |-> K, gen |-> x.gen]

LEMMA MasksChange ==
    ASSUME NEW x, IsIo(x), NEW f \in Fd, x.lookup[f] \in SockState, NEW m
    PROVE  [x EXCEPT !.lookup[f].masks = m]
              = SetState(x, f, Become(x.lookup[f], m, x.lookup[f].wreqs), x.kernel)
<1> DEFINE y == [x EXCEPT !.lookup[f].masks = m]
<1>1. y = [x EXCEPT !.lookup[f].masks = m]
  OBVIOUS
<1>2. /\ x = [open |-> x.open, lookup |-> x.lookup, closing |-> x.closing, kernel |-> x.kernel, gen |-> x.gen]
      /\ x.lookup \in [Fd -> SockState \cup {NoState}]
      /\ x.lookup[f] = [fd |-> x.lookup[f].fd, gen |-> x.lookup[f].gen,
                        masks |-> x.lookup[f].masks, wreqs |-> x.lookup[f].wreqs]
  BY StateFacts DEF IsIo
<1> HIDE DEF y
<1>3. y = [open |-> x.open, lookup |-> y.lookup, closing |-> x.closing, kernel |-> x.kernel, gen |-> x.gen]
  BY <1>1, <1>2
<1>4. y.lookup = [x.lookup EXCEPT ![f] = [x.lookup[f] EXCEPT !.masks = m]]
  BY <1>1, <1>2
<1>5. [x.lookup[f] EXCEPT !.masks = m] = Become(x.lookup[f], m, x.lookup[f].wreqs)
  BY <1>2 DEF Become
<1> QED
  BY <1>1, <1>3, <1>4, <1>5 DEF SetState

LEMMA SetTwice ==
    ASSUME NEW x, IsIo(x), NEW f \in Fd, NEW s, NEW t, NEW K, NEW L
    PROVE  SetState(SetState(x, f, s, K), f, t, L) = SetState(x, f, t, L)
BY DEF SetState, IsIo

LEMMA ReceiveDoneIs ==
    ASSUME NEW x, IsIo(x), NEW f \in Fd, x.lookup[f] \in SockState, x.lookup[f].fd = f,
           "SOCKET_ATTACHED" \in x.lookup[f].masks
    PROVE  aeWinReceiveDone(x, f)
              = SetState(x, f, Become(x.lookup[f], x.lookup[f].masks \cup {"READ_QUEUED"}, x.lookup[f].wreqs),
                         x.kernel \cup {OpRec(f, x.open[f], "read")})
<1> DEFINE m == x.lookup[f].masks \cup {"READ_QUEUED"}
           y == aeWinReceiveDone(x, f)
<1>1. y = [x EXCEPT !.lookup[f].masks = m, !.kernel = @ \cup {OpRec(f, x.open[f], "read")}]
  BY DEF aeWinReceiveDone, Op, OpRec
<1>2. /\ x = [open |-> x.open, lookup |-> x.lookup, closing |-> x.closing, kernel |-> x.kernel, gen |-> x.gen]
      /\ x.lookup \in [Fd -> SockState \cup {NoState}]
      /\ x.lookup[f] = [fd |-> x.lookup[f].fd, gen |-> x.lookup[f].gen,
                        masks |-> x.lookup[f].masks, wreqs |-> x.lookup[f].wreqs]
  BY StateFacts DEF IsIo
<1> HIDE DEF y, m
<1>3. y = [open |-> x.open, lookup |-> y.lookup, closing |-> x.closing,
           kernel |-> x.kernel \cup {OpRec(f, x.open[f], "read")}, gen |-> x.gen]
  BY <1>1, <1>2
<1>4. y.lookup = [x.lookup EXCEPT ![f] = [x.lookup[f] EXCEPT !.masks = m]]
  BY <1>1, <1>2
<1>5. [x.lookup[f] EXCEPT !.masks = m] = Become(x.lookup[f], m, x.lookup[f].wreqs)
  BY <1>2 DEF Become
<1> QED
  BY <1>3, <1>4, <1>5 DEF SetState, y, m

\* From x and the port P to y and Q only the state of f changed.
Changed(x, P, y, Q, f, m, W) ==
    /\ IoOk(y, Q) /\ y.open = x.open /\ y.closing = x.closing /\ y.gen = x.gen
    /\ y.lookup[f] \in SockState /\ y.lookup[f].masks = m /\ y.lookup[f].wreqs = W
    /\ \A h \in Fd : h # f => y.lookup[h] = x.lookup[h]

\* A descriptor that has a state is in use.
LEMMA HasState ==
    ASSUME NEW x, NEW P, IoOk(x, P), NEW f \in Fd, x.lookup[f] # NoState
    PROVE  /\ IsIo(x) /\ x.lookup[f] \in SockState
           /\ InUse(f, x.lookup[f], x.open[f], OfFd(x.closing, f), OfFd(x.kernel \cup P, f))
BY DEF IoOk, IsIo, FdOk

LEMMA BecomeOk ==
    ASSUME NEW x, NEW P, IoOk(x, P), NEW f \in Fd, x.lookup[f] # NoState,
           NEW m, m \subseteq Masks, NEW W, W \subseteq Sends \cup {"post"},
           "SOCKET_ATTACHED" \in m, "CLOSE_PENDING" \notin m,
           "CONNECT_PENDING" \in m => Names(Become(x.lookup[f], m, W)) = {"connect"},
           NEW A, A \cap Names(x.lookup[f]) = {}, NEW R, A \cap R = {},
           Names(Become(x.lookup[f], m, W)) = (Names(x.lookup[f]) \cup A) \ R, OpsOf(f, x.open[f], R) \subseteq P,
           NEW K, K = x.kernel \cup OpsOf(f, x.open[f], A)
    PROVE  Changed(x, P, SetState(x, f, Become(x.lookup[f], m, W), K), P \ OpsOf(f, x.open[f], R), f, m, W)
<1> DEFINE s == Become(x.lookup[f], m, W)
           y == SetState(x, f, s, K)
<1>1. /\ IsIo(x) /\ x.lookup[f] \in SockState
      /\ InUse(f, x.lookup[f], x.open[f], OfFd(x.closing, f), OfFd(x.kernel \cup P, f))
  BY HasState
<1>2. s \in SockState /\ s.fd = f /\ s.gen = x.open[f] /\ s.masks = m /\ s.wreqs = W
  BY <1>1 DEF InUse, SockState, Become
<1>3. Names(s) = (Names(x.lookup[f]) \cup A) \ R
  OBVIOUS
<1>4. "CONNECT_PENDING" \in s.masks => Names(s) = {"connect"}
  BY <1>2
<1> HIDE DEF s
<1>5. IoOk(y, P \ OpsOf(f, x.open[f], R))
  BY <1>2, <1>3, <1>4, LookupChange DEF SetState
<1>6. y.open = x.open /\ y.closing = x.closing /\ y.gen = x.gen /\ y.lookup = [x.lookup EXCEPT ![f] = s]
  BY DEF SetState
<1>7. x.lookup \in [Fd -> SockState \cup {NoState}]
  BY <1>1 DEF IsIo
<1>8. y.lookup[f] = s /\ \A h \in Fd : h # f => y.lookup[h] = x.lookup[h]
  BY <1>6, <1>7
<1> HIDE DEF y
<1>9. Changed(x, P, y, P \ OpsOf(f, x.open[f], R), f, m, W)
  BY <1>2, <1>5, <1>6, <1>8 DEF Changed
<1> QED
  BY <1>9 DEF y, s

\* What a state counts, by its masks and its sends.
LEMMA NamesOfBecome ==
    ASSUME NEW l, NEW m, NEW W
    PROVE  Names(Become(l, m, W)) = W \cup {n \in {"read"} : "READ_QUEUED" \in m}
                                      \cup {n \in {"connect"} : "CONNECT_PENDING" \in m}
BY DEF Names, Become

LEMMA ReceiveDoneOk ==
    ASSUME NEW x, NEW P, IoOk(x, P), NEW f \in Fd, x.lookup[f] # NoState,
           Names(x.lookup[f]) \cap {"read", "connect"} = {}
    PROVE  Changed(x, P, aeWinReceiveDone(x, f), P, f, x.lookup[f].masks \cup {"READ_QUEUED"}, x.lookup[f].wreqs)
<1> DEFINE l == x.lookup[f]
           m == l.masks \cup {"READ_QUEUED"}
           W == l.wreqs
           K == x.kernel \cup {OpRec(f, x.open[f], "read")}
           A == {"read"}
           R == {}
<1>1. IsIo(x) /\ l \in SockState /\ InUse(f, l, x.open[f], OfFd(x.closing, f), OfFd(x.kernel \cup P, f))
  BY HasState
<1>2. aeWinReceiveDone(x, f) = SetState(x, f, Become(l, m, W), K)
  BY <1>1, ReceiveDoneIs DEF InUse
<1>3. /\ "SOCKET_ATTACHED" \in m /\ "CLOSE_PENDING" \notin m /\ m \subseteq Masks /\ W \subseteq Sends \cup {"post"}
  BY <1>1 DEF InUse, SockState, Masks
<1>4. "connect" \notin Names(l) /\ "read" \notin Names(l)
  OBVIOUS
<1>5. "CONNECT_PENDING" \notin l.masks
  BY <1>1, <1>4, StateFacts
<1>6. "CONNECT_PENDING" \notin m
  BY <1>5
<1>7. Names(Become(l, m, W)) = (Names(l) \cup A) \ R
  BY <1>5, NamesOfBecome DEF Names
<1>8. A \cap Names(l) = {} /\ A \cap R = {} /\ OpsOf(f, x.open[f], R) = {} /\ K = x.kernel \cup OpsOf(f, x.open[f], A)
  BY <1>4 DEF OpsOf
<1> HIDE DEF A, R, m, W, K
<1>9. Changed(x, P, SetState(x, f, Become(l, m, W), K), P \ OpsOf(f, x.open[f], R), f, m, W)
  BY <1>3, <1>6, <1>7, <1>8, BecomeOk
<1>10. P \ OpsOf(f, x.open[f], R) = P
  BY <1>8
<1> QED
  BY <1>2, <1>9, <1>10 DEF m, W

LEMMA ChangedTwice ==
    ASSUME NEW x, NEW y, NEW z, NEW P, NEW Q, NEW R, NEW f, NEW m, NEW n, NEW V, NEW W,
           Changed(x, P, y, Q, f, m, V), Changed(y, Q, z, R, f, n, W)
    PROVE  Changed(x, P, z, R, f, n, W)
BY DEF Changed

\* Registering or deleting an event begins and ends no operation.
LEMMA MasksOk ==
    ASSUME NEW x, NEW P, IoOk(x, P), NEW f \in Fd, x.lookup[f] # NoState,
           NEW m, m \subseteq Masks, m \ {"READABLE", "WRITABLE"} = x.lookup[f].masks \ {"READABLE", "WRITABLE"}
    PROVE  Changed(x, P, [x EXCEPT !.lookup[f].masks = m], P, f, m, x.lookup[f].wreqs)
<1> DEFINE l == x.lookup[f]
           W == l.wreqs
           R == {}
           K == x.kernel
<1>1. IsIo(x) /\ l \in SockState /\ InUse(f, l, x.open[f], OfFd(x.closing, f), OfFd(x.kernel \cup P, f))
  BY HasState
<1>2. [x EXCEPT !.lookup[f].masks = m] = SetState(x, f, Become(l, m, W), K)
  BY <1>1, MasksChange
<1>3. \A e : e \notin {"READABLE", "WRITABLE"} => (e \in m <=> e \in l.masks)
  OBVIOUS
<1>4. /\ "SOCKET_ATTACHED" \in m /\ "CLOSE_PENDING" \notin m /\ W \subseteq Sends \cup {"post"}
      /\ "CONNECT_PENDING" \in m <=> "CONNECT_PENDING" \in l.masks
      /\ "READ_QUEUED" \in m <=> "READ_QUEUED" \in l.masks
  BY <1>1, <1>3 DEF InUse, SockState
<1>5. Names(Become(l, m, W)) = Names(l)
  <2>1. Names(l) = l.wreqs \cup {n \in {"read"} : "READ_QUEUED" \in l.masks}
                          \cup {n \in {"connect"} : "CONNECT_PENDING" \in l.masks}
    BY DEF Names
  <2>2. {n \in {"read"} : "READ_QUEUED" \in m} = {n \in {"read"} : "READ_QUEUED" \in l.masks}
    BY <1>4
  <2>3. {n \in {"connect"} : "CONNECT_PENDING" \in m} = {n \in {"connect"} : "CONNECT_PENDING" \in l.masks}
    BY <1>4
  <2> QED
    BY <2>1, <2>2, <2>3, NamesOfBecome
<1>6. "CONNECT_PENDING" \in m => Names(Become(l, m, W)) = {"connect"}
  BY <1>1, <1>4, <1>5 DEF InUse
<1>7. Names(Become(l, m, W)) = (Names(l) \cup R) \ R
  BY <1>5
<1>8. R \cap Names(l) = {} /\ R \cap R = {} /\ OpsOf(f, x.open[f], R) = {} /\ K = x.kernel \cup OpsOf(f, x.open[f], R)
  BY DEF OpsOf
<1>9. OpsOf(f, x.open[f], R) \subseteq P
  BY <1>8
<1> HIDE DEF R, W, K
<1>10. Changed(x, P, SetState(x, f, Become(l, m, W), K), P \ OpsOf(f, x.open[f], R), f, m, W)
  BY <1>4, <1>6, <1>7, <1>8, <1>9, BecomeOk
<1>11. P \ OpsOf(f, x.open[f], R) = P
  BY <1>8
<1> QED
  BY <1>2, <1>10, <1>11 DEF W

LEMMA AddReadOk ==
    ASSUME NEW x, NEW P, IoOk(x, P), NEW f \in Fd, x.lookup[f] # NoState
    PROVE  \E m : /\ Changed(x, P, aeApiAddRead(x, f), P, f, m, x.lookup[f].wreqs)
                  /\ m \in {x.lookup[f].masks \cup {"READABLE"}, x.lookup[f].masks \cup {"READABLE", "READ_QUEUED"}}
                  /\ m \cap {"READ_QUEUED", "CONNECT_PENDING"} # {}
<1> DEFINE l == x.lookup[f]
           n == l.masks \cup {"READABLE"}
           y == [x EXCEPT !.lookup[f].masks = n]
<1>1. IsIo(x) /\ l \in SockState
  BY HasState
<1>2. n \subseteq Masks /\ n \ {"READABLE", "WRITABLE"} = l.masks \ {"READABLE", "WRITABLE"}
  BY <1>1 DEF SockState, Masks
<1>3. y = [x EXCEPT !.lookup[f].masks = @ \cup {"READABLE"}]
  OBVIOUS
<1>4. aeApiAddRead(x, f)
        = IF {"CONNECT_PENDING", "READ_QUEUED"} \cap y.lookup[f].masks # {} THEN y ELSE aeWinReceiveDone(y, f)
  BY <1>3 DEF aeApiAddRead
<1> HIDE DEF n
<1>5. Changed(x, P, y, P, f, n, l.wreqs)
  BY <1>2, MasksOk
<1> HIDE DEF y
<1>6. IoOk(y, P) /\ y.lookup[f] \in SockState /\ y.lookup[f].masks = n /\ y.lookup[f].wreqs = l.wreqs
  BY <1>5 DEF Changed
<1>7. CASE {"CONNECT_PENDING", "READ_QUEUED"} \cap y.lookup[f].masks # {}
  <2>1. aeApiAddRead(x, f) = y
    BY <1>4, <1>7
  <2>2. n \in {l.masks \cup {"READABLE"}, l.masks \cup {"READABLE", "READ_QUEUED"}}
    BY DEF n
  <2>3. n \cap {"READ_QUEUED", "CONNECT_PENDING"} # {}
    BY <1>6, <1>7
  <2> QED
    BY <1>5, <2>1, <2>2, <2>3
<1>8. CASE {"CONNECT_PENDING", "READ_QUEUED"} \cap y.lookup[f].masks = {}
  <2>1. aeApiAddRead(x, f) = aeWinReceiveDone(y, f)
    BY <1>4, <1>8
  <2>2. y.lookup[f] # NoState
    BY <1>6, StateFacts
  <2>3. "read" \notin Names(y.lookup[f]) /\ "connect" \notin Names(y.lookup[f])
    BY <1>6, <1>8, StateFacts
  <2>4. Names(y.lookup[f]) \cap {"read", "connect"} = {}
    BY <2>3
  <2>5. Changed(y, P, aeWinReceiveDone(y, f), P, f, n \cup {"READ_QUEUED"}, l.wreqs)
    BY <1>6, <2>2, <2>4, ReceiveDoneOk
  <2>6. Changed(x, P, aeApiAddRead(x, f), P, f, n \cup {"READ_QUEUED"}, l.wreqs)
    BY <1>5, <2>1, <2>5, ChangedTwice
  <2>7. n \cup {"READ_QUEUED"} = l.masks \cup {"READABLE", "READ_QUEUED"}
    BY DEF n
  <2>8. (n \cup {"READ_QUEUED"}) \cap {"READ_QUEUED", "CONNECT_PENDING"} # {}
    OBVIOUS
  <2> QED
    BY <2>6, <2>7, <2>8
<1> QED
  BY <1>7, <1>8

LEMMA AddWriteOk ==
    ASSUME NEW x, NEW P, IoOk(x, P), NEW f \in Fd, x.lookup[f] # NoState
    PROVE  \E W : /\ Changed(x, P, aeApiAddWrite(x, f), P, f, x.lookup[f].masks \cup {"WRITABLE"}, W)
                  /\ "CONNECT_PENDING" \in x.lookup[f].masks \/ W # {}
                  /\ W = x.lookup[f].wreqs \/ W = {"post"}
<1> DEFINE l == x.lookup[f]
           n == l.masks \cup {"WRITABLE"}
           y == [x EXCEPT !.lookup[f].masks = n]
<1>1. IsIo(x) /\ l \in SockState
  BY HasState
<1>2. n \subseteq Masks /\ n \ {"READABLE", "WRITABLE"} = l.masks \ {"READABLE", "WRITABLE"}
  BY <1>1 DEF SockState, Masks
<1>3. y = [x EXCEPT !.lookup[f].masks = @ \cup {"WRITABLE"}]
  OBVIOUS
<1>4. aeApiAddWrite(x, f)
        = IF "CONNECT_PENDING" \in y.lookup[f].masks \/ y.lookup[f].wreqs # {} THEN y
          ELSE [y EXCEPT !.lookup[f].wreqs = {"post"}, !.kernel = @ \cup {Op(y, f, "post")}]
  BY <1>3 DEF aeApiAddWrite
<1> HIDE DEF n
<1>5. Changed(x, P, y, P, f, n, l.wreqs)
  BY <1>2, MasksOk
<1> HIDE DEF y
<1>6. IoOk(y, P) /\ y.lookup[f] \in SockState /\ y.lookup[f].masks = n /\ y.lookup[f].wreqs = l.wreqs
  BY <1>5 DEF Changed
<1>7. CASE "CONNECT_PENDING" \in y.lookup[f].masks \/ y.lookup[f].wreqs # {}
  <2>1. aeApiAddWrite(x, f) = y
    BY <1>4, <1>7
  <2>2. "CONNECT_PENDING" \in l.masks \/ l.wreqs # {}
    BY <1>6, <1>7 DEF n
  <2> QED
    BY <1>5, <2>1, <2>2 DEF n
<1>8. CASE ~("CONNECT_PENDING" \in y.lookup[f].masks \/ y.lookup[f].wreqs # {})
  <2> DEFINE k == y.lookup[f]
             W == {"post"}
             K == y.kernel \cup {OpRec(f, y.open[f], "post")}
             z == aeApiAddWrite(x, f)
  <2>1. y.lookup[f] # NoState
    BY <1>6, StateFacts
  <2>2. /\ IsIo(y) /\ k \in SockState
        /\ InUse(f, k, y.open[f], OfFd(y.closing, f), OfFd(y.kernel \cup P, f))
    BY <1>6, <2>1, HasState
  <2>3. z = [y EXCEPT !.lookup[f].wreqs = W, !.kernel = K]
    BY <1>4, <1>8 DEF Op, OpRec
  <2>4. /\ y = [open |-> y.open, lookup |-> y.lookup, closing |-> y.closing, kernel |-> y.kernel, gen |-> y.gen]
        /\ y.lookup \in [Fd -> SockState \cup {NoState}]
        /\ k = [fd |-> k.fd, gen |-> k.gen, masks |-> k.masks, wreqs |-> k.wreqs]
    BY <2>2, StateFacts DEF IsIo
  <2> HIDE DEF z, K, W
  <2>5. z = [open |-> y.open, lookup |-> z.lookup, closing |-> y.closing, kernel |-> K, gen |-> y.gen]
    BY <2>3, <2>4
  <2>6. z.lookup = [y.lookup EXCEPT ![f] = [y.lookup[f] EXCEPT !.wreqs = W]]
    BY <2>3, <2>4
  <2>7. [y.lookup[f] EXCEPT !.wreqs = W] = Become(k, n, W)
    BY <1>6, <2>4 DEF Become
  <2>8. z = SetState(y, f, Become(k, n, W), K)
    BY <2>5, <2>6, <2>7 DEF SetState
  <2>9. k.wreqs = {} /\ "CONNECT_PENDING" \notin k.masks
    BY <1>8
  <2>10. Names(k) \subseteq {"read"}
    BY <2>9 DEF Names
  <2>11. "post" \notin Names(k) /\ "CONNECT_PENDING" \notin n
    BY <1>6, <2>9, <2>10
  <2>12. n \subseteq Masks /\ W \subseteq Sends \cup {"post"} /\ "SOCKET_ATTACHED" \in n /\ "CLOSE_PENDING" \notin n
    BY <1>2, <1>6, <2>2 DEF W, InUse
  <2> DEFINE R == {}
  <2>13. Names(Become(k, n, W)) = (Names(k) \cup W) \ R
    <3>1. k.masks = n /\ k.wreqs = {} /\ "CONNECT_PENDING" \notin n
      BY <1>6, <2>9
    <3> HIDE DEF k, n, W
    <3> QED
      BY <3>1, NamesOfBecome DEF Names
  <2>14. W \cap Names(k) = {} /\ W \cap R = {} /\ OpsOf(f, y.open[f], R) = {} /\ K = y.kernel \cup OpsOf(f, y.open[f], W)
    BY <2>11 DEF W, K, OpsOf
  <2>15. OpsOf(f, y.open[f], R) \subseteq P /\ P \ OpsOf(f, y.open[f], R) = P
    BY <2>14
  <2> HIDE DEF R
  <2>16. Changed(y, P, z, P \ OpsOf(f, y.open[f], R), f, n, W)
    BY <1>6, <2>1, <2>8, <2>11, <2>12, <2>13, <2>14, <2>15, BecomeOk
  <2>17. Changed(x, P, z, P, f, n, W)
    BY <1>5, <2>15, <2>16, ChangedTwice
  <2> QED
    BY <2>17 DEF W, z, n
<1> QED
  BY <1>7, <1>8

\* An operation of a descriptor is one that its state counts.
LEMMA OpIsCounted ==
    ASSUME NEW x, NEW P, IoOk(x, P), NEW f \in Fd, x.lookup[f] # NoState, NEW op \in P, op.fd = f
    PROVE  op = OpRec(f, x.open[f], op.op) /\ op.op \in Names(x.lookup[f]) /\ OpsOf(f, x.open[f], {op.op}) = {op}
<1>1. InUse(f, x.lookup[f], x.open[f], OfFd(x.closing, f), OfFd(x.kernel \cup P, f))
  BY HasState
<1>2. op \in OpsOf(f, x.open[f], Names(x.lookup[f]))
  BY <1>1 DEF InUse, OfFd
<1>3. PICK n \in Names(x.lookup[f]) : op = OpRec(f, x.open[f], n)
  BY <1>2 DEF OpsOf
<1>4. n = op.op
  BY <1>3 DEF OpRec
<1> QED
  BY <1>3, <1>4 DEF OpsOf

LEMMA SendOk ==
    ASSUME NEW x, NEW P, IoOk(x, P), NEW f \in Fd, x.lookup[f] # NoState, "CONNECT_PENDING" \notin x.lookup[f].masks,
           NEW ids \in SUBSET Sends, ids \cap x.lookup[f].wreqs = {}
    PROVE  Changed(x, P, aeWinSocketSend(x, f, ids), P, f, x.lookup[f].masks, x.lookup[f].wreqs \cup ids)
<1> DEFINE l == x.lookup[f]
           m == l.masks
           W == l.wreqs \cup ids
           R == {}
           K == x.kernel \cup OpsOf(f, x.open[f], ids)
           y == aeWinSocketSend(x, f, ids)
<1>1. IsIo(x) /\ l \in SockState /\ InUse(f, l, x.open[f], OfFd(x.closing, f), OfFd(x.kernel \cup P, f))
  BY HasState
<1>2. y = [x EXCEPT !.lookup[f].wreqs = W, !.kernel = K]
  BY DEF aeWinSocketSend, Op, OpsOf, OpRec
<1>3. /\ x = [open |-> x.open, lookup |-> x.lookup, closing |-> x.closing, kernel |-> x.kernel, gen |-> x.gen]
      /\ x.lookup \in [Fd -> SockState \cup {NoState}]
      /\ l = [fd |-> l.fd, gen |-> l.gen, masks |-> l.masks, wreqs |-> l.wreqs]
  BY <1>1, StateFacts DEF IsIo
<1> HIDE DEF y, K, W
<1>4. y = [open |-> x.open, lookup |-> y.lookup, closing |-> x.closing, kernel |-> K, gen |-> x.gen]
  BY <1>2, <1>3
<1>5. y.lookup = [x.lookup EXCEPT ![f] = [x.lookup[f] EXCEPT !.wreqs = W]]
  BY <1>2, <1>3
<1>6. [x.lookup[f] EXCEPT !.wreqs = W] = Become(l, m, W)
  BY <1>3 DEF Become
<1>7. y = SetState(x, f, Become(l, m, W), K)
  BY <1>4, <1>5, <1>6 DEF SetState
<1>8. m \subseteq Masks /\ W \subseteq Sends \cup {"post"} /\ "SOCKET_ATTACHED" \in m /\ "CLOSE_PENDING" \notin m
  BY <1>1 DEF InUse, SockState, W
<1>9. "CONNECT_PENDING" \notin m
  OBVIOUS
<1>10. Names(Become(l, m, W)) = (Names(l) \cup ids) \ R
  <2> DEFINE r == {n \in {"read"} : "READ_QUEUED" \in l.masks}
             c == {n \in {"connect"} : "CONNECT_PENDING" \in l.masks}
  <2>1. Names(Become(l, m, W)) = W \cup r \cup c
    BY NamesOfBecome
  <2>2. Names(l) = l.wreqs \cup r \cup c
    BY DEF Names
  <2> HIDE DEF r, c
  <2>3. W = l.wreqs \cup ids
    BY DEF W
  <2> HIDE DEF l, m
  <2> QED
    BY <2>1, <2>2, <2>3
<1>11. ids \cap Names(l) = {}
  <2>1. "read" \notin ids /\ "connect" \notin ids
    BY IocpAssumption
  <2> HIDE DEF l
  <2> QED
    BY <2>1 DEF Names, l
<1>12. ids \cap R = {} /\ OpsOf(f, x.open[f], R) = {} /\ K = x.kernel \cup OpsOf(f, x.open[f], ids)
  BY DEF K, OpsOf
<1>13. OpsOf(f, x.open[f], R) \subseteq P /\ P \ OpsOf(f, x.open[f], R) = P
  BY <1>12
<1> HIDE DEF R
<1>14. Changed(x, P, y, P \ OpsOf(f, x.open[f], R), f, m, W)
  BY <1>7, <1>8, <1>9, <1>10, <1>11, <1>12, <1>13, BecomeOk
<1> QED
  BY <1>13, <1>14 DEF y, W

\* The end of an operation was told: m and W no longer count it.
LEMMA EndOk ==
    ASSUME NEW x, NEW P, IoOk(x, P), NEW f \in Fd, x.lookup[f] # NoState, NEW op \in P, op.fd = f,
           NEW m, m \subseteq Masks, NEW W, W \subseteq Sends \cup {"post"},
           "SOCKET_ATTACHED" \in m, "CLOSE_PENDING" \notin m, "CONNECT_PENDING" \notin m,
           Names(Become(x.lookup[f], m, W)) = Names(x.lookup[f]) \ {op.op}
    PROVE  Changed(x, P, SetState(x, f, Become(x.lookup[f], m, W), x.kernel), P \ {op}, f, m, W)
<1> DEFINE A == {}
           R == {op.op}
           K == x.kernel
<1>1. OpsOf(f, x.open[f], R) = {op}
  BY OpIsCounted
<1>2. A \cap Names(x.lookup[f]) = {} /\ A \cap R = {} /\ K = x.kernel \cup OpsOf(f, x.open[f], A)
  BY DEF OpsOf
<1>3. OpsOf(f, x.open[f], R) \subseteq P
  BY <1>1
<1>4. Names(Become(x.lookup[f], m, W)) = (Names(x.lookup[f]) \cup A) \ R
  OBVIOUS
<1> HIDE DEF A, R
<1>5. Changed(x, P, SetState(x, f, Become(x.lookup[f], m, W), K), P \ OpsOf(f, x.open[f], R), f, m, W)
  BY <1>2, <1>3, <1>4, BecomeOk
<1> QED
  BY <1>1, <1>5

LEMMA ConnectIsTold ==
    ASSUME NEW x, NEW P, IoOk(x, P), NEW f \in Fd, x.lookup[f] # NoState, NEW op \in P, op.fd = f, op.op = "connect"
    PROVE  /\ x.lookup[f].wreqs = {}
           /\ Changed(x, P, [x EXCEPT !.lookup[f].masks = @ \ {"CONNECT_PENDING"}], P \ {op}, f,
                      x.lookup[f].masks \ {"CONNECT_PENDING"}, x.lookup[f].wreqs)
<1> DEFINE l == x.lookup[f]
           m == l.masks \ {"CONNECT_PENDING"}
           W == l.wreqs
<1>1. IsIo(x) /\ l \in SockState /\ InUse(f, l, x.open[f], OfFd(x.closing, f), OfFd(x.kernel \cup P, f))
  BY HasState
<1>2. [x EXCEPT !.lookup[f].masks = @ \ {"CONNECT_PENDING"}] = SetState(x, f, Become(l, m, W), x.kernel)
  <2> HIDE DEF m
  <2>1. [x EXCEPT !.lookup[f].masks = m] = SetState(x, f, Become(l, m, W), x.kernel)
    BY <1>1, MasksChange
  <2> QED
    BY <2>1 DEF m
<1>3. m \subseteq Masks /\ W \subseteq Sends \cup {"post"} /\ "SOCKET_ATTACHED" \in m /\ "CLOSE_PENDING" \notin m
  BY <1>1 DEF InUse, SockState
<1>4. "CONNECT_PENDING" \notin m
  OBVIOUS
<1>5. "connect" \in Names(l)
  <2>1. op.op \in Names(l)
    BY OpIsCounted
  <2> QED
    BY <2>1
<1>6. Names(l) = {"connect"}
  BY <1>1, <1>5, StateFacts DEF InUse
<1>7. W = {} /\ "READ_QUEUED" \notin m
  <2>1. "connect" \notin W
    BY <1>3, IocpAssumption
  <2>2. W = {}
    BY <1>6, <2>1 DEF Names
  <2>3. "read" \notin Names(l)
    BY <1>6
  <2> QED
    BY <1>1, <2>2, <2>3, StateFacts
<1>8. Names(Become(l, m, W)) = {}
  <2> HIDE DEF m, W
  <2> QED
    BY <1>4, <1>7, NamesOfBecome
<1>9. Names(l) \ {op.op} = {}
  BY <1>6
<1> HIDE DEF m, W
<1>10. Changed(x, P, SetState(x, f, Become(l, m, W), x.kernel), P \ {op}, f, m, W)
  BY <1>3, <1>4, <1>8, <1>9, EndOk
<1> QED
  BY <1>2, <1>7, <1>10 DEF m, W

LEMMA ReadIsTold ==
    ASSUME NEW x, NEW P, IoOk(x, P), NEW f \in Fd, x.lookup[f] # NoState, NEW op \in P, op.fd = f, op.op = "read"
    PROVE  /\ "CONNECT_PENDING" \notin x.lookup[f].masks
           /\ Changed(x, P, [x EXCEPT !.lookup[f].masks = @ \ {"READ_QUEUED"}], P \ {op}, f,
                      x.lookup[f].masks \ {"READ_QUEUED"}, x.lookup[f].wreqs)
<1> DEFINE l == x.lookup[f]
           m == l.masks \ {"READ_QUEUED"}
           W == l.wreqs
<1>1. IsIo(x) /\ l \in SockState /\ InUse(f, l, x.open[f], OfFd(x.closing, f), OfFd(x.kernel \cup P, f))
  BY HasState
<1>2. [x EXCEPT !.lookup[f].masks = @ \ {"READ_QUEUED"}] = SetState(x, f, Become(l, m, W), x.kernel)
  <2> HIDE DEF m
  <2>1. [x EXCEPT !.lookup[f].masks = m] = SetState(x, f, Become(l, m, W), x.kernel)
    BY <1>1, MasksChange
  <2> QED
    BY <2>1 DEF m
<1>3. m \subseteq Masks /\ W \subseteq Sends \cup {"post"} /\ "SOCKET_ATTACHED" \in m /\ "CLOSE_PENDING" \notin m
  BY <1>1 DEF InUse, SockState
<1>4. "read" \in Names(l)
  <2>1. op.op \in Names(l)
    BY OpIsCounted
  <2> QED
    BY <2>1
<1>5. "CONNECT_PENDING" \notin l.masks
  BY <1>1, <1>4 DEF InUse
<1>6. "CONNECT_PENDING" \notin m /\ "READ_QUEUED" \notin m
  BY <1>5
<1>7. Names(Become(l, m, W)) = W
  <2>1. {n \in {"read"} : "READ_QUEUED" \in m} = {} /\ {n \in {"connect"} : "CONNECT_PENDING" \in m} = {}
    BY <1>6
  <2> HIDE DEF m, W
  <2>2. Names(Become(l, m, W)) = W \cup {n \in {"read"} : "READ_QUEUED" \in m} \cup {n \in {"connect"} : "CONNECT_PENDING" \in m}
    BY NamesOfBecome
  <2> QED
    BY <2>1, <2>2
<1>8. Names(l) \ {op.op} = W
  <2>1. "read" \notin W
    BY <1>3, IocpAssumption
  <2>2. Names(l) = W \cup {"read"}
    BY <1>1, <1>4, <1>5, StateFacts DEF Names
  <2> HIDE DEF l, W
  <2> QED
    BY <2>1, <2>2
<1> HIDE DEF m, W
<1>9. Changed(x, P, SetState(x, f, Become(l, m, W), x.kernel), P \ {op}, f, m, W)
  BY <1>3, <1>6, <1>7, <1>8, EndOk
<1> QED
  BY <1>2, <1>5, <1>9 DEF m, W

LEMMA WriteIsTold ==
    ASSUME NEW x, NEW P, IoOk(x, P), NEW f \in Fd, x.lookup[f] # NoState, NEW op \in P, op.fd = f,
           op.op \notin {"connect", "read"},
           NEW m, m = x.lookup[f].masks \/ m = x.lookup[f].masks \ {"WRITABLE"},
           NEW W, W = x.lookup[f].wreqs \ {op.op}
    PROVE  /\ "CONNECT_PENDING" \notin x.lookup[f].masks
           /\ Changed(x, P, SetState(x, f, Become(x.lookup[f], m, W), x.kernel), P \ {op}, f, m, W)
<1> DEFINE l == x.lookup[f]
<1>1. IsIo(x) /\ l \in SockState /\ InUse(f, l, x.open[f], OfFd(x.closing, f), OfFd(x.kernel \cup P, f))
  BY HasState
<1>2. /\ x = [open |-> x.open, lookup |-> x.lookup, closing |-> x.closing, kernel |-> x.kernel, gen |-> x.gen]
      /\ x.lookup \in [Fd -> SockState \cup {NoState}]
      /\ l = [fd |-> l.fd, gen |-> l.gen, masks |-> l.masks, wreqs |-> l.wreqs]
  BY <1>1, StateFacts DEF IsIo
<1>8. op.op \in Names(l)
  BY OpIsCounted
<1>9. "CONNECT_PENDING" \notin l.masks
  BY <1>1, <1>8 DEF InUse
<1>10. /\ m \subseteq Masks /\ W \subseteq Sends \cup {"post"} /\ "SOCKET_ATTACHED" \in m /\ "CLOSE_PENDING" \notin m
       /\ "CONNECT_PENDING" \notin m /\ ("READ_QUEUED" \in m <=> "READ_QUEUED" \in l.masks)
  BY <1>1, <1>9 DEF InUse, SockState
<1>11. Names(Become(l, m, W)) = Names(l) \ {op.op}
  <2>1. Names(Become(l, m, W)) = W \cup {n \in {"read"} : "READ_QUEUED" \in m} \cup {n \in {"connect"} : "CONNECT_PENDING" \in m}
    BY NamesOfBecome
  <2>2. Names(l) = l.wreqs \cup {n \in {"read"} : "READ_QUEUED" \in l.masks} \cup {n \in {"connect"} : "CONNECT_PENDING" \in l.masks}
    BY DEF Names
  <2>3. {n \in {"read"} : "READ_QUEUED" \in m} = {n \in {"read"} : "READ_QUEUED" \in l.masks}
    BY <1>10
  <2>4. {n \in {"connect"} : "CONNECT_PENDING" \in m} = {} /\ {n \in {"connect"} : "CONNECT_PENDING" \in l.masks} = {}
    BY <1>9, <1>10
  <2>5. op.op \notin {n \in {"read"} : "READ_QUEUED" \in l.masks}
    OBVIOUS
  <2>6. Names(Become(l, m, W)) = W \cup {n \in {"read"} : "READ_QUEUED" \in l.masks}
    BY <2>1, <2>3, <2>4
  <2>7. Names(l) = l.wreqs \cup {n \in {"read"} : "READ_QUEUED" \in l.masks}
    BY <2>2, <2>4
  <2>8. W = l.wreqs \ {op.op}
    OBVIOUS
  <2> HIDE DEF l
  <2> QED
    BY <2>5, <2>6, <2>7, <2>8
<1>12. Changed(x, P, SetState(x, f, Become(l, m, W), x.kernel), P \ {op}, f, m, W)
  BY <1>10, <1>11, EndOk
<1> QED
  BY <1>9, <1>12

\* Only the descriptor f is concerned.
Elsewhere(x, P, y, Q, f) ==
    \A h \in Fd : h # f => /\ y.lookup[h] = x.lookup[h] /\ y.open[h] = x.open[h]
                           /\ OfFd(y.closing, h) = OfFd(x.closing, h)
                           /\ OfFd(y.kernel \cup Q, h) = OfFd(x.kernel \cup P, h)

LEMMA OneDescriptor ==
    ASSUME NEW x, NEW P, IoOk(x, P), NEW y, NEW Q, IsIo(y), Q \subseteq OpRecord, y.kernel \cap Q = {}, NEW f,
           FdOk(f, y.lookup[f], y.open[f], OfFd(y.closing, f), OfFd(y.kernel \cup Q, f)),
           Elsewhere(x, P, y, Q, f)
    PROVE  IoOk(y, Q)
<1>1. ASSUME NEW h \in Fd PROVE FdOk(h, y.lookup[h], y.open[h], OfFd(y.closing, h), OfFd(y.kernel \cup Q, h))
  <2>1. CASE h = f
    BY <2>1
  <2>2. CASE h # f
    <3>1. FdOk(h, x.lookup[h], x.open[h], OfFd(x.closing, h), OfFd(x.kernel \cup P, h))
      BY DEF IoOk
    <3> QED
      BY <2>2, <3>1 DEF Elsewhere
  <2> QED
    BY <2>1, <2>2
<1> QED
  BY <1>1 DEF IoOk

\* A closed descriptor has nothing under way, and gets a state.
NewSocket(x, f, m, K) ==
    [open |-> [x.open EXCEPT ![f] = x.gen + 1],
     lookup |-> [x.lookup EXCEPT ![f] = [fd |-> f, gen |-> x.gen + 1, masks |-> m, wreqs |-> {}]],
     closing |-> x.closing, kernel |-> K, gen |-> x.gen + 1]

\* The masks of a new state, with the operations A that begin.
NewMasks(m, A) ==
    /\ m \subseteq Masks /\ "SOCKET_ATTACHED" \in m /\ "READ_QUEUED" \notin m /\ "CLOSE_PENDING" \notin m
    /\ A = {n \in {"connect"} : "CONNECT_PENDING" \in m}

LEMMA OpenOk ==
    ASSUME NEW x, NEW P, IoOk(x, P), NEW f \in Fd, x.open[f] = 0, x.lookup[f] = NoState,
           NEW m, NEW A, NewMasks(m, A),
           NEW K, K = x.kernel \cup OpsOf(f, x.gen + 1, A),
           NEW y, y = NewSocket(x, f, m, K)
    PROVE  /\ IoOk(y, P) /\ y.lookup[f] \in SockState /\ y.lookup[f].masks = m /\ y.lookup[f].wreqs = {}
           /\ \A h \in Fd : h # f => y.lookup[h] = x.lookup[h]
<1> DEFINE g == x.gen + 1
           s == [fd |-> f, gen |-> g, masks |-> m, wreqs |-> {}]
<1>0. /\ m \subseteq Masks /\ "SOCKET_ATTACHED" \in m /\ "READ_QUEUED" \notin m /\ "CLOSE_PENDING" \notin m
      /\ A = {n \in {"connect"} : "CONNECT_PENDING" \in m}
  BY DEF NewMasks
<1>1. /\ x.open \in [Fd -> Nat] /\ x.lookup \in [Fd -> SockState \cup {NoState}]
      /\ x.closing \subseteq SockState /\ x.kernel \subseteq OpRecord /\ P \subseteq OpRecord /\ x.gen \in Nat
      /\ x.kernel \cap P = {}
  BY DEF IoOk, IsIo
<1>2. FdOk(f, x.lookup[f], x.open[f], OfFd(x.closing, f), OfFd(x.kernel \cup P, f))
  BY DEF IoOk
<1>3. OfFd(x.closing, f) = {} /\ OfFd(x.kernel \cup P, f) = {}
  BY <1>2 DEF FdOk, BeingClosed
<1>4. g \in Nat /\ g # 0
  BY <1>1
<1>5. s \in SockState /\ s.fd = f /\ s.gen = g /\ s.masks = m /\ s.wreqs = {}
  BY <1>0, <1>4 DEF SockState
<1>6. Names(s) = A
  <2>1. Names(s) = {n \in {"connect"} : "CONNECT_PENDING" \in m}
    BY <1>0, <1>5 DEF Names
  <2> QED
    BY <1>0, <2>1
<1>7. "CONNECT_PENDING" \in m => Names(s) = {"connect"}
  BY <1>0, <1>6
<1>8. OpsOf(f, g, A) \subseteq OpRecord
  BY <1>0, <1>4 DEF OpsOf, OpRec, OpRecord
<1>9. \A o \in OpsOf(f, g, A) : o.fd = f
  BY DEF OpsOf, OpRec
<1>10. y.open = [x.open EXCEPT ![f] = g] /\ y.lookup = [x.lookup EXCEPT ![f] = s] /\ y.closing = x.closing
       /\ y.kernel = K /\ y.gen = g
       /\ y = [open |-> y.open, lookup |-> y.lookup, closing |-> y.closing, kernel |-> y.kernel, gen |-> y.gen]
  BY DEF NewSocket
<1> HIDE DEF s, g
<1>11. /\ y.open \in [Fd -> Nat] /\ y.lookup \in [Fd -> SockState \cup {NoState}] /\ y.lookup[f] = s /\ y.open[f] = g
       /\ \A h \in Fd : h # f => y.lookup[h] = x.lookup[h] /\ y.open[h] = x.open[h]
  <2>1. y.open = [x.open EXCEPT ![f] = g] /\ y.lookup = [x.lookup EXCEPT ![f] = s]
    BY <1>10
  <2>2. y.open \in [Fd -> Nat] /\ y.open[f] = g /\ \A h \in Fd : h # f => y.open[h] = x.open[h]
    BY <1>1, <1>4, <2>1
  <2>3. /\ y.lookup \in [Fd -> SockState \cup {NoState}] /\ y.lookup[f] = s
        /\ \A h \in Fd : h # f => y.lookup[h] = x.lookup[h]
    <3>1. s \in SockState /\ x.lookup \in [Fd -> SockState \cup {NoState}]
      BY <1>1, <1>5
    <3>2. y.lookup = [x.lookup EXCEPT ![f] = s]
      BY <2>1
    <3> DEFINE L == y.lookup
               M == x.lookup
    <3> HIDE DEF L, M
    <3>3. L \in [Fd -> SockState \cup {NoState}] /\ L[f] = s /\ \A h \in Fd : h # f => L[h] = M[h]
      <4>1. L = [M EXCEPT ![f] = s] /\ M \in [Fd -> SockState \cup {NoState}]
        BY <3>1, <3>2 DEF L, M
      <4> QED
        BY <3>1, <4>1
    <3> QED
      BY <3>3 DEF L, M
  <2> QED
    BY <2>2, <2>3
<1>12. K = x.kernel \cup OpsOf(f, g, A)
  BY DEF g
<1>13. IsIo(y)
  BY <1>1, <1>4, <1>8, <1>10, <1>11, <1>12 DEF IsIo
<1>14. y.kernel \cap P = {}
  BY <1>1, <1>3, <1>9, <1>10, <1>12 DEF OfFd
<1>15. OfFd(y.kernel \cup P, f) = OpsOf(f, g, A)
  BY <1>3, <1>9, <1>10, <1>12 DEF OfFd
<1>16. \A h \in Fd : h # f => OfFd(y.kernel \cup P, h) = OfFd(x.kernel \cup P, h)
  BY <1>9, <1>10, <1>12 DEF OfFd
<1>17. InUse(f, s, g, {}, OpsOf(f, g, A))
  BY <1>0, <1>4, <1>5, <1>6, <1>7 DEF InUse
<1>18. FdOk(f, y.lookup[f], y.open[f], OfFd(y.closing, f), OfFd(y.kernel \cup P, f))
  <2>1. s # NoState
    BY <1>5, StateFacts
  <2>2. FdOk(f, s, g, {}, OpsOf(f, g, A))
    BY <1>17, <2>1 DEF FdOk
  <2>3. y.lookup[f] = s /\ y.open[f] = g /\ OfFd(y.closing, f) = {} /\ OfFd(y.kernel \cup P, f) = OpsOf(f, g, A)
    BY <1>3, <1>10, <1>11, <1>15
  <2> QED
    BY <2>2, <2>3
<1>19. IoOk(y, P)
  <2>1. y.closing = x.closing
    BY <1>10
  <2>2. Elsewhere(x, P, y, P, f)
    BY <1>11, <1>16, <2>1 DEF Elsewhere
  <2>3. P \subseteq OpRecord /\ IsIo(y) /\ y.kernel \cap P = {}
    BY <1>1, <1>13, <1>14
  <2> QED
    BY <1>18, <2>2, <2>3, OneDescriptor
<1> QED
  BY <1>5, <1>11, <1>19

\* The kernel ends an operation: the port tells of it.
LEMMA CompletesOk ==
    ASSUME NEW x, NEW P, IoOk(x, P), NEW op \in x.kernel, NEW K, K = x.kernel \ {op},
           NEW y, y = [open |-> x.open, lookup |-> x.lookup, closing |-> x.closing, kernel |-> K, gen |-> x.gen]
    PROVE  IoOk(y, P \cup {op})
<1>1. /\ x.open \in [Fd -> Nat] /\ x.lookup \in [Fd -> SockState \cup {NoState}]
      /\ x.closing \subseteq SockState /\ x.kernel \subseteq OpRecord /\ P \subseteq OpRecord /\ x.gen \in Nat
      /\ x.kernel \cap P = {}
  BY DEF IoOk, IsIo
<1>2. /\ y.open = x.open /\ y.lookup = x.lookup /\ y.closing = x.closing /\ y.kernel = K /\ y.gen = x.gen
      /\ y = [open |-> y.open, lookup |-> y.lookup, closing |-> y.closing, kernel |-> y.kernel, gen |-> y.gen]
  OBVIOUS
<1>3. y.kernel \cup (P \cup {op}) = x.kernel \cup P
  BY <1>2
<1>4. IsIo(y) /\ P \cup {op} \subseteq OpRecord /\ y.kernel \cap (P \cup {op}) = {}
  BY <1>1, <1>2 DEF IsIo
<1>5. \A f \in Fd : FdOk(f, x.lookup[f], x.open[f], OfFd(x.closing, f), OfFd(x.kernel \cup P, f))
  BY DEF IoOk
<1> QED
  BY <1>2, <1>3, <1>4, <1>5 DEF IoOk

\* aeDelSockState, for a state with nothing under way and for another.
LEMMA DelIs ==
    ASSUME NEW x, x = [open |-> x.open, lookup |-> x.lookup, closing |-> x.closing, kernel |-> x.kernel, gen |-> x.gen],
           NEW s, NEW f, s.fd = f
    PROVE  /\ ~Pending(s) /\ "CLOSE_PENDING" \notin s.masks
                => aeDelSockState(x, s) = [open |-> x.open, lookup |-> [x.lookup EXCEPT ![f] = NoState],
                                           closing |-> {c \in x.closing : c.fd # f}, kernel |-> x.kernel, gen |-> x.gen]
           /\ "CLOSE_PENDING" \in s.masks
                => aeDelSockState(x, s) = [open |-> x.open, lookup |-> [x.lookup EXCEPT ![f] = NoState],
                                           closing |-> {c \in x.closing : c.fd # f} \cup {s},
                                           kernel |-> x.kernel, gen |-> x.gen]
<1> DEFINE y == aeDelSockState(x, s)
           C == {c \in x.closing : c.fd # f}
<1>1. ASSUME ~Pending(s) /\ "CLOSE_PENDING" \notin s.masks
      PROVE  y = [open |-> x.open, lookup |-> [x.lookup EXCEPT ![f] = NoState], closing |-> C,
                  kernel |-> x.kernel, gen |-> x.gen]
  <2>1. y = [x EXCEPT !.lookup[f] = NoState, !.closing = C]
    BY <1>1 DEF aeDelSockState
  <2> HIDE DEF y, C
  <2> QED
    BY <2>1
<1>2. ASSUME "CLOSE_PENDING" \in s.masks
      PROVE  y = [open |-> x.open, lookup |-> [x.lookup EXCEPT ![f] = NoState], closing |-> C \cup {s},
                  kernel |-> x.kernel, gen |-> x.gen]
  <2>1. y = [x EXCEPT !.lookup[f] = NoState, !.closing = C \cup {s}]
    BY <1>2 DEF aeDelSockState
  <2> HIDE DEF y, C
  <2> QED
    BY <2>1
<1> QED
  BY <1>1, <1>2

LEMMA CloseOk ==
    ASSUME NEW x, NEW P, IoOk(x, P), NEW f \in Fd, x.lookup[f] # NoState,
           NEW y, y = aeWinCloseSocket(x, f)
    PROVE  /\ IoOk(y, P) /\ y.lookup[f] = NoState
           /\ \A h \in Fd : h # f => y.lookup[h] = x.lookup[h]
<1> DEFINE l == x.lookup[f]
           m == l.masks \ {"SOCKET_ATTACHED", "WRITABLE", "READABLE"}
           s == Become(l, m, l.wreqs)
           O == OfFd(x.kernel \cup P, f)
           g == x.open[f]
           Kept == {c \in x.closing : c.fd # f}
<1>1. IsIo(x) /\ l \in SockState /\ InUse(f, l, g, OfFd(x.closing, f), O)
  BY HasState
<1>2. /\ x = [open |-> x.open, lookup |-> x.lookup, closing |-> x.closing, kernel |-> x.kernel, gen |-> x.gen]
      /\ x.open \in [Fd -> Nat] /\ x.lookup \in [Fd -> SockState \cup {NoState}]
      /\ x.closing \subseteq SockState /\ x.kernel \subseteq OpRecord /\ P \subseteq OpRecord /\ x.gen \in Nat
      /\ x.kernel \cap P = {}
  BY <1>1 DEF IoOk, IsIo
<1>3. /\ l.fd = f /\ l.gen = g /\ g # 0 /\ OfFd(x.closing, f) = {} /\ O = OpsOf(f, g, Names(l))
      /\ "CLOSE_PENDING" \notin l.masks
  BY <1>1 DEF InUse
<1>4. s = [l EXCEPT !.masks = @ \ {"SOCKET_ATTACHED", "WRITABLE", "READABLE"}]
  <2>1. l = [fd |-> l.fd, gen |-> l.gen, masks |-> l.masks, wreqs |-> l.wreqs]
    BY <1>1, StateFacts
  <2> QED
    BY <2>1 DEF Become
<1>5. s \in SockState /\ s.fd = f /\ s.gen = g /\ s.masks = m /\ s.wreqs = l.wreqs
  BY <1>1, <1>3 DEF Become, SockState
<1>6. Names(s) = Names(l)
  <2>1. ("READ_QUEUED" \in m <=> "READ_QUEUED" \in l.masks) /\ ("CONNECT_PENDING" \in m <=> "CONNECT_PENDING" \in l.masks)
    OBVIOUS
  <2>2. {n \in {"read"} : "READ_QUEUED" \in m} = {n \in {"read"} : "READ_QUEUED" \in l.masks}
    BY <2>1
  <2>3. {n \in {"connect"} : "CONNECT_PENDING" \in m} = {n \in {"connect"} : "CONNECT_PENDING" \in l.masks}
    BY <2>1
  <2>4. Names(l) = l.wreqs \cup {n \in {"read"} : "READ_QUEUED" \in l.masks}
                          \cup {n \in {"connect"} : "CONNECT_PENDING" \in l.masks}
    BY DEF Names
  <2> QED
    BY <2>2, <2>3, <2>4, NamesOfBecome
<1>7. Pending(s) <=> Names(l) # {}
  <2>1. "SOCKET_ATTACHED" \notin s.masks
    BY <1>5
  <2> QED
    BY <1>5, <1>6, <2>1, StateFacts
<1>8. "CLOSE_PENDING" \notin s.masks
  BY <1>3, <1>5
<1>9. Kept = x.closing
  BY <1>3 DEF OfFd
<1> HIDE DEF s, m, Kept
<1>10. CASE Names(l) = {}
  <2> DEFINE w == [x EXCEPT !.open[f] = 0]
  <2>1. w = [open |-> [x.open EXCEPT ![f] = 0], lookup |-> x.lookup, closing |-> x.closing, kernel |-> x.kernel, gen |-> x.gen]
    BY <1>2
  <2>2. y = aeDelSockState(w, s)
    BY <1>4, <1>7, <1>10 DEF aeWinCloseSocket
  <2> HIDE DEF w
  <2>3. /\ w.open = [x.open EXCEPT ![f] = 0] /\ w.lookup = x.lookup /\ w.closing = x.closing /\ w.kernel = x.kernel
        /\ w.gen = x.gen
        /\ w = [open |-> w.open, lookup |-> w.lookup, closing |-> w.closing, kernel |-> w.kernel, gen |-> w.gen]
    BY <2>1
  <2>4. aeDelSockState(w, s) = [open |-> w.open, lookup |-> [w.lookup EXCEPT ![f] = NoState],
                                closing |-> {c \in w.closing : c.fd # f}, kernel |-> w.kernel, gen |-> w.gen]
    BY <1>5, <1>7, <1>8, <1>10, <2>3, DelIs
  <2>5. y = [open |-> [x.open EXCEPT ![f] = 0], lookup |-> [x.lookup EXCEPT ![f] = NoState],
             closing |-> x.closing, kernel |-> x.kernel, gen |-> x.gen]
    BY <1>9, <2>2, <2>3, <2>4 DEF Kept
  <2>6. /\ y.open = [x.open EXCEPT ![f] = 0] /\ y.lookup = [x.lookup EXCEPT ![f] = NoState]
        /\ y.closing = x.closing /\ y.kernel = x.kernel /\ y.gen = x.gen
        /\ y = [open |-> y.open, lookup |-> y.lookup, closing |-> y.closing, kernel |-> y.kernel, gen |-> y.gen]
    BY <2>5
  <2>7. y.open \in [Fd -> Nat] /\ \A h \in Fd : h # f => y.open[h] = x.open[h]
    BY <1>2, <2>6
  <2>8. y.lookup \in [Fd -> SockState \cup {NoState}] /\ y.lookup[f] = NoState
        /\ \A h \in Fd : h # f => y.lookup[h] = x.lookup[h]
    BY <1>2, <2>6
  <2>9. IsIo(y)
    BY <1>2, <2>6, <2>7, <2>8 DEF IsIo
  <2>10. O = {}
    BY <1>3, <1>10 DEF OpsOf
  <2>11. OfFd(y.closing, f) = {} /\ OfFd(y.kernel \cup P, f) = {}
    BY <1>3, <2>6, <2>10
  <2>12. FdOk(f, y.lookup[f], y.open[f], OfFd(y.closing, f), OfFd(y.kernel \cup P, f))
    BY <2>8, <2>11 DEF FdOk
  <2>13. Elsewhere(x, P, y, P, f)
    BY <2>6, <2>7, <2>8 DEF Elsewhere
  <2>14. P \subseteq OpRecord /\ y.kernel \cap P = {}
    BY <1>2, <2>6
  <2>15. IoOk(y, P)
    BY <2>9, <2>12, <2>13, <2>14, OneDescriptor
  <2> QED
    BY <2>8, <2>15
<1>11. CASE Names(l) # {}
  <2> DEFINE t == Become(s, m \cup {"CLOSE_PENDING"}, s.wreqs)
  <2>1. t = [s EXCEPT !.masks = @ \cup {"CLOSE_PENDING"}]
    <3>1. s = [fd |-> s.fd, gen |-> s.gen, masks |-> s.masks, wreqs |-> s.wreqs] /\ s.masks = m
      BY <1>5, StateFacts
    <3> QED
      BY <3>1 DEF Become
  <2>2. y = aeDelSockState(x, t)
    BY <1>4, <1>7, <1>11, <2>1 DEF aeWinCloseSocket
  <2>3. t \in SockState /\ t.fd = f /\ t.gen = g /\ t.masks = m \cup {"CLOSE_PENDING"} /\ t.wreqs = s.wreqs
    BY <1>5 DEF Become, SockState, Masks
  <2>4. Names(t) = Names(s)
    <3>1. s.masks = m
      BY <1>5
    <3>2. {n \in {"read"} : "READ_QUEUED" \in m \cup {"CLOSE_PENDING"}} = {n \in {"read"} : "READ_QUEUED" \in s.masks}
      BY <3>1
    <3>3. {n \in {"connect"} : "CONNECT_PENDING" \in m \cup {"CLOSE_PENDING"}} = {n \in {"connect"} : "CONNECT_PENDING" \in s.masks}
      BY <3>1
    <3>4. Names(s) = s.wreqs \cup {n \in {"read"} : "READ_QUEUED" \in s.masks}
                            \cup {n \in {"connect"} : "CONNECT_PENDING" \in s.masks}
      BY DEF Names
    <3> QED
      BY <3>2, <3>3, <3>4, NamesOfBecome
  <2> HIDE DEF t
  <2>5. "SOCKET_ATTACHED" \notin t.masks /\ "CLOSE_PENDING" \in t.masks
    BY <2>3 DEF m
  <2>6. BeingClosed(f, t, g, {t}, O)
    BY <1>3, <1>6, <1>11, <2>3, <2>4, <2>5 DEF BeingClosed
  <2>7. y = [open |-> x.open, lookup |-> [x.lookup EXCEPT ![f] = NoState], closing |-> x.closing \cup {t},
             kernel |-> x.kernel, gen |-> x.gen]
    <3>1. aeDelSockState(x, t) = [open |-> x.open, lookup |-> [x.lookup EXCEPT ![f] = NoState],
                                  closing |-> {c \in x.closing : c.fd # f} \cup {t}, kernel |-> x.kernel, gen |-> x.gen]
      BY <1>2, <2>3, <2>5, DelIs
    <3>2. {c \in x.closing : c.fd # f} = x.closing
      BY <1>9 DEF Kept
    <3> QED
      BY <2>2, <3>1, <3>2
  <2>8. /\ y.open = x.open /\ y.lookup = [x.lookup EXCEPT ![f] = NoState]
        /\ y.closing = x.closing \cup {t} /\ y.kernel = x.kernel /\ y.gen = x.gen
        /\ y = [open |-> y.open, lookup |-> y.lookup, closing |-> y.closing, kernel |-> y.kernel, gen |-> y.gen]
    BY <2>7
  <2>9. y.lookup \in [Fd -> SockState \cup {NoState}] /\ y.lookup[f] = NoState
        /\ \A h \in Fd : h # f => y.lookup[h] = x.lookup[h]
    BY <1>2, <2>8
  <2>10. IsIo(y)
    BY <1>2, <2>3, <2>8, <2>9 DEF IsIo
  <2>11. OfFd(y.closing, f) = {t} /\ \A h \in Fd : h # f => OfFd(y.closing, h) = OfFd(x.closing, h)
    BY <1>3, <2>3, <2>8 DEF OfFd
  <2>12. OfFd(y.kernel \cup P, f) = O /\ y.open[f] = g
    BY <2>8
  <2>13. FdOk(f, NoState, g, {t}, O)
    BY <2>6 DEF FdOk
  <2>14. FdOk(f, y.lookup[f], y.open[f], OfFd(y.closing, f), OfFd(y.kernel \cup P, f))
    BY <2>9, <2>11, <2>12, <2>13
  <2>15. Elsewhere(x, P, y, P, f)
    BY <2>8, <2>9, <2>11 DEF Elsewhere
  <2>16. P \subseteq OpRecord /\ y.kernel \cap P = {}
    BY <1>2, <2>8
  <2>17. IoOk(y, P)
    BY <2>10, <2>14, <2>15, <2>16, OneDescriptor
  <2> QED
    BY <2>9, <2>17
<1> QED
  BY <1>10, <1>11

\* The state of a socket that is being closed no longer counts the operation
\* whose end was told.
LEMMA AfterIs ==
    ASSUME NEW s \in SockState, NEW op, NEW t, t = AfterCompletion(s, op)
    PROVE  /\ t \in SockState /\ t.fd = s.fd /\ t.gen = s.gen /\ Names(t) = Names(s) \ {op.op}
           /\ "SOCKET_ATTACHED" \notin s.masks => "SOCKET_ATTACHED" \notin t.masks
<1>1. s = [fd |-> s.fd, gen |-> s.gen, masks |-> s.masks, wreqs |-> s.wreqs] /\ s \in SockState
  BY StateFacts
<1>2. "read" \notin s.wreqs /\ "connect" \notin s.wreqs
  BY IocpAssumption DEF SockState
<1> DEFINE r == {n \in {"read"} : "READ_QUEUED" \in s.masks}
           c == {n \in {"connect"} : "CONNECT_PENDING" \in s.masks}
<1>3. Names(s) = s.wreqs \cup r \cup c
  BY DEF Names
<1>4. ASSUME NEW m, m \subseteq s.masks, NEW W, W \subseteq s.wreqs, t = Become(s, m, W),
             W \cup {n \in {"read"} : "READ_QUEUED" \in m} \cup {n \in {"connect"} : "CONNECT_PENDING" \in m}
                = (s.wreqs \cup r \cup c) \ {op.op}
      PROVE  /\ t \in SockState /\ t.fd = s.fd /\ t.gen = s.gen /\ Names(t) = Names(s) \ {op.op}
             /\ "SOCKET_ATTACHED" \notin s.masks => "SOCKET_ATTACHED" \notin t.masks
  <2>1. Names(t) = Names(s) \ {op.op}
    BY <1>3, <1>4, NamesOfBecome
  <2>2. t.fd = s.fd /\ t.gen = s.gen /\ t.masks = m
    BY <1>4 DEF Become
  <2>3. t \in SockState
    BY <1>1, <1>4 DEF Become, SockState
  <2> QED
    BY <1>4, <2>1, <2>2, <2>3
<1>5. CASE op.op = "connect"
  <2> DEFINE m == s.masks \ {"CONNECT_PENDING"}
  <2>1. t = Become(s, m, s.wreqs)
    <3>1. t = [s EXCEPT !.masks = m]
      BY <1>5 DEF AfterCompletion
    <3> HIDE DEF m
    <3> QED
      BY <1>1, <3>1 DEF Become
  <2>2. {n \in {"read"} : "READ_QUEUED" \in m} = r /\ {n \in {"connect"} : "CONNECT_PENDING" \in m} = {}
    OBVIOUS
  <2>3. (s.wreqs \cup r \cup c) \ {op.op} = s.wreqs \cup r \cup {}
    BY <1>2, <1>5
  <2>4. m \subseteq s.masks /\ s.wreqs \subseteq s.wreqs
    OBVIOUS
  <2> HIDE DEF m, r, c
  <2> QED
    BY <1>4, <2>1, <2>2, <2>3, <2>4
<1>6. CASE op.op = "read"
  <2> DEFINE m == s.masks \ {"READ_QUEUED"}
  <2>1. t = Become(s, m, s.wreqs)
    <3>1. t = [s EXCEPT !.masks = m]
      BY <1>6 DEF AfterCompletion
    <3> HIDE DEF m
    <3> QED
      BY <1>1, <3>1 DEF Become
  <2>2. {n \in {"read"} : "READ_QUEUED" \in m} = {} /\ {n \in {"connect"} : "CONNECT_PENDING" \in m} = c
    OBVIOUS
  <2>3. (s.wreqs \cup r \cup c) \ {op.op} = s.wreqs \cup {} \cup c
    BY <1>2, <1>6
  <2>4. m \subseteq s.masks /\ s.wreqs \subseteq s.wreqs
    OBVIOUS
  <2> HIDE DEF m, r, c
  <2> QED
    BY <1>4, <2>1, <2>2, <2>3, <2>4
<1>7. CASE op.op \notin {"connect", "read"}
  <2> DEFINE W == s.wreqs \ {op.op}
  <2>1. t = Become(s, s.masks, W)
    <3>1. t = [s EXCEPT !.wreqs = W]
      BY <1>7 DEF AfterCompletion
    <3> HIDE DEF W
    <3> QED
      BY <1>1, <3>1 DEF Become
  <2>2. op.op \notin r /\ op.op \notin c
    BY <1>7
  <2>3. (s.wreqs \cup r \cup c) \ {op.op} = W \cup r \cup c
    <3> HIDE DEF r, c
    <3> QED
      BY <2>2
  <2>4. W \subseteq s.wreqs /\ s.masks \subseteq s.masks
    OBVIOUS
  <2> HIDE DEF W
  <2> QED
    BY <1>4, <2>1, <2>3, <2>4
<1> QED
  BY <1>5, <1>6, <1>7

\* What PollClosing makes of the state.
ClosingBecomes(x, s, op) ==
    LET t == AfterCompletion(s, op)
    IN  IF Pending(t) THEN [x EXCEPT !.closing = (@ \ {s}) \cup {t}]
        ELSE aeDelSockState([x EXCEPT !.open[s.fd] = 0, !.closing = (@ \ {s}) \cup {t}],
                            [t EXCEPT !.masks = @ \ {"CLOSE_PENDING"}])

LEMMA ClosingOk ==
    ASSUME NEW x, NEW P, IoOk(x, P), NEW f \in Fd, x.lookup[f] = NoState, NEW op \in P, op.fd = f,
           NEW s \in x.closing, s.fd = f, NEW y, y = ClosingBecomes(x, s, op)
    PROVE  IoOk(y, P \ {op}) /\ y.lookup = x.lookup
<1> DEFINE O == OfFd(x.kernel \cup P, f)
           g == x.open[f]
           t == AfterCompletion(s, op)
           Q == P \ {op}
<1>1. /\ x = [open |-> x.open, lookup |-> x.lookup, closing |-> x.closing, kernel |-> x.kernel, gen |-> x.gen]
      /\ x.open \in [Fd -> Nat] /\ x.lookup \in [Fd -> SockState \cup {NoState}]
      /\ x.closing \subseteq SockState /\ x.kernel \subseteq OpRecord /\ P \subseteq OpRecord /\ x.gen \in Nat
      /\ x.kernel \cap P = {}
  BY DEF IoOk, IsIo
<1>2. s \in OfFd(x.closing, f)
  BY DEF OfFd
<1>3. FdOk(f, x.lookup[f], g, OfFd(x.closing, f), O)
  BY DEF IoOk
<1>4. PICK z : BeingClosed(f, z, g, OfFd(x.closing, f), O)
  BY <1>2, <1>3 DEF FdOk
<1>5. z = s
  BY <1>2, <1>4 DEF BeingClosed
<1>6. /\ OfFd(x.closing, f) = {s} /\ s.gen = g /\ g # 0 /\ "SOCKET_ATTACHED" \notin s.masks
      /\ Names(s) # {} /\ O = OpsOf(f, g, Names(s))
  BY <1>4, <1>5 DEF BeingClosed
<1>7. s \in SockState
  BY <1>1
<1>8. op \in O
  BY DEF OfFd
<1>9. op.op \in Names(s) /\ op = OpRec(f, g, op.op)
  <2>1. PICK n \in Names(s) : op = OpRec(f, g, n)
    BY <1>6, <1>8 DEF OpsOf
  <2>2. op.op = n
    BY <2>1 DEF OpRec
  <2> QED
    BY <2>1, <2>2
<1>10. /\ t \in SockState /\ t.fd = f /\ t.gen = g /\ Names(t) = Names(s) \ {op.op}
       /\ "SOCKET_ATTACHED" \notin t.masks
  BY <1>6, <1>7, AfterIs
<1> HIDE DEF t
<1>11. Pending(t) <=> Names(t) # {}
  BY <1>10, StateFacts
<1>12. OfFd(x.kernel \cup Q, f) = OpsOf(f, g, Names(t))
  <2>1. \A n, k : OpRec(f, g, n) = OpRec(f, g, k) => n = k
    BY DEF OpRec
  <2>2. op \notin x.kernel
    BY <1>1
  <2>3. OfFd(x.kernel \cup Q, f) = O \ {op}
    BY <2>2 DEF OfFd
  <2>4. \A o : o \in O <=> \E n \in Names(s) : o = OpRec(f, g, n)
    BY <1>6 DEF OpsOf
  <2>5. \A o : o \in O \ {op} <=> \E n \in Names(s) \ {op.op} : o = OpRec(f, g, n)
    BY <1>9, <2>1, <2>4
  <2> QED
    BY <1>10, <2>3, <2>5 DEF OpsOf
<1>13. \A h \in Fd : h # f => OfFd(x.kernel \cup Q, h) = OfFd(x.kernel \cup P, h)
  BY DEF OfFd
<1>14. Q \subseteq OpRecord /\ x.kernel \cap Q = {}
  BY <1>1
<1> DEFINE C == (x.closing \ {s}) \cup {t}
<1>15. C \subseteq SockState /\ OfFd(C, f) = {t} /\ \A h \in Fd : h # f => OfFd(C, h) = OfFd(x.closing, h)
  BY <1>1, <1>6, <1>10 DEF OfFd
<1>16. {c \in C : c.fd # f} \subseteq SockState /\ OfFd({c \in C : c.fd # f}, f) = {}
       /\ \A h \in Fd : h # f => OfFd({c \in C : c.fd # f}, h) = OfFd(x.closing, h)
  BY <1>15 DEF OfFd
<1> HIDE DEF C, Q
<1>17. CASE Names(t) # {}
  <2>1. y = [x EXCEPT !.closing = C]
    BY <1>11, <1>17 DEF ClosingBecomes, C, t
  <2>2. /\ y.open = x.open /\ y.lookup = x.lookup /\ y.closing = C /\ y.kernel = x.kernel /\ y.gen = x.gen
        /\ y = [open |-> y.open, lookup |-> y.lookup, closing |-> y.closing, kernel |-> y.kernel, gen |-> y.gen]
    BY <1>1, <2>1
  <2>3. IsIo(y)
    BY <1>1, <1>15, <2>2 DEF IsIo
  <2>4. BeingClosed(f, t, g, {t}, OpsOf(f, g, Names(t)))
    BY <1>6, <1>10, <1>17 DEF BeingClosed
  <2>5. FdOk(f, NoState, g, {t}, OpsOf(f, g, Names(t)))
    BY <2>4 DEF FdOk
  <2>6. FdOk(f, y.lookup[f], y.open[f], OfFd(y.closing, f), OfFd(y.kernel \cup Q, f))
    BY <1>12, <1>15, <2>2, <2>5
  <2>7. Elsewhere(x, P, y, Q, f)
    BY <1>13, <1>15, <2>2 DEF Elsewhere
  <2>8. Q \subseteq OpRecord /\ y.kernel \cap Q = {}
    BY <1>14, <2>2
  <2>9. IoOk(y, Q)
    BY <2>3, <2>6, <2>7, <2>8, OneDescriptor
  <2> QED
    BY <2>2, <2>9 DEF Q
<1>18. CASE Names(t) = {}
  <2> DEFINE w == [x EXCEPT !.open[f] = 0, !.closing = C]
             u == Become(t, t.masks \ {"CLOSE_PENDING"}, t.wreqs)
  <2>1. u = [t EXCEPT !.masks = @ \ {"CLOSE_PENDING"}]
    <3>1. t = [fd |-> t.fd, gen |-> t.gen, masks |-> t.masks, wreqs |-> t.wreqs]
      BY <1>10, StateFacts
    <3> QED
      BY <3>1 DEF Become
  <2>2. w = [x EXCEPT !.open[f] = 0, !.closing = C]
    OBVIOUS
  <2>3. y = aeDelSockState([x EXCEPT !.open[f] = 0, !.closing = C], u)
    BY <1>11, <1>18, <2>1 DEF ClosingBecomes, C, t
  <2>4. y = aeDelSockState(w, u)
    BY <2>3
  <2> HIDE DEF w
  <2>5. w = [open |-> [x.open EXCEPT ![f] = 0], lookup |-> x.lookup, closing |-> C, kernel |-> x.kernel, gen |-> x.gen]
    BY <1>1, <2>2
  <2>6. /\ w.open = [x.open EXCEPT ![f] = 0] /\ w.lookup = x.lookup /\ w.closing = C /\ w.kernel = x.kernel
        /\ w.gen = x.gen
        /\ w = [open |-> w.open, lookup |-> w.lookup, closing |-> w.closing, kernel |-> w.kernel, gen |-> w.gen]
    BY <2>5
  <2>7. u.fd = f /\ ~Pending(u) /\ "CLOSE_PENDING" \notin u.masks
    <3>1. u.masks = t.masks \ {"CLOSE_PENDING"} /\ u.wreqs = t.wreqs /\ u.fd = f
      BY <1>10 DEF Become
    <3>2. ~Pending(t)
      BY <1>11, <1>18
    <3> HIDE DEF u
    <3> QED
      BY <3>1, <3>2 DEF Pending
  <2> HIDE DEF u
  <2>8. aeDelSockState(w, u) = [open |-> w.open, lookup |-> [w.lookup EXCEPT ![f] = NoState],
                                closing |-> {c \in w.closing : c.fd # f}, kernel |-> w.kernel, gen |-> w.gen]
    BY <2>6, <2>7, DelIs
  <2>9. [w.lookup EXCEPT ![f] = NoState] = x.lookup
    BY <1>1, <2>6
  <2>10. y = [open |-> [x.open EXCEPT ![f] = 0], lookup |-> x.lookup,
              closing |-> {c \in C : c.fd # f}, kernel |-> x.kernel, gen |-> x.gen]
    BY <2>4, <2>6, <2>8, <2>9
  <2>11. /\ y.open = [x.open EXCEPT ![f] = 0] /\ y.lookup = x.lookup
         /\ y.closing = {c \in C : c.fd # f} /\ y.kernel = x.kernel /\ y.gen = x.gen
         /\ y = [open |-> y.open, lookup |-> y.lookup, closing |-> y.closing, kernel |-> y.kernel, gen |-> y.gen]
    BY <2>10
  <2>12. y.open \in [Fd -> Nat] /\ \A h \in Fd : h # f => y.open[h] = x.open[h]
    BY <1>1, <2>11
  <2>13. IsIo(y)
    BY <1>1, <1>16, <2>11, <2>12 DEF IsIo
  <2>14. OfFd(y.closing, f) = {} /\ OfFd(y.kernel \cup Q, f) = {} /\ y.lookup[f] = NoState
    BY <1>12, <1>16, <1>18, <2>11 DEF OpsOf
  <2>15. FdOk(f, y.lookup[f], y.open[f], OfFd(y.closing, f), OfFd(y.kernel \cup Q, f))
    BY <2>14 DEF FdOk
  <2>16. Elsewhere(x, P, y, Q, f)
    BY <1>13, <1>16, <2>11, <2>12 DEF Elsewhere
  <2>17. Q \subseteq OpRecord /\ y.kernel \cap Q = {}
    BY <1>14, <2>11
  <2>18. IoOk(y, Q)
    BY <2>13, <2>15, <2>16, <2>17, OneDescriptor
  <2> QED
    BY <2>11, <2>18 DEF Q
<1> QED
  BY <1>17, <1>18

\* What a descriptor waits for: an event that has fired has no operation of
\* its own under way any more, one that is registered has fired or has one;
\* a socket that is accepted is not used yet.
Ready(f, l, F, own, acc, accg, pol) ==
    /\ <<f, "READABLE">> \in F => l.masks \cap {"READ_QUEUED", "CONNECT_PENDING"} = {}
    /\ <<f, "WRITABLE">> \in F => l.wreqs \subseteq {"post"} /\ "CONNECT_PENDING" \notin l.masks
    /\ f \in own =>
          /\ l # NoState
          /\ "READABLE" \in l.masks => <<f, "READABLE">> \in F \/ l.masks \cap {"READ_QUEUED", "CONNECT_PENDING"} # {}
          /\ "WRITABLE" \in l.masks => <<f, "WRITABLE">> \in F \/ l.wreqs # {} \/ "CONNECT_PENDING" \in l.masks
    /\ f \in acc \/ f = accg => l # NoState /\ l.masks = {"SOCKET_ATTACHED"} /\ l.wreqs = {} /\ f \notin own
    /\ f \in acc \/ (pol /\ f = accg) => <<f, "READABLE">> \notin F /\ <<f, "WRITABLE">> \notin F

ReadyAs(f, m, W, F, own, acc, accg, pol) ==
    \A l : l # NoState /\ l.masks = m /\ l.wreqs = W => Ready(f, l, F, own, acc, accg, pol)

AllReady(L, F, own, acc, accg, pol) == \A f \in Fd : Ready(f, L[f], F, own, acc, accg, pol)

IocpTypes(own, acc, accg, pol) ==
    own \subseteq Fd /\ acc \subseteq Fd /\ accg \in Fd \cup {NoFd} /\ pol \in BOOLEAN

IocpInv ==
    /\ IoOk(Io, port)
    /\ IocpTypes(owned, accepted, accepting, polling)
    /\ AllReady(lookup, fired, owned, accepted, accepting, polling)

LEMMA IocpStarts == IocpInit => IocpInv
<1> SUFFICES ASSUME IocpInit PROVE IocpInv
  OBVIOUS
<1>1. /\ Io.open = fdOpen /\ Io.lookup = lookup /\ Io.closing = closingList /\ Io.kernel = kernel /\ Io.gen = lastGen
      /\ Io = [open |-> Io.open, lookup |-> Io.lookup, closing |-> Io.closing, kernel |-> Io.kernel, gen |-> Io.gen]
  BY DEF Io
<1>2. /\ fdOpen = [f \in Fd |-> 0] /\ lookup = [f \in Fd |-> NoState] /\ closingList = {} /\ kernel = {} /\ port = {}
      /\ lastGen = 0
  BY DEF IocpInit
<1>3. IsIo(Io)
  BY <1>1, <1>2 DEF IsIo
<1>4. ASSUME NEW f \in Fd
      PROVE  FdOk(f, Io.lookup[f], Io.open[f], OfFd(Io.closing, f), OfFd(Io.kernel \cup port, f))
  <2>1. OfFd(Io.closing, f) = {} /\ OfFd(Io.kernel \cup port, f) = {} /\ Io.lookup[f] = NoState
    BY <1>1, <1>2 DEF OfFd
  <2> QED
    BY <2>1 DEF FdOk
<1>5. IoOk(Io, port)
  BY <1>1, <1>2, <1>3, <1>4 DEF IoOk
<1>6. owned = {} /\ accepted = {} /\ accepting = NoFd /\ fired = {} /\ polling = FALSE
  BY DEF IocpInit
<1>7. AllReady(lookup, fired, owned, accepted, accepting, polling)
  BY <1>2, <1>6, IocpAssumption DEF AllReady, Ready, NoState, NoFd
<1> QED
  BY <1>5, <1>6, <1>7 DEF IocpInv, IocpTypes

\* The primed state is what the operation made of the copy.
LEMMA BecomesIs ==
    ASSUME NEW y, IsIo(y), IoBecomes(y)
    PROVE  Io' = y /\ lookup' = y.lookup
BY DEF IsIo, IoBecomes, Io

LEMMA IoIs == Io.lookup = lookup /\ Io.open = fdOpen /\ Io.closing = closingList /\ Io.kernel = kernel /\ Io.gen = lastGen
BY DEF Io

\* Only f is concerned by a step.
Alone(f) ==
    /\ UNCHANGED <<accepted, accepting, polling>>
    /\ \A h \in Fd : h # f => /\ <<h, "READABLE">> \in fired' <=> <<h, "READABLE">> \in fired
                              /\ <<h, "WRITABLE">> \in fired' <=> <<h, "WRITABLE">> \in fired
                              /\ h \in owned' <=> h \in owned

LEMMA IocpAgain ==
    ASSUME IocpInv, NEW y, IoBecomes(y), NEW Q, port' = Q, IoOk(y, Q), NEW f \in Fd,
           \A h \in Fd : h # f => y.lookup[h] = lookup[h],
           owned' \subseteq Fd, Alone(f),
           Ready(f, y.lookup[f], fired', owned', accepted, accepting, polling)
    PROVE  IocpInv'
<1>1. Io' = y /\ lookup' = y.lookup
  BY BecomesIs DEF IoOk
<1>2. IoOk(Io, port)'
  BY <1>1
<1>3. accepted' = accepted /\ accepting' = accepting /\ polling' = polling
  BY DEF Alone
<1>4. IocpTypes(owned', accepted', accepting', polling')
  BY <1>3 DEF IocpInv, IocpTypes
<1>5. ASSUME NEW h \in Fd PROVE Ready(h, y.lookup[h], fired', owned', accepted, accepting, polling)
  <2>1. CASE h = f
    BY <2>1
  <2>2. CASE h # f
    <3>1. Ready(h, y.lookup[h], fired, owned, accepted, accepting, polling)
      BY <2>2 DEF IocpInv, AllReady
    <3>2. /\ <<h, "READABLE">> \in fired' <=> <<h, "READABLE">> \in fired
          /\ <<h, "WRITABLE">> \in fired' <=> <<h, "WRITABLE">> \in fired
          /\ h \in owned' <=> h \in owned
      BY <2>2 DEF Alone
    <3> QED
      BY <3>1, <3>2 DEF Ready
  <2> QED
    BY <2>1, <2>2
<1>6. AllReady(lookup', fired', owned', accepted', accepting', polling')
  BY <1>1, <1>3, <1>5 DEF AllReady
<1> QED
  BY <1>2, <1>4, <1>6 DEF IocpInv

\* A step that makes of f what a lemma above says.
LEMMA IocpChanged ==
    ASSUME IocpInv, NEW y, IoBecomes(y), NEW Q, port' = Q, NEW f \in Fd, NEW m, NEW W, Changed(Io, port, y, Q, f, m, W),
           owned' = owned, Alone(f),
           ReadyAs(f, m, W, fired', owned, accepted, accepting, polling)
    PROVE  IocpInv'
<1>1. /\ IoOk(y, Q) /\ \A h \in Fd : h # f => y.lookup[h] = lookup[h]
      /\ y.lookup[f] # NoState /\ y.lookup[f].masks = m /\ y.lookup[f].wreqs = W
  BY IoIs, StateFacts DEF Changed
<1>3. Ready(f, y.lookup[f], fired', owned', accepted, accepting, polling)
  BY <1>1 DEF ReadyAs
<1>4. owned' \subseteq Fd
  BY DEF IocpInv, IocpTypes
<1> QED
  BY <1>1, <1>3, <1>4, IocpAgain

\* What holds of a descriptor that the server uses.
LEMMA OwnedHasState ==
    ASSUME IocpInv, NEW f \in Fd
    PROVE  /\ IoOk(Io, port) /\ Ready(f, Io.lookup[f], fired, owned, accepted, accepting, polling)
           /\ f \in owned => Io.lookup[f] # NoState /\ Io.lookup[f] \in SockState
<1>1. IoOk(Io, port) /\ Ready(f, Io.lookup[f], fired, owned, accepted, accepting, polling)
  BY IoIs DEF IocpInv, AllReady
<1>2. f \in owned => Io.lookup[f] # NoState
  BY <1>1 DEF Ready
<1> QED
  BY <1>1, <1>2, HasState

LEMMA CloseKeeps ==
    ASSUME IocpInv, NEW f \in Fd, f \in owned, IoBecomes(aeWinCloseSocket(Io, f)), owned' = owned \ {f}, port' = port,
           Alone(f), fired' \subseteq fired
    PROVE  IocpInv'
<1> DEFINE y == aeWinCloseSocket(Io, f)
<1>1. /\ IoOk(Io, port) /\ Ready(f, Io.lookup[f], fired, owned, accepted, accepting, polling)
      /\ Io.lookup[f] # NoState /\ Io.lookup[f] \in SockState
  BY OwnedHasState
<1>2. y = aeWinCloseSocket(Io, f)
  OBVIOUS
<1> HIDE DEF y
<1>3. IoOk(y, port) /\ y.lookup[f] = NoState /\ \A h \in Fd : h # f => y.lookup[h] = Io.lookup[h]
  BY <1>1, <1>2, CloseOk
<1>4. Ready(f, y.lookup[f], fired', owned', accepted, accepting, polling)
  BY <1>1, <1>3 DEF Ready, NoState
<1>5. owned' \subseteq Fd
  BY DEF IocpInv, IocpTypes
<1>6. \A h \in Fd : h # f => y.lookup[h] = lookup[h]
  BY <1>3, IoIs
<1>7. IoBecomes(y)
  BY <1>2
<1> QED
  BY <1>3, <1>4, <1>5, <1>6, <1>7, IocpAgain

LEMMA ReadHandlerKeeps ==
    ASSUME IocpInv, NEW f \in Fd, ReadHandler(f)
    PROVE  IocpInv'
<1> DEFINE l == Io.lookup[f]
<1>1. /\ <<f, "READABLE">> \in fired /\ polling = FALSE /\ fired' = fired \ {<<f, "READABLE">>} /\ port' = port
      /\ UNCHANGED <<accepted, accepting, polling>>
  BY DEF ReadHandler, IocpInv, IocpTypes
<1>2. /\ IoOk(Io, port) /\ Ready(f, l, fired, owned, accepted, accepting, polling)
      /\ f \in owned => l # NoState /\ l \in SockState
  BY OwnedHasState
<1>3. owned' \in {owned, owned \ {f}}
  BY DEF ReadHandler
<1>4. Alone(f)
  BY <1>1, <1>3 DEF Alone
<1>5. CASE IoBecomes(Io) /\ owned' = owned /\ (f \notin owned \/ "READABLE" \notin lookup[f].masks)
  <2>1. Ready(f, l, fired', owned', accepted, accepting, polling)
    BY <1>1, <1>2, <1>5, IoIs DEF Ready
  <2>2. owned' \subseteq Fd /\ \A h \in Fd : h # f => Io.lookup[h] = lookup[h]
    BY <1>5, IoIs DEF IocpInv, IocpTypes
  <2> QED
    BY <1>1, <1>2, <1>4, <1>5, <2>1, <2>2, IocpAgain
<1>6. CASE IoBecomes(aeWinReceiveDone(Io, f)) /\ owned' = owned /\ f \in owned
  <2>1. l.masks \cap {"READ_QUEUED", "CONNECT_PENDING"} = {}
    BY <1>1, <1>2 DEF Ready
  <2>2. "read" \notin Names(l) /\ "connect" \notin Names(l)
    BY <1>2, <1>6, <2>1, StateFacts
  <2>3. Names(l) \cap {"read", "connect"} = {}
    BY <2>2
  <2>4. Changed(Io, port, aeWinReceiveDone(Io, f), port, f, l.masks \cup {"READ_QUEUED"}, l.wreqs)
    BY <1>2, <1>6, <2>3, ReceiveDoneOk
  <2>5. ReadyAs(f, l.masks \cup {"READ_QUEUED"}, l.wreqs, fired', owned, accepted, accepting, polling)
    BY <1>1, <1>2, <1>6 DEF Ready, ReadyAs
  <2> QED
    BY <1>1, <1>4, <1>6, <2>4, <2>5, IocpChanged
<1>7. CASE IoBecomes(aeApiDelEvent(Io, f, {"READABLE"})) /\ owned' = owned /\ f \in owned
  <2> DEFINE m == l.masks \ {"READABLE"}
  <2>1. aeApiDelEvent(Io, f, {"READABLE"}) = [Io EXCEPT !.lookup[f].masks = m]
    BY DEF aeApiDelEvent
  <2>2. m \subseteq Masks /\ m \ {"READABLE", "WRITABLE"} = l.masks \ {"READABLE", "WRITABLE"}
    BY <1>2, <1>7 DEF SockState, Masks
  <2>3. "READABLE" \notin m /\ m \subseteq l.masks
    OBVIOUS
  <2>4. ("CONNECT_PENDING" \in m <=> "CONNECT_PENDING" \in l.masks) /\ ("WRITABLE" \in m <=> "WRITABLE" \in l.masks)
    OBVIOUS
  <2> HIDE DEF m
  <2>5. Changed(Io, port, aeApiDelEvent(Io, f, {"READABLE"}), port, f, m, l.wreqs)
    BY <1>2, <1>7, <2>1, <2>2, MasksOk
  <2>6. ReadyAs(f, m, l.wreqs, fired', owned, accepted, accepting, polling)
    BY <1>1, <1>2, <1>7, <2>3, <2>4 DEF Ready, ReadyAs
  <2> QED
    BY <1>1, <1>4, <1>7, <2>5, <2>6, IocpChanged
<1>8. CASE IoBecomes(aeWinCloseSocket(Io, f)) /\ owned' = owned \ {f} /\ f \in owned
  BY <1>1, <1>4, <1>8, CloseKeeps
<1> QED
  BY <1>5, <1>6, <1>7, <1>8 DEF ReadHandler

LEMMA WriteHandlerKeeps ==
    ASSUME IocpInv, NEW f \in Fd, WriteHandler(f)
    PROVE  IocpInv'
<1> DEFINE l == Io.lookup[f]
<1>1. /\ <<f, "WRITABLE">> \in fired /\ polling = FALSE /\ fired' = fired \ {<<f, "WRITABLE">>} /\ port' = port
      /\ UNCHANGED <<accepted, accepting, polling>> /\ owned' = owned
  BY DEF WriteHandler, IocpInv, IocpTypes
<1>2. /\ IoOk(Io, port) /\ Ready(f, l, fired, owned, accepted, accepting, polling)
      /\ f \in owned => l # NoState /\ l \in SockState
  BY OwnedHasState
<1>3. Alone(f)
  BY <1>1 DEF Alone
<1>4. CASE IoBecomes(Io) /\ (f \notin owned \/ "WRITABLE" \notin lookup[f].masks)
  <2>1. Ready(f, l, fired', owned', accepted, accepting, polling)
    BY <1>1, <1>2, <1>4, IoIs DEF Ready
  <2>2. owned' \subseteq Fd /\ \A h \in Fd : h # f => Io.lookup[h] = lookup[h]
    BY <1>1, IoIs DEF IocpInv, IocpTypes
  <2> QED
    BY <1>1, <1>2, <1>3, <1>4, <2>1, <2>2, IocpAgain
<1>5. ASSUME NEW ids \in SUBSET Sends, ids # {}, IoBecomes(aeWinSocketSend(Io, f, ids)), f \in owned
      PROVE  IocpInv'
  <2>1. l.wreqs \subseteq {"post"} /\ "CONNECT_PENDING" \notin l.masks
    BY <1>1, <1>2 DEF Ready
  <2>2. ids \cap l.wreqs = {}
    BY <2>1, IocpAssumption
  <2>3. Changed(Io, port, aeWinSocketSend(Io, f, ids), port, f, l.masks, l.wreqs \cup ids)
    BY <1>2, <1>5, <2>1, <2>2, SendOk
  <2>4. l.wreqs \cup ids # {}
    BY <1>5
  <2>5. ReadyAs(f, l.masks, l.wreqs \cup ids, fired', owned, accepted, accepting, polling)
    BY <1>1, <1>2, <1>5, <2>4 DEF Ready, ReadyAs
  <2> QED
    BY <1>1, <1>3, <1>5, <2>3, <2>5, IocpChanged
<1>6. CASE IoBecomes(aeApiDelEvent(Io, f, {"WRITABLE"})) /\ f \in owned
  <2> DEFINE m == l.masks \ {"WRITABLE"}
  <2>1. aeApiDelEvent(Io, f, {"WRITABLE"}) = [Io EXCEPT !.lookup[f].masks = m]
    BY DEF aeApiDelEvent
  <2>2. m \subseteq Masks /\ m \ {"READABLE", "WRITABLE"} = l.masks \ {"READABLE", "WRITABLE"}
    BY <1>2, <1>6 DEF SockState, Masks
  <2>3. "WRITABLE" \notin m /\ m \subseteq l.masks
    OBVIOUS
  <2>4. ("CONNECT_PENDING" \in m <=> "CONNECT_PENDING" \in l.masks) /\ ("READABLE" \in m <=> "READABLE" \in l.masks)
        /\ ("READ_QUEUED" \in m <=> "READ_QUEUED" \in l.masks)
    OBVIOUS
  <2> HIDE DEF m
  <2>5. Changed(Io, port, aeApiDelEvent(Io, f, {"WRITABLE"}), port, f, m, l.wreqs)
    BY <1>2, <1>6, <2>1, <2>2, MasksOk
  <2>6. ReadyAs(f, m, l.wreqs, fired', owned, accepted, accepting, polling)
    BY <1>1, <1>2, <1>6, <2>3, <2>4 DEF Ready, ReadyAs
  <2> QED
    BY <1>1, <1>3, <1>6, <2>5, <2>6, IocpChanged
<1> QED
  BY <1>4, <1>5, <1>6 DEF WriteHandler

LEMMA ServerStepKeeps ==
    ASSUME IocpInv, NEW f \in Fd, ServerStep(f)
    PROVE  IocpInv'
<1> DEFINE l == Io.lookup[f]
<1>1. /\ f \in owned /\ polling = FALSE /\ fired' = fired /\ port' = port /\ UNCHANGED <<accepted, accepting, polling>>
  BY DEF ServerStep, IocpInv, IocpTypes
<1>2. /\ IoOk(Io, port) /\ Ready(f, l, fired, owned, accepted, accepting, polling) /\ l # NoState /\ l \in SockState
  BY <1>1, OwnedHasState
<1>3. owned' \in {owned, owned \ {f}}
  BY DEF ServerStep
<1>4. Alone(f)
  BY <1>1, <1>3 DEF Alone
<1>5. CASE IoBecomes(aeApiAddWrite(Io, f)) /\ owned' = owned
  <2> DEFINE m == l.masks \cup {"WRITABLE"}
  <2>1. PICK W : /\ Changed(Io, port, aeApiAddWrite(Io, f), port, f, m, W)
                 /\ "CONNECT_PENDING" \in l.masks \/ W # {}
                 /\ W = l.wreqs \/ W = {"post"}
    BY <1>2, AddWriteOk
  <2>2. \A e : e # "WRITABLE" => (e \in m <=> e \in l.masks)
    OBVIOUS
  <2> HIDE DEF m
  <2>3. ReadyAs(f, m, W, fired', owned, accepted, accepting, polling)
    BY <1>1, <1>2, <2>1, <2>2 DEF Ready, ReadyAs
  <2> QED
    BY <1>1, <1>4, <1>5, <2>1, <2>3, IocpChanged
<1>6. CASE IoBecomes(aeApiAddRead(Io, f)) /\ owned' = owned /\ <<f, "READABLE">> \notin fired
  <2>1. PICK m : /\ Changed(Io, port, aeApiAddRead(Io, f), port, f, m, l.wreqs)
                 /\ m \in {l.masks \cup {"READABLE"}, l.masks \cup {"READABLE", "READ_QUEUED"}}
                 /\ m \cap {"READ_QUEUED", "CONNECT_PENDING"} # {}
    BY <1>2, AddReadOk
  <2>2. \A e : e \notin {"READABLE", "READ_QUEUED"} => (e \in m <=> e \in l.masks)
    BY <2>1
  <2>3. ReadyAs(f, m, l.wreqs, fired', owned, accepted, accepting, polling)
    BY <1>1, <1>2, <1>6, <2>1, <2>2 DEF Ready, ReadyAs
  <2> QED
    BY <1>1, <1>4, <1>6, <2>1, <2>3, IocpChanged
<1>7. CASE IoBecomes(aeWinCloseSocket(Io, f)) /\ owned' = owned \ {f}
  BY <1>1, <1>4, <1>7, CloseKeeps
<1> QED
  BY <1>5, <1>6, <1>7 DEF ServerStep

LEMMA PollKeeps ==
    ASSUME IocpInv, PollCompletion
    PROVE  IocpInv'
<1>1. polling = TRUE /\ UNCHANGED <<owned, accepting, accepted, polling>>
  BY DEF PollCompletion, IocpInv, IocpTypes
<1>2. PICK op \in port :
          /\ port' = port \ {op}
          /\ \/ lookup[op.fd] # NoState /\ (PollConnect(op) \/ PollRead(op) \/ PollWrite(op))
             \/ lookup[op.fd] = NoState /\ \E s \in closingList : s.fd = op.fd /\ PollClosing(s, op)
  BY DEF PollCompletion
<1> DEFINE f == op.fd
           l == Io.lookup[f]
<1>3. f \in Fd
  BY DEF IocpInv, IoOk, OpRecord
<1> HIDE DEF f
<1>4. IoOk(Io, port) /\ Ready(f, l, fired, owned, accepted, accepting, polling) /\ l = lookup[f]
  BY <1>3, OwnedHasState, IoIs
<1>5. owned' \subseteq Fd /\ owned' = owned
  BY <1>1 DEF IocpInv, IocpTypes
<1>6. op.fd = f
  BY DEF f
<1>7. lookup[op.fd] = l
  BY <1>4 DEF f
<1>8. CASE l # NoState /\ PollConnect(op)
  <2> DEFINE x == [Io EXCEPT !.lookup[f].masks = @ \ {"CONNECT_PENDING"}]
             m == l.masks \ {"CONNECT_PENDING"}
             Q == port \ {op}
             y == aeApiAddWrite(aeApiAddRead(x, f), f)
  <2>1. op.op = "connect" /\ IoBecomes(y) /\ fired' = fired
    BY <1>8 DEF PollConnect, f
  <2>2. l.wreqs = {} /\ Changed(Io, port, x, Q, f, m, l.wreqs)
    BY <1>3, <1>4, <1>6, <1>8, <2>1, ConnectIsTold
  <2>3. l \in SockState
    BY <1>3, <1>4, <1>8, HasState
  <2>4. "CONNECT_PENDING" \in l.masks
    <3>1. op.op \in Names(l)
      BY <1>3, <1>4, <1>6, <1>8, OpIsCounted
    <3> QED
      BY <2>1, <2>3, <3>1, StateFacts
  <2> HIDE DEF x, m, Q
  <2>5. IoOk(x, Q) /\ x.lookup[f] # NoState /\ x.lookup[f].masks = m /\ x.lookup[f].wreqs = l.wreqs
    BY <2>2, StateFacts DEF Changed
  <2>6. PICK n : /\ Changed(x, Q, aeApiAddRead(x, f), Q, f, n, x.lookup[f].wreqs)
                 /\ n \in {x.lookup[f].masks \cup {"READABLE"}, x.lookup[f].masks \cup {"READABLE", "READ_QUEUED"}}
                 /\ n \cap {"READ_QUEUED", "CONNECT_PENDING"} # {}
    BY <1>3, <2>5, AddReadOk
  <2> DEFINE z == aeApiAddRead(x, f)
  <2> HIDE DEF z
  <2>7. Changed(x, Q, z, Q, f, n, l.wreqs)
    BY <2>5, <2>6 DEF z
  <2>8. IoOk(z, Q) /\ z.lookup[f] # NoState /\ z.lookup[f].masks = n /\ z.lookup[f].wreqs = l.wreqs
    BY <2>7, StateFacts DEF Changed
  <2>9. PICK W : /\ Changed(z, Q, aeApiAddWrite(z, f), Q, f, z.lookup[f].masks \cup {"WRITABLE"}, W)
                 /\ "CONNECT_PENDING" \in z.lookup[f].masks \/ W # {}
                 /\ W = z.lookup[f].wreqs \/ W = {"post"}
    BY <1>3, <2>8, AddWriteOk
  <2> DEFINE k == n \cup {"WRITABLE"}
  <2>10. y = aeApiAddWrite(z, f)
    BY DEF z
  <2> HIDE DEF y
  <2>11. Changed(z, Q, y, Q, f, k, W)
    BY <2>8, <2>9, <2>10
  <2>12. Changed(Io, port, y, Q, f, k, W)
    <3>1. Changed(Io, port, z, Q, f, n, l.wreqs)
      BY <2>2, <2>7, ChangedTwice
    <3> QED
      BY <3>1, <2>11, ChangedTwice
  <2>13. k \cap {"READ_QUEUED", "CONNECT_PENDING"} # {} /\ ("CONNECT_PENDING" \in k \/ W # {})
    BY <2>6, <2>8, <2>9
  <2>14. "CONNECT_PENDING" \notin k /\ (W = {} \/ W = {"post"})
    <3>1. "CONNECT_PENDING" \notin m
      BY DEF m
    <3> QED
      BY <2>2, <2>5, <2>6, <2>8, <2>9, <3>1
  <2>15. <<f, "READABLE">> \notin fired /\ <<f, "WRITABLE">> \notin fired /\ f \notin accepted /\ f # accepting
    BY <1>4, <2>4 DEF Ready
  <2> HIDE DEF k
  <2>16. ReadyAs(f, k, W, fired', owned, accepted, accepting, polling)
    BY <2>1, <2>13, <2>15 DEF ReadyAs, Ready
  <2>17. Alone(f) /\ port' = Q
    BY <1>1, <1>2, <2>1 DEF Alone, Q
  <2> QED
    BY <1>3, <1>5, <2>1, <2>12, <2>16, <2>17, IocpChanged
<1>9. CASE l # NoState /\ PollRead(op)
  <2> DEFINE x == [Io EXCEPT !.lookup[f].masks = @ \ {"READ_QUEUED"}]
             m == l.masks \ {"READ_QUEUED"}
             Q == port \ {op}
  <2>1. /\ op.op = "read" /\ IoBecomes(x)
        /\ fired' = IF "READABLE" \in l.masks THEN fired \cup {<<f, "READABLE">>} ELSE fired
    BY <1>4, <1>9 DEF PollRead, f
  <2>2. "CONNECT_PENDING" \notin l.masks /\ Changed(Io, port, x, Q, f, m, l.wreqs)
    BY <1>3, <1>4, <1>6, <1>9, <2>1, ReadIsTold
  <2>3. l \in SockState
    BY <1>3, <1>4, <1>9, HasState
  <2>4. "READ_QUEUED" \in l.masks
    <3>1. op.op \in Names(l)
      BY <1>3, <1>4, <1>6, <1>9, OpIsCounted
    <3> QED
      BY <2>1, <2>3, <3>1, StateFacts
  <2>5. /\ fired' \subseteq fired \cup {<<f, "READABLE">>} /\ fired \subseteq fired'
        /\ "READABLE" \in l.masks => <<f, "READABLE">> \in fired'
    BY <2>1
  <2>6. m \cap {"READ_QUEUED", "CONNECT_PENDING"} = {} /\ \A e : e # "READ_QUEUED" => (e \in m <=> e \in l.masks)
    BY <2>2
  <2> HIDE DEF x, m, Q
  <2>7. f \notin accepted /\ f # accepting
    BY <1>4, <2>4 DEF Ready
  <2>8. ReadyAs(f, m, l.wreqs, fired', owned, accepted, accepting, polling)
    BY <1>4, <1>9, <2>5, <2>6, <2>7 DEF ReadyAs, Ready
  <2>9. Alone(f) /\ port' = Q
    BY <1>1, <1>2, <2>5 DEF Alone, Q
  <2> QED
    BY <1>3, <1>5, <2>1, <2>2, <2>8, <2>9, IocpChanged
<1>10. CASE l # NoState /\ PollWrite(op)
  <2>1. op.op \notin {"connect", "read"}
    BY <1>10 DEF PollWrite
  <2>2. PICK sent \in BOOLEAN :
           LET s == [lookup[op.fd] EXCEPT !.wreqs = @ \ {op.op}, !.masks = IF sent THEN @ \ {"WRITABLE"} ELSE @]
           IN  /\ IoBecomes([Io EXCEPT !.lookup[op.fd] = s])
               /\ fired' = IF s.wreqs = {} /\ "WRITABLE" \in s.masks THEN fired \cup {<<op.fd, "WRITABLE">>} ELSE fired
    BY <1>10 DEF PollWrite
  <2> DEFINE m == IF sent THEN l.masks \ {"WRITABLE"} ELSE l.masks
             W == l.wreqs \ {op.op}
             s == [l EXCEPT !.wreqs = W, !.masks = m]
             y == [Io EXCEPT !.lookup[f] = s]
             Q == port \ {op}
  <2>3. /\ IoBecomes(y)
        /\ fired' = IF s.wreqs = {} /\ "WRITABLE" \in s.masks THEN fired \cup {<<f, "WRITABLE">>} ELSE fired
    BY <1>7, <2>2 DEF f
  <2>4. l \in SockState
    BY <1>3, <1>4, <1>10, HasState
  <2>5. s = Become(l, m, W)
    <3>1. l = [fd |-> l.fd, gen |-> l.gen, masks |-> l.masks, wreqs |-> l.wreqs]
      BY <2>4, StateFacts
    <3>2. s = [l EXCEPT !.wreqs = W, !.masks = m]
      OBVIOUS
    <3> HIDE DEF s, m, W
    <3> QED
      BY <3>1, <3>2 DEF Become
  <2>6. y = [Io EXCEPT !.lookup[f] = s]
    OBVIOUS
  <2>7. m \in {l.masks, l.masks \ {"WRITABLE"}}
    OBVIOUS
  <2> HIDE DEF y, s, m, Q
  <2>8. "CONNECT_PENDING" \notin l.masks /\ s.masks = m /\ s.wreqs = W /\ Changed(Io, port, y, Q, f, m, W)
    <3>1. W = Io.lookup[f].wreqs \ {op.op} /\ l = Io.lookup[f]
      OBVIOUS
    <3>2. (m = Io.lookup[f].masks \/ m = Io.lookup[f].masks \ {"WRITABLE"}) /\ Io.lookup[f] # NoState
      BY <1>10, <2>7
    <3>3. y = SetState(Io, f, s, Io.kernel)
      BY <2>6 DEF SetState, Io
    <3>4. s.masks = m /\ s.wreqs = W
      BY <2>5 DEF Become
    <3>5. IoOk(Io, port) /\ f \in Fd /\ op \in port /\ op.fd = f /\ op.op \notin {"connect", "read"}
      BY <1>3, <1>4, <1>6, <2>1
    <3> HIDE DEF l, W
    <3>6. /\ "CONNECT_PENDING" \notin Io.lookup[f].masks
          /\ Changed(Io, port, SetState(Io, f, Become(Io.lookup[f], m, W), Io.kernel), port \ {op}, f, m, W)
      BY <3>1, <3>2, <3>5, WriteIsTold
    <3> QED
      BY <2>5, <3>1, <3>3, <3>4, <3>6 DEF Q
  <2>9. op.op \in l.wreqs
    <3>1. op.op \in Names(l)
      BY <1>3, <1>4, <1>6, <1>10, OpIsCounted
    <3> QED
      BY <2>1, <2>4, <3>1, StateFacts
  <2>10. /\ fired' \subseteq fired \cup {<<f, "WRITABLE">>} /\ fired \subseteq fired'
         /\ <<f, "WRITABLE">> \in fired' => <<f, "WRITABLE">> \in fired \/ W = {}
         /\ "WRITABLE" \in m /\ W = {} => <<f, "WRITABLE">> \in fired'
    BY <2>3, <2>8
  <2>11. "CONNECT_PENDING" \notin m /\ \A e : e # "WRITABLE" => (e \in m <=> e \in l.masks)
    BY <2>7, <2>8
  <2>12. W \subseteq l.wreqs
    OBVIOUS
  <2> HIDE DEF W
  <2>13. f \notin accepted /\ f # accepting
    BY <1>4, <2>9 DEF Ready
  <2>14. ReadyAs(f, m, W, fired', owned, accepted, accepting, polling)
    BY <1>4, <1>10, <2>10, <2>11, <2>12, <2>13 DEF ReadyAs, Ready
  <2>15. Alone(f) /\ port' = Q
    BY <1>1, <1>2, <2>10 DEF Alone, Q
  <2> QED
    BY <1>3, <1>5, <2>3, <2>8, <2>14, <2>15, IocpChanged
<1>11. ASSUME l = NoState, NEW s \in closingList, s.fd = op.fd, PollClosing(s, op)
       PROVE  IocpInv'
  <2> DEFINE y == ClosingBecomes(Io, s, op)
             Q == port \ {op}
  <2>1. IoBecomes(y) /\ fired' = fired
    BY <1>11 DEF PollClosing, ClosingBecomes
  <2>2. s \in Io.closing /\ s.fd = f
    BY <1>11, IoIs DEF f
  <2>3. y = ClosingBecomes(Io, s, op)
    OBVIOUS
  <2> HIDE DEF y
  <2>4. IoOk(y, Q) /\ y.lookup = Io.lookup
    BY <1>3, <1>4, <1>6, <1>11, <2>2, <2>3, ClosingOk
  <2>5. Alone(f) /\ port' = Q
    BY <1>1, <1>2, <2>1 DEF Alone
  <2>6. Ready(f, y.lookup[f], fired', owned', accepted, accepting, polling)
    BY <1>4, <1>5, <2>1, <2>4
  <2>7. \A h \in Fd : h # f => y.lookup[h] = lookup[h]
    BY <2>4, IoIs
  <2> HIDE DEF Q
  <2> QED
    BY <1>3, <1>5, <2>1, <2>4, <2>5, <2>6, <2>7, IocpAgain
<1> QED
  BY <1>2, <1>7, <1>8, <1>9, <1>10, <1>11

LEMMA CompletionKeeps ==
    ASSUME IocpInv, OperationCompletes
    PROVE  IocpInv'
<1>1. PICK op \in kernel : kernel' = kernel \ {op} /\ port' = port \cup {op}
  BY DEF OperationCompletes
<1>2. UNCHANGED <<fdOpen, lookup, closingList, fired, owned, accepting, accepted, lastGen, polling>>
  BY DEF OperationCompletes
<1> DEFINE K == kernel \ {op}
           y == [open |-> Io.open, lookup |-> Io.lookup, closing |-> Io.closing, kernel |-> K, gen |-> Io.gen]
<1>3. op \in Io.kernel /\ K = Io.kernel \ {op}
  BY IoIs
<1>4. Io' = y
  BY <1>1, <1>2, IoIs DEF Io
<1>5. y = [open |-> Io.open, lookup |-> Io.lookup, closing |-> Io.closing, kernel |-> K, gen |-> Io.gen]
  OBVIOUS
<1>6. IoOk(Io, port)
  BY DEF IocpInv
<1> HIDE DEF y, K
<1>7. IoOk(y, port \cup {op})
  BY <1>3, <1>5, <1>6, CompletesOk
<1>8. IoOk(Io, port)'
  BY <1>1, <1>4, <1>7
<1> QED
  BY <1>2, <1>8 DEF IocpInv, AllReady

LEMMA OpenIs ==
    ASSUME NEW x, IsIo(x), NEW f \in Fd, NEW m
    PROVE  OpenSocket(x, f, m) = NewSocket(x, f, m, x.kernel)
<1> DEFINE y == OpenSocket(x, f, m)
           g == x.gen + 1
           s == [fd |-> f, gen |-> x.gen + 1, masks |-> m, wreqs |-> {}]
<1>1. y = [x EXCEPT !.gen = g, !.open[f] = g, !.lookup[f] = s]
  BY DEF OpenSocket
<1>2. x = [open |-> x.open, lookup |-> x.lookup, closing |-> x.closing, kernel |-> x.kernel, gen |-> x.gen]
  BY DEF IsIo
<1> HIDE DEF y, g, s
<1>3. y = [open |-> [x.open EXCEPT ![f] = g], lookup |-> [x.lookup EXCEPT ![f] = s], closing |-> x.closing,
           kernel |-> x.kernel, gen |-> g]
  BY <1>1, <1>2
<1> QED
  BY <1>3 DEF y, g, s, NewSocket

\* QueueAccept, from a state x in which no accept waits.
LEMMA QueueKeeps ==
    ASSUME NEW x, IoOk(x, port), x.open = fdOpen, \A h \in Fd : lookup[h] = NoState => x.lookup[h] = NoState,
           QueueAccept(x), UNCHANGED <<port, fired, polling>>, polling = FALSE,
           IocpTypes(owned', accepted', NoFd, FALSE), AllReady(x.lookup, fired, owned', accepted', NoFd, FALSE)
    PROVE  IocpInv'
<1>1. CASE IoBecomes(x) /\ accepting' = NoFd
  <2>1. Io' = x /\ lookup' = x.lookup
    BY <1>1, BecomesIs DEF IoOk
  <2>2. IoOk(Io, port)' /\ polling' = FALSE /\ fired' = fired
    BY <2>1
  <2>3. IocpTypes(owned', accepted', accepting', polling')
    BY <1>1, <2>2
  <2>4. AllReady(lookup', fired', owned', accepted', accepting', polling')
    BY <1>1, <2>1, <2>2
  <2> QED
    BY <2>2, <2>3, <2>4 DEF IocpInv
<1>2. ASSUME NEW f \in Closed, IoBecomes(OpenSocket(x, f, {"SOCKET_ATTACHED"})), accepting' = f
      PROVE  IocpInv'
  <2> DEFINE m == {"SOCKET_ATTACHED"}
             A == {}
             K == x.kernel \cup OpsOf(f, x.gen + 1, A)
             y == OpenSocket(x, f, m)
  <2>1. f \in Fd /\ x.open[f] = 0 /\ x.lookup[f] = NoState
    BY <1>2 DEF Closed
  <2>2. A = {} /\ K = x.kernel
    BY DEF OpsOf
  <2>3. NewMasks(m, A)
    BY DEF Masks, NewMasks
  <2>4. y = NewSocket(x, f, m, K)
    BY <2>1, <2>2, OpenIs DEF IoOk
  <2>5. K = x.kernel \cup OpsOf(f, x.gen + 1, A) /\ m = {"SOCKET_ATTACHED"}
    OBVIOUS
  <2>6. IoBecomes(y)
    BY <1>2
  <2> HIDE DEF m, A, K, y
  <2>7. /\ IoOk(y, port) /\ y.lookup[f] \in SockState /\ y.lookup[f].masks = m /\ y.lookup[f].wreqs = {}
        /\ \A h \in Fd : h # f => y.lookup[h] = x.lookup[h]
    BY <2>1, <2>3, <2>4, <2>5, OpenOk
  <2>8. Io' = y /\ lookup' = y.lookup
    BY <2>6, <2>7, BecomesIs DEF IoOk
  <2>9. IoOk(Io, port)' /\ polling' = FALSE /\ fired' = fired
    BY <2>7, <2>8
  <2>10. IocpTypes(owned', accepted', accepting', polling')
    BY <1>2, <2>1, <2>9 DEF IocpTypes
  <2>11. ASSUME NEW h \in Fd PROVE Ready(h, y.lookup[h], fired, owned', accepted', f, FALSE)
    <3>1. Ready(h, x.lookup[h], fired, owned', accepted', NoFd, FALSE)
      BY DEF AllReady
    <3>2. CASE h # f
      BY <2>7, <3>1, <3>2 DEF Ready
    <3>3. CASE h = f
      <4>1. f \notin owned' /\ f \notin accepted'
        BY <2>1, <3>1, <3>3 DEF Ready
      <4>2. y.lookup[f] # NoState
        BY <2>7, StateFacts
      <4> QED
        BY <2>5, <2>7, <3>3, <4>1, <4>2 DEF Ready
    <3> QED
      BY <3>2, <3>3
  <2>12. AllReady(lookup', fired', owned', accepted', accepting', polling')
    BY <1>2, <2>8, <2>9, <2>11 DEF AllReady
  <2> QED
    BY <2>9, <2>10, <2>12 DEF IocpInv
<1> QED
  BY <1>1, <1>2 DEF QueueAccept

LEMMA ListenKeeps ==
    ASSUME IocpInv, aeWinListen
    PROVE  IocpInv'
<1>1. accepting = NoFd /\ polling = FALSE /\ QueueAccept(Io) /\ UNCHANGED <<port, fired, owned, accepted, polling>>
  BY DEF aeWinListen, IocpInv, IocpTypes
<1>2. IoOk(Io, port) /\ Io.open = fdOpen /\ \A h \in Fd : lookup[h] = NoState => Io.lookup[h] = NoState
  BY IoIs DEF IocpInv
<1>3. IocpTypes(owned', accepted', NoFd, FALSE)
  BY <1>1 DEF IocpInv, IocpTypes
<1>4. AllReady(Io.lookup, fired, owned', accepted', NoFd, FALSE)
  BY <1>1, IoIs DEF IocpInv
<1>5. UNCHANGED <<port, fired, polling>>
  BY <1>1
<1> QED
  BY <1>1, <1>2, <1>3, <1>4, <1>5, QueueKeeps

LEMMA AcceptKeeps ==
    ASSUME IocpInv, NEW f \in Fd, aeWinAccept(f)
    PROVE  IocpInv'
<1> DEFINE l == Io.lookup[f]
           m == {"SOCKET_ATTACHED"}
           z == [Io EXCEPT !.lookup[f].masks = m]
           Free == CanOpen /\ Closed # {}
           x == IF Free THEN aeApiAddRead(z, f) ELSE z
<1>1. /\ f \in accepted /\ polling = FALSE /\ accepted' = accepted \ {f} /\ UNCHANGED <<port, fired, polling>>
      /\ owned' = IF accepting' # NoFd THEN owned \cup {f} ELSE owned
  BY DEF aeWinAccept, IocpInv, IocpTypes
<1>2. QueueAccept(x)
  BY DEF aeWinAccept
<1>3. IoOk(Io, port) /\ Ready(f, l, fired, owned, accepted, accepting, polling)
  BY OwnedHasState
<1>4. /\ l # NoState /\ l.masks = m /\ l.wreqs = {} /\ f \notin owned
      /\ <<f, "READABLE">> \notin fired /\ <<f, "WRITABLE">> \notin fired
  BY <1>1, <1>3 DEF Ready
<1>5. Changed(Io, port, z, port, f, m, l.wreqs)
  <2>1. m \subseteq Masks /\ m \ {"READABLE", "WRITABLE"} = l.masks \ {"READABLE", "WRITABLE"}
    BY <1>4 DEF Masks
  <2> HIDE DEF m
  <2> QED
    BY <1>3, <1>4, <2>1, MasksOk
<1> HIDE DEF z
<1>6. IoOk(z, port) /\ z.lookup[f] # NoState /\ z.lookup[f].masks = m /\ z.lookup[f].wreqs = l.wreqs
  BY <1>5, StateFacts DEF Changed
<1>7. ASSUME NEW n, NEW y, y = x, Changed(Io, port, y, port, f, n, l.wreqs), NEW own, own = owned', own \subseteq owned \cup {f},
             ReadyAs(f, n, l.wreqs, fired, own, accepted', NoFd, FALSE), owned \subseteq own
      PROVE  IocpInv'
  <2>1. IoOk(y, port) /\ y.open = Io.open /\ y.lookup[f] # NoState /\ y.lookup[f].masks = n /\ y.lookup[f].wreqs = l.wreqs
        /\ \A h \in Fd : h # f => y.lookup[h] = Io.lookup[h]
    BY <1>7, StateFacts DEF Changed
  <2>2. y.open = fdOpen /\ \A h \in Fd : lookup[h] = NoState => y.lookup[h] = NoState
    BY <1>4, <2>1, IoIs
  <2>3. Ready(f, y.lookup[f], fired, own, accepted', NoFd, FALSE)
    BY <1>7, <2>1 DEF ReadyAs
  <2>4. ASSUME NEW h \in Fd, h # f PROVE Ready(h, y.lookup[h], fired, own, accepted', NoFd, FALSE)
    <3>1. Ready(h, y.lookup[h], fired, owned, accepted, accepting, polling)
      BY <2>1, <2>4, OwnedHasState
    <3>2. h # NoFd /\ (h \in own <=> h \in owned) /\ (h \in accepted' <=> h \in accepted)
      BY <1>1, <1>7, <2>4, IocpAssumption DEF NoFd
    <3> QED
      BY <3>1, <3>2 DEF Ready
  <2>5. AllReady(y.lookup, fired, owned', accepted', NoFd, FALSE)
    BY <1>7, <2>3, <2>4 DEF AllReady
  <2>6. IocpTypes(owned', accepted', NoFd, FALSE)
    BY <1>1, <1>7 DEF IocpInv, IocpTypes
  <2>7. QueueAccept(y)
    BY <1>2, <1>7
  <2> QED
    BY <1>1, <2>1, <2>2, <2>5, <2>6, <2>7, QueueKeeps
<1>8. f # NoFd
  BY IocpAssumption DEF NoFd
<1>9. x.gen = lastGen /\ lastGen \in Nat
  <2>1. z.gen = lastGen
    BY <1>5, IoIs DEF Changed
  <2>2. PICK n : Changed(z, port, aeApiAddRead(z, f), port, f, n, z.lookup[f].wreqs)
    BY <1>6, AddReadOk
  <2>3. aeApiAddRead(z, f).gen = z.gen
    BY <2>2 DEF Changed
  <2>4. lastGen \in Nat
    BY <1>3, IoIs DEF IoOk, IsIo
  <2> QED
    BY <2>1, <2>3, <2>4
<1>10. CASE Free
  <2>1. PICK n : /\ Changed(z, port, aeApiAddRead(z, f), port, f, n, z.lookup[f].wreqs)
                 /\ n \in {z.lookup[f].masks \cup {"READABLE"}, z.lookup[f].masks \cup {"READABLE", "READ_QUEUED"}}
                 /\ n \cap {"READ_QUEUED", "CONNECT_PENDING"} # {}
    BY <1>6, AddReadOk
  <2>2. Changed(Io, port, aeApiAddRead(z, f), port, f, n, l.wreqs)
    <3>1. Changed(z, port, aeApiAddRead(z, f), port, f, n, l.wreqs)
      BY <1>6, <2>1
    <3> QED
      BY <1>5, <3>1, ChangedTwice
  <2>3. x = aeApiAddRead(z, f)
    BY <1>10
  <2>4. accepting' # NoFd
    <3>1. ~(x.gen = MaxGen \/ Closed = {})
      BY <1>9, <1>10 DEF CanOpen
    <3>2. PICK h \in Closed : accepting' = h
      BY <1>2, <3>1 DEF QueueAccept
    <3> QED
      BY <3>2, IocpAssumption DEF Closed, NoFd
  <2>5. owned' = owned \cup {f}
    BY <1>1, <2>4
  <2>6. "WRITABLE" \notin n
    BY <1>6, <2>1
  <2>7. ReadyAs(f, n, l.wreqs, fired, owned \cup {f}, accepted', NoFd, FALSE)
    BY <1>1, <1>4, <1>8, <2>1, <2>6 DEF ReadyAs, Ready
  <2> HIDE DEF x
  <2> QED
    BY <1>7, <2>2, <2>3, <2>5, <2>7
<1>11. CASE ~Free
  <2>1. x = z
    BY <1>11
  <2>2. accepting' = NoFd
    <3>1. ~(x.gen < MaxGen /\ Closed # {})
      BY <1>9, <1>11 DEF CanOpen
    <3> QED
      BY <1>2, <3>1 DEF QueueAccept
  <2>3. owned' = owned
    BY <1>1, <2>2
  <2>4. ReadyAs(f, m, l.wreqs, fired, owned, accepted', NoFd, FALSE)
    BY <1>1, <1>4, <1>8 DEF ReadyAs, Ready
  <2> HIDE DEF x, m
  <2> QED
    BY <1>5, <1>7, <2>1, <2>3, <2>4
<1> QED
  BY <1>10, <1>11

LEMMA ConnectKeeps ==
    ASSUME IocpInv, NEW f \in Fd, aeWinSocketConnect(f)
    PROVE  IocpInv'
<1> DEFINE m == {"SOCKET_ATTACHED", "CONNECT_PENDING", "READABLE", "WRITABLE"}
           A == {"connect"}
           K == Io.kernel \cup OpsOf(f, Io.gen + 1, A)
           o == OpenSocket(Io, f, m)
           y == [o EXCEPT !.kernel = K]
<1>1. /\ f \in Closed /\ fired = {} /\ polling = FALSE /\ owned' = owned \cup {f}
      /\ UNCHANGED <<port, fired, accepting, accepted, polling>>
  BY DEF aeWinSocketConnect, IocpInv, IocpTypes
<1>2. Io.open[f] = 0 /\ Io.lookup[f] = NoState /\ IoOk(Io, port) /\ IsIo(Io)
      /\ Ready(f, Io.lookup[f], fired, owned, accepted, accepting, polling)
  BY <1>1, IoIs, OwnedHasState DEF Closed, IoOk
<1>3. OpsOf(f, Io.gen + 1, A) = {[fd |-> f, gen |-> lastGen + 1, op |-> "connect"]}
  BY IoIs DEF OpsOf, OpRec
<1>4. o = NewSocket(Io, f, m, Io.kernel)
  <2> HIDE DEF m
  <2> QED
    BY <1>2, OpenIs
<1>5. o.kernel = Io.kernel
  BY <1>4 DEF NewSocket
<1>6. IoBecomes(y)
  <2>1. IoBecomes([o EXCEPT !.kernel = @ \cup {[fd |-> f, gen |-> lastGen + 1, op |-> "connect"]}])
    BY DEF aeWinSocketConnect
  <2> HIDE DEF o, A
  <2> QED
    BY <1>3, <1>5, <2>1
<1>7. NewMasks(m, A) /\ "READ_QUEUED" \notin m /\ "CONNECT_PENDING" \in m
  BY DEF Masks, NewMasks
<1>8. K = Io.kernel \cup OpsOf(f, Io.gen + 1, A) /\ y = [o EXCEPT !.kernel = K]
  OBVIOUS
<1> HIDE DEF m, A, K, o, y
<1>9. y = NewSocket(Io, f, m, K)
  BY <1>4, <1>8 DEF NewSocket
<1>10. /\ IoOk(y, port) /\ y.lookup[f] \in SockState /\ y.lookup[f].masks = m /\ y.lookup[f].wreqs = {}
       /\ \A h \in Fd : h # f => y.lookup[h] = Io.lookup[h]
  <2>1. IoOk(Io, port) /\ Io.open[f] = 0 /\ Io.lookup[f] = NoState
    BY <1>2
  <2>2. NewMasks(m, A) /\ K = Io.kernel \cup OpsOf(f, Io.gen + 1, A)
    BY <1>7, <1>8
  <2> QED
    BY <1>9, <2>1, <2>2, OpenOk
<1>11. Alone(f) /\ owned' \subseteq Fd /\ port' = port
  BY <1>1 DEF Alone, IocpInv, IocpTypes
<1>12. f \notin accepted /\ f # accepting /\ y.lookup[f] # NoState
  BY <1>2, <1>10, StateFacts DEF Ready
<1>13. Ready(f, y.lookup[f], fired', owned', accepted, accepting, polling)
  BY <1>1, <1>7, <1>10, <1>12 DEF Ready
<1>14. \A h \in Fd : h # f => y.lookup[h] = lookup[h]
  BY <1>10, IoIs
<1> QED
  BY <1>6, <1>10, <1>11, <1>13, <1>14, IocpAgain

LEMMA PhaseKeeps ==
    ASSUME IocpInv, PollPhase \/ AcceptCompletes
    PROVE  IocpInv'
<1>1. UNCHANGED <<fdOpen, lookup, closingList, kernel, port, fired, owned, lastGen>>
  BY DEF PollPhase, AcceptCompletes
<1>2. IoOk(Io, port)'
  <2>1. Io' = Io
    BY <1>1 DEF Io
  <2> QED
    BY <1>1, <2>1 DEF IocpInv
<1>3. CASE PollPhase
  <2>1. /\ accepted' = accepted /\ accepting' = accepting /\ polling' \in BOOLEAN
        /\ polling' => fired = {} /\ accepted = {}
    BY <1>3 DEF PollPhase, IocpInv, IocpTypes
  <2>2. IocpTypes(owned', accepted', accepting', polling')
    BY <1>1, <2>1 DEF IocpInv, IocpTypes
  <2>3. ASSUME NEW f \in Fd PROVE Ready(f, lookup'[f], fired', owned', accepted', accepting', polling')
    <3>1. Ready(f, lookup[f], fired, owned, accepted, accepting, polling)
      BY DEF IocpInv, AllReady
    <3> QED
      BY <1>1, <2>1, <3>1 DEF Ready
  <2> QED
    BY <1>2, <2>2, <2>3 DEF IocpInv, AllReady
<1>4. CASE AcceptCompletes
  <2>1. accepted' = accepted \cup {accepting} /\ accepting' = NoFd /\ accepting # NoFd /\ polling = TRUE /\ polling' = polling
    BY <1>4 DEF AcceptCompletes, IocpInv, IocpTypes
  <2>2. IocpTypes(owned', accepted', accepting', polling')
    BY <1>1, <2>1 DEF IocpInv, IocpTypes
  <2>3. ASSUME NEW f \in Fd PROVE Ready(f, lookup'[f], fired', owned', accepted', accepting', polling')
    <3>1. Ready(f, lookup[f], fired, owned, accepted, accepting, polling)
      BY DEF IocpInv, AllReady
    <3>2. f # NoFd
      BY IocpAssumption DEF NoFd
    <3> QED
      BY <1>1, <2>1, <3>1, <3>2 DEF Ready
  <2> QED
    BY <1>2, <2>2, <2>3 DEF IocpInv, AllReady
<1> QED
  BY <1>3, <1>4

LEMMA IocpSteps == IocpInv /\ [IocpNext]_iocpVars => IocpInv'
<1> SUFFICES ASSUME IocpInv, [IocpNext]_iocpVars PROVE IocpInv'
  OBVIOUS
<1>1. CASE UNCHANGED iocpVars
  BY <1>1 DEF iocpVars, IocpInv, Io, AllReady
<1>2. CASE aeWinListen
  BY <1>2, ListenKeeps
<1>3. CASE AcceptCompletes \/ PollPhase
  BY <1>3, PhaseKeeps
<1>4. CASE OperationCompletes
  BY <1>4, CompletionKeeps
<1>5. CASE PollCompletion
  BY <1>5, PollKeeps
<1>6. ASSUME NEW f \in Fd, aeWinAccept(f) \/ aeWinSocketConnect(f) \/ ReadHandler(f) \/ WriteHandler(f) \/ ServerStep(f)
      PROVE  IocpInv'
  BY <1>6, AcceptKeeps, ConnectKeeps, ReadHandlerKeeps, WriteHandlerKeeps, ServerStepKeeps
<1> QED
  BY <1>1, <1>2, <1>3, <1>4, <1>5, <1>6 DEF IocpNext

\* What a state of a descriptor counts, in the words of the property.
CountsOp(s, op) ==
    CASE op.op = "read"    -> "READ_QUEUED" \in s.masks
      [] op.op = "connect" -> "CONNECT_PENDING" \in s.masks
      [] OTHER             -> op.op \in s.wreqs

LEMMA NamesAreCounted ==
    ASSUME NEW s \in SockState, NEW op, op.op \in Names(s)
    PROVE  CountsOp(s, op)
<1>1. /\ "read" \in Names(s) <=> "READ_QUEUED" \in s.masks
      /\ "connect" \in Names(s) <=> "CONNECT_PENDING" \in s.masks
      /\ \A n : n \notin {"read", "connect"} => (n \in Names(s) <=> n \in s.wreqs)
  BY StateFacts
<1>2. CASE op.op = "read"
  BY <1>1, <1>2 DEF CountsOp
<1>3. CASE op.op = "connect"
  BY <1>1, <1>3 DEF CountsOp
<1>4. CASE op.op \notin {"read", "connect"}
  BY <1>1, <1>4 DEF CountsOp
<1> QED
  BY <1>2, <1>3, <1>4

LEMMA IocpInvImplies == IocpInv => OperationsAreKnown
<1> SUFFICES ASSUME IocpInv PROVE OperationsAreKnown
  OBVIOUS
<1> DEFINE states == {lookup[f] : f \in Fd} \cup closingList
           ops    == kernel \cup port
<1>1. /\ closingList \subseteq SockState /\ ops \subseteq OpRecord /\ lookup \in [Fd -> SockState \cup {NoState}]
  BY IoIs DEF IocpInv, IoOk, IsIo
<1>2. ASSUME NEW f \in Fd PROVE FdOk(f, lookup[f], fdOpen[f], OfFd(closingList, f), OfFd(ops, f))
  BY IoIs DEF IocpInv, IoOk
<1>3. ASSUME NEW f \in Fd, NEW n, NEW N, OfFd(ops, f) = OpsOf(f, fdOpen[f], N), n \in N
      PROVE  OpRec(f, fdOpen[f], n) \in ops /\ OpRec(f, fdOpen[f], n).fd = f /\ OpRec(f, fdOpen[f], n).op = n
  BY <1>3 DEF OpsOf, OfFd, OpRec
<1>4. ASSUME NEW op \in ops
      PROVE  \E s \in states : s.fd = op.fd /\ s.gen = op.gen /\ fdOpen[op.fd] = op.gen /\ CountsOp(s, op)
  <2> DEFINE f == op.fd
  <2>1. f \in Fd
    BY <1>1 DEF OpRecord
  <2>2. op \in OfFd(ops, f)
    BY DEF OfFd
  <2> HIDE DEF ops
  <2>3. ASSUME NEW s \in SockState, s \in states, s.fd = f, s.gen = fdOpen[f], OfFd(ops, f) = OpsOf(f, fdOpen[f], Names(s))
        PROVE  s.fd = op.fd /\ s.gen = op.gen /\ fdOpen[op.fd] = op.gen /\ CountsOp(s, op)
    <3>1. PICK n \in Names(s) : op = OpRec(f, fdOpen[f], n)
      BY <2>2, <2>3 DEF OpsOf
    <3>2. op.gen = fdOpen[f] /\ op.op = n
      BY <3>1 DEF OpRec
    <3> QED
      BY <2>3, <3>2, NamesAreCounted
  <2>4. CASE lookup[f] # NoState
    <3>1. lookup[f] \in SockState /\ lookup[f] \in states
      BY <1>1, <2>1, <2>4
    <3>2. InUse(f, lookup[f], fdOpen[f], OfFd(closingList, f), OfFd(ops, f))
      BY <1>2, <2>1, <2>4 DEF FdOk
    <3> QED
      BY <2>3, <3>1, <3>2 DEF InUse
  <2>5. CASE lookup[f] = NoState
    <3>1. PICK s : BeingClosed(f, s, fdOpen[f], OfFd(closingList, f), OfFd(ops, f))
      BY <1>2, <2>1, <2>2, <2>5 DEF FdOk
    <3>2. s \in closingList /\ s.fd = f /\ s.gen = fdOpen[f] /\ OfFd(ops, f) = OpsOf(f, fdOpen[f], Names(s))
      BY <3>1 DEF BeingClosed, OfFd
    <3> QED
      BY <1>1, <2>3, <3>2
  <2> QED
    BY <2>4, <2>5
<1>5. ASSUME NEW f \in Fd PROVE Cardinality({s \in states : s.fd = f}) <= 1
  <2>1. \A h \in Fd : lookup[h].fd = f => h = f /\ lookup[f] # NoState
    <3> SUFFICES ASSUME NEW h \in Fd, lookup[h].fd = f PROVE h = f /\ lookup[f] # NoState
      OBVIOUS
    <3>1. lookup[h] # NoState
      BY IocpAssumption DEF NoState, NoFd
    <3>2. lookup[h].fd = h
      BY <1>2, <3>1 DEF FdOk, InUse
    <3> QED
      BY <3>1, <3>2
  <2>2. CASE lookup[f] = NoState
    <3>1. {s \in states : s.fd = f} = OfFd(closingList, f)
      BY <2>1, <2>2 DEF OfFd
    <3>2. OfFd(closingList, f) = {} \/ \E s : OfFd(closingList, f) = {s}
      BY <1>2, <2>2 DEF FdOk, BeingClosed
    <3>3. Cardinality({}) = 0 /\ \A s : Cardinality({s}) = 1
      BY FS_EmptySet, FS_Singleton
    <3>4. Cardinality(OfFd(closingList, f)) = 0 \/ Cardinality(OfFd(closingList, f)) = 1
      BY <3>2, <3>3
    <3> HIDE DEF states
    <3>5. Cardinality({s \in states : s.fd = f}) = Cardinality(OfFd(closingList, f))
      BY <3>1
    <3> QED
      BY <3>4, <3>5
  <2>3. CASE lookup[f] # NoState
    <3>1. OfFd(closingList, f) = {} /\ lookup[f].fd = f
      BY <1>2, <2>3 DEF FdOk, InUse
    <3>2. {s \in states : s.fd = f} = {lookup[f]}
      BY <2>1, <3>1 DEF OfFd
    <3>3. Cardinality({lookup[f]}) = 1
      BY FS_Singleton
    <3> HIDE DEF states
    <3>4. Cardinality({s \in states : s.fd = f}) = 1
      BY <3>2, <3>3
    <3> QED
      BY <3>4
  <2> QED
    BY <2>2, <2>3
<1>6. ASSUME NEW s \in closingList PROVE \E op \in ops : op.fd = s.fd
  <2> DEFINE f == s.fd
  <2>1. f \in Fd /\ s \in OfFd(closingList, f)
    BY <1>1 DEF SockState, OfFd
  <2>2. lookup[f] = NoState
    BY <1>2, <2>1 DEF FdOk, InUse
  <2>3. PICK c : BeingClosed(f, c, fdOpen[f], OfFd(closingList, f), OfFd(ops, f))
    BY <1>2, <2>1, <2>2 DEF FdOk
  <2>4. PICK n : n \in Names(c)
    BY <2>3 DEF BeingClosed
  <2>5. OfFd(ops, f) = OpsOf(f, fdOpen[f], Names(c))
    BY <2>3 DEF BeingClosed
  <2> QED
    BY <1>3, <2>1, <2>4, <2>5
<1>7. ASSUME NEW f \in owned
      PROVE  /\ "READABLE" \in lookup[f].masks => \/ <<f, "READABLE">> \in fired
                                                   \/ \E op \in ops : op.fd = f /\ op.op \in {"read", "connect"}
             /\ "WRITABLE" \in lookup[f].masks => \/ <<f, "WRITABLE">> \in fired
                                                   \/ \E op \in ops : op.fd = f /\ op.op # "read"
  <2> DEFINE l == lookup[f]
  <2>1. f \in Fd /\ Ready(f, l, fired, owned, accepted, accepting, polling)
    BY DEF IocpInv, AllReady, IocpTypes
  <2>2. l # NoState /\ l \in SockState
    BY <1>1, <2>1 DEF Ready
  <2>3. OfFd(ops, f) = OpsOf(f, fdOpen[f], Names(l))
    BY <1>2, <2>1, <2>2 DEF FdOk, InUse
  <2>4. /\ "read" \in Names(l) <=> "READ_QUEUED" \in l.masks
        /\ "connect" \in Names(l) <=> "CONNECT_PENDING" \in l.masks
        /\ \A n : n \notin {"read", "connect"} => (n \in Names(l) <=> n \in l.wreqs)
    BY <2>2, StateFacts
  <2>5. "read" \notin l.wreqs
    BY <2>2, IocpAssumption DEF SockState
  <2> HIDE DEF l, ops
  <2>6. \A n \in Names(l) : \E op \in ops : op.fd = f /\ op.op = n
    BY <1>3, <2>1, <2>3
  <2>7. ASSUME "READABLE" \in l.masks, <<f, "READABLE">> \notin fired
        PROVE  \E op \in ops : op.fd = f /\ op.op \in {"read", "connect"}
    <3>1. l.masks \cap {"READ_QUEUED", "CONNECT_PENDING"} # {}
      BY <2>1, <2>7 DEF Ready
    <3>2. "read" \in Names(l) \/ "connect" \in Names(l)
      BY <2>4, <3>1
    <3> QED
      BY <2>6, <3>2
  <2>8. ASSUME "WRITABLE" \in l.masks, <<f, "WRITABLE">> \notin fired
        PROVE  \E op \in ops : op.fd = f /\ op.op # "read"
    <3>1. l.wreqs # {} \/ "CONNECT_PENDING" \in l.masks
      BY <2>1, <2>8 DEF Ready
    <3>2. \E n \in Names(l) : n # "read"
      <4>1. l.wreqs \subseteq Names(l)
        BY DEF Names
      <4> QED
        BY <2>4, <2>5, <3>1, <4>1
    <3> QED
      BY <2>6, <3>2
  <2> QED
    BY <2>7, <2>8 DEF l
<1> HIDE DEF states, ops
<1> QED
  BY <1>4, <1>5, <1>6, <1>7 DEF OperationsAreKnown, CountsOp, states, ops

\* aeApiPoll and the handlers keep the operations that Windows has under way
\* and the states of the sockets together.
THEOREM WindowsOperationsAreKnown ==
    IocpInit /\ [][IocpNext]_iocpVars => []OperationsAreKnown
<1>1. IocpInit => IocpInv
  BY IocpStarts
<1>2. IocpInv /\ [IocpNext]_iocpVars => IocpInv'
  BY IocpSteps
<1>3. IocpInv => OperationsAreKnown
  BY IocpInvImplies
<1> QED
  BY <1>1, <1>2, <1>3, PTL

----------------------------------------------------------------------------
\* All that runs beside the server, in the composition of the parts: the bio
\* threads, the operations under way on Windows, and the forked process as in
\* ForkTakesASnapshot, where no private page is out of the working set.
THEOREM WorkIsConsistent ==
    ASSUME ~MayPageOut
    PROVE  ServerSpec => []WorkBesideTheServer
<1> DEFINE Inv == BioInv /\ ForkInv /\ IocpInv
<1>1. ServerInit => Inv
  BY BioStarts, ForkStarts, IocpStarts DEF ServerInit
<1>2. Inv /\ [ServerNext]_serverPartVars => Inv'
  <2> SUFFICES ASSUME Inv, [ServerNext]_serverPartVars PROVE Inv'
    OBVIOUS
  <2>1. [BioNext]_bioVars
    BY DEF ServerNext, Runs, serverPartVars
  <2>2. [QForkNext]_qforkVars
    BY DEF ServerNext, Runs, serverPartVars
  <2>3. [IocpNext]_iocpVars
    BY DEF ServerNext, Runs, serverPartVars
  <2> QED
    BY <2>1, <2>2, <2>3, BioSteps, ForkSteps, IocpSteps
<1>3. Inv => WorkBesideTheServer
  BY BioInvImplies, ForkInvImplies, IocpInvImplies DEF WorkBesideTheServer
<1> HIDE DEF Inv
<1> QED
  BY <1>1, <1>2, <1>3, PTL DEF ServerSpec

----------------------------------------------------------------------------
(* The hash table.                                                         *)

DictTable == UNION {[size : {n}, table : [0 .. n - 1 -> Seq(DictKeys)], used : Nat] : n \in Nat}

(* A table holds the keys of K: each in the chain of its hash value, once. *)
TableHolds(t, K) ==
    /\ t \in DictTable
    /\ K \subseteq DictKeys /\ IsFiniteSet(K) /\ t.used = Cardinality(K)
    /\ t.size = 0 => K = {}
    /\ \A b \in 0 .. t.size - 1 : IsInjective(t.table[b])
    /\ \A b \in 0 .. t.size - 1 : \A k \in DictKeys : k \in ToSet(t.table[b]) <=> k \in K /\ k % t.size = b

(* While keys are moved the buckets below idx are empty; otherwise there   *)
(* is no second table.                                                     *)
MovesInOrder(d) ==
    /\ d.idx \in Int /\ d.idx >= -1
    /\ d.idx = -1 => d.t1 = NoTable
    /\ d.idx # -1 => /\ d.t0.size > 0 /\ d.t1.size > 0
                     /\ \A b \in 0 .. d.idx - 1 : b <= d.t0.size - 1 /\ d.t0.table[b] = <<>>

Split(d, K, L) == TableHolds(d.t0, K) /\ TableHolds(d.t1, L) /\ K \cap L = {} /\ MovesInOrder(d)

DictRecord == [t0 : DictTable, t1 : DictTable, idx : Int]
DictHolds(d, P) == d \in DictRecord /\ \E K, L \in SUBSET DictKeys : Split(d, K, L) /\ P = K \cup L

(* What an iterator will still return: the rest of its chain, the chains   *)
(* of the greater buckets, and the second table after the first.           *)
KeysFrom(s, k) == {s[j] : j \in {n \in 1 .. Len(s) : \E m \in 1 .. n : s[m] = k}}
Beyond(t, index) == {k \in KeysOf(t) : k % t.size > index}
AheadIn(t, after, index, next) == KeysFrom(t.table[index], next) \cup Beyond(t, index) \cup after
After(i) == IF i.table = 0 THEN KeysOf(ht[1]) ELSE {}
Ahead == AheadIn(ht[iter.table], After(iter), iter.index, iter.next)

DictIterator == [on : BOOLEAN, table : {0, 1}, index : Int, entry : DictKeys \cup {NoKeyYet},
                 next : DictKeys \cup {NoKeyYet}, done : BOOLEAN, seen : Seq(DictKeys), must : SUBSET DictKeys]

IterIdle == iter = NoIter /\ iterators = 0
IterFresh ==
    /\ iter.on /\ ~iter.done /\ iterators = 0
    /\ iter.table = 0 /\ iter.index = -1 /\ iter.entry = NoKeyYet /\ iter.next = NoKeyYet /\ iter.seen = <<>>
    /\ iter.must \subseteq present
IterWalks ==
    /\ iter.on /\ ~iter.done /\ iterators = 1
    /\ iter.index \in 0 .. ht[iter.table].size - 1 /\ iter.entry # NoKeyYet
    /\ iter.next # NoKeyYet => iter.next \in ToSet(ht[iter.table].table[iter.index])
    /\ iter.next # iter.entry
    /\ iter.table = 1 => rehashidx # -1
    /\ iter.must \subseteq present
    /\ \A k \in iter.must : k \in ToSet(iter.seen) <=> k \notin Ahead
IterEnded ==
    /\ iter.on /\ iter.done /\ iterators = 1
    /\ iter.entry = NoKeyYet /\ iter.index >= 0
    /\ iter.must \subseteq ToSet(iter.seen)

DictInv ==
    /\ ht \in [0 .. 1 -> DictTable] /\ rehashidx \in Int /\ iterators \in Nat /\ iter \in DictIterator
    /\ DictHolds(D, present)
    /\ IterIdle \/ IterFresh \/ IterWalks \/ IterEnded
    /\ ReturnedOnce(iter)
----------------------------------------------------------------------------
(* Chains.                                                                 *)

\* A key that is put at the head of a chain (dictAddRaw).
LEMMA PutFirst ==
    ASSUME NEW S, NEW s \in Seq(S), NEW k \in S
    PROVE  /\ <<k>> \o s \in Seq(S)
           /\ \A x : x \in ToSet(<<k>> \o s) <=> x = k \/ x \in ToSet(s)
           /\ IsInjective(s) /\ k \notin ToSet(s) => IsInjective(<<k>> \o s)
<1> DEFINE r == <<k>> \o s
<1>1. /\ r \in Seq(S) /\ Len(r) = Len(s) + 1 /\ Len(s) \in Nat /\ r[1] = k
      /\ \A i \in 1..Len(s) : r[i + 1] = s[i]
  BY PushHeadSequence
<1> HIDE DEF r
<1>2. \A x : x \in ToSet(r) <=> \E i \in 1..Len(s) + 1 : r[i] = x
  BY <1>1, ToSetMember
<1>3. \A x : x \in ToSet(s) <=> \E i \in 1..Len(s) : s[i] = x
  BY ToSetMember
<1>4. \A i \in 1..Len(s) + 1 : i = 1 \/ (i - 1 \in 1..Len(s) /\ r[i] = s[i - 1])
  <2>1. ASSUME NEW i \in 1..Len(s) + 1, i # 1 PROVE i - 1 \in 1..Len(s) /\ r[(i - 1) + 1] = s[i - 1] /\ (i - 1) + 1 = i
    BY <1>1, <2>1
  <2> QED
    BY <2>1
<1>5. ASSUME NEW x PROVE x \in ToSet(r) <=> x = k \/ x \in ToSet(s)
  <2>1. ASSUME x = k PROVE x \in ToSet(r)
    BY <1>1, <1>2, <2>1
  <2>2. ASSUME x \in ToSet(s) PROVE x \in ToSet(r)
    <3>1. PICK i \in 1..Len(s) : s[i] = x
      BY <1>3, <2>2
    <3>2. i + 1 \in 1..Len(s) + 1 /\ r[i + 1] = x
      BY <1>1, <3>1
    <3> QED
      BY <1>2, <3>2
  <2>3. ASSUME x \in ToSet(r) PROVE x = k \/ x \in ToSet(s)
    BY <1>1, <1>2, <1>3, <1>4, <2>3
  <2> QED
    BY <2>1, <2>2, <2>3
<1>6. ASSUME IsInjective(s), k \notin ToSet(s) PROVE IsInjective(r)
  <2>1. DOMAIN s = 1..Len(s) /\ DOMAIN r = 1..Len(s) + 1
    BY <1>1, LenProperties
  <2>2. SUFFICES ASSUME NEW i \in 1..Len(s) + 1, NEW j \in 1..Len(s) + 1, r[i] = r[j]
                 PROVE  i = j
    BY <2>1 DEF IsInjective
  <2>3. \A a \in 1..Len(s) : s[a] # k
    BY <1>3, <1>6
  <2>4. CASE i = 1 \/ j = 1
    BY <1>1, <1>4, <2>2, <2>3, <2>4
  <2>5. CASE i # 1 /\ j # 1
    <3>1. i - 1 \in 1..Len(s) /\ j - 1 \in 1..Len(s) /\ s[i - 1] = s[j - 1]
      BY <1>4, <2>2, <2>5
    <3>2. i - 1 = j - 1
      BY <1>6, <2>1, <3>1 DEF IsInjective
    <3> QED
      BY <3>1, <3>2
  <2> QED
    BY <2>4, <2>5
<1> QED
  BY <1>1, <1>5, <1>6 DEF r

----------------------------------------------------------------------------
(* Tables.                                                                 *)

\* The fields of a table.
LEMMA TableFields ==
    ASSUME NEW t \in DictTable
    PROVE  /\ t.size \in Nat /\ t.used \in Nat /\ t.table \in [0 .. t.size - 1 -> Seq(DictKeys)]
           /\ t = [size |-> t.size, table |-> t.table, used |-> t.used]
  BY DEF DictTable

\* A table of so many chains (dictExpand).
LEMMA TableMade ==
    ASSUME NEW n \in Nat, NEW f \in [0 .. n - 1 -> Seq(DictKeys)], NEW u \in Nat
    PROVE  [size |-> n, table |-> f, used |-> u] \in DictTable
  BY DEF DictTable

\* The bucket of a key (dictHashKey & sizemask).
LEMMA BucketOf ==
    ASSUME NEW n \in Nat, n > 0, NEW k \in DictKeys
    PROVE  k % n \in 0 .. n - 1
  BY DictAssumption

\* A new table holds nothing (_dictReset, dictExpand).
LEMMA NewTableHolds ==
    ASSUME NEW n \in Nat
    PROVE  TableHolds(NewTable(n), {}) /\ NewTable(n).size = n
<1> DEFINE t == NewTable(n)
<1>1. /\ t.size = n /\ t.used = 0 /\ t \in DictTable /\ \A b \in 0 .. n - 1 : t.table[b] = <<>>
  <2>1. <<>> \in Seq(DictKeys)
    OBVIOUS
  <2>2. [b \in 0 .. n - 1 |-> <<>>] \in [0 .. n - 1 -> Seq(DictKeys)]
    BY <2>1
  <2> QED
    BY <2>2, TableMade DEF NewTable
<1>2. IsInjective(<<>>) /\ ToSet(<<>>) = {}
  BY ToSetEmpty DEF IsInjective
<1> HIDE DEF t
<1> QED
  BY <1>1, <1>2, FS_EmptySet DEF TableHolds, t

\* What dictFind finds.
LEMMA HasKeyIs ==
    ASSUME NEW t, NEW K, TableHolds(t, K), NEW k \in DictKeys
    PROVE  HasKey(t, k) <=> k \in K
<1>1. /\ t.size \in Nat /\ t.table \in [0 .. t.size - 1 -> Seq(DictKeys)]
  BY TableFields DEF TableHolds
<1>2. CASE t.size = 0
  BY <1>2 DEF TableHolds, HasKey
<1>3. CASE t.size > 0
  <2>1. PICK b : b = k % t.size
    OBVIOUS
  <2>2. b \in 0 .. t.size - 1
    BY <1>1, <1>3, <2>1, BucketOf
  <2>3. Contains(t.table[b], k) <=> k \in ToSet(t.table[b])
    <3>1. t.table[b] \in Seq(DictKeys)
      BY <1>1, <2>2
    <3> QED
      BY <3>1, ToSetMember DEF Contains
  <2>4. k \in ToSet(t.table[b]) <=> k \in K
    BY <2>1, <2>2 DEF TableHolds
  <2> QED
    BY <1>3, <2>1, <2>3, <2>4 DEF HasKey
<1> QED
  BY <1>1, <1>2, <1>3

\* A key that is added (dictAddRaw).
LEMMA AddToHolds ==
    ASSUME NEW t, NEW K, TableHolds(t, K), NEW k \in DictKeys \ K, t.size > 0
    PROVE  /\ TableHolds(AddTo(t, k), K \cup {k}) /\ AddTo(t, k).size = t.size
           /\ \A b \in 0 .. t.size - 1 : AddTo(t, k).table[b] = IF b = k % t.size THEN <<k>> \o t.table[b] ELSE t.table[b]
<1>1. /\ t.size \in Nat /\ t.used \in Nat /\ t.table \in [0 .. t.size - 1 -> Seq(DictKeys)]
      /\ t = [size |-> t.size, table |-> t.table, used |-> t.used]
  BY TableFields DEF TableHolds
<1>2. PICK c : c = k % t.size
  OBVIOUS
<1>3. c \in 0 .. t.size - 1
  BY <1>1, <1>2, BucketOf
<1>4. PICK s : s = t.table[c]
  OBVIOUS
<1>5. s \in Seq(DictKeys) /\ IsInjective(s) /\ k \notin ToSet(s)
  BY <1>1, <1>3, <1>4 DEF TableHolds
<1>6. /\ <<k>> \o s \in Seq(DictKeys) /\ IsInjective(<<k>> \o s)
      /\ \A x : x \in ToSet(<<k>> \o s) <=> x = k \/ x \in ToSet(s)
  BY <1>5, PutFirst
<1> DEFINE f == [t.table EXCEPT ![c] = <<k>> \o s]
           r == [size |-> t.size, table |-> f, used |-> t.used + 1]
<1>7. AddTo(t, k) = r
  BY <1>1, <1>2, <1>3, <1>4 DEF AddTo
<1>8. /\ f \in [0 .. t.size - 1 -> Seq(DictKeys)]
      /\ \A b \in 0 .. t.size - 1 : f[b] = IF b = c THEN <<k>> \o s ELSE t.table[b]
  BY <1>1, <1>3, <1>6
<1> HIDE DEF f
<1>9. r \in DictTable
  BY <1>1, <1>8, TableMade
<1>10. IsFiniteSet(K \cup {k}) /\ t.used + 1 = Cardinality(K \cup {k})
  BY FS_AddElement DEF TableHolds
<1>11. \A b \in 0 .. t.size - 1 : IsInjective(f[b])
  BY <1>6, <1>8 DEF TableHolds
<1>12. ASSUME NEW b \in 0 .. t.size - 1, NEW x \in DictKeys
       PROVE  x \in ToSet(f[b]) <=> x \in K \cup {k} /\ x % t.size = b
  <2>1. x \in ToSet(t.table[b]) <=> x \in K /\ x % t.size = b
    BY DEF TableHolds
  <2>2. CASE b = c
    BY <1>2, <1>4, <1>6, <1>8, <2>1, <2>2
  <2>3. CASE b # c
    BY <1>2, <1>8, <2>1, <2>3
  <2> QED
    BY <2>2, <2>3
<1>13. TableHolds(r, K \cup {k})
  BY <1>1, <1>9, <1>10, <1>11, <1>12 DEF TableHolds
<1> QED
  BY <1>2, <1>4, <1>7, <1>8, <1>13

\* A key that is deleted (dictGenericDelete).
LEMMA RemoveFromHolds ==
    ASSUME NEW t, NEW K, TableHolds(t, K), NEW k \in K
    PROVE  /\ TableHolds(RemoveFrom(t, k), K \ {k}) /\ RemoveFrom(t, k).size = t.size
           /\ \A b \in 0 .. t.size - 1 : RemoveFrom(t, k).table[b] = IF b = k % t.size THEN RemoveFirst(t.table[b], k) ELSE t.table[b]
<1>1. /\ t.size \in Nat /\ t.used \in Nat /\ t.table \in [0 .. t.size - 1 -> Seq(DictKeys)]
      /\ t = [size |-> t.size, table |-> t.table, used |-> t.used]
      /\ t.size > 0 /\ k \in DictKeys
  <2>1. t.size \in Nat /\ t.used \in Nat /\ t.table \in [0 .. t.size - 1 -> Seq(DictKeys)]
        /\ t = [size |-> t.size, table |-> t.table, used |-> t.used]
    BY TableFields DEF TableHolds
  <2>2. t.size # 0 /\ k \in DictKeys
    BY DEF TableHolds
  <2> QED
    BY <2>1, <2>2
<1>2. PICK c : c = k % t.size
  OBVIOUS
<1>3. c \in 0 .. t.size - 1
  BY <1>1, <1>2, BucketOf
<1>4. PICK s : s = t.table[c]
  OBVIOUS
<1>5. s \in Seq(DictKeys) /\ IsInjective(s)
  BY <1>1, <1>3, <1>4 DEF TableHolds
<1>6. /\ RemoveFirst(s, k) \in Seq(DictKeys) /\ IsInjective(RemoveFirst(s, k))
      /\ ToSet(RemoveFirst(s, k)) = ToSet(s) \ {k}
  BY <1>5, RemoveFromInjective
<1> DEFINE f == [t.table EXCEPT ![c] = RemoveFirst(s, k)]
           r == [size |-> t.size, table |-> f, used |-> t.used - 1]
<1>7. RemoveFrom(t, k) = r
  BY <1>1, <1>2, <1>3, <1>4 DEF RemoveFrom
<1>8. /\ f \in [0 .. t.size - 1 -> Seq(DictKeys)]
      /\ \A b \in 0 .. t.size - 1 : f[b] = IF b = c THEN RemoveFirst(s, k) ELSE t.table[b]
  BY <1>1, <1>3, <1>6
<1> HIDE DEF f
<1>9. IsFiniteSet(K \ {k}) /\ t.used - 1 = Cardinality(K \ {k}) /\ t.used - 1 \in Nat
  <2>1. IsFiniteSet(K) /\ t.used = Cardinality(K)
    BY DEF TableHolds
  <2>2. IsFiniteSet(K \ {k}) /\ Cardinality(K \ {k}) = Cardinality(K) - 1 /\ Cardinality(K \ {k}) \in Nat
    BY <2>1, FS_RemoveElement, FS_CardinalityType
  <2> QED
    BY <2>1, <2>2
<1>10. r \in DictTable
  BY <1>1, <1>8, <1>9, TableMade
<1>11. \A b \in 0 .. t.size - 1 : IsInjective(f[b])
  BY <1>6, <1>8 DEF TableHolds
<1>12. ASSUME NEW b \in 0 .. t.size - 1, NEW x \in DictKeys
       PROVE  x \in ToSet(f[b]) <=> x \in K \ {k} /\ x % t.size = b
  <2>1. x \in ToSet(t.table[b]) <=> x \in K /\ x % t.size = b
    BY DEF TableHolds
  <2>2. CASE b = c
    BY <1>2, <1>4, <1>6, <1>8, <2>1, <2>2
  <2>3. CASE b # c
    BY <1>2, <1>8, <2>1, <2>3
  <2> QED
    BY <2>2, <2>3
<1>13. TableHolds(r, K \ {k})
  BY <1>1, <1>9, <1>10, <1>11, <1>12 DEF TableHolds
<1> QED
  BY <1>2, <1>4, <1>7, <1>8, <1>13

\* A chain holds as many keys as it is long.
LEMMA InjectiveLength ==
    ASSUME NEW S, NEW s \in Seq(S), IsInjective(s)
    PROVE  IsFiniteSet(ToSet(s)) /\ Cardinality(ToSet(s)) = Len(s)
<1>1. Len(s) \in Nat /\ DOMAIN s = 1..Len(s) /\ s \in [1..Len(s) -> S]
  BY LenProperties
<1>2. \A x : x \in ToSet(s) <=> \E i \in 1..Len(s) : s[i] = x
  BY ToSetMember
<1>3. s \in [1..Len(s) -> ToSet(s)]
  BY <1>1, <1>2
<1>4. s \in Bijection(1..Len(s), ToSet(s))
  BY <1>1, <1>2, <1>3 DEF Bijection, Injection, Surjection, IsInjective
<1>5. ExistsBijection(1..Len(s), ToSet(s))
  BY <1>4 DEF ExistsBijection
<1>6. IsFiniteSet(1..Len(s)) /\ Cardinality(1..Len(s)) = Len(s)
  BY <1>1, FS_Interval
<1> QED
  BY <1>5, <1>6, FS_Bijection

\* A bucket that was emptied (dictRehash).
LEMMA EmptiedHolds ==
    ASSUME NEW t, NEW K, TableHolds(t, K), NEW c \in 0 .. t.size - 1, NEW r, r = Emptied(t, c)
    PROVE  /\ TableHolds(r, K \ ToSet(t.table[c])) /\ r.size = t.size
<1>1. /\ t.size \in Nat /\ t.used \in Nat /\ t.table \in [0 .. t.size - 1 -> Seq(DictKeys)]
  BY TableFields DEF TableHolds
<1>2. PICK s : s = t.table[c]
  OBVIOUS
<1>3. s \in Seq(DictKeys) /\ IsInjective(s) /\ ToSet(s) \subseteq DictKeys
  BY <1>1, <1>2, ToSetIsSubset DEF TableHolds
<1>4. ToSet(s) \subseteq K
  BY <1>2, <1>3 DEF TableHolds
<1> DEFINE f == [t.table EXCEPT ![c] = <<>>]
           M == K \ ToSet(s)
<1>5. <<>> \in Seq(DictKeys) /\ IsInjective(<<>>) /\ ToSet(<<>>) = {}
  BY ToSetEmpty DEF IsInjective
<1>6. /\ f \in [0 .. t.size - 1 -> Seq(DictKeys)]
      /\ \A b \in 0 .. t.size - 1 : f[b] = IF b = c THEN <<>> ELSE t.table[b]
  BY <1>1, <1>5
<1>7. r = [size |-> t.size, table |-> f, used |-> t.used - Len(s)]
  BY <1>2 DEF Emptied
<1> HIDE DEF f
<1>8. IsFiniteSet(M) /\ t.used - Len(s) = Cardinality(M) /\ t.used - Len(s) \in Nat
  <2>1. IsFiniteSet(K) /\ t.used = Cardinality(K)
    BY DEF TableHolds
  <2>2. K \cap ToSet(s) = ToSet(s)
    BY <1>4
  <2>3. IsFiniteSet(M) /\ Cardinality(M) = Cardinality(K) - Cardinality(K \cap ToSet(s))
    BY <2>1, FS_Difference
  <2>4. Cardinality(M) \in Nat
    BY <2>3, FS_CardinalityType
  <2>5. Cardinality(ToSet(s)) = Len(s)
    BY <1>3, InjectiveLength
  <2> QED
    BY <2>1, <2>2, <2>3, <2>4, <2>5
<1>9. r \in DictTable /\ r.size = t.size /\ r.table = f /\ r.used = t.used - Len(s)
  <2>1. PICK u : u = t.used - Len(s)
    OBVIOUS
  <2>2. u \in Nat /\ t.size \in Nat /\ r = [size |-> t.size, table |-> f, used |-> u]
    BY <1>1, <1>7, <1>8, <2>1
  <2>3. r \in DictTable
    BY <1>6, <2>2, TableMade
  <2> QED
    BY <2>1, <2>2, <2>3
<1>10. \A b \in 0 .. t.size - 1 : IsInjective(f[b])
  BY <1>5, <1>6 DEF TableHolds
<1>11. ASSUME NEW b \in 0 .. t.size - 1, NEW x \in DictKeys
       PROVE  x \in ToSet(f[b]) <=> x \in M /\ x % t.size = b
  <2>1. /\ x \in ToSet(t.table[b]) <=> x \in K /\ x % t.size = b
        /\ x \in ToSet(s) <=> x \in K /\ x % t.size = c
    BY <1>2 DEF TableHolds
  <2>2. CASE b = c
    BY <1>5, <1>6, <2>1, <2>2
  <2>3. CASE b # c
    BY <1>6, <2>1, <2>3
  <2> QED
    BY <2>2, <2>3
<1>12. t.size = 0 => M = {}
  BY DEF TableHolds
<1>13. M \subseteq DictKeys
  BY DEF TableHolds
<1> HIDE DEF M
<1>14. TableHolds(r, M)
  BY <1>8, <1>9, <1>10, <1>11, <1>12, <1>13 DEF TableHolds
<1> QED
  BY <1>2, <1>6, <1>9, <1>14 DEF M

\* The recursive definition has a solution.
LEMMA AddedIs ==
    ASSUME NEW t, NEW keys \in Seq(DictKeys)
    PROVE  \E with : /\ with[0] = t
                     /\ \A n \in 1 .. Len(keys) : with[n] = AddTo(with[n - 1], keys[n])
                     /\ Added(t, keys) = with[Len(keys)]
<1> DEFINE n == Len(keys)
           Val(f, k) == IF k = 0 THEN t ELSE AddTo(f[k - 1], keys[k])
           Good(f, m) == f = [k \in 0 .. m |-> Val(f, k)]
           P == {m \in 0 .. n : \E f : Good(f, m)}
<1>1. n \in Nat
  BY LenProperties
<1>2. 0 \in P
  <2>1. Good([k \in 0 .. 0 |-> t], 0)
    OBVIOUS
  <2>2. 0 \in 0 .. n
    BY <1>1
  <2> HIDE DEF Good, n
  <2> QED
    BY <2>1, <2>2
<1>3. ASSUME NEW m \in 1 .. n, m - 1 \in P PROVE m \in P
  <2>1. m \in Nat \ {0}
    BY <1>1
  <2>2. PICK f : Good(f, m - 1)
    BY <1>3
  <2> DEFINE g == [k \in 0 .. m |-> IF k = m THEN Val(f, m) ELSE f[k]]
  <2>3. ASSUME NEW k \in 0 .. m PROVE g[k] = Val(g, k)
    <3>1. CASE k = 0
      BY <2>1, <2>2, <3>1
    <3>2. CASE k # 0
      <4>1. k - 1 \in 0 .. m /\ k - 1 # m /\ g[k - 1] = f[k - 1]
        BY <2>1, <3>2
      <4>2. CASE k = m
        BY <3>2, <4>1, <4>2
      <4>3. CASE k # m
        <5>1. k \in 0 .. m - 1
          BY <2>1, <4>3
        <5>2. f[k] = Val(f, k)
          BY <2>2, <5>1
        <5> QED
          BY <3>2, <4>1, <4>3, <5>2
      <4> QED
        BY <4>2, <4>3
    <3> QED
      BY <3>1, <3>2
  <2>4. g = [k \in 0 .. m |-> g[k]]
    OBVIOUS
  <2> HIDE DEF Val, g
  <2>5. Good(g, m)
    BY <2>3, <2>4
  <2> HIDE DEF Good, n
  <2> QED
    BY <2>5
<1>4. n \in P
  <2> HIDE DEF P, n
  <2>1. \A k \in 0 .. n : k \in P
    BY <1>1, <1>2, <1>3, UpTo
  <2> QED
    BY <1>1, <2>1
<1> DEFINE w == CHOOSE f : Good(f, n)
<1>5. Added(t, keys) = w[n]
  BY DEF Added
<1>6. Good(w, n)
  <2> HIDE DEF Good, n
  <2> QED
    BY <1>4
<1>7. w[0] = t /\ \A k \in 1 .. n : w[k] = AddTo(w[k - 1], keys[k])
  <2>1. \A k \in 0 .. n : w[k] = Val(w, k)
    <3> HIDE DEF Val, w
    <3> QED
      BY <1>6
  <2>2. 0 \in 0 .. n /\ \A k \in 1 .. n : k \in 0 .. n /\ k # 0
    BY <1>1
  <2> HIDE DEF w, n
  <2> QED
    BY <2>1, <2>2
<1> HIDE DEF w
<1> QED
  BY <1>5, <1>7

\* The keys of a bucket that is moved (dictRehash).
LEMMA AddedHolds ==
    ASSUME NEW t, NEW L, TableHolds(t, L), t.size > 0,
           NEW s \in Seq(DictKeys), IsInjective(s), ToSet(s) \cap L = {}
    PROVE  TableHolds(Added(t, s), L \cup ToSet(s)) /\ Added(t, s).size = t.size
<1>1. /\ Len(s) \in Nat /\ DOMAIN s = 1..Len(s)
      /\ \A i \in 1..Len(s) : s[i] \in DictKeys
      /\ \A i, j \in 1..Len(s) : s[i] = s[j] => i = j
      /\ \A x : x \in ToSet(s) <=> \E i \in 1..Len(s) : s[i] = x
  BY LenProperties, ElementOfSeq, ToSetMember DEF IsInjective
<1>2. PICK w : /\ w[0] = t
               /\ \A n \in 1 .. Len(s) : w[n] = AddTo(w[n - 1], s[n])
               /\ Added(t, s) = w[Len(s)]
  BY AddedIs
<1> DEFINE FirstKeys(n) == {s[i] : i \in 1 .. n}
           P == {n \in 0 .. Len(s) : TableHolds(w[n], L \cup FirstKeys(n)) /\ w[n].size = t.size}
<1>3. 0 \in P
  <2>1. FirstKeys(0) = {} /\ 0 \in 0 .. Len(s)
    BY <1>1
  <2>2. L \cup FirstKeys(0) = L
    BY <2>1
  <2> QED
    BY <1>2, <2>1, <2>2
<1>4. ASSUME NEW n \in 1 .. Len(s), n - 1 \in P PROVE n \in P
  <2>1. PICK M : M = L \cup FirstKeys(n - 1)
    OBVIOUS
  <2>2. PICK v : v = w[n - 1]
    OBVIOUS
  <2>3. TableHolds(v, M) /\ v.size = t.size /\ v.size > 0
    BY <1>4, <2>1, <2>2
  <2>4. n \in Nat /\ n \in 0 .. Len(s) /\ n - 1 \in 0 .. Len(s) /\ \A i \in 1 .. n : i \in 1 .. n - 1 \/ i = n
    BY <1>1
  <2>5. s[n] \in DictKeys \ M
    <3>1. \A i \in 1 .. n - 1 : i \in 1..Len(s) /\ i # n
      BY <1>1, <2>4
    <3>2. s[n] \notin L /\ s[n] \in DictKeys
      BY <1>1
    <3> QED
      BY <1>1, <2>1, <3>1, <3>2
  <2>6. TableHolds(AddTo(v, s[n]), M \cup {s[n]}) /\ AddTo(v, s[n]).size = t.size
    BY <2>3, <2>5, AddToHolds
  <2>7. M \cup {s[n]} = L \cup FirstKeys(n)
    <3>1. FirstKeys(n) = FirstKeys(n - 1) \cup {s[n]}
      BY <1>1, <2>4
    <3> HIDE DEF FirstKeys
    <3> QED
      BY <2>1, <3>1
  <2> HIDE DEF FirstKeys
  <2> QED
    BY <1>2, <2>2, <2>4, <2>6, <2>7
<1>5. Len(s) \in P
  <2>1. Len(s) \in 0 .. Len(s)
    BY <1>1
  <2> HIDE DEF P
  <2> QED
    BY <1>1, <1>3, <1>4, <2>1, UpTo
<1>6. FirstKeys(Len(s)) = ToSet(s)
  BY <1>1
<1> HIDE DEF FirstKeys
<1> QED
  BY <1>2, <1>5, <1>6

----------------------------------------------------------------------------
(* The operations on the two tables.                                       *)

\* The keys of a table that holds K are those of K.
LEMMA KeysOfHolds ==
    ASSUME NEW t, NEW K, TableHolds(t, K)
    PROVE  KeysOf(t) = K /\ InTheirChains(t) /\ t.used = Cardinality(K)
<1>1. /\ t.size \in Nat /\ t.table \in [0 .. t.size - 1 -> Seq(DictKeys)] /\ DOMAIN t.table = 0 .. t.size - 1
  BY TableFields DEF TableHolds
<1>2. \A b \in 0 .. t.size - 1 : ToSet(t.table[b]) \subseteq DictKeys
  BY <1>1, ToSetIsSubset
<1>3. ASSUME NEW k \in K PROVE \E b \in 0 .. t.size - 1 : k \in ToSet(t.table[b])
  <2>1. k \in DictKeys /\ t.size > 0
    BY <1>1 DEF TableHolds
  <2>2. k % t.size \in 0 .. t.size - 1
    BY <1>1, <2>1, BucketOf
  <2> QED
    BY <2>1, <2>2 DEF TableHolds
<1>4. \A b \in 0 .. t.size - 1 : \A k \in ToSet(t.table[b]) : k \in K /\ k % t.size = b
  BY <1>2 DEF TableHolds
<1>5. KeysOf(t) = K
  BY <1>1, <1>3, <1>4 DEF KeysOf
<1>6. InTheirChains(t)
  BY <1>1, <1>4 DEF InTheirChains, TableHolds
<1> QED
  BY <1>5, <1>6 DEF TableHolds

\* The first bucket that is not empty (dictRehash, dictNext).
LEMMA FirstFilled ==
    ASSUME NEW t \in DictTable, NEW b \in Nat, FilledFrom(t, b) # {}, NEW c, c = Min(FilledFrom(t, b))
    PROVE  /\ c \in b .. t.size - 1 /\ c \in 0 .. t.size - 1 /\ t.table[c] # <<>>
           /\ \A a \in b .. c - 1 : t.table[a] = <<>>
<1>1. FilledFrom(t, b) \subseteq Nat /\ t.size \in Nat
  BY TableFields DEF FilledFrom
<1>2. c \in FilledFrom(t, b) /\ \A a \in FilledFrom(t, b) : c <= a
  BY <1>1, MinOfNaturals
<1>3. c \in b .. t.size - 1 /\ t.table[c] # <<>>
  BY <1>2 DEF FilledFrom
<1>4. ASSUME NEW a \in b .. c - 1 PROVE t.table[a] = <<>>
  <2>1. a \in b .. t.size - 1 /\ ~(c <= a)
    BY <1>1, <1>3
  <2> QED
    BY <1>2, <2>1 DEF FilledFrom
<1> QED
  BY <1>1, <1>3, <1>4

\* The sizes of tables (_dictNextPower).
LEMMA NextPowerIs ==
    ASSUME NEW n, SizesFor(n) # {}
    PROVE  NextPower(n) \in Nat /\ NextPower(n) > 0
<1>1. SizesFor(n) \subseteq HT_INITIAL_SIZE .. MaxSize /\ HT_INITIAL_SIZE .. MaxSize \subseteq Nat
  BY DictAssumption DEF SizesFor, Powers
<1>2. NextPower(n) \in SizesFor(n)
  BY <1>1, MinOfNaturals DEF NextPower
<1>3. NextPower(n) \in HT_INITIAL_SIZE .. MaxSize
  BY <1>1, <1>2
<1> QED
  BY <1>3, DictAssumption

\* The first size is one of them.
LEMMA FirstSize == HT_INITIAL_SIZE \in Nat /\ SizesFor(HT_INITIAL_SIZE) # {}
<1>1. 2 ^ 0 = 1
  OBVIOUS
<1>2. HT_INITIAL_SIZE = HT_INITIAL_SIZE * 2 ^ 0 /\ 0 \in 0 .. MaxSize /\ HT_INITIAL_SIZE \in HT_INITIAL_SIZE .. MaxSize
  BY <1>1, DictAssumption
<1>3. HT_INITIAL_SIZE \in Powers
  BY <1>2 DEF Powers
<1> QED
  BY <1>3, DictAssumption DEF SizesFor

\* A table is made larger or smaller: the keys stay where they are
\* (dictExpand).
LEMMA ExpandSplits ==
    ASSUME NEW d \in DictRecord, NEW K, NEW L, Split(d, K, L), NEW n, n \in Nat, NEW e, e = dictExpand(d, n)
    PROVE  /\ e \in DictRecord /\ Split(e, K, L)
           /\ d.t0.size > 0 => e.t0 = d.t0
           /\ d.idx # -1 => e = d
           /\ d.idx = -1 => L = {}
           /\ d.t0.size = 0 /\ SizesFor(n) # {} => e.t0.size > 0
<1>1. /\ d.t0 \in DictTable /\ d.t1 \in DictTable /\ d.idx \in Int /\ d = [t0 |-> d.t0, t1 |-> d.t1, idx |-> d.idx]
      /\ d.t0.size \in Nat /\ d.t1.size \in Nat
  <2>1. d.t0 \in DictTable /\ d.t1 \in DictTable /\ d.idx \in Int /\ d = [t0 |-> d.t0, t1 |-> d.t1, idx |-> d.idx]
    BY DEF DictRecord
  <2> QED
    BY <2>1, TableFields
<1>2. d.idx = -1 => L = {}
  <2>1. ASSUME d.idx = -1 PROVE L = {}
    <3>1. d.t1 = NewTable(0)
      BY <2>1 DEF Split, MovesInOrder, NoTable
    <3>2. d.t1.size = 0
      BY <3>1, NewTableHolds
    <3> QED
      BY <3>2 DEF Split, TableHolds
  <2> QED
    BY <2>1
<1>3. CASE IsRehashing(d) \/ d.t0.used > n \/ SizesFor(n) = {}
  <2>1. e = d
    BY <1>3 DEF dictExpand
  <2>2. d.t0.size = 0 /\ SizesFor(n) # {} => FALSE
    <3>1. ASSUME d.t0.size = 0 PROVE K = {} /\ d.idx = -1 /\ d.t0.used = 0
      <4>1. K = {}
        BY <3>1 DEF Split, TableHolds
      <4>2. d.t0.used = 0
        BY <4>1, FS_EmptySet DEF Split, TableHolds
      <4> QED
        BY <1>1, <3>1, <4>1, <4>2 DEF Split, MovesInOrder
    <3> QED
      BY <1>3, <3>1 DEF IsRehashing
  <2> QED
    BY <1>2, <2>1, <2>2
<1>4. CASE ~(IsRehashing(d) \/ d.t0.used > n \/ SizesFor(n) = {})
  <2>1. d.idx = -1 /\ L = {}
    BY <1>2, <1>4 DEF IsRehashing
  <2>2. PICK p : p = NextPower(n)
    OBVIOUS
  <2>3. p \in Nat /\ p > 0
    BY <1>4, <2>2, NextPowerIs
  <2>4. PICK t : t = NewTable(p)
    OBVIOUS
  <2>5. TableHolds(t, {}) /\ t.size = p /\ t \in DictTable
    BY <2>3, <2>4, NewTableHolds DEF TableHolds
  <2>6. CASE d.t0.size = 0
    <3>1. e = [t0 |-> t, t1 |-> d.t1, idx |-> d.idx]
      BY <1>1, <1>4, <2>2, <2>4, <2>6 DEF dictExpand
    <3>2. K = {}
      BY <2>6 DEF Split, TableHolds
    <3>3. e.t0 = t /\ e.t1 = d.t1 /\ e.idx = d.idx /\ e \in DictRecord
      BY <1>1, <2>5, <3>1 DEF DictRecord
    <3>4. MovesInOrder(e)
      BY <2>1, <3>3 DEF Split, MovesInOrder
    <3> QED
      BY <2>1, <2>3, <2>5, <2>6, <3>2, <3>3, <3>4 DEF Split
  <2>7. CASE d.t0.size # 0
    <3>1. e = [t0 |-> d.t0, t1 |-> t, idx |-> 0]
      BY <1>1, <1>4, <2>2, <2>4, <2>7 DEF dictExpand
    <3>2. e.t0 = d.t0 /\ e.t1 = t /\ e.idx = 0 /\ e \in DictRecord
      BY <1>1, <2>5, <3>1 DEF DictRecord
    <3>3. MovesInOrder(e)
      BY <1>1, <2>3, <2>5, <2>7, <3>2 DEF MovesInOrder
    <3> QED
      BY <2>1, <2>5, <2>7, <3>2, <3>3 DEF Split
  <2> QED
    BY <2>6, <2>7
<1> QED
  BY <1>3, <1>4

\* The fields of the two tables.
LEMMA DictFields ==
    ASSUME NEW d \in DictRecord, NEW K, NEW L, Split(d, K, L)
    PROVE  /\ d.t0 \in DictTable /\ d.t1 \in DictTable /\ d.idx \in Int
           /\ d = [t0 |-> d.t0, t1 |-> d.t1, idx |-> d.idx]
           /\ d.t0.size \in Nat /\ d.t1.size \in Nat /\ d.t0.used \in Nat
           /\ K \subseteq DictKeys /\ L \subseteq DictKeys /\ K \cap L = {}
           /\ TableHolds(d.t0, K) /\ TableHolds(d.t1, L)
           /\ d.idx = -1 => L = {}
<1>1. /\ d.t0 \in DictTable /\ d.t1 \in DictTable /\ d.idx \in Int
      /\ d = [t0 |-> d.t0, t1 |-> d.t1, idx |-> d.idx]
  BY DEF DictRecord
<1>2. d.t0.size \in Nat /\ d.t1.size \in Nat /\ d.t0.used \in Nat
  BY <1>1, TableFields
<1>3. d.idx = -1 => L = {}
  BY <1>1, ExpandSplits
<1>4. K \subseteq DictKeys /\ L \subseteq DictKeys /\ K \cap L = {} /\ TableHolds(d.t0, K) /\ TableHolds(d.t1, L)
  BY DEF Split, TableHolds
<1> QED
  BY <1>1, <1>2, <1>3, <1>4

\* One bucket is moved: every key is in one of the tables (dictRehash).
LEMMA MoveBucketSplits ==
    ASSUME NEW d \in DictRecord, NEW K, NEW L, Split(d, K, L), d.idx # -1,
           NEW c \in d.idx .. d.t0.size - 1, \A a \in d.idx .. c - 1 : d.t0.table[a] = <<>>,
           NEW e, e = MoveBucket(d, c)
    PROVE  e \in DictRecord /\ \E K1, L1 \in SUBSET DictKeys : Split(e, K1, L1) /\ K1 \cup L1 = K \cup L
<1>1. /\ d.t0 \in DictTable /\ d.t1 \in DictTable /\ d.idx \in Int /\ d.t0.size \in Nat
      /\ K \subseteq DictKeys /\ L \subseteq DictKeys /\ K \cap L = {}
      /\ TableHolds(d.t0, K) /\ TableHolds(d.t1, L)
  BY DictFields
<1>2. d.idx >= 0 /\ d.t0.size > 0 /\ d.t1.size > 0 /\ \A b \in 0 .. d.idx - 1 : d.t0.table[b] = <<>>
  BY <1>1 DEF Split, MovesInOrder
<1>3. c \in 0 .. d.t0.size - 1
  BY <1>1, <1>2
<1>4. PICK s : s = d.t0.table[c]
  OBVIOUS
<1>5. s \in Seq(DictKeys) /\ IsInjective(s) /\ ToSet(s) \subseteq DictKeys /\ ToSet(s) \subseteq K
  <2>1. d.t0.table \in [0 .. d.t0.size - 1 -> Seq(DictKeys)]
    BY <1>1, TableFields
  <2>2. s \in Seq(DictKeys) /\ IsInjective(s)
    BY <1>1, <1>3, <1>4, <2>1 DEF TableHolds
  <2>3. ToSet(s) \subseteq DictKeys
    BY <2>2, ToSetIsSubset
  <2> QED
    BY <1>1, <1>3, <1>4, <2>2, <2>3 DEF TableHolds
<1> DEFINE K1 == K \ ToSet(s)
           L1 == L \cup ToSet(s)
<1>6. PICK r : r = Emptied(d.t0, c)
  OBVIOUS
<1>7. /\ TableHolds(r, K1) /\ r.size = d.t0.size
      /\ r.table[c] = <<>>
      /\ \A b \in 0 .. d.t0.size - 1 : b # c => r.table[b] = d.t0.table[b]
  <2>1. PICK t : t = d.t0
    OBVIOUS
  <2>2. TableHolds(t, K) /\ c \in 0 .. t.size - 1 /\ r = Emptied(t, c)
    BY <1>1, <1>3, <1>6, <2>1
  <2>3. TableHolds(r, K \ ToSet(t.table[c])) /\ r.size = t.size
    BY <2>2, EmptiedHolds
  <2>4. r.table[c] = <<>> /\ \A b \in 0 .. t.size - 1 : b # c => r.table[b] = t.table[b]
    <3>1. t.table \in [0 .. t.size - 1 -> Seq(DictKeys)]
      BY <2>2, TableFields DEF TableHolds
    <3>2. r.table = [t.table EXCEPT ![c] = <<>>]
      BY <2>2 DEF Emptied
    <3> QED
      BY <2>2, <3>1, <3>2
  <2> QED
    BY <1>4, <2>1, <2>3, <2>4
<1>8. PICK q : q = Added(d.t1, s)
  OBVIOUS
<1>9. TableHolds(q, L1) /\ q.size = d.t1.size
  BY <1>1, <1>2, <1>5, <1>8, AddedHolds
<1>10. e = [t0 |-> r, t1 |-> q, idx |-> c + 1]
  BY <1>4, <1>6, <1>8 DEF MoveBucket
<1>11. e.t0 = r /\ e.t1 = q /\ e.idx = c + 1 /\ e \in DictRecord
  BY <1>3, <1>7, <1>9, <1>10 DEF DictRecord, TableHolds
<1>12. \A b \in 0 .. e.idx - 1 : b <= r.size - 1 /\ r.table[b] = <<>>
  <2>1. SUFFICES ASSUME NEW b \in 0 .. c PROVE b <= r.size - 1 /\ r.table[b] = <<>>
    BY <1>1, <1>3, <1>11
  <2>2. b \in 0 .. d.t0.size - 1
    BY <1>1, <1>3
  <2>3. b = c \/ b \in 0 .. d.idx - 1 \/ b \in d.idx .. c - 1
    BY <1>1, <1>3
  <2> QED
    BY <1>2, <1>7, <2>2, <2>3
<1>13. MovesInOrder(e)
  BY <1>2, <1>3, <1>7, <1>9, <1>11, <1>12 DEF MovesInOrder
<1>14. K1 \cap L1 = {} /\ K1 \cup L1 = K \cup L /\ K1 \in SUBSET DictKeys /\ L1 \in SUBSET DictKeys
  BY <1>1, <1>5
<1> HIDE DEF K1, L1
<1>15. Split(e, K1, L1)
  BY <1>7, <1>9, <1>11, <1>13, <1>14 DEF Split
<1> QED
  BY <1>11, <1>14, <1>15

\* The same when nothing is left to move (dictRehash).
LEMMA RehashOneSplits ==
    ASSUME NEW d \in DictRecord, NEW K, NEW L, Split(d, K, L), NEW e, e = RehashOne(d)
    PROVE  e \in DictRecord /\ \E K1, L1 \in SUBSET DictKeys : Split(e, K1, L1) /\ K1 \cup L1 = K \cup L
<1>1. /\ d.t0 \in DictTable /\ d.t1 \in DictTable /\ d.idx \in Int /\ d.t0.size \in Nat
      /\ K \subseteq DictKeys /\ L \subseteq DictKeys /\ K \cap L = {}
      /\ TableHolds(d.t0, K) /\ TableHolds(d.t1, L)
  BY DictFields
<1>2. CASE ~IsRehashing(d)
  BY <1>1, <1>2 DEF RehashOne
<1>3. CASE IsRehashing(d) /\ d.t0.used = 0
  <2>1. e = [t0 |-> d.t1, t1 |-> NoTable, idx |-> -1]
    BY <1>3 DEF RehashOne
  <2>2. TableHolds(NoTable, {})
    BY NewTableHolds DEF NoTable
  <2>3. e.t0 = d.t1 /\ e.t1 = NoTable /\ e.idx = -1 /\ e \in DictRecord
    BY <1>1, <2>1, <2>2 DEF DictRecord, TableHolds
  <2>4. K = {}
    BY <1>1, <1>3, FS_EmptySet DEF TableHolds
  <2>5. Split(e, L, {})
    BY <1>1, <2>2, <2>3 DEF Split, MovesInOrder
  <2>6. L \in SUBSET DictKeys /\ {} \in SUBSET DictKeys /\ L \cup {} = K \cup L
    BY <1>1, <2>4
  <2> QED
    BY <2>3, <2>5, <2>6
<1>4. CASE IsRehashing(d) /\ d.t0.used # 0
  <2>1. d.idx # -1 /\ d.idx \in Nat /\ d.t0.size > 0 /\ \A b \in 0 .. d.idx - 1 : d.t0.table[b] = <<>>
    BY <1>1, <1>4 DEF IsRehashing, Split, MovesInOrder
  <2>2. PICK k \in K : TRUE
    BY <1>1, <1>4, FS_EmptySet DEF TableHolds
  <2>3. PICK b : b = k % d.t0.size
    OBVIOUS
  <2>4. b \in 0 .. d.t0.size - 1 /\ k \in ToSet(d.t0.table[b])
    BY <1>1, <2>1, <2>2, <2>3, BucketOf DEF TableHolds
  <2>5. d.t0.table[b] # <<>>
    BY <2>4, ToSetEmpty
  <2>6. b \in d.idx .. d.t0.size - 1
    <3>1. b \notin 0 .. d.idx - 1
      BY <2>1, <2>5
    <3> QED
      BY <1>1, <2>1, <2>4, <3>1
  <2>7. FilledFrom(d.t0, d.idx) # {}
    BY <2>5, <2>6 DEF FilledFrom
  <2>8. PICK c : c = Min(FilledFrom(d.t0, d.idx))
    OBVIOUS
  <2>9. c \in d.idx .. d.t0.size - 1 /\ \A a \in d.idx .. c - 1 : d.t0.table[a] = <<>>
    BY <1>1, <2>1, <2>7, <2>8, FirstFilled
  <2>10. e = MoveBucket(d, c)
    BY <1>4, <2>8 DEF RehashOne
  <2> QED
    BY <2>1, <2>9, <2>10, MoveBucketSplits
<1> QED
  BY <1>2, <1>3, <1>4

\* A step of the rehash keeps the keys (_dictRehashStep).
LEMMA StepSplits ==
    ASSUME NEW d \in DictRecord, NEW K, NEW L, Split(d, K, L), NEW e, e = dictRehashStep(d)
    PROVE  /\ e \in DictRecord
           /\ \E K1, L1 \in SUBSET DictKeys : Split(e, K1, L1) /\ K1 \cup L1 = K \cup L /\ (iterators # 0 => K1 = K /\ L1 = L)
           /\ iterators # 0 => e = d
<1>1. K \in SUBSET DictKeys /\ L \in SUBSET DictKeys
  BY DictFields
<1>2. CASE iterators = 0
  BY <1>2, RehashOneSplits DEF dictRehashStep
<1>3. CASE iterators # 0
  BY <1>1, <1>3 DEF dictRehashStep
<1> QED
  BY <1>2, <1>3

\* The table that a key can be added to (_dictExpandIfNeeded).
LEMMA ExpandIfNeededSplits ==
    ASSUME NEW d \in DictRecord, NEW K, NEW L, Split(d, K, L), NEW e, e = ExpandIfNeeded(d)
    PROVE  /\ e \in DictRecord /\ Split(e, K, L) /\ e.t0.size > 0
           /\ d.t0.size > 0 => e.t0 = d.t0
           /\ d.idx # -1 => e = d
<1>1. /\ d.t0 \in DictTable /\ d.t1 \in DictTable /\ d.idx \in Int /\ d.t0.size \in Nat /\ d.t0.used \in Nat
  BY DictFields
<1>2. CASE IsRehashing(d)
  <2>1. e = d /\ d.t0.size > 0
    BY <1>2 DEF ExpandIfNeeded, Split, MovesInOrder, IsRehashing
  <2> QED
    BY <2>1
<1>3. CASE ~IsRehashing(d) /\ d.t0.size = 0
  <2>1. e = dictExpand(d, HT_INITIAL_SIZE)
    BY <1>3 DEF ExpandIfNeeded
  <2>2. e \in DictRecord /\ Split(e, K, L) /\ e.t0.size > 0 /\ (d.idx # -1 => e = d)
    BY <1>3, <2>1, ExpandSplits, FirstSize
  <2> QED
    BY <1>3, <2>2
<1>4. CASE ~IsRehashing(d) /\ d.t0.size # 0
  <2>1. PICK n \in Nat : n = 2 * (IF d.t0.size > d.t0.used THEN d.t0.size ELSE d.t0.used)
    BY <1>1
  <2>2. e = dictExpand(d, n) \/ e = d
    BY <1>4, <2>1 DEF ExpandIfNeeded
  <2>3. d.t0.size > 0
    BY <1>1, <1>4
  <2>4. CASE e = dictExpand(d, n)
    BY <2>3, <2>4, ExpandSplits
  <2>5. CASE e = d
    BY <2>3, <2>5
  <2> QED
    BY <2>2, <2>4, <2>5
<1> QED
  BY <1>2, <1>3, <1>4

\* A key is added: it is in one of the tables, and while an iterator goes
\* through them no other key moves (dictAddRaw).
LEMMA AddRawSplits ==
    ASSUME NEW d \in DictRecord, NEW K, NEW L, Split(d, K, L), NEW k \in DictKeys, NEW e, e = dictAddRaw(d, k)
    PROVE  /\ e \in DictRecord
           /\ \E K1, L1 \in SUBSET DictKeys :
                 /\ Split(e, K1, L1) /\ K1 \cup L1 = K \cup L \cup {k}
                 /\ iterators # 0 => K \subseteq K1 /\ L \subseteq L1
           /\ iterators # 0 /\ d.t0.size > 0 => e.t0 = d.t0 \/ (e.t0 = AddTo(d.t0, k) /\ k \notin K \cup L)
           /\ iterators # 0 /\ d.idx # -1 => /\ e.t1 = d.t1 \/ (e.t1 = AddTo(d.t1, k) /\ k \notin K \cup L)
                                             /\ e.idx # -1
<1>1. PICK s : s = dictRehashStep(d)
  OBVIOUS
<1>2. s \in DictRecord /\ (iterators # 0 => s = d)
  BY <1>1, StepSplits
<1>3. PICK Ks \in SUBSET DictKeys, Ls \in SUBSET DictKeys :
         Split(s, Ks, Ls) /\ Ks \cup Ls = K \cup L /\ (iterators # 0 => Ks = K /\ Ls = L)
  BY <1>1, StepSplits
<1>4. PICK x : x = ExpandIfNeeded(s)
  OBVIOUS
<1>5. /\ x \in DictRecord /\ Split(x, Ks, Ls) /\ x.t0.size > 0
      /\ s.t0.size > 0 => x.t0 = s.t0
      /\ s.idx # -1 => x = s
  BY <1>2, <1>3, <1>4, ExpandIfNeededSplits
<1>6. /\ x.t0 \in DictTable /\ x.t1 \in DictTable /\ x.idx \in Int
      /\ x = [t0 |-> x.t0, t1 |-> x.t1, idx |-> x.idx]
      /\ TableHolds(x.t0, Ks) /\ TableHolds(x.t1, Ls) /\ Ks \cap Ls = {}
  BY <1>5, DictFields
<1>7. /\ HasKey(x.t0, k) <=> k \in Ks
      /\ HasKey(x.t1, k) <=> k \in Ls
  BY <1>6, HasKeyIs
<1>8. e = IF HasKey(x.t0, k) \/ HasKey(x.t1, k) THEN x
          ELSE IF IsRehashing(x) THEN [x EXCEPT !.t1 = AddTo(@, k)] ELSE [x EXCEPT !.t0 = AddTo(@, k)]
  BY <1>1, <1>4 DEF dictAddRaw
<1>9. /\ iterators # 0 /\ d.t0.size > 0 => x.t0 = d.t0
      /\ iterators # 0 /\ d.idx # -1 => x = d
  BY <1>2, <1>5
<1>10. CASE k \in Ks \/ k \in Ls
  <2>1. e = x
    BY <1>7, <1>8, <1>10
  <2>2. Ks \cup Ls = K \cup L \cup {k}
    BY <1>3, <1>10
  <2> QED
    BY <1>3, <1>5, <1>9, <2>1, <2>2
<1>11. CASE k \notin Ks /\ k \notin Ls /\ IsRehashing(x)
  <2>1. PICK q : q = AddTo(x.t1, k)
    OBVIOUS
  <2>2. e = [t0 |-> x.t0, t1 |-> q, idx |-> x.idx]
    BY <1>6, <1>7, <1>8, <1>11, <2>1
  <2>3. x.idx # -1 /\ x.t1.size > 0
    BY <1>5, <1>11 DEF IsRehashing, Split, MovesInOrder
  <2>4. TableHolds(q, Ls \cup {k}) /\ q.size = x.t1.size
    BY <1>6, <1>11, <2>1, <2>3, AddToHolds
  <2>5. e.t0 = x.t0 /\ e.t1 = q /\ e.idx = x.idx /\ e \in DictRecord
    BY <1>6, <2>2, <2>4 DEF DictRecord, TableHolds
  <2>6. MovesInOrder(e)
    BY <1>5, <2>3, <2>4, <2>5 DEF Split, MovesInOrder
  <2>7. PICK Lk : Lk = Ls \cup {k}
    OBVIOUS
  <2>8. Ks \cap Lk = {} /\ Lk \in SUBSET DictKeys /\ Ks \cup Lk = K \cup L \cup {k} /\ Ls \subseteq Lk
    BY <1>3, <1>6, <1>11, <2>7
  <2>9. Split(e, Ks, Lk)
    BY <1>6, <2>4, <2>5, <2>6, <2>7, <2>8 DEF Split
  <2>10. iterators # 0 => K \subseteq Ks /\ L \subseteq Lk
    BY <1>3, <2>8
  <2>11. \E K1, L1 \in SUBSET DictKeys :
                 /\ Split(e, K1, L1) /\ K1 \cup L1 = K \cup L \cup {k}
                 /\ iterators # 0 => K \subseteq K1 /\ L \subseteq L1
    BY <2>8, <2>9, <2>10
  <2>12. iterators # 0 /\ d.t0.size > 0 => e.t0 = d.t0
    BY <1>9, <2>5
  <2>13. iterators # 0 /\ d.idx # -1 => e.t1 = AddTo(d.t1, k) /\ k \notin K \cup L /\ e.idx # -1
    BY <1>3, <1>9, <1>11, <2>1, <2>3, <2>5
  <2> QED
    BY <2>5, <2>11, <2>12, <2>13
<1>12. CASE k \notin Ks /\ k \notin Ls /\ ~IsRehashing(x)
  <2>1. PICK q : q = AddTo(x.t0, k)
    OBVIOUS
  <2>2. e = [t0 |-> q, t1 |-> x.t1, idx |-> x.idx]
    BY <1>6, <1>7, <1>8, <1>12, <2>1
  <2>3. x.idx = -1
    BY <1>12 DEF IsRehashing
  <2>4. TableHolds(q, Ks \cup {k}) /\ q.size = x.t0.size
    BY <1>5, <1>6, <1>12, <2>1, AddToHolds
  <2>5. e.t0 = q /\ e.t1 = x.t1 /\ e.idx = x.idx /\ e \in DictRecord
    BY <1>6, <2>2, <2>4 DEF DictRecord, TableHolds
  <2>6. MovesInOrder(e)
    BY <1>5, <2>3, <2>5 DEF Split, MovesInOrder
  <2>7. PICK Kk : Kk = Ks \cup {k}
    OBVIOUS
  <2>8. Kk \cap Ls = {} /\ Kk \in SUBSET DictKeys /\ Kk \cup Ls = K \cup L \cup {k} /\ Ks \subseteq Kk
    BY <1>3, <1>6, <1>12, <2>7
  <2>9. Split(e, Kk, Ls)
    BY <1>6, <2>4, <2>5, <2>6, <2>7, <2>8 DEF Split
  <2>10. iterators # 0 => K \subseteq Kk /\ L \subseteq Ls
    BY <1>3, <2>8
  <2>11. \E K1, L1 \in SUBSET DictKeys :
                 /\ Split(e, K1, L1) /\ K1 \cup L1 = K \cup L \cup {k}
                 /\ iterators # 0 => K \subseteq K1 /\ L \subseteq L1
    BY <2>8, <2>9, <2>10
  <2>12. iterators # 0 /\ d.t0.size > 0 => e.t0 = AddTo(d.t0, k) /\ k \notin K \cup L
    BY <1>3, <1>9, <1>12, <2>1, <2>5
  <2>13. iterators # 0 => d.idx = -1
    BY <1>9, <2>3
  <2> QED
    BY <2>5, <2>11, <2>12, <2>13
<1> QED
  BY <1>10, <1>11, <1>12

\* A key is deleted from the table that holds it (dictGenericDelete).
LEMMA DeleteSplits ==
    ASSUME NEW d \in DictRecord, NEW K, NEW L, Split(d, K, L), NEW k \in DictKeys, NEW e, e = dictGenericDelete(d, k)
    PROVE  /\ e \in DictRecord
           /\ \E K1, L1 \in SUBSET DictKeys :
                 /\ Split(e, K1, L1) /\ K1 \cup L1 = (K \cup L) \ {k}
                 /\ iterators # 0 => K1 = K \ {k} /\ L1 = L \ {k}
           /\ iterators # 0 => /\ e.t0 = d.t0 \/ (e.t0 = RemoveFrom(d.t0, k) /\ k \in K)
                               /\ e.t1 = d.t1 \/ (e.t1 = RemoveFrom(d.t1, k) /\ k \in L)
                               /\ e.idx = d.idx
<1>1. CASE d.t0.size = 0
  <2>1. e = d
    BY <1>1 DEF dictGenericDelete
  <2>2. K = {} /\ d.idx \in Int
    BY <1>1, DictFields DEF TableHolds
  <2>3. d.idx = -1
    BY <1>1, <2>2 DEF Split, MovesInOrder
  <2>4. L = {}
    BY <2>3, DictFields
  <2> QED
    BY <2>1, <2>2, <2>4
<1>2. CASE d.t0.size # 0
  <2>1. PICK x : x = dictRehashStep(d)
    OBVIOUS
  <2>2. x \in DictRecord /\ (iterators # 0 => x = d)
    BY <2>1, StepSplits
  <2>3. PICK Ks \in SUBSET DictKeys, Ls \in SUBSET DictKeys :
           Split(x, Ks, Ls) /\ Ks \cup Ls = K \cup L /\ (iterators # 0 => Ks = K /\ Ls = L)
    BY <2>1, StepSplits
  <2>4. /\ x.t0 \in DictTable /\ x.t1 \in DictTable /\ x.idx \in Int
        /\ x = [t0 |-> x.t0, t1 |-> x.t1, idx |-> x.idx]
        /\ TableHolds(x.t0, Ks) /\ TableHolds(x.t1, Ls) /\ Ks \cap Ls = {}
        /\ x.idx = -1 => Ls = {}
    BY <2>2, <2>3, DictFields
  <2>5. /\ HasKey(x.t0, k) <=> k \in Ks
        /\ HasKey(x.t1, k) <=> k \in Ls
    BY <2>4, HasKeyIs
  <2>6. e = IF HasKey(x.t0, k) THEN [x EXCEPT !.t0 = RemoveFrom(@, k)]
            ELSE IF IsRehashing(x) /\ HasKey(x.t1, k) THEN [x EXCEPT !.t1 = RemoveFrom(@, k)]
            ELSE x
    BY <1>2, <2>1 DEF dictGenericDelete
  <2>7. CASE k \in Ks
    <3>1. PICK q : q = RemoveFrom(x.t0, k)
      OBVIOUS
    <3>2. e = [t0 |-> q, t1 |-> x.t1, idx |-> x.idx]
      BY <2>4, <2>5, <2>6, <2>7, <3>1
    <3>3. /\ TableHolds(q, Ks \ {k}) /\ q.size = x.t0.size
          /\ \A b \in 0 .. x.t0.size - 1 : q.table[b] = IF b = k % x.t0.size THEN RemoveFirst(x.t0.table[b], k) ELSE x.t0.table[b]
      BY <2>4, <2>7, <3>1, RemoveFromHolds
    <3>4. e.t0 = q /\ e.t1 = x.t1 /\ e.idx = x.idx /\ e \in DictRecord
      BY <2>4, <3>2, <3>3 DEF DictRecord, TableHolds
    <3>5. ASSUME NEW b \in 0 .. x.t0.size - 1, x.t0.table[b] = <<>> PROVE q.table[b] = <<>>
      <4>1. k \notin ToSet(x.t0.table[b])
        BY <3>5, ToSetEmpty
      <4>2. b # k % x.t0.size
        BY <2>4, <2>7, <4>1 DEF TableHolds
      <4> QED
        BY <3>3, <3>5, <4>2
    <3>6. MovesInOrder(e)
      <4>1. MovesInOrder(x) /\ x.t0.size \in Nat
        BY <2>3, <2>4, TableFields DEF Split
      <4>2. ASSUME NEW b \in 0 .. x.idx - 1, x.idx # -1 PROVE b <= q.size - 1 /\ q.table[b] = <<>>
        <5>1. b <= x.t0.size - 1 /\ x.t0.table[b] = <<>>
          BY <4>1, <4>2 DEF MovesInOrder
        <5>2. b \in 0 .. x.t0.size - 1
          BY <2>4, <4>1, <5>1
        <5> QED
          BY <3>3, <3>5, <5>1, <5>2
      <4> QED
        BY <3>3, <3>4, <4>1, <4>2 DEF MovesInOrder
    <3>7. PICK Kk : Kk = Ks \ {k}
      OBVIOUS
    <3>8. Kk \cap Ls = {} /\ Kk \in SUBSET DictKeys /\ Kk \cup Ls = (K \cup L) \ {k} /\ Ls = Ls \ {k}
      BY <2>3, <2>4, <2>7, <3>7
    <3>9. Split(e, Kk, Ls)
      BY <2>4, <3>3, <3>4, <3>6, <3>7, <3>8 DEF Split
    <3>10. iterators # 0 => Kk = K \ {k} /\ Ls = L \ {k}
      BY <2>3, <3>7, <3>8
    <3>11. iterators # 0 => e.t0 = RemoveFrom(d.t0, k) /\ k \in K /\ e.t1 = d.t1 /\ e.idx = d.idx
      BY <2>2, <2>3, <2>7, <3>1, <3>4
    <3> QED
      BY <3>4, <3>8, <3>9, <3>10, <3>11
  <2>8. CASE k \notin Ks /\ k \in Ls
    <3>1. PICK q : q = RemoveFrom(x.t1, k)
      OBVIOUS
    <3>2. x.idx # -1
      BY <2>4, <2>8
    <3>3. e = [t0 |-> x.t0, t1 |-> q, idx |-> x.idx]
      BY <2>4, <2>5, <2>6, <2>8, <3>1, <3>2 DEF IsRehashing
    <3>4. TableHolds(q, Ls \ {k}) /\ q.size = x.t1.size
      BY <2>4, <2>8, <3>1, RemoveFromHolds
    <3>5. e.t0 = x.t0 /\ e.t1 = q /\ e.idx = x.idx /\ e \in DictRecord
      BY <2>4, <3>3, <3>4 DEF DictRecord, TableHolds
    <3>6. MovesInOrder(e)
      BY <2>3, <3>2, <3>4, <3>5 DEF Split, MovesInOrder
    <3>7. PICK Lk : Lk = Ls \ {k}
      OBVIOUS
    <3>8. Ks \cap Lk = {} /\ Lk \in SUBSET DictKeys /\ Ks \cup Lk = (K \cup L) \ {k} /\ Ks = Ks \ {k}
      BY <2>3, <2>4, <2>8, <3>7
    <3>9. Split(e, Ks, Lk)
      BY <2>4, <3>4, <3>5, <3>6, <3>7, <3>8 DEF Split
    <3>10. iterators # 0 => Ks = K \ {k} /\ Lk = L \ {k}
      BY <2>3, <3>7, <3>8
    <3>11. iterators # 0 => e.t0 = d.t0 /\ e.t1 = RemoveFrom(d.t1, k) /\ k \in L /\ e.idx = d.idx
      BY <2>2, <2>3, <2>8, <3>1, <3>5
    <3> QED
      BY <3>5, <3>8, <3>9, <3>10, <3>11
  <2>9. CASE k \notin Ks /\ k \notin Ls
    <3>1. e = x
      BY <2>5, <2>6, <2>9
    <3>2. Ks \cup Ls = (K \cup L) \ {k} /\ Ks = Ks \ {k} /\ Ls = Ls \ {k}
      BY <2>3, <2>9
    <3> QED
      BY <2>2, <2>3, <3>1, <3>2
  <2> QED
    BY <2>7, <2>8, <2>9
<1> QED
  BY <1>1, <1>2

----------------------------------------------------------------------------
(* What an iterator has before it.                                         *)

\* The rest of a chain, by places.
LEMMA FromIs ==
    ASSUME NEW S, NEW s \in Seq(S), NEW x, NEW y
    PROVE  y \in KeysFrom(s, x) <=> \E m, n \in 1 .. Len(s) : m <= n /\ s[m] = x /\ s[n] = y
<1>1. ASSUME y \in KeysFrom(s, x) PROVE \E m, n \in 1 .. Len(s) : m <= n /\ s[m] = x /\ s[n] = y
  <2>1. PICK n \in 1 .. Len(s) : s[n] = y /\ \E m \in 1 .. n : s[m] = x
    BY <1>1 DEF KeysFrom
  <2>2. PICK m \in 1 .. n : s[m] = x
    BY <2>1
  <2>3. m \in 1 .. Len(s) /\ m <= n
    BY LenProperties
  <2> QED
    BY <2>1, <2>2, <2>3
<1>2. ASSUME NEW m \in 1 .. Len(s), NEW n \in 1 .. Len(s), m <= n, s[m] = x, s[n] = y PROVE y \in KeysFrom(s, x)
  <2>1. m \in 1 .. n
    BY <1>2
  <2> QED
    BY <1>2, <2>1 DEF KeysFrom
<1> QED
  BY <1>1, <1>2

\* It is part of the chain, and empty for a key that is not there.
LEMMA FromWithin ==
    ASSUME NEW S, NEW s \in Seq(S), NEW x
    PROVE  /\ KeysFrom(s, x) \subseteq ToSet(s)
           /\ x \notin ToSet(s) => KeysFrom(s, x) = {}
  BY FromIs, ToSetMember

\* A key that is put at the head does not change it.
LEMMA FromPutFirst ==
    ASSUME NEW S, NEW s \in Seq(S), NEW k \in S, k \notin ToSet(s), NEW x, x # k
    PROVE  KeysFrom(<<k>> \o s, x) = KeysFrom(s, x)
<1> DEFINE r == <<k>> \o s
<1>1. /\ r \in Seq(S) /\ Len(r) = Len(s) + 1 /\ Len(s) \in Nat /\ r[1] = k
      /\ \A i \in 1..Len(s) : r[i + 1] = s[i]
  BY PushHeadSequence
<1> HIDE DEF r
<1>2. ASSUME NEW y \in KeysFrom(r, x) PROVE y \in KeysFrom(s, x)
  <2>1. PICK m \in 1 .. Len(r), n \in 1 .. Len(r) : m <= n /\ r[m] = x /\ r[n] = y
    BY <1>1, <1>2, FromIs
  <2>2. m # 1
    BY <1>1, <2>1
  <2>3. m - 1 \in 1 .. Len(s) /\ n - 1 \in 1 .. Len(s) /\ m - 1 <= n - 1 /\ (m - 1) + 1 = m /\ (n - 1) + 1 = n
    BY <1>1, <2>1, <2>2
  <2>4. s[m - 1] = x /\ s[n - 1] = y
    BY <1>1, <2>1, <2>3
  <2> QED
    BY <2>3, <2>4, FromIs
<1>3. ASSUME NEW y \in KeysFrom(s, x) PROVE y \in KeysFrom(r, x)
  <2>1. PICK m \in 1 .. Len(s), n \in 1 .. Len(s) : m <= n /\ s[m] = x /\ s[n] = y
    BY <1>3, FromIs
  <2>2. m + 1 \in 1 .. Len(r) /\ n + 1 \in 1 .. Len(r) /\ m + 1 <= n + 1 /\ r[m + 1] = x /\ r[n + 1] = y
    BY <1>1, <2>1
  <2> QED
    BY <1>1, <2>2, FromIs
<1>4. KeysFrom(r, x) = KeysFrom(s, x)
  BY <1>2, <1>3
<1> QED
  BY <1>4 DEF r

\* A key that is removed leaves it.
LEMMA FromRemoved ==
    ASSUME NEW S, NEW s \in Seq(S), IsInjective(s), NEW k \in ToSet(s), NEW x, x # k
    PROVE  KeysFrom(RemoveFirst(s, k), x) = KeysFrom(s, x) \ {k}
<1>1. Len(s) \in Nat /\ \A i, j \in 1..Len(s) : s[i] = s[j] => i = j
  BY LenProperties DEF IsInjective
<1>2. PICK a \in 1..Len(s) : s[a] = k
  BY ToSetMember
<1>3. PICK r : r = RemoveFirst(s, k)
  OBVIOUS
<1>4. r \in Seq(S) /\ Len(r) = Len(s) - 1 /\ \A i \in 1..Len(s) - 1 : r[i] = IF i < a THEN s[i] ELSE s[i + 1]
  BY <1>2, <1>3, RemoveFirstPlaces
<1>5. ASSUME NEW y \in KeysFrom(r, x) PROVE y \in KeysFrom(s, x) \ {k}
  <2>1. PICK m \in 1 .. Len(r), n \in 1 .. Len(r) : m <= n /\ r[m] = x /\ r[n] = y
    BY <1>4, <1>5, FromIs
  <2> DEFINE p(i) == IF i < a THEN i ELSE i + 1
  <2>2. p(m) \in 1 .. Len(s) /\ p(n) \in 1 .. Len(s) /\ p(m) <= p(n) /\ p(n) # a
    BY <1>1, <1>2, <1>4, <2>1
  <2>3. s[p(m)] = x /\ s[p(n)] = y
    BY <1>1, <1>4, <2>1
  <2>4. y # k
    BY <1>1, <1>2, <2>2, <2>3
  <2> HIDE DEF p
  <2> QED
    BY <2>2, <2>3, <2>4, FromIs
<1>6. ASSUME NEW y \in KeysFrom(s, x) \ {k} PROVE y \in KeysFrom(r, x)
  <2>1. PICK m \in 1 .. Len(s), n \in 1 .. Len(s) : m <= n /\ s[m] = x /\ s[n] = y
    BY <1>6, FromIs
  <2>2. m # a /\ n # a
    BY <1>2, <1>6, <2>1
  <2> DEFINE p(i) == IF i < a THEN i ELSE i - 1
  <2>3. p(m) \in 1 .. Len(r) /\ p(n) \in 1 .. Len(r) /\ p(m) <= p(n)
    BY <1>1, <1>2, <1>4, <2>1, <2>2
  <2>4. ASSUME NEW i \in 1 .. Len(s), i # a PROVE r[p(i)] = s[i]
    <3>1. CASE i < a
      <4>1. i \in 1..Len(s) - 1
        BY <1>1, <1>2, <3>1
      <4> QED
        BY <1>4, <3>1, <4>1
    <3>2. CASE ~(i < a)
      <4>1. i - 1 \in 1..Len(s) - 1 /\ ~(i - 1 < a) /\ (i - 1) + 1 = i
        BY <1>1, <1>2, <2>4, <3>2
      <4> QED
        BY <1>4, <3>2, <4>1
    <3> QED
      BY <3>1, <3>2
  <2>5. r[p(m)] = x /\ r[p(n)] = y
    BY <2>1, <2>2, <2>4
  <2> HIDE DEF p
  <2> QED
    BY <1>4, <2>3, <2>5, FromIs
<1> QED
  BY <1>3, <1>5, <1>6

\* The next key of the chain, and what comes from it on.
LEMMA FromFurther ==
    ASSUME NEW s \in Seq(DictKeys), IsInjective(s), NEW k \in ToSet(s), NEW y, y = Further(s, k)
    PROVE  /\ y \in ToSet(s) \cup {NoKeyYet} /\ y # k
           /\ k \in KeysFrom(s, k) /\ KeysFrom(s, y) = KeysFrom(s, k) \ {k}
<1>1. /\ Len(s) \in Nat /\ \A i, j \in 1..Len(s) : s[i] = s[j] => i = j
      /\ \A i \in 1..Len(s) : s[i] \in DictKeys
  BY LenProperties, ElementOfSeq DEF IsInjective
<1>2. PICK a \in 1..Len(s) : s[a] = k
  BY ToSetMember
<1>3. a = CHOOSE n \in 1 .. Len(s) : s[n] = k
  BY <1>1, <1>2
<1>4. y = IF a < Len(s) THEN s[a + 1] ELSE NoKeyYet
  BY <1>3 DEF Further
<1>5. k \in KeysFrom(s, k)
  BY <1>1, <1>2, FromIs
<1>6. CASE a < Len(s)
  <2>1. a + 1 \in 1 .. Len(s) /\ y = s[a + 1] /\ a + 1 # a
    BY <1>1, <1>4, <1>6
  <2>2. y \in ToSet(s) /\ y # k
    BY <1>1, <1>2, <2>1, ToSetMember
  <2>3. ASSUME NEW z \in KeysFrom(s, y) PROVE z \in KeysFrom(s, k) \ {k}
    <3>1. PICK m \in 1 .. Len(s), n \in 1 .. Len(s) : m <= n /\ s[m] = y /\ s[n] = z
      BY <2>3, FromIs
    <3>2. m = a + 1
      BY <1>1, <2>1, <3>1
    <3>3. a <= n /\ n # a
      BY <1>1, <3>1, <3>2
    <3>4. z # k
      BY <1>1, <1>2, <3>1, <3>3
    <3> QED
      BY <1>2, <3>1, <3>3, <3>4, FromIs
  <2>4. ASSUME NEW z \in KeysFrom(s, k) \ {k} PROVE z \in KeysFrom(s, y)
    <3>1. PICK m \in 1 .. Len(s), n \in 1 .. Len(s) : m <= n /\ s[m] = k /\ s[n] = z
      BY <2>4, FromIs
    <3>2. m = a /\ n # a
      BY <1>1, <1>2, <2>4, <3>1
    <3>3. a + 1 <= n
      BY <1>1, <3>1, <3>2
    <3> QED
      BY <2>1, <3>1, <3>3, FromIs
  <2> QED
    BY <1>5, <2>2, <2>3, <2>4
<1>7. CASE ~(a < Len(s))
  <2>1. y = NoKeyYet /\ a = Len(s)
    BY <1>1, <1>4, <1>7
  <2>2. NoKeyYet \notin ToSet(s)
    BY <1>1, DictAssumption, ToSetMember DEF NoKeyYet
  <2>3. KeysFrom(s, y) = {}
    BY <2>1, <2>2, FromWithin
  <2>4. ASSUME NEW z \in KeysFrom(s, k) PROVE z = k
    <3>1. PICK m \in 1 .. Len(s), n \in 1 .. Len(s) : m <= n /\ s[m] = k /\ s[n] = z
      BY <2>4, FromIs
    <3>2. m = a /\ n = a
      BY <1>1, <1>2, <2>1, <3>1
    <3> QED
      BY <1>2, <3>1, <3>2
  <2> QED
    BY <1>5, <2>1, <2>2, <2>3, <2>4
<1> QED
  BY <1>6, <1>7

\* A whole chain, from its head on.
LEMMA FromHead ==
    ASSUME NEW S, NEW s \in Seq(S), s # <<>>
    PROVE  Head(s) \in ToSet(s) /\ KeysFrom(s, Head(s)) = ToSet(s)
<1>1. Head(s) = s[1] /\ Len(s) \in Nat /\ Len(s) > 0
  BY PopHeadSequence
<1>2. 1 \in 1 .. Len(s) /\ \A n \in 1 .. Len(s) : 1 <= n
  BY <1>1
<1>3. ASSUME NEW y \in ToSet(s) PROVE y \in KeysFrom(s, Head(s))
  <2>1. PICK n \in 1 .. Len(s) : s[n] = y
    BY <1>3, ToSetMember
  <2> QED
    BY <1>1, <1>2, <2>1, FromIs
<1>4. Head(s) \in ToSet(s)
  BY <1>1, <1>2, ToSetMember
<1> QED
  BY <1>3, <1>4, FromWithin

\* The keys of the greater buckets.
LEMMA BeyondIs ==
    ASSUME NEW t, NEW K, TableHolds(t, K), NEW index, NEW x
    PROVE  x \in Beyond(t, index) <=> x \in K /\ x % t.size > index
<1>1. KeysOf(t) = K
  BY KeysOfHolds
<1> QED
  BY <1>1 DEF Beyond

\* The bucket of a key that a table holds.
LEMMA HeldIn ==
    ASSUME NEW t, NEW K, TableHolds(t, K), NEW k \in K
    PROVE  /\ t.size \in Nat /\ t.size > 0 /\ k \in DictKeys
           /\ k % t.size \in 0 .. t.size - 1 /\ k \in ToSet(t.table[k % t.size])
<1>1. t.size \in Nat /\ t.size # 0 /\ k \in DictKeys
  BY TableFields DEF TableHolds
<1>2. t.size > 0
  BY <1>1
<1>3. k % t.size \in 0 .. t.size - 1
  BY <1>1, <1>2, BucketOf
<1> QED
  BY <1>1, <1>2, <1>3 DEF TableHolds

\* A chain of a table.
LEMMA ChainIs ==
    ASSUME NEW t, NEW K, TableHolds(t, K), NEW b \in 0 .. t.size - 1
    PROVE  /\ t.table[b] \in Seq(DictKeys) /\ IsInjective(t.table[b])
           /\ \A x : x \in ToSet(t.table[b]) <=> x \in K /\ x % t.size = b
<1>1. t.table[b] \in Seq(DictKeys) /\ IsInjective(t.table[b])
  BY TableFields DEF TableHolds
<1>2. ToSet(t.table[b]) \subseteq DictKeys /\ K \subseteq DictKeys
  BY <1>1, ToSetIsSubset DEF TableHolds
<1> QED
  BY <1>1, <1>2 DEF TableHolds

\* The other keys of a chain stay in it (dictAddRaw, dictGenericDelete).
LEMMA ChainKept ==
    ASSUME NEW t, NEW K, TableHolds(t, K), NEW u, NEW M, TableHolds(u, M), u.size = t.size,
           NEW b \in 0 .. t.size - 1, NEW x \in ToSet(t.table[b]), x \in M
    PROVE  x \in ToSet(u.table[b])
<1>1. x % t.size = b
  BY ChainIs
<1> QED
  BY <1>1, ChainIs

\* A key that is added is not before an iterator that is in the table: the
\* head of its chain was passed, or it is a key of its own.
LEMMA AheadAdd ==
    ASSUME NEW t, NEW K, TableHolds(t, K), NEW k \in DictKeys \ K, NEW b \in 0 .. t.size - 1,
           NEW next, next # k, NEW after, NEW u, u = AddTo(t, k)
    PROVE  /\ \A x : x # k => (x \in AheadIn(u, after, b, next) <=> x \in AheadIn(t, after, b, next))
<1>1. t.size \in Nat /\ t.size > 0
  <2>1. t.size \in Nat
    BY TableFields DEF TableHolds
  <2> QED
    BY <2>1
<1>2. TableHolds(u, K \cup {k}) /\ u.size = t.size
  BY <1>1, AddToHolds
<1>3. \A a \in 0 .. t.size - 1 : u.table[a] = IF a = k % t.size THEN <<k>> \o t.table[a] ELSE t.table[a]
  BY <1>1, AddToHolds
<1>4. t.table[b] \in Seq(DictKeys) /\ k \notin ToSet(t.table[b])
  BY ChainIs
<1>5. u.table[b] = <<k>> \o t.table[b] \/ u.table[b] = t.table[b]
  BY <1>3
<1>6. KeysFrom(u.table[b], next) = KeysFrom(t.table[b], next)
  <2>1. CASE u.table[b] = <<k>> \o t.table[b]
    BY <1>4, <2>1, FromPutFirst
  <2> QED
    BY <1>5, <2>1
<1>7. ASSUME NEW x, x # k PROVE x \in Beyond(u, b) <=> x \in Beyond(t, b)
  <2>1. x \in Beyond(u, b) <=> x \in K \cup {k} /\ x % u.size > b
    BY <1>2, BeyondIs
  <2>2. x \in Beyond(t, b) <=> x \in K /\ x % t.size > b
    BY BeyondIs
  <2> QED
    BY <1>2, <1>7, <2>1, <2>2
<1>8. ASSUME NEW x, x # k PROVE x \in AheadIn(u, after, b, next) <=> x \in AheadIn(t, after, b, next)
  BY <1>6, <1>7, <1>8 DEF AheadIn
<1> QED
  BY <1>8

\* A key that is deleted is not the one the iterator goes to next.
LEMMA AheadRemove ==
    ASSUME NEW t, NEW K, TableHolds(t, K), NEW k \in K, NEW b \in 0 .. t.size - 1,
           NEW next, next # k, NEW after, NEW u, u = RemoveFrom(t, k)
    PROVE  /\ \A x : x # k => (x \in AheadIn(u, after, b, next) <=> x \in AheadIn(t, after, b, next))
<1>1. TableHolds(u, K \ {k}) /\ u.size = t.size
  BY RemoveFromHolds
<1>2. \A a \in 0 .. t.size - 1 : u.table[a] = IF a = k % t.size THEN RemoveFirst(t.table[a], k) ELSE t.table[a]
  BY RemoveFromHolds
<1>3. t.table[b] \in Seq(DictKeys) /\ IsInjective(t.table[b]) /\ (b = k % t.size => k \in ToSet(t.table[b]))
  BY ChainIs
<1>4. KeysFrom(u.table[b], next) \cup {k} = KeysFrom(t.table[b], next) \cup {k}
  <2>1. CASE b = k % t.size
    <3>1. u.table[b] = RemoveFirst(t.table[b], k)
      BY <1>2, <2>1
    <3>2. KeysFrom(RemoveFirst(t.table[b], k), next) = KeysFrom(t.table[b], next) \ {k}
      BY <1>3, <2>1, FromRemoved
    <3> QED
      BY <3>1, <3>2
  <2>2. CASE b # k % t.size
    BY <1>2, <2>2
  <2> QED
    BY <2>1, <2>2
<1>5. ASSUME NEW x, x # k PROVE x \in Beyond(u, b) <=> x \in Beyond(t, b)
  <2>1. x \in Beyond(u, b) <=> x \in K \ {k} /\ x % u.size > b
    BY <1>1, BeyondIs
  <2>2. x \in Beyond(t, b) <=> x \in K /\ x % t.size > b
    BY BeyondIs
  <2> QED
    BY <1>1, <1>5, <2>1, <2>2
<1>6. ASSUME NEW x, x # k PROVE x \in AheadIn(u, after, b, next) <=> x \in AheadIn(t, after, b, next)
  BY <1>4, <1>5, <1>6 DEF AheadIn
<1> QED
  BY <1>6

\* The iterator goes on in its chain (dictNext).
LEMMA AheadFurther ==
    ASSUME NEW t, NEW K, TableHolds(t, K), NEW after, K \cap after = {}, NEW b \in 0 .. t.size - 1,
           NEW k \in ToSet(t.table[b]), NEW y, y = Further(t.table[b], k)
    PROVE  /\ k \in AheadIn(t, after, b, k) /\ AheadIn(t, after, b, y) = AheadIn(t, after, b, k) \ {k}
<1>1. t.table[b] \in Seq(DictKeys) /\ IsInjective(t.table[b]) /\ k \in K /\ k % t.size = b
  BY ChainIs
<1>2. /\ y \in ToSet(t.table[b]) \cup {NoKeyYet} /\ y # k
      /\ k \in KeysFrom(t.table[b], k) /\ KeysFrom(t.table[b], y) = KeysFrom(t.table[b], k) \ {k}
  BY <1>1, FromFurther
<1>3. k \notin Beyond(t, b)
  <2>1. k \in Beyond(t, b) => k % t.size > b
    BY BeyondIs
  <2>2. b \in Int /\ ~(b > b)
    OBVIOUS
  <2> QED
    BY <1>1, <2>1, <2>2
<1> QED
  BY <1>1, <1>2, <1>3 DEF AheadIn

\* The keys beyond a bucket are those of the next one that is not empty,
\* and those beyond that one (dictNext).
LEMMA BeyondFirst ==
    ASSUME NEW t, NEW K, TableHolds(t, K), NEW index \in Int, index >= -1,
           NEW c \in 0 .. t.size - 1, c > index, t.table[c] # <<>>,
           \A a \in 0 .. t.size - 1 : a > index /\ a < c => t.table[a] = <<>>
    PROVE  ToSet(t.table[c]) \cup Beyond(t, c) = Beyond(t, index)
<1>1. t.size \in Nat
  BY TableFields DEF TableHolds
<1>2. ASSUME NEW x PROVE x \in ToSet(t.table[c]) \cup Beyond(t, c) <=> x \in Beyond(t, index)
  <2>1. /\ x \in Beyond(t, c) <=> x \in K /\ x % t.size > c
        /\ x \in Beyond(t, index) <=> x \in K /\ x % t.size > index
    BY BeyondIs
  <2>2. x \in ToSet(t.table[c]) <=> x \in K /\ x % t.size = c
    BY ChainIs
  <2>3. ASSUME x \in K, x % t.size > index PROVE x % t.size = c \/ x % t.size > c
    <3>1. PICK b : b = x % t.size
      OBVIOUS
    <3>2. b \in 0 .. t.size - 1 /\ x \in ToSet(t.table[b])
      BY <2>3, <3>1, HeldIn
    <3>3. t.table[b] # <<>>
      BY <3>2, ToSetEmpty
    <3>4. ~(b < c) /\ b \in Int /\ c \in Int
      BY <1>1, <2>3, <3>1, <3>2, <3>3
    <3>5. b = c \/ b > c
      BY <3>4
    <3> QED
      BY <3>1, <3>5
  <2>4. x \in K => x % t.size \in Int
    BY HeldIn
  <2>5. \A b \in Int : b = c \/ b > c => b > index
    BY <1>1
  <2> QED
    BY <2>1, <2>2, <2>3, <2>4, <2>5
<1> QED
  BY <1>2

\* No bucket is filled: nothing is beyond.
LEMMA NothingBeyond ==
    ASSUME NEW t, NEW K, TableHolds(t, K), NEW index \in Int, index >= -1, FilledFrom(t, index + 1) = {}
    PROVE  Beyond(t, index) = {}
<1> SUFFICES ASSUME NEW x \in Beyond(t, index) PROVE FALSE
  OBVIOUS
<1>1. x \in K /\ x % t.size > index
  BY BeyondIs
<1>2. PICK b : b = x % t.size
  OBVIOUS
<1>3. t.size \in Nat /\ b \in 0 .. t.size - 1 /\ x \in ToSet(t.table[b])
  BY <1>1, <1>2, HeldIn
<1>4. t.table[b] # <<>>
  BY <1>3, ToSetEmpty
<1>5. b \in index + 1 .. t.size - 1
  BY <1>1, <1>2, <1>3
<1> QED
  BY <1>4, <1>5 DEF FilledFrom

----------------------------------------------------------------------------
(* The inductive invariant.                                                *)

\* What the two tables become.
LEMMA DictBecomesIs ==
    ASSUME NEW d \in DictRecord, DictBecomes(d)
    PROVE  /\ ht' \in [0 .. 1 -> DictTable] /\ rehashidx' \in Int
           /\ D' = d /\ ht'[0] = d.t0 /\ ht'[1] = d.t1 /\ rehashidx' = d.idx
<1>1. d.t0 \in DictTable /\ d.t1 \in DictTable /\ d.idx \in Int /\ d = [t0 |-> d.t0, t1 |-> d.t1, idx |-> d.idx]
  BY DEF DictRecord
<1>2. ht' = [i \in 0 .. 1 |-> IF i = 0 THEN d.t0 ELSE d.t1] /\ rehashidx' = d.idx
  BY DEF DictBecomes
<1>3. ht'[0] = d.t0 /\ ht'[1] = d.t1 /\ ht' \in [0 .. 1 -> DictTable]
  BY <1>1, <1>2
<1>4. D' = d
  BY <1>1, <1>2, <1>3 DEF D
<1> QED
  BY <1>1, <1>2, <1>3, <1>4

\* The two tables, and the keys of each.
LEMMA TablesAre ==
    ASSUME DictInv
    PROVE  /\ D \in DictRecord /\ D.t0 = ht[0] /\ D.t1 = ht[1] /\ D.idx = rehashidx
           /\ \E K, L \in SUBSET DictKeys :
                 /\ Split(D, K, L) /\ present = K \cup L /\ K \cap L = {}
                 /\ TableHolds(ht[0], K) /\ TableHolds(ht[1], L)
                 /\ KeysOf(ht[0]) = K /\ KeysOf(ht[1]) = L
<1>1. D \in DictRecord /\ D.t0 = ht[0] /\ D.t1 = ht[1] /\ D.idx = rehashidx
  BY DEF DictInv, DictHolds, D
<1>2. PICK K \in SUBSET DictKeys, L \in SUBSET DictKeys : Split(D, K, L) /\ present = K \cup L
  BY DEF DictInv, DictHolds
<1>3. TableHolds(ht[0], K) /\ TableHolds(ht[1], L) /\ K \cap L = {}
  BY <1>1, <1>2 DEF Split
<1>4. KeysOf(ht[0]) = K /\ KeysOf(ht[1]) = L
  BY <1>3, KeysOfHolds
<1> QED
  BY <1>1, <1>2, <1>3, <1>4

\* An iterator that is not in the tables is not disturbed by what happens to
\* them.
LEMMA NotWalking ==
    ASSUME DictInv, ~IterWalks, iter' = iter, iterators' = iterators, present \subseteq present'
    PROVE  (IterIdle \/ IterFresh \/ IterEnded)' /\ ReturnedOnce(iter)'
<1>1. IterIdle \/ IterFresh \/ IterEnded
  BY DEF DictInv
<1>2. ReturnedOnce(iter)'
  BY DEF DictInv, ReturnedOnce
<1>3. CASE IterIdle
  BY <1>2, <1>3 DEF IterIdle
<1>4. CASE IterFresh
  BY <1>2, <1>4 DEF IterFresh
<1>5. CASE IterEnded
  BY <1>2, <1>5 DEF IterEnded
<1> QED
  BY <1>1, <1>3, <1>4, <1>5

\* The table that an iterator goes through.
LEMMA WalksIn ==
    ASSUME DictInv, IterWalks,
           NEW K \in SUBSET DictKeys, NEW L \in SUBSET DictKeys, Split(D, K, L), present = K \cup L
    PROVE  /\ iterators # 0
           /\ iter.table = 0 => /\ ht[0].size > 0 /\ TableHolds(ht[0], K) /\ iter.index \in 0 .. ht[0].size - 1
                                /\ iter.next # NoKeyYet => iter.next \in ToSet(ht[0].table[iter.index]) /\ iter.next \in K
                                /\ Ahead = AheadIn(ht[0], L, iter.index, iter.next)
           /\ iter.table = 1 => /\ rehashidx # -1 /\ TableHolds(ht[1], L) /\ iter.index \in 0 .. ht[1].size - 1
                                /\ iter.next # NoKeyYet => iter.next \in ToSet(ht[1].table[iter.index]) /\ iter.next \in L
                                /\ Ahead = AheadIn(ht[1], {}, iter.index, iter.next)
           /\ iter.table \in {0, 1} /\ NoKeyYet \notin DictKeys
<1>1. D.t0 = ht[0] /\ D.t1 = ht[1] /\ D.idx = rehashidx
  BY TablesAre
<1>2. TableHolds(ht[0], K) /\ TableHolds(ht[1], L) /\ KeysOf(ht[0]) = K /\ KeysOf(ht[1]) = L
  BY <1>1, KeysOfHolds DEF Split
<1>3. ht[0].size \in Nat /\ ht[1].size \in Nat
  BY <1>2, TableFields DEF TableHolds
<1>4. iterators # 0 /\ iter.table \in {0, 1}
  BY DEF IterWalks, DictInv, DictIterator
<1>5. NoKeyYet \notin DictKeys
  BY DictAssumption DEF NoKeyYet
<1>6. CASE iter.table = 0
  <2>1. iter.index \in 0 .. ht[0].size - 1 /\ (iter.next # NoKeyYet => iter.next \in ToSet(ht[0].table[iter.index]))
    BY <1>6 DEF IterWalks
  <2>2. ht[0].size > 0
    BY <1>3, <2>1
  <2>3. \A x : x \in ToSet(ht[0].table[iter.index]) => x \in K
    BY <1>2, <2>1, ChainIs
  <2>4. Ahead = AheadIn(ht[0], L, iter.index, iter.next)
    BY <1>2, <1>6 DEF Ahead, After
  <2> QED
    BY <1>2, <1>4, <1>5, <1>6, <2>1, <2>2, <2>3, <2>4
<1>7. CASE iter.table = 1
  <2>1. /\ iter.index \in 0 .. ht[1].size - 1 /\ (iter.next # NoKeyYet => iter.next \in ToSet(ht[1].table[iter.index]))
        /\ rehashidx # -1
    BY <1>7 DEF IterWalks
  <2>2. \A x : x \in ToSet(ht[1].table[iter.index]) => x \in L
    BY <1>2, <2>1, ChainIs
  <2>3. Ahead = AheadIn(ht[1], {}, iter.index, iter.next)
    BY <1>7 DEF Ahead, After
  <2> QED
    BY <1>2, <1>4, <1>5, <1>7, <2>1, <2>2, <2>3
<1> QED
  BY <1>4, <1>6, <1>7

\* Keys are added while an iterator goes through the tables (dictAdd).
LEMMA AddStep ==
    ASSUME DictInv, NEW k \in DictKeys, dictAdd(k)
    PROVE  DictInv'
<1>1. PICK K \in SUBSET DictKeys, L \in SUBSET DictKeys : Split(D, K, L) /\ present = K \cup L
  BY TablesAre
<1>2. D \in DictRecord /\ D.t0 = ht[0] /\ D.t1 = ht[1] /\ D.idx = rehashidx
  BY TablesAre
<1>3. PICK e : e = dictAddRaw(D, k)
  OBVIOUS
<1>4. DictBecomes(e) /\ present' = present \cup {k} /\ iter' = iter /\ iterators' = iterators
  BY <1>3 DEF dictAdd
<1>5. e \in DictRecord
  BY <1>1, <1>2, <1>3, AddRawSplits
<1>6. PICK K1 \in SUBSET DictKeys, L1 \in SUBSET DictKeys :
                 /\ Split(e, K1, L1) /\ K1 \cup L1 = K \cup L \cup {k}
                 /\ iterators # 0 => K \subseteq K1 /\ L \subseteq L1
  BY <1>1, <1>2, <1>3, AddRawSplits
<1>7. /\ ht' \in [0 .. 1 -> DictTable] /\ rehashidx' \in Int
      /\ D' = e /\ ht'[0] = e.t0 /\ ht'[1] = e.t1 /\ rehashidx' = e.idx
  BY <1>4, <1>5, DictBecomesIs
<1>8. DictHolds(D, present)'
  BY <1>1, <1>4, <1>5, <1>6, <1>7 DEF DictHolds
<1>9. iterators' \in Nat /\ iter' \in DictIterator /\ ReturnedOnce(iter')
  BY <1>4 DEF DictInv
<1>10. CASE ~IterWalks
  <2>1. (IterIdle \/ IterFresh \/ IterEnded)' /\ ReturnedOnce(iter)'
    BY <1>4, <1>10, NotWalking
  <2> QED
    BY <1>7, <1>8, <1>9, <2>1 DEF DictInv
<1>11. CASE IterWalks
  <2>1. /\ iterators # 0
        /\ iter.table = 0 => /\ ht[0].size > 0 /\ TableHolds(ht[0], K) /\ iter.index \in 0 .. ht[0].size - 1
                             /\ iter.next # NoKeyYet => iter.next \in ToSet(ht[0].table[iter.index]) /\ iter.next \in K
                             /\ Ahead = AheadIn(ht[0], L, iter.index, iter.next)
        /\ iter.table = 1 => /\ rehashidx # -1 /\ TableHolds(ht[1], L) /\ iter.index \in 0 .. ht[1].size - 1
                             /\ iter.next # NoKeyYet => iter.next \in ToSet(ht[1].table[iter.index]) /\ iter.next \in L
                             /\ Ahead = AheadIn(ht[1], {}, iter.index, iter.next)
        /\ iter.table \in {0, 1} /\ NoKeyYet \notin DictKeys
    BY <1>1, <1>11, WalksIn
  <2>2. K \subseteq K1 /\ L \subseteq L1 /\ K1 \cap L1 = {} /\ iter.must \subseteq K \cup L
    BY <1>1, <1>6, <1>11, <2>1 DEF Split, IterWalks
  <2>3. /\ TableHolds(e.t0, K1) /\ TableHolds(e.t1, L1) /\ KeysOf(e.t0) = K1 /\ KeysOf(e.t1) = L1
    BY <1>6, KeysOfHolds DEF Split
  <2>4. CASE iter.table = 0
    <3>1. e.t0 = ht[0] \/ (e.t0 = AddTo(ht[0], k) /\ k \notin K \cup L)
      BY <1>1, <1>2, <1>3, <2>1, <2>4, AddRawSplits
    <3>2. Ahead' = AheadIn(e.t0, L1, iter.index, iter.next)
      BY <1>4, <1>7, <2>3, <2>4 DEF Ahead, After
    <3>3. CASE e.t0 = ht[0]
      <4>1. \A x \in iter.must : x \in Ahead' <=> x \in Ahead
        BY <2>1, <2>2, <2>3, <2>4, <3>2, <3>3, <1>6 DEF AheadIn, Beyond
      <4>2. IterWalks'
        BY <1>1, <1>4, <1>7, <1>11, <2>4, <3>3, <4>1 DEF IterWalks
      <4> QED
        BY <1>7, <1>8, <1>9, <4>2 DEF DictInv
    <3>4. CASE e.t0 = AddTo(ht[0], k) /\ k \notin K \cup L
      <4>1. iter.next # k /\ k \in DictKeys \ K
        BY <2>1, <2>4, <3>4
      <4>2. /\ \A x : x # k => (x \in AheadIn(e.t0, L1, iter.index, iter.next) <=> x \in AheadIn(ht[0], L1, iter.index, iter.next))
            /\ iter.next # NoKeyYet => iter.next \in ToSet(e.t0.table[iter.index])
            /\ e.t0.size = ht[0].size
        <5>1. PICK t : t = ht[0]
          OBVIOUS
        <5>2. PICK u : u = e.t0
          OBVIOUS
        <5>3. TableHolds(t, K) /\ u = AddTo(t, k) /\ iter.index \in 0 .. t.size - 1 /\ TableHolds(u, K1) /\ t.size > 0
          BY <2>1, <2>3, <2>4, <3>4, <5>1, <5>2, TableFields DEF TableHolds
        <5>4. u.size = t.size
          BY <4>1, <5>3, AddToHolds
        <5>5. \A x : x # k => (x \in AheadIn(u, L1, iter.index, iter.next) <=> x \in AheadIn(t, L1, iter.index, iter.next))
          BY <4>1, <5>3, AheadAdd
        <5>6. iter.next # NoKeyYet => iter.next \in ToSet(u.table[iter.index])
          BY <2>1, <2>2, <2>4, <5>1, <5>3, <5>4, ChainKept
        <5> QED
          BY <5>1, <5>2, <5>4, <5>5, <5>6
      <4>3. \A x \in iter.must : x \in L1 <=> x \in L
        BY <1>6, <2>2, <3>4
      <4>4. \A x \in iter.must : x \in AheadIn(ht[0], L1, iter.index, iter.next) <=> x \in AheadIn(ht[0], L, iter.index, iter.next)
        BY <4>3 DEF AheadIn
      <4>5. \A x \in iter.must : x \in Ahead' <=> x \in Ahead
        <5>1. k \notin iter.must
          BY <2>2, <3>4
        <5> QED
          BY <2>1, <2>4, <3>2, <4>2, <4>4, <5>1
      <4>6. IterWalks'
        BY <1>1, <1>4, <1>7, <1>11, <2>1, <2>4, <4>2, <4>5 DEF IterWalks
      <4> QED
        BY <1>7, <1>8, <1>9, <4>6 DEF DictInv
    <3> QED
      BY <3>1, <3>3, <3>4
  <2>5. CASE iter.table = 1
    <3>1. (e.t1 = ht[1] \/ (e.t1 = AddTo(ht[1], k) /\ k \notin K \cup L)) /\ e.idx # -1
      BY <1>1, <1>2, <1>3, <2>1, <2>5, AddRawSplits
    <3>2. Ahead' = AheadIn(e.t1, {}, iter.index, iter.next)
      BY <1>4, <1>7, <2>5 DEF Ahead, After
    <3>3. CASE e.t1 = ht[1]
      <4>1. Ahead' = Ahead
        BY <2>1, <2>5, <3>2, <3>3
      <4>2. IterWalks'
        BY <1>1, <1>4, <1>7, <1>11, <2>5, <3>1, <3>3, <4>1 DEF IterWalks
      <4> QED
        BY <1>7, <1>8, <1>9, <4>2 DEF DictInv
    <3>4. CASE e.t1 = AddTo(ht[1], k) /\ k \notin K \cup L
      <4>1. iter.next # k /\ k \in DictKeys \ L
        BY <2>1, <2>5, <3>4
      <4>2. /\ \A x : x # k => (x \in AheadIn(e.t1, {}, iter.index, iter.next) <=> x \in AheadIn(ht[1], {}, iter.index, iter.next))
            /\ iter.next # NoKeyYet => iter.next \in ToSet(e.t1.table[iter.index])
            /\ e.t1.size = ht[1].size
        <5>1. PICK t : t = ht[1]
          OBVIOUS
        <5>2. PICK u : u = e.t1
          OBVIOUS
        <5>3. TableHolds(t, L) /\ u = AddTo(t, k) /\ iter.index \in 0 .. t.size - 1 /\ TableHolds(u, L1) /\ t.size > 0
          BY <2>1, <2>3, <2>5, <3>4, <5>1, <5>2, TableFields DEF TableHolds
        <5>4. u.size = t.size
          BY <4>1, <5>3, AddToHolds
        <5>5. \A x : x # k => (x \in AheadIn(u, {}, iter.index, iter.next) <=> x \in AheadIn(t, {}, iter.index, iter.next))
          BY <4>1, <5>3, AheadAdd
        <5>6. iter.next # NoKeyYet => iter.next \in ToSet(u.table[iter.index])
          BY <2>1, <2>2, <2>5, <5>1, <5>3, <5>4, ChainKept
        <5> QED
          BY <5>1, <5>2, <5>4, <5>5, <5>6
      <4>3. \A x \in iter.must : x \in Ahead' <=> x \in Ahead
        <5>1. k \notin iter.must
          BY <2>2, <3>4
        <5> QED
          BY <2>1, <2>5, <3>2, <4>2, <5>1
      <4>4. IterWalks'
        BY <1>1, <1>4, <1>7, <1>11, <2>1, <2>5, <3>1, <4>2, <4>3 DEF IterWalks
      <4> QED
        BY <1>7, <1>8, <1>9, <4>4 DEF DictInv
    <3> QED
      BY <3>1, <3>3, <3>4
  <2> QED
    BY <2>1, <2>4, <2>5
<1> QED
  BY <1>10, <1>11

\* The key that an iterator returned is deleted (dictDelete).
LEMMA DeleteStep ==
    ASSUME DictInv, NEW k \in DictKeys, dictDelete(k)
    PROVE  DictInv'
<1>1. PICK K \in SUBSET DictKeys, L \in SUBSET DictKeys : Split(D, K, L) /\ present = K \cup L
  BY TablesAre
<1>2. D \in DictRecord /\ D.t0 = ht[0] /\ D.t1 = ht[1] /\ D.idx = rehashidx
  BY TablesAre
<1>3. PICK e : e = dictGenericDelete(D, k)
  OBVIOUS
<1>4. /\ DictBecomes(e) /\ present' = present \ {k} /\ iterators' = iterators
      /\ iter' = [iter EXCEPT !.must = @ \ {k}]
      /\ iter.on => k = iter.entry
  BY <1>3 DEF dictDelete
<1>5. e \in DictRecord
  BY <1>1, <1>2, <1>3, DeleteSplits
<1>6. PICK K1 \in SUBSET DictKeys, L1 \in SUBSET DictKeys :
                 /\ Split(e, K1, L1) /\ K1 \cup L1 = (K \cup L) \ {k}
                 /\ iterators # 0 => K1 = K \ {k} /\ L1 = L \ {k}
  BY <1>1, <1>2, <1>3, DeleteSplits
<1>7. /\ ht' \in [0 .. 1 -> DictTable] /\ rehashidx' \in Int
      /\ D' = e /\ ht'[0] = e.t0 /\ ht'[1] = e.t1 /\ rehashidx' = e.idx
  BY <1>4, <1>5, DictBecomesIs
<1>8. DictHolds(D, present)'
  BY <1>1, <1>4, <1>5, <1>6, <1>7 DEF DictHolds
<1>9. /\ iterators' \in Nat /\ iter' \in DictIterator /\ ReturnedOnce(iter')
      /\ iter'.on = iter.on /\ iter'.table = iter.table /\ iter'.index = iter.index /\ iter'.entry = iter.entry
      /\ iter'.next = iter.next /\ iter'.done = iter.done /\ iter'.seen = iter.seen /\ iter'.must = iter.must \ {k}
  <2>1. iter \in DictIterator /\ iterators \in Nat /\ ReturnedOnce(iter)
    BY DEF DictInv
  <2>2. /\ iter' \in DictIterator
        /\ iter'.on = iter.on /\ iter'.table = iter.table /\ iter'.index = iter.index /\ iter'.entry = iter.entry
        /\ iter'.next = iter.next /\ iter'.done = iter.done /\ iter'.seen = iter.seen /\ iter'.must = iter.must \ {k}
    BY <1>4, <2>1 DEF DictIterator
  <2>3. ReturnedOnce(iter')
    BY <2>1, <2>2 DEF ReturnedOnce
  <2> QED
    BY <1>4, <2>1, <2>2, <2>3
<1>10. CASE IterIdle
  <2>1. iter.must \ {k} = iter.must
    BY <1>10 DEF IterIdle, NoIter
  <2>2. iter \in DictIterator
    BY DEF DictInv
  <2>3. iter' = iter
    BY <1>4, <2>1, <2>2 DEF DictIterator
  <2>4. IterIdle'
    BY <1>4, <1>10, <2>3 DEF IterIdle
  <2> QED
    BY <1>7, <1>8, <1>9, <2>4 DEF DictInv
<1>11. CASE IterFresh \/ IterEnded
  <2>1. k = NoKeyYet
    BY <1>4, <1>11 DEF IterFresh, IterEnded
  <2> QED
    BY <2>1, DictAssumption DEF NoKeyYet
<1>12. CASE IterWalks
  <2>1. /\ iterators # 0
        /\ iter.table = 0 => /\ ht[0].size > 0 /\ TableHolds(ht[0], K) /\ iter.index \in 0 .. ht[0].size - 1
                             /\ iter.next # NoKeyYet => iter.next \in ToSet(ht[0].table[iter.index]) /\ iter.next \in K
                             /\ Ahead = AheadIn(ht[0], L, iter.index, iter.next)
        /\ iter.table = 1 => /\ rehashidx # -1 /\ TableHolds(ht[1], L) /\ iter.index \in 0 .. ht[1].size - 1
                             /\ iter.next # NoKeyYet => iter.next \in ToSet(ht[1].table[iter.index]) /\ iter.next \in L
                             /\ Ahead = AheadIn(ht[1], {}, iter.index, iter.next)
        /\ iter.table \in {0, 1} /\ NoKeyYet \notin DictKeys
    BY <1>1, <1>12, WalksIn
  <2>2. K1 = K \ {k} /\ L1 = L \ {k} /\ iter.must \subseteq K \cup L /\ iter.next # k
    BY <1>1, <1>4, <1>6, <1>12, <2>1 DEF IterWalks
  <2>3. /\ TableHolds(e.t0, K1) /\ TableHolds(e.t1, L1) /\ KeysOf(e.t0) = K1 /\ KeysOf(e.t1) = L1
    BY <1>6, KeysOfHolds DEF Split
  <2>4. /\ e.t0 = ht[0] \/ (e.t0 = RemoveFrom(ht[0], k) /\ k \in K)
        /\ e.t1 = ht[1] \/ (e.t1 = RemoveFrom(ht[1], k) /\ k \in L)
        /\ e.idx = rehashidx
    BY <1>1, <1>2, <1>3, <2>1, DeleteSplits
  <2>5. CASE iter.table = 0
    <3>1. PICK t : t = ht[0]
      OBVIOUS
    <3>2. PICK u : u = e.t0
      OBVIOUS
    <3>3. Ahead' = AheadIn(u, L1, iter.index, iter.next)
      BY <1>7, <1>9, <2>3, <2>5, <3>2 DEF Ahead, After
    <3>4. TableHolds(t, K) /\ TableHolds(u, K1) /\ iter.index \in 0 .. t.size - 1
      BY <2>1, <2>3, <2>5, <3>1, <3>2
    <3>5. /\ \A x : x # k => (x \in AheadIn(u, L1, iter.index, iter.next) <=> x \in AheadIn(t, L1, iter.index, iter.next))
          /\ u.size = t.size
      <4>1. CASE u = t
        BY <4>1
      <4>2. CASE u = RemoveFrom(t, k) /\ k \in K
        <5>1. u.size = t.size
          BY <3>4, <4>2, RemoveFromHolds
        <5>2. \A x : x # k => (x \in AheadIn(u, L1, iter.index, iter.next) <=> x \in AheadIn(t, L1, iter.index, iter.next))
          BY <2>2, <3>4, <4>2, AheadRemove
        <5> QED
          BY <5>1, <5>2
      <4> QED
        BY <2>4, <3>1, <3>2, <4>1, <4>2
    <3>6. \A x : x # k => (x \in AheadIn(t, L1, iter.index, iter.next) <=> x \in AheadIn(t, L, iter.index, iter.next))
      BY <2>2 DEF AheadIn
    <3>7. \A x \in iter.must \ {k} : x \in Ahead' <=> x \in Ahead
      BY <2>1, <2>5, <3>1, <3>3, <3>5, <3>6
    <3>8. iter.next # NoKeyYet => iter.next \in ToSet(u.table[iter.index])
      BY <2>1, <2>2, <2>5, <3>1, <3>4, <3>5, ChainKept
    <3>9. IterWalks'
      BY <1>1, <1>4, <1>7, <1>9, <1>12, <2>1, <2>2, <2>5, <3>1, <3>2, <3>5, <3>7, <3>8 DEF IterWalks
    <3> QED
      BY <1>7, <1>8, <1>9, <3>9 DEF DictInv
  <2>6. CASE iter.table = 1
    <3>1. PICK t : t = ht[1]
      OBVIOUS
    <3>2. PICK u : u = e.t1
      OBVIOUS
    <3>3. Ahead' = AheadIn(u, {}, iter.index, iter.next)
      BY <1>7, <1>9, <2>6, <3>2 DEF Ahead, After
    <3>4. TableHolds(t, L) /\ TableHolds(u, L1) /\ iter.index \in 0 .. t.size - 1
      BY <2>1, <2>3, <2>6, <3>1, <3>2
    <3>5. /\ \A x : x # k => (x \in AheadIn(u, {}, iter.index, iter.next) <=> x \in AheadIn(t, {}, iter.index, iter.next))
          /\ u.size = t.size
      <4>1. CASE u = t
        BY <4>1
      <4>2. CASE u = RemoveFrom(t, k) /\ k \in L
        <5>1. u.size = t.size
          BY <3>4, <4>2, RemoveFromHolds
        <5>2. \A x : x # k => (x \in AheadIn(u, {}, iter.index, iter.next) <=> x \in AheadIn(t, {}, iter.index, iter.next))
          BY <2>2, <3>4, <4>2, AheadRemove
        <5> QED
          BY <5>1, <5>2
      <4> QED
        BY <2>4, <3>1, <3>2, <4>1, <4>2
    <3>6. \A x \in iter.must \ {k} : x \in Ahead' <=> x \in Ahead
      BY <2>1, <2>6, <3>1, <3>3, <3>5
    <3>7. iter.next # NoKeyYet => iter.next \in ToSet(u.table[iter.index])
      BY <2>1, <2>2, <2>6, <3>1, <3>4, <3>5, ChainKept
    <3>8. IterWalks'
      BY <1>1, <1>4, <1>7, <1>9, <1>12, <2>1, <2>2, <2>4, <2>6, <3>1, <3>2, <3>5, <3>6, <3>7 DEF IterWalks
    <3> QED
      BY <1>7, <1>8, <1>9, <3>8 DEF DictInv
  <2> QED
    BY <2>1, <2>5, <2>6
<1> QED
  BY <1>10, <1>11, <1>12 DEF DictInv

\* Many steps of the rehash (dictRehashMilliseconds).
LEMMA RehashTimesIs ==
    ASSUME NEW d, NEW m \in Nat
    PROVE  \E after : /\ after[0] = d
                      /\ \A n \in 1 .. m : after[n] = RehashOne(after[n - 1])
                      /\ RehashTimes(d, m) = after[m]
<1> DEFINE Val(f, k) == IF k = 0 THEN d ELSE RehashOne(f[k - 1])
           Good(f, j) == f = [k \in 0 .. j |-> Val(f, k)]
           P == {j \in 0 .. m : \E f : Good(f, j)}
<1>1. 0 \in P
  <2>1. Good([k \in 0 .. 0 |-> d], 0)
    OBVIOUS
  <2>2. 0 \in 0 .. m
    OBVIOUS
  <2> HIDE DEF Good
  <2> QED
    BY <2>1, <2>2
<1>2. ASSUME NEW j \in 1 .. m, j - 1 \in P PROVE j \in P
  <2>1. j \in Nat \ {0}
    OBVIOUS
  <2>2. PICK f : Good(f, j - 1)
    BY <1>2
  <2> DEFINE g == [k \in 0 .. j |-> IF k = j THEN Val(f, j) ELSE f[k]]
  <2>3. ASSUME NEW k \in 0 .. j PROVE g[k] = Val(g, k)
    <3>1. CASE k = 0
      BY <2>1, <2>2, <3>1
    <3>2. CASE k # 0
      <4>1. k - 1 \in 0 .. j /\ k - 1 # j /\ g[k - 1] = f[k - 1]
        BY <2>1, <3>2
      <4>2. CASE k = j
        BY <3>2, <4>1, <4>2
      <4>3. CASE k # j
        <5>1. k \in 0 .. j - 1
          BY <2>1, <4>3
        <5>2. f[k] = Val(f, k)
          BY <2>2, <5>1
        <5> QED
          BY <3>2, <4>1, <4>3, <5>2
      <4> QED
        BY <4>2, <4>3
    <3> QED
      BY <3>1, <3>2
  <2>4. g = [k \in 0 .. j |-> g[k]]
    OBVIOUS
  <2> HIDE DEF Val, g
  <2>5. Good(g, j)
    BY <2>3, <2>4
  <2> HIDE DEF Good
  <2> QED
    BY <2>5
<1>3. m \in P
  <2> HIDE DEF P
  <2>1. \A k \in 0 .. m : k \in P
    BY <1>1, <1>2, UpTo
  <2> QED
    BY <2>1
<1> DEFINE w == CHOOSE f : Good(f, m)
<1>4. RehashTimes(d, m) = w[m]
  BY DEF RehashTimes
<1>5. Good(w, m)
  <2> HIDE DEF Good
  <2> QED
    BY <1>3
<1>6. w[0] = d /\ \A k \in 1 .. m : w[k] = RehashOne(w[k - 1])
  <2>1. \A k \in 0 .. m : w[k] = Val(w, k)
    <3> HIDE DEF Val, w
    <3> QED
      BY <1>5
  <2>2. 0 \in 0 .. m /\ \A k \in 1 .. m : k \in 0 .. m /\ k # 0
    OBVIOUS
  <2> HIDE DEF w
  <2> QED
    BY <2>1, <2>2
<1> HIDE DEF w
<1> QED
  BY <1>4, <1>6

\* They keep the keys.
LEMMA RehashTimesHolds ==
    ASSUME NEW d, NEW Q, DictHolds(d, Q), NEW m \in Nat
    PROVE  DictHolds(RehashTimes(d, m), Q)
<1>1. PICK w : /\ w[0] = d /\ \A n \in 1 .. m : w[n] = RehashOne(w[n - 1])
               /\ RehashTimes(d, m) = w[m]
  BY RehashTimesIs
<1> DEFINE P == {n \in 0 .. m : DictHolds(w[n], Q)}
<1>2. 0 \in P
  BY <1>1
<1>3. ASSUME NEW n \in 1 .. m, n - 1 \in P PROVE n \in P
  <2>1. PICK x : x = w[n - 1]
    OBVIOUS
  <2>2. x \in DictRecord /\ \E K, L \in SUBSET DictKeys : Split(x, K, L) /\ Q = K \cup L
    BY <1>3, <2>1 DEF DictHolds
  <2>3. DictHolds(RehashOne(x), Q)
    BY <2>2, RehashOneSplits DEF DictHolds
  <2> QED
    BY <1>1, <2>1, <2>3
<1>4. m \in P
  <2> HIDE DEF P
  <2>1. \A n \in 0 .. m : n \in P
    BY <1>2, <1>3, UpTo
  <2> QED
    BY <2>1
<1> QED
  BY <1>1, <1>4

\* The tables change and hold the same keys, while no iterator is in them
\* (dictFind, dictResize, dictRehashMilliseconds).
LEMMA SameKeysStep ==
    ASSUME DictInv, NEW e, DictHolds(e, present), DictBecomes(e), iterators # 0 => e = D,
           iter' = iter, iterators' = iterators, present' = present
    PROVE  DictInv'
<1>1. e \in DictRecord
  BY DEF DictHolds
<1>2. /\ ht' \in [0 .. 1 -> DictTable] /\ rehashidx' \in Int
      /\ D' = e /\ ht'[0] = e.t0 /\ ht'[1] = e.t1 /\ rehashidx' = e.idx
  BY <1>1, DictBecomesIs
<1>3. DictHolds(D, present)'
  BY <1>2
<1>4. iterators' \in Nat /\ iter' \in DictIterator /\ ReturnedOnce(iter')
  BY DEF DictInv
<1>5. CASE ~IterWalks
  <2>1. (IterIdle \/ IterFresh \/ IterEnded)' /\ ReturnedOnce(iter)'
    BY <1>5, NotWalking
  <2> QED
    BY <1>2, <1>3, <1>4, <2>1 DEF DictInv
<1>6. CASE IterWalks
  <2>1. e = D
    BY <1>6 DEF IterWalks
  <2>2. D.t0 = ht[0] /\ D.t1 = ht[1] /\ D.idx = rehashidx /\ ht \in [0 .. 1 -> DictTable]
    BY TablesAre DEF DictInv
  <2>3. ht' = ht /\ rehashidx' = rehashidx
    BY <1>2, <2>1, <2>2
  <2>4. IterWalks' /\ ReturnedOnce(iter)'
    BY <1>4, <1>6, <2>3 DEF IterWalks, Ahead, After, ReturnedOnce
  <2> QED
    BY <1>2, <1>3, <1>4, <2>4 DEF DictInv
<1> QED
  BY <1>5, <1>6

\* A lookup, which moves a bucket too (dictFind).
LEMMA FindStep ==
    ASSUME DictInv, dictFind
    PROVE  DictInv'
<1>1. PICK K \in SUBSET DictKeys, L \in SUBSET DictKeys : Split(D, K, L) /\ present = K \cup L
  BY TablesAre
<1>2. PICK e : e = dictRehashStep(D)
  OBVIOUS
<1>3. D \in DictRecord
  BY TablesAre
<1>4. e \in DictRecord /\ (iterators # 0 => e = D)
  BY <1>1, <1>2, <1>3, StepSplits
<1>5. \E K1, L1 \in SUBSET DictKeys : Split(e, K1, L1) /\ K1 \cup L1 = K \cup L
  BY <1>1, <1>2, <1>3, StepSplits
<1>6. DictHolds(e, present)
  BY <1>1, <1>4, <1>5 DEF DictHolds
<1>7. DictBecomes(e) /\ iter' = iter /\ iterators' = iterators /\ present' = present
  BY <1>2 DEF dictFind
<1> QED
  BY <1>4, <1>6, <1>7, SameKeysStep

\* The cron shrinks the table (dictResize).
LEMMA ResizeStep ==
    ASSUME DictInv, dictResize
    PROVE  DictInv'
<1>1. PICK K \in SUBSET DictKeys, L \in SUBSET DictKeys : Split(D, K, L) /\ present = K \cup L
  BY TablesAre
<1>2. PICK n : n = IF ht[0].used < HT_INITIAL_SIZE THEN HT_INITIAL_SIZE ELSE ht[0].used
  OBVIOUS
<1>3. D \in DictRecord /\ n \in Nat
  <2>1. ht[0].used \in Nat
    BY TableFields DEF DictInv
  <2> QED
    BY <1>2, <2>1, TablesAre, DictAssumption
<1>4. PICK e : e = dictExpand(D, n)
  OBVIOUS
<1>5. e \in DictRecord /\ Split(e, K, L)
  BY <1>1, <1>3, <1>4, ExpandSplits
<1>6. DictHolds(e, present)
  BY <1>1, <1>5 DEF DictHolds
<1>7. DictBecomes(e) /\ iter' = iter /\ iterators' = iterators /\ present' = present /\ ~iter.on
  BY <1>2, <1>4 DEF dictResize
<1>8. iterators = 0
  BY <1>7 DEF DictInv, IterIdle, IterFresh, IterWalks, IterEnded
<1> QED
  BY <1>6, <1>7, <1>8, SameKeysStep

\* The cron moves many buckets (dictRehashMilliseconds).
LEMMA MillisecondsStep ==
    ASSUME DictInv, dictRehashMilliseconds
    PROVE  DictInv'
<1>1. PICK n \in 1 .. MaxSize + 1 : DictBecomes(RehashTimes(D, n))
  BY DEF dictRehashMilliseconds
<1>2. n \in Nat /\ DictHolds(D, present)
  BY DictAssumption DEF DictInv
<1>3. PICK e : e = RehashTimes(D, n)
  OBVIOUS
<1>4. DictHolds(e, present)
  BY <1>2, <1>3, RehashTimesHolds
<1>5. DictBecomes(e) /\ iter' = iter /\ iterators' = iterators /\ present' = present /\ ~iter.on
  BY <1>1, <1>3 DEF dictRehashMilliseconds
<1>6. iterators = 0
  BY <1>5 DEF DictInv, IterIdle, IterFresh, IterWalks, IterEnded
<1> QED
  BY <1>4, <1>5, <1>6, SameKeysStep

\* Two tables that hold nothing.
LEMMA EmptyHolds ==
    ASSUME NEW e, e = [t0 |-> NoTable, t1 |-> NoTable, idx |-> -1]
    PROVE  e \in DictRecord /\ DictHolds(e, {})
<1>1. TableHolds(NoTable, {})
  BY NewTableHolds DEF NoTable
<1>2. e.t0 = NoTable /\ e.t1 = NoTable /\ e.idx = -1 /\ e \in DictRecord
  BY <1>1 DEF DictRecord, TableHolds
<1>3. Split(e, {}, {})
  BY <1>1, <1>2 DEF Split, MovesInOrder
<1>4. {} \in SUBSET DictKeys /\ {} = {} \cup {}
  OBVIOUS
<1> QED
  BY <1>2, <1>3, <1>4 DEF DictHolds

\* Every key is deleted (dictEmpty).
LEMMA EmptyStep ==
    ASSUME DictInv, dictEmpty
    PROVE  DictInv'
<1>1. PICK e : e = [t0 |-> NoTable, t1 |-> NoTable, idx |-> -1]
  OBVIOUS
<1>2. DictBecomes(e) /\ present' = {} /\ iterators' = 0 /\ iter' = iter /\ ~iter.on
  BY <1>1 DEF dictEmpty
<1>3. e \in DictRecord /\ DictHolds(e, {})
  BY <1>1, EmptyHolds
<1>4. /\ ht' \in [0 .. 1 -> DictTable] /\ rehashidx' \in Int /\ D' = e
  BY <1>2, <1>3, DictBecomesIs
<1>5. IterIdle
  BY <1>2 DEF DictInv, IterFresh, IterWalks, IterEnded
<1>6. IterIdle'
  BY <1>2, <1>5 DEF IterIdle
<1>7. iterators' \in Nat /\ iter' \in DictIterator /\ ReturnedOnce(iter')
  BY <1>2 DEF DictInv
<1>8. DictHolds(D, present)'
  BY <1>2, <1>3, <1>4
<1> QED
  BY <1>4, <1>6, <1>7, <1>8 DEF DictInv

\* A child starts or ends (updateDictResizePolicy): the keys stay where they are.
LEMMA PolicyStep ==
    ASSUME DictInv, UNCHANGED <<ht, rehashidx, iterators, iter, present>>
    PROVE  DictInv'
  BY DEF DictInv, DictHolds, D, IterIdle, IterFresh, IterWalks, IterEnded, Ahead, After, ReturnedOnce

----------------------------------------------------------------------------
(* The steps of an iterator.                                               *)

\* No iterator (dictGetIterator before the first key).
LEMMA NoIterIs ==
    /\ NoIter \in DictIterator /\ ~NoIter.on /\ ~NoIter.done /\ NoIter.table = 0 /\ NoIter.index = -1
    /\ NoIter.entry = NoKeyYet /\ NoIter.next = NoKeyYet /\ NoIter.seen = <<>> /\ NoIter.must = {}
  BY DEF NoIter, DictIterator

\* A safe iterator begins (dictGetSafeIterator).
LEMMA GetIteratorStep ==
    ASSUME DictInv, dictGetSafeIterator
    PROVE  DictInv'
<1>1. IterIdle /\ iterators = 0
  BY DEF dictGetSafeIterator, DictInv, IterIdle, IterFresh, IterWalks, IterEnded
<1>2. /\ iter' = [NoIter EXCEPT !.on = TRUE, !.must = present]
      /\ ht' = ht /\ rehashidx' = rehashidx /\ iterators' = iterators /\ present' = present
  BY DEF dictGetSafeIterator
<1>3. present \subseteq DictKeys
  BY TablesAre
<1>4. /\ iter' \in DictIterator /\ iter'.on /\ ~iter'.done /\ iter'.table = 0 /\ iter'.index = -1
      /\ iter'.entry = NoKeyYet /\ iter'.next = NoKeyYet /\ iter'.seen = <<>> /\ iter'.must = present
  BY <1>2, <1>3, NoIterIs DEF DictIterator
<1>5. IterFresh'
  BY <1>1, <1>2, <1>4 DEF IterFresh
<1>6. ReturnedOnce(iter')
  BY <1>4 DEF ReturnedOnce
<1>7. DictHolds(D, present)'
  BY <1>2 DEF DictInv, D
<1> QED
  BY <1>1, <1>2, <1>4, <1>5, <1>6, <1>7 DEF DictInv

\* A safe iterator is released (dictReleaseIterator).
LEMMA ReleaseStep ==
    ASSUME DictInv, dictReleaseIterator
    PROVE  DictInv'
<1>1. /\ iter' = NoIter /\ ht' = ht /\ rehashidx' = rehashidx /\ present' = present /\ iter.on
      /\ iterators' = IF iter.index = -1 /\ iter.table = 0 THEN iterators ELSE iterators - 1
  BY DEF dictReleaseIterator
<1>2. IterFresh \/ IterWalks \/ IterEnded
  BY <1>1, NoIterIs DEF DictInv, IterIdle
<1>3. IterWalks => iter.index # -1
  <2>1. ASSUME IterWalks PROVE iter.index \in Nat
    BY <2>1 DEF IterWalks
  <2> QED
    BY <2>1
<1>4. IterEnded => iter.index # -1
  BY DEF IterEnded, DictInv, DictIterator
<1>5. iterators' = 0
  BY <1>1, <1>2, <1>3, <1>4 DEF IterFresh, IterWalks, IterEnded
<1>6. IterIdle'
  BY <1>1, <1>5 DEF IterIdle
<1>7. ReturnedOnce(iter') /\ iter' \in DictIterator
  BY <1>1, NoIterIs DEF ReturnedOnce
<1>8. DictHolds(D, present)'
  BY <1>1 DEF DictInv, D
<1> QED
  BY <1>1, <1>5, <1>6, <1>7, <1>8 DEF DictInv

\* A key that is returned: it was before the iterator, and is not any more
\* (dictNext).
LEMMA VisitIs ==
    ASSUME iter \in DictIterator, iter.on, ~iter.done, ReturnedOnce(iter),
           NEW t \in {0, 1}, NEW b \in Int, NEW k \in DictKeys,
           Further(ht[t].table[b], k) \in DictKeys \cup {NoKeyYet}, iter' = Visit(t, b, k),
           NEW R, \A x \in iter.must : x \in ToSet(iter.seen) <=> x \notin R, k \in R
    PROVE  /\ iter' \in DictIterator /\ iter'.on /\ ~iter'.done
           /\ iter'.table = t /\ iter'.index = b /\ iter'.entry = k /\ iter'.next = Further(ht[t].table[b], k)
           /\ iter'.must = iter.must
           /\ \A x \in iter'.must : x \in ToSet(iter'.seen) <=> x \notin R \ {k}
           /\ ReturnedOnce(iter')
<1>1. PICK y : y = Further(ht[t].table[b], k)
  OBVIOUS
<1>2. PICK seen : seen = iter.seen
  OBVIOUS
<1>3. seen \in Seq(DictKeys)
  BY <1>2 DEF DictIterator
<1>4. PICK s : s = Append(seen, k)
  OBVIOUS
<1>5. s \in Seq(DictKeys) /\ Len(s) = Len(seen) + 1 /\ Len(seen) \in Nat /\ s[Len(seen) + 1] = k /\ \A i \in 1..Len(seen) : s[i] = seen[i]
  BY <1>3, <1>4, PushTailSequence
<1>6. iter' = [iter EXCEPT !.table = t, !.index = b, !.entry = k, !.next = y, !.seen = s]
  BY <1>1, <1>2, <1>4 DEF Visit
<1>7. /\ iter' \in DictIterator /\ iter'.on /\ ~iter'.done
      /\ iter'.table = t /\ iter'.index = b /\ iter'.entry = k /\ iter'.next = y
      /\ iter'.must = iter.must /\ iter'.seen = s
  BY <1>1, <1>5, <1>6 DEF DictIterator
<1>8. ToSet(s) = ToSet(seen) \cup {k}
  BY <1>3, <1>4, AppendInjectively
<1>9. \A x \in iter'.must : x \in ToSet(iter'.seen) <=> x \notin R \ {k}
  BY <1>2, <1>7, <1>8
<1>10. ReturnedOnce(iter')
  <2>1. SUFFICES ASSUME NEW m \in 1 .. Len(seen) + 1, NEW n \in 1 .. Len(seen) + 1, s[m] = s[n], s[m] \in iter.must
                 PROVE  m = n
    BY <1>5, <1>7 DEF ReturnedOnce
  <2>2. ASSUME NEW i \in 1 .. Len(seen), k \in iter.must PROVE seen[i] # k
    <3>1. k \notin ToSet(seen)
      BY <1>2, <2>2
    <3> QED
      BY <1>3, <3>1, ToSetMember
  <2>3. \A i \in 1 .. Len(seen) + 1 : i \in 1 .. Len(seen) \/ i = Len(seen) + 1
    BY <1>5
  <2>4. CASE m \in 1 .. Len(seen) /\ n \in 1 .. Len(seen)
    BY <1>2, <1>5, <2>1, <2>4 DEF ReturnedOnce
  <2>5. CASE ~(m \in 1 .. Len(seen) /\ n \in 1 .. Len(seen))
    BY <1>5, <2>1, <2>2, <2>3, <2>5
  <2> QED
    BY <2>4, <2>5
<1> QED
  BY <1>1, <1>7, <1>9, <1>10

\* What an iterator has before it when its chain ended.
LEMMA AfterTheChain ==
    ASSUME DictInv, IterFresh \/ (IterWalks /\ iter.next = NoKeyYet),
           NEW K \in SUBSET DictKeys, NEW L \in SUBSET DictKeys, Split(D, K, L), present = K \cup L
    PROVE  /\ iter.index \in Int /\ iter.index >= -1
           /\ \A x \in iter.must : x \in ToSet(iter.seen) <=> x \notin Beyond(ht[iter.table], iter.index) \cup After(iter)
<1>1. D.t0 = ht[0] /\ D.t1 = ht[1]
  BY TablesAre
<1>2. TableHolds(ht[0], K) /\ TableHolds(ht[1], L) /\ KeysOf(ht[1]) = L
  BY <1>1, KeysOfHolds DEF Split
<1>3. CASE IterFresh
  <2>1. iter.table = 0 /\ iter.index = -1 /\ iter.seen = <<>> /\ iter.must \subseteq K \cup L
    BY <1>3 DEF IterFresh
  <2>2. ASSUME NEW x \in K PROVE x \in Beyond(ht[0], -1)
    <3>1. x % ht[0].size \in Nat
      BY <1>2, HeldIn
    <3>2. x % ht[0].size > -1
      BY <3>1
    <3> QED
      BY <1>2, <3>2, BeyondIs
  <2>3. After(iter) = L
    BY <1>2, <2>1 DEF After
  <2> QED
    BY <2>1, <2>2, <2>3, ToSetEmpty
<1>4. CASE IterWalks /\ iter.next = NoKeyYet
  <2>1. iter.table \in {0, 1} /\ NoKeyYet \notin DictKeys
    BY <1>4, WalksIn
  <2>2. PICK t : t = ht[iter.table]
    OBVIOUS
  <2>3. PICK M : TableHolds(t, M)
    BY <1>2, <2>1, <2>2
  <2>4. iter.index \in 0 .. t.size - 1 /\ t.size \in Nat
    BY <1>4, <2>2, <2>3, TableFields DEF IterWalks, TableHolds
  <2>5. t.table[iter.index] \in Seq(DictKeys) /\ NoKeyYet \notin ToSet(t.table[iter.index])
    <3>1. t.table[iter.index] \in Seq(DictKeys)
      BY <2>3, <2>4, ChainIs
    <3> QED
      BY <2>1, <3>1, ToSetIsSubset
  <2>6. KeysFrom(t.table[iter.index], NoKeyYet) = {}
    BY <2>5, FromWithin
  <2>7. Ahead = Beyond(t, iter.index) \cup After(iter)
    BY <1>4, <2>2, <2>6 DEF Ahead, AheadIn
  <2> QED
    BY <1>4, <2>2, <2>4, <2>7 DEF IterWalks
<1> QED
  BY <1>3, <1>4

\* The iterator returns the next key of its chain.
LEMMA NextInChain ==
    ASSUME DictInv, IterWalks, iter.next # NoKeyYet,
           iter' = Visit(iter.table, iter.index, iter.next), ht' = ht, rehashidx' = rehashidx, present' = present, iterators' = 1
    PROVE  IterWalks' /\ iter' \in DictIterator /\ ReturnedOnce(iter')
<1>1. PICK K \in SUBSET DictKeys, L \in SUBSET DictKeys :
         /\ Split(D, K, L) /\ present = K \cup L /\ K \cap L = {}
         /\ TableHolds(ht[0], K) /\ TableHolds(ht[1], L)
         /\ KeysOf(ht[0]) = K /\ KeysOf(ht[1]) = L
  BY TablesAre
<1>2. iter.table \in {0, 1} /\ NoKeyYet \notin DictKeys
  BY <1>1, WalksIn
<1>3. PICK t : t = ht[iter.table]
  OBVIOUS
<1>4. PICK after : after = After(iter)
  OBVIOUS
<1>5. PICK M : TableHolds(t, M) /\ M \cap after = {}
  BY <1>1, <1>2, <1>3, <1>4 DEF After
<1>6. PICK b : b = iter.index
  OBVIOUS
<1>7. PICK k : k = iter.next
  OBVIOUS
<1>8. b \in 0 .. t.size - 1 /\ k \in ToSet(t.table[b]) /\ t.size \in Nat
  BY <1>3, <1>5, <1>6, <1>7, TableFields DEF IterWalks, TableHolds
<1>9. t.table[b] \in Seq(DictKeys) /\ IsInjective(t.table[b])
  BY <1>5, <1>8, ChainIs
<1>10. PICK y : y = Further(t.table[b], k)
  OBVIOUS
<1>11. /\ k \in DictKeys /\ y \in ToSet(t.table[b]) \cup {NoKeyYet} /\ y # k /\ y \in DictKeys \cup {NoKeyYet}
  <2>1. y \in ToSet(t.table[b]) \cup {NoKeyYet} /\ y # k
    BY <1>8, <1>9, <1>10, FromFurther
  <2> QED
    BY <1>8, <1>9, <2>1, ToSetIsSubset
<1>12. k \in AheadIn(t, after, b, k) /\ AheadIn(t, after, b, y) = AheadIn(t, after, b, k) \ {k}
  BY <1>5, <1>8, <1>10, AheadFurther
<1>13. PICK R : R = AheadIn(t, after, b, k)
  OBVIOUS
<1>14. \A x \in iter.must : x \in ToSet(iter.seen) <=> x \notin R
  BY <1>3, <1>4, <1>6, <1>7, <1>13 DEF IterWalks, Ahead
<1>15. /\ iter \in DictIterator /\ iter.on /\ ~iter.done /\ ReturnedOnce(iter) /\ b \in Int
       /\ Further(ht[iter.table].table[b], k) \in DictKeys \cup {NoKeyYet} /\ iter' = Visit(iter.table, b, k) /\ k \in R
  BY <1>3, <1>6, <1>7, <1>8, <1>10, <1>11, <1>12, <1>13 DEF DictInv, IterWalks
<1>16. /\ iter' \in DictIterator /\ iter'.on /\ ~iter'.done
       /\ iter'.table = iter.table /\ iter'.index = b /\ iter'.entry = k /\ iter'.next = y
       /\ iter'.must = iter.must
       /\ \A x \in iter'.must : x \in ToSet(iter'.seen) <=> x \notin R \ {k}
       /\ ReturnedOnce(iter')
  BY <1>2, <1>3, <1>10, <1>11, <1>14, <1>15, VisitIs
<1>17. Ahead' = R \ {k}
  BY <1>3, <1>4, <1>12, <1>13, <1>16 DEF Ahead, After
<1>18. iter.must \subseteq present /\ (iter.table = 1 => rehashidx # -1)
  BY DEF IterWalks
<1>19. IterWalks'
  BY <1>2, <1>3, <1>8, <1>11, <1>16, <1>17, <1>18 DEF IterWalks
<1> QED
  BY <1>16, <1>19

\* The iterator returns the first key of a bucket.
LEMMA NextFirst ==
    ASSUME DictInv, iter.on, ~iter.done, iter.must \subseteq present,
           NEW tt \in {0, 1}, tt = 1 => rehashidx # -1, NEW index \in Int, index >= -1,
           FilledFrom(ht[tt], index + 1) # {},
           NEW after, after = (IF tt = 0 THEN KeysOf(ht[1]) ELSE {}),
           \A x \in iter.must : x \in ToSet(iter.seen) <=> x \notin Beyond(ht[tt], index) \cup after,
           iter' = VisitFirst(tt, Min(FilledFrom(ht[tt], index + 1))),
           ht' = ht, rehashidx' = rehashidx, present' = present, iterators' = 1
    PROVE  IterWalks' /\ iter' \in DictIterator /\ ReturnedOnce(iter')
<1>1. PICK K \in SUBSET DictKeys, L \in SUBSET DictKeys :
         /\ Split(D, K, L) /\ present = K \cup L /\ K \cap L = {}
         /\ TableHolds(ht[0], K) /\ TableHolds(ht[1], L)
         /\ KeysOf(ht[0]) = K /\ KeysOf(ht[1]) = L
  BY TablesAre
<1>2. PICK t : t = ht[tt]
  OBVIOUS
<1>3. PICK M : TableHolds(t, M) /\ M \cap after = {}
  BY <1>1, <1>2
<1>4. PICK from, c : from = index + 1 /\ c = Min(FilledFrom(t, from))
  OBVIOUS
<1>5. PICK h : h = Head(t.table[c])
  OBVIOUS
<1>6. PICK y : y = Further(t.table[c], h)
  OBVIOUS
<1>7. FilledFrom(t, from) # {}
  BY <1>2, <1>4
<1>8. /\ c \in 0 .. t.size - 1 /\ h \in ToSet(t.table[c]) /\ h \in DictKeys
      /\ y \in ToSet(t.table[c]) \cup {NoKeyYet} /\ y # h
      /\ h \in Beyond(t, index) \cup after
      /\ AheadIn(t, after, c, y) = (Beyond(t, index) \cup after) \ {h}
  <2>1. t \in DictTable /\ from \in Nat /\ t.size \in Nat
    BY <1>3, <1>4, TableFields DEF TableHolds
  <2>2. /\ c \in from .. t.size - 1 /\ c \in 0 .. t.size - 1 /\ t.table[c] # <<>>
        /\ \A a \in from .. c - 1 : t.table[a] = <<>>
    BY <1>4, <1>7, <2>1, FirstFilled
  <2>3. c > index /\ \A a \in 0 .. t.size - 1 : a > index /\ a < c => a \in from .. c - 1
    BY <1>4, <2>1, <2>2
  <2>4. ToSet(t.table[c]) \cup Beyond(t, c) = Beyond(t, index)
    BY <1>3, <2>2, <2>3, BeyondFirst
  <2>5. t.table[c] \in Seq(DictKeys) /\ IsInjective(t.table[c])
    BY <1>3, <2>2, ChainIs
  <2>6. h \in ToSet(t.table[c]) /\ KeysFrom(t.table[c], h) = ToSet(t.table[c])
    BY <1>5, <2>2, <2>5, FromHead
  <2>7. AheadIn(t, after, c, h) = Beyond(t, index) \cup after
    BY <2>4, <2>6 DEF AheadIn
  <2>8. h \in AheadIn(t, after, c, h) /\ AheadIn(t, after, c, y) = AheadIn(t, after, c, h) \ {h}
    BY <1>3, <1>6, <2>2, <2>6, AheadFurther
  <2>9. y \in ToSet(t.table[c]) \cup {NoKeyYet} /\ y # h
    BY <1>6, <2>5, <2>6, FromFurther
  <2>10. h \in DictKeys
    BY <2>5, <2>6, ToSetIsSubset
  <2> QED
    BY <2>2, <2>6, <2>7, <2>8, <2>9, <2>10
<1>9. y \in DictKeys \cup {NoKeyYet} /\ t.size \in Nat
  <2>1. t.table[c] \in Seq(DictKeys)
    BY <1>3, <1>8, ChainIs
  <2> QED
    BY <1>3, <1>8, <2>1, ToSetIsSubset, TableFields DEF TableHolds
<1>10. PICK R : R = Beyond(t, index) \cup after
  OBVIOUS
<1>11. \A x \in iter.must : x \in ToSet(iter.seen) <=> x \notin R
  BY <1>2, <1>10
<1>12. /\ iter \in DictIterator /\ ReturnedOnce(iter) /\ c \in Int
       /\ Further(ht[tt].table[c], h) \in DictKeys \cup {NoKeyYet} /\ iter' = Visit(tt, c, h) /\ h \in R
  BY <1>2, <1>4, <1>5, <1>6, <1>8, <1>9, <1>10 DEF DictInv, VisitFirst
<1>13. /\ iter' \in DictIterator /\ iter'.on /\ ~iter'.done
       /\ iter'.table = tt /\ iter'.index = c /\ iter'.entry = h /\ iter'.next = y
       /\ iter'.must = iter.must
       /\ \A x \in iter'.must : x \in ToSet(iter'.seen) <=> x \notin R \ {h}
       /\ ReturnedOnce(iter')
  BY <1>2, <1>6, <1>8, <1>11, <1>12, VisitIs
<1>14. Ahead' = R \ {h}
  BY <1>2, <1>8, <1>10, <1>13 DEF Ahead, After
<1>15. NoKeyYet \notin DictKeys
  BY DictAssumption DEF NoKeyYet
<1>16. IterWalks'
  BY <1>2, <1>8, <1>9, <1>13, <1>14, <1>15 DEF IterWalks
<1> QED
  BY <1>13, <1>16

\* A safe iterator returns a key, or ends (dictNext).
LEMMA NextStep ==
    ASSUME DictInv, dictNext
    PROVE  DictInv'
<1>1. PICK K \in SUBSET DictKeys, L \in SUBSET DictKeys :
         /\ Split(D, K, L) /\ present = K \cup L /\ K \cap L = {}
         /\ TableHolds(ht[0], K) /\ TableHolds(ht[1], L)
         /\ KeysOf(ht[0]) = K /\ KeysOf(ht[1]) = L
  BY TablesAre
<1> DEFINE here  == FilledFrom(ht[iter.table], iter.index + 1)
           there == IF iter.table = 0 /\ IsRehashing(D) THEN FilledFrom(ht[1], 0) ELSE {}
<1>2. /\ iter.on /\ ~iter.done /\ ht' = ht /\ rehashidx' = rehashidx /\ present' = present
      /\ iterators' = IF iter.index = -1 /\ iter.table = 0 THEN iterators + 1 ELSE iterators
      /\ iter' = IF iter.entry # NoKeyYet /\ iter.next # NoKeyYet THEN Visit(iter.table, iter.index, iter.next)
                 ELSE IF here # {} THEN VisitFirst(iter.table, Min(here))
                 ELSE IF there # {} THEN VisitFirst(1, Min(there))
                 ELSE [iter EXCEPT !.done = TRUE, !.index = ht[iter.table].size, !.entry = NoKeyYet]
  BY DEF dictNext
<1>3. IterFresh \/ IterWalks
  BY <1>2, NoIterIs DEF DictInv, IterIdle, IterEnded
<1>4. iterators' = 1
  <2>1. IterWalks => iter.index \in Nat
    BY DEF IterWalks
  <2> QED
    BY <1>2, <1>3, <2>1 DEF IterFresh, IterWalks
<1>5. /\ ht' \in [0 .. 1 -> DictTable] /\ rehashidx' \in Int /\ DictHolds(D, present)'
  BY <1>2 DEF DictInv, D
<1>6. SUFFICES (IterWalks \/ IterEnded)' /\ iter' \in DictIterator /\ ReturnedOnce(iter')
  BY <1>4, <1>5 DEF DictInv
<1>7. CASE iter.entry # NoKeyYet /\ iter.next # NoKeyYet
  <2>1. IterWalks
    BY <1>3, <1>7 DEF IterFresh
  <2> QED
    BY <1>2, <1>4, <1>7, <2>1, NextInChain
<1>8. CASE ~(iter.entry # NoKeyYet /\ iter.next # NoKeyYet)
  <2>1. IterFresh \/ (IterWalks /\ iter.next = NoKeyYet)
    BY <1>3, <1>8 DEF IterWalks
  <2>2. /\ iter.index \in Int /\ iter.index >= -1
        /\ \A x \in iter.must : x \in ToSet(iter.seen) <=> x \notin Beyond(ht[iter.table], iter.index) \cup After(iter)
    BY <1>1, <2>1, AfterTheChain
  <2>3. iter.must \subseteq present /\ iter.table \in {0, 1} /\ (iter.table = 1 => rehashidx # -1) /\ iter \in DictIterator
    BY <1>3 DEF IterFresh, IterWalks, DictInv, DictIterator
  <2>4. After(iter) = (IF iter.table = 0 THEN KeysOf(ht[1]) ELSE {})
    BY DEF After
  <2>5. CASE here # {}
    <3>1. iter' = VisitFirst(iter.table, Min(here))
      BY <1>2, <1>8, <2>5
    <3> QED
      BY <1>2, <1>4, <2>2, <2>3, <2>4, <2>5, <3>1, NextFirst
  <2>6. CASE here = {}
    <3>1. PICK M : TableHolds(ht[iter.table], M)
      BY <1>1, <2>3
    <3>2. Beyond(ht[iter.table], iter.index) = {}
      BY <2>2, <2>6, <3>1, NothingBeyond
    <3>3. \A x \in iter.must : x \in ToSet(iter.seen) <=> x \notin After(iter)
      BY <2>2, <3>2
    <3>4. \A x : x \in Beyond(ht[1], -1) <=> x \in L
      <4>1. ASSUME NEW x \in L PROVE x % ht[1].size > -1
        <5>1. x % ht[1].size \in Nat
          BY <1>1, HeldIn
        <5> QED
          BY <5>1
      <4> QED
        BY <1>1, <4>1, BeyondIs
    <3>5. CASE there # {}
      <4>1. iter' = VisitFirst(1, Min(there)) /\ iter.table = 0 /\ rehashidx # -1
        BY <1>2, <1>8, <2>6, <3>5 DEF IsRehashing, D
      <4>2. there = FilledFrom(ht[1], -1 + 1)
        BY <3>5
      <4>3. \A x \in iter.must : x \in ToSet(iter.seen) <=> x \notin Beyond(ht[1], -1) \cup {}
        BY <1>1, <2>4, <3>3, <3>4, <4>1
      <4>4. -1 \in Int /\ -1 >= -1 /\ 1 \in {0, 1} /\ {} = (IF 1 = 0 THEN KeysOf(ht[1]) ELSE {})
        OBVIOUS
      <4> HIDE DEF there, here
      <4> QED
        BY <1>2, <1>4, <2>3, <3>5, <4>1, <4>2, <4>3, <4>4, NextFirst
    <3>6. CASE there = {}
      <4>1. iter' = [iter EXCEPT !.done = TRUE, !.index = ht[iter.table].size, !.entry = NoKeyYet]
        BY <1>2, <1>8, <2>6, <3>6
      <4>2. PICK n \in Nat : n = ht[iter.table].size
        BY <2>3, TableFields DEF DictInv
      <4>3. /\ iter' \in DictIterator /\ iter'.on /\ iter'.done /\ iter'.entry = NoKeyYet /\ iter'.index \in Nat
            /\ iter'.must = iter.must /\ iter'.seen = iter.seen
        <5>1. iter' = [iter EXCEPT !.done = TRUE, !.index = n, !.entry = NoKeyYet] /\ iter \in DictIterator /\ iter.on
          BY <1>2, <2>3, <4>1, <4>2
        <5> HIDE DEF here, there
        <5>2. iter' \in DictIterator
          <6>1. PICK it : it = iter'
            OBVIOUS
          <6>2. n \in Int /\ NoKeyYet \in DictKeys \cup {NoKeyYet} /\ TRUE \in BOOLEAN
            BY <4>2
          <6>3. it \in DictIterator
            BY <5>1, <6>1, <6>2 DEF DictIterator
          <6> QED
            BY <6>1, <6>3
        <5>3. iter'.entry = NoKeyYet /\ iter'.index = n /\ iter'.must = iter.must /\ iter'.seen = iter.seen
          BY <5>1 DEF DictIterator
        <5>4. iter'.on /\ iter'.done
          BY <5>1 DEF DictIterator
        <5> QED
          BY <5>2, <5>3, <5>4
      <4>4. After(iter) = {}
        <5>1. CASE iter.table = 0 /\ IsRehashing(D)
          <6>1. FilledFrom(ht[1], -1 + 1) = {}
            BY <3>6, <5>1
          <6>2. -1 \in Int /\ -1 >= -1
            OBVIOUS
          <6>3. Beyond(ht[1], -1) = {}
            BY <1>1, <6>1, <6>2, NothingBeyond
          <6> QED
            BY <1>1, <2>4, <3>4, <6>3
        <5>2. CASE iter.table = 0 /\ ~IsRehashing(D)
          <6>1. L = {}
            BY <1>1, <5>2, TablesAre, DictFields DEF IsRehashing
          <6> QED
            BY <1>1, <2>4, <6>1
        <5>3. CASE iter.table # 0
          BY <2>4, <5>3
        <5> QED
          BY <5>1, <5>2, <5>3
      <4>5. iter'.must \subseteq ToSet(iter'.seen)
        BY <3>3, <4>3, <4>4
      <4>6. ReturnedOnce(iter')
        BY <4>3 DEF DictInv, ReturnedOnce
      <4>7. iter'.index >= 0
        BY <4>3
      <4>8. IterEnded'
        BY <1>4, <4>3, <4>5, <4>7 DEF IterEnded
      <4> QED
        BY <4>3, <4>6, <4>8
    <3> QED
      BY <3>5, <3>6
  <2> QED
    BY <2>5, <2>6
<1> QED
  BY <1>7, <1>8

----------------------------------------------------------------------------
\* An empty table begins so (dictCreate).
LEMMA DictBegins == DictInit => DictInv
<1> SUFFICES ASSUME DictInit PROVE DictInv
  OBVIOUS
<1>1. /\ ht = [i \in 0 .. 1 |-> NoTable] /\ rehashidx = -1 /\ iterators = 0 /\ iter = NoIter /\ present = {}
  BY DEF DictInit
<1>2. NoTable \in DictTable
  BY NewTableHolds DEF NoTable, TableHolds
<1>3. ht \in [0 .. 1 -> DictTable] /\ ht[0] = NoTable /\ ht[1] = NoTable
  BY <1>1, <1>2
<1>4. D = [t0 |-> NoTable, t1 |-> NoTable, idx |-> -1]
  BY <1>1, <1>3 DEF D
<1>5. DictHolds(D, present)
  BY <1>1, <1>4, EmptyHolds
<1>6. IterIdle /\ iter \in DictIterator /\ ReturnedOnce(iter)
  BY <1>1, NoIterIs DEF IterIdle, ReturnedOnce
<1> QED
  BY <1>1, <1>3, <1>5, <1>6 DEF DictInv

\* Each operation of the table and of its iterator keeps the invariant (dict.c).
LEMMA DictStep == DictInv /\ [DictNext]_dictVars => DictInv'
<1> SUFFICES ASSUME DictInv, [DictNext]_dictVars PROVE DictInv'
  OBVIOUS
<1>1. CASE \E k \in DictKeys : dictAdd(k) \/ dictDelete(k)
  BY <1>1, AddStep, DeleteStep
<1>2. CASE dictFind
  BY <1>2, FindStep
<1>3. CASE dictResize
  BY <1>3, ResizeStep
<1>4. CASE dictRehashMilliseconds
  BY <1>4, MillisecondsStep
<1>5. CASE dictEmpty
  BY <1>5, EmptyStep
<1>6. CASE updateDictResizePolicy
  BY <1>6, PolicyStep DEF updateDictResizePolicy
<1>7. CASE dictGetSafeIterator
  BY <1>7, GetIteratorStep
<1>8. CASE dictNext
  BY <1>8, NextStep
<1>9. CASE dictReleaseIterator
  BY <1>9, ReleaseStep
<1>10. CASE UNCHANGED dictVars
  BY <1>10, PolicyStep DEF dictVars
<1> QED
  BY <1>1, <1>2, <1>3, <1>4, <1>5, <1>6, <1>7, <1>8, <1>9, <1>10 DEF DictNext

\* What the invariant says of the keys.
LEMMA DictInvSays == DictInv => DictKeepsKeys
<1> SUFFICES ASSUME DictInv PROVE DictKeepsKeys
  OBVIOUS
<1>1. PICK K \in SUBSET DictKeys, L \in SUBSET DictKeys :
         /\ Split(D, K, L) /\ present = K \cup L /\ K \cap L = {}
         /\ TableHolds(ht[0], K) /\ TableHolds(ht[1], L)
         /\ KeysOf(ht[0]) = K /\ KeysOf(ht[1]) = L
  BY TablesAre
<1>2. D.t0 = ht[0] /\ D.idx = rehashidx /\ rehashidx \in Int
  BY TablesAre DEF DictInv
<1>3. /\ InTheirChains(ht[0]) /\ ht[0].used = Cardinality(K)
      /\ InTheirChains(ht[1]) /\ ht[1].used = Cardinality(L)
  BY <1>1, KeysOfHolds
<1>4. \A t \in 0 .. 1 : InTheirChains(ht[t]) /\ ht[t].used = Cardinality(KeysOf(ht[t]))
  <2>1. \A t \in 0 .. 1 : t = 0 \/ t = 1
    OBVIOUS
  <2> QED
    BY <1>1, <1>3, <2>1
<1>5. \A b \in 0 .. rehashidx - 1 : ht[0].table[b] = <<>>
  BY <1>1, <1>2 DEF Split, MovesInOrder
<1>6. ReturnedOnce(iter)
  BY DEF DictInv
<1>7. iter.done => iter.must \subseteq ToSet(iter.seen)
  BY NoIterIs DEF DictInv, IterIdle, IterFresh, IterWalks, IterEnded
<1>8. ~iter.on => iterators = 0
  BY DEF DictInv, IterIdle, IterFresh, IterWalks, IterEnded
<1> QED
  BY <1>1, <1>4, <1>5, <1>6, <1>7, <1>8 DEF DictKeepsKeys

\* Whatever is added, deleted, resized and moved, with safe iterators that
\* come and go, for any keys and sizes of tables: every key is found, once,
\* in its chain, and an iterator returns every key that stays (dict.c).
THEOREM DictKeepsKeysAlways == DictInit /\ [][DictNext]_dictVars => []DictKeepsKeys
  BY DictBegins, DictStep, DictInvSays, PTL

----------------------------------------------------------------------------
(* Intsets: the digits of an integer.                                      *)

\* A division leaves its remainder.
LEMMA Remainder ==
    ASSUME NEW n \in Int, n > 0, NEW a \in Int, NEW q, q = a \div n, NEW r, r = a % n
    PROVE  a = n * q + r
  OBVIOUS

\* The quotient and the remainder of a division.
LEMMA Division ==
    ASSUME NEW n \in Nat \ {0}, NEW a \in Int
    PROVE  \E q \in Int, r \in 0 .. n - 1 : q = a \div n /\ r = a % n /\ a = n * q + r
<1>1. a \div n \in Int /\ n \in Int /\ n > 0
  OBVIOUS
<1>2. a % n \in 0 .. n - 1
  OBVIOUS
<1>3. PICK q, r : q = a \div n /\ r = a % n
  OBVIOUS
<1>4. a = n * q + r
  BY <1>1, <1>3, Remainder
<1> QED
  BY <1>1, <1>2, <1>3, <1>4

\* They are the only ones of their kind.
LEMMA DivisionIsUnique ==
    ASSUME NEW n \in Nat \ {0}, NEW q \in Int, NEW r \in 0 .. n - 1
    PROVE  (n * q + r) % n = r /\ (n * q + r) \div n = q
<1>1. PICK a : a = n * q + r
  OBVIOUS
<1>2. a % n = r /\ a \div n = q
  BY <1>1
<1> QED
  BY <1>1, <1>2

\* The digit after the first ones.
LEMMA NextDigit ==
    ASSUME NEW b \in Nat \ {0}, NEW w \in Nat \ {0}, NEW u \in Nat
    PROVE  u % (b * w) = (u % w) + w * ((u \div w) % b) /\ b * w \in Nat \ {0}
<1>1. PICK q \in Int, r \in 0 .. w - 1 : q = u \div w /\ r = u % w /\ u = w * q + r
  BY Division
<1>2. PICK p \in Int, d \in 0 .. b - 1 : p = q \div b /\ d = q % b /\ q = b * p + d
  BY Division
<1>3. b * w \in Nat \ {0}
  OBVIOUS
<1>4. u = (b * w) * p + (w * d + r)
  <2>1. PICK c \in Int, e \in Int : c = b * p /\ e = (b * w) * p
    OBVIOUS
  <2>2. w * (b * p) = (b * w) * p
    OBVIOUS
  <2>3. w * (c + d) = w * c + w * d /\ w * d \in Int
    OBVIOUS
  <2>4. u = w * (c + d) + r
    BY <1>1, <1>2, <2>1
  <2>5. w * c = e
    BY <2>1, <2>2
  <2>6. u = e + w * d + r
    BY <2>3, <2>4, <2>5
  <2>7. u = e + (w * d + r)
    BY <2>3, <2>6
  <2> QED
    BY <2>1, <2>7
<1>5. w * d + r \in 0 .. b * w - 1
  <2>1. w * d \in Nat /\ w * d <= w * (b - 1)
    OBVIOUS
  <2>2. w * (b - 1) = b * w - w
    OBVIOUS
  <2> QED
    BY <1>3, <2>1, <2>2
<1>6. u % (b * w) = w * d + r
  BY <1>3, <1>4, <1>5, DivisionIsUnique
<1> QED
  BY <1>1, <1>2, <1>3, <1>6

\* The weights of the digits: the recursive definition has a solution.
LEMMA WeightSolves ==
    \E w : /\ w[0] = 1
           /\ \A k \in 1 .. ENC64 : w[k] = BASE * w[k - 1]
           /\ Weight = w
<1> DEFINE n == ENC64
           Val(f, k) == IF k = 0 THEN 1 ELSE BASE * f[k - 1]
           Good(f, m) == f = [k \in 0 .. m |-> Val(f, k)]
           P == {m \in 0 .. n : \E f : Good(f, m)}
<1>1. n \in Nat
  BY IntSetAssumption
<1>2. 0 \in P
  <2>1. Good([k \in 0 .. 0 |-> 1], 0)
    OBVIOUS
  <2>2. 0 \in 0 .. n
    BY <1>1
  <2> HIDE DEF Good, n
  <2> QED
    BY <2>1, <2>2
<1>3. ASSUME NEW m \in 1 .. n, m - 1 \in P PROVE m \in P
  <2>1. m \in Nat \ {0}
    BY <1>1
  <2>2. PICK f : Good(f, m - 1)
    BY <1>3
  <2> DEFINE g == [k \in 0 .. m |-> IF k = m THEN Val(f, m) ELSE f[k]]
  <2>3. ASSUME NEW k \in 0 .. m PROVE g[k] = Val(g, k)
    <3>1. CASE k = 0
      BY <2>1, <2>2, <3>1
    <3>2. CASE k # 0
      <4>1. k - 1 \in 0 .. m /\ k - 1 # m /\ g[k - 1] = f[k - 1]
        BY <2>1, <3>2
      <4>2. CASE k = m
        BY <3>2, <4>1, <4>2
      <4>3. CASE k # m
        <5>1. k \in 0 .. m - 1
          BY <2>1, <4>3
        <5>2. f[k] = Val(f, k)
          BY <2>2, <5>1
        <5> QED
          BY <3>2, <4>1, <4>3, <5>2
      <4> QED
        BY <4>2, <4>3
    <3> QED
      BY <3>1, <3>2
  <2>4. g = [k \in 0 .. m |-> g[k]]
    OBVIOUS
  <2> HIDE DEF Val, g
  <2>5. Good(g, m)
    BY <2>3, <2>4
  <2> HIDE DEF Good, n
  <2> QED
    BY <2>5
<1>4. n \in P
  <2> HIDE DEF P, n
  <2>1. \A k \in 0 .. n : k \in P
    BY <1>1, <1>2, <1>3, UpTo
  <2> QED
    BY <1>1, <2>1
<1> DEFINE w == CHOOSE f : Good(f, n)
<1>5. Weight = w
  BY DEF Weight
<1>6. Good(w, n)
  <2> HIDE DEF Good, n
  <2> QED
    BY <1>4
<1>7. w[0] = 1 /\ \A k \in 1 .. n : w[k] = BASE * w[k - 1]
  <2>1. \A k \in 0 .. n : w[k] = Val(w, k)
    <3> HIDE DEF Val, w
    <3> QED
      BY <1>6
  <2>2. 0 \in 0 .. n /\ \A k \in 1 .. n : k \in 0 .. n /\ k # 0
    BY <1>1
  <2> HIDE DEF w, n
  <2> QED
    BY <2>1, <2>2
<1> HIDE DEF w
<1> QED
  BY <1>5, <1>7

\* The value of some digits (memcpy): the recursive definition has a solution.
LEMMA UnsignedSolves ==
    ASSUME NEW mem, NEW ad, NEW enc \in Nat
    PROVE  \E w : /\ w[0] = 0
                  /\ \A k \in 1 .. enc : w[k] = w[k - 1] + Weight[k - 1] * mem[ad + k]
                  /\ Unsigned(mem, ad, enc) = w[enc]
<1> DEFINE n == enc
           Val(f, k) == IF k = 0 THEN 0 ELSE f[k - 1] + Weight[k - 1] * mem[ad + k]
           Good(f, m) == f = [k \in 0 .. m |-> Val(f, k)]
           P == {m \in 0 .. n : \E f : Good(f, m)}
<1>1. n \in Nat
  OBVIOUS
<1>2. 0 \in P
  <2>1. Good([k \in 0 .. 0 |-> 0], 0)
    OBVIOUS
  <2>2. 0 \in 0 .. n
    BY <1>1
  <2> HIDE DEF Good, n
  <2> QED
    BY <2>1, <2>2
<1>3. ASSUME NEW m \in 1 .. n, m - 1 \in P PROVE m \in P
  <2>1. m \in Nat \ {0}
    BY <1>1
  <2>2. PICK f : Good(f, m - 1)
    BY <1>3
  <2> DEFINE g == [k \in 0 .. m |-> IF k = m THEN Val(f, m) ELSE f[k]]
  <2>3. ASSUME NEW k \in 0 .. m PROVE g[k] = Val(g, k)
    <3>1. CASE k = 0
      BY <2>1, <2>2, <3>1
    <3>2. CASE k # 0
      <4>1. k - 1 \in 0 .. m /\ k - 1 # m /\ g[k - 1] = f[k - 1]
        BY <2>1, <3>2
      <4>2. CASE k = m
        BY <3>2, <4>1, <4>2
      <4>3. CASE k # m
        <5>1. k \in 0 .. m - 1
          BY <2>1, <4>3
        <5>2. f[k] = Val(f, k)
          BY <2>2, <5>1
        <5> QED
          BY <3>2, <4>1, <4>3, <5>2
      <4> QED
        BY <4>2, <4>3
    <3> QED
      BY <3>1, <3>2
  <2>4. g = [k \in 0 .. m |-> g[k]]
    OBVIOUS
  <2> HIDE DEF Val, g
  <2>5. Good(g, m)
    BY <2>3, <2>4
  <2> HIDE DEF Good, n
  <2> QED
    BY <2>5
<1>4. n \in P
  <2> HIDE DEF P, n
  <2>1. \A k \in 0 .. n : k \in P
    BY <1>1, <1>2, <1>3, UpTo
  <2> QED
    BY <1>1, <2>1
<1> DEFINE w == CHOOSE f : Good(f, n)
<1>5. Unsigned(mem, ad, enc) = w[n]
  BY DEF Unsigned
<1>6. Good(w, n)
  <2> HIDE DEF Good, n
  <2> QED
    BY <1>4
<1>7. w[0] = 0 /\ \A k \in 1 .. n : w[k] = w[k - 1] + Weight[k - 1] * mem[ad + k]
  <2>1. \A k \in 0 .. n : w[k] = Val(w, k)
    <3> HIDE DEF Val, w
    <3> QED
      BY <1>6
  <2>2. 0 \in 0 .. n /\ \A k \in 1 .. n : k \in 0 .. n /\ k # 0
    BY <1>1
  <2> HIDE DEF w, n
  <2> QED
    BY <2>1, <2>2
<1> HIDE DEF w
<1> QED
  BY <1>5, <1>7

\* The weights of the digits, and that they are positive.
LEMMA WeightIs ==
    /\ Weight[0] = 1 /\ \A i \in 1 .. ENC64 : Weight[i] = BASE * Weight[i - 1]
    /\ \A i \in 0 .. ENC64 : Weight[i] \in Nat \ {0}
    /\ \A i \in 1 .. ENC64 : Weight[i] >= 2
    /\ \A i, j \in 0 .. ENC64 : i <= j => Weight[i] <= Weight[j]
<1>1. /\ Weight[0] = 1
      /\ \A i \in 1 .. ENC64 : Weight[i] = BASE * Weight[i - 1]
  <2>1. PICK w : w[0] = 1 /\ (\A k \in 1 .. ENC64 : w[k] = BASE * w[k - 1]) /\ Weight = w
    BY WeightSolves
  <2> QED
    BY <2>1
<1>2. ENC64 \in Nat /\ BASE \in Nat \ {0, 1}
  BY IntSetAssumption
<1> DEFINE P == {i \in 0 .. ENC64 : Weight[i] \in Nat \ {0}}
<1>3. \A i \in 0 .. ENC64 : i \in P
  <2>1. 0 \in P
    BY <1>1, <1>2
  <2>2. ASSUME NEW i \in 1 .. ENC64, i - 1 \in P PROVE i \in P
    BY <1>1, <1>2, <2>2
  <2> HIDE DEF P
  <2> QED
    BY <1>2, <2>1, <2>2, UpTo
<1>4. \A i \in 0 .. ENC64 : Weight[i] \in Nat \ {0}
  BY <1>3
<1>5. ASSUME NEW i \in 1 .. ENC64 PROVE Weight[i] >= 2 /\ Weight[i - 1] <= Weight[i]
  <2>1. PICK w \in Nat \ {0} : w = Weight[i - 1]
    BY <1>2, <1>4
  <2>2. Weight[i] = BASE * w
    BY <1>1, <2>1
  <2>3. BASE * w >= 2 /\ BASE * w >= w
    BY <1>2
  <2> QED
    BY <2>1, <2>2, <2>3
<1>6. ASSUME NEW i \in 0 .. ENC64, NEW j \in 0 .. ENC64, i <= j PROVE Weight[i] <= Weight[j]
  <2> DEFINE Q == {k \in 0 .. j - i : Weight[i] <= Weight[i + k]}
  <2>1. j - i \in Nat /\ \A k \in 0 .. j - i : i + k \in 0 .. ENC64
    BY <1>2, <1>6
  <2>2. 0 \in Q
    BY <1>4, <2>1
  <2>3. ASSUME NEW k \in 1 .. j - i, k - 1 \in Q PROVE k \in Q
    <3>1. i + k \in 1 .. ENC64 /\ (i + k) - 1 = i + (k - 1) /\ i + (k - 1) \in 0 .. ENC64 /\ k \in 0 .. j - i
      BY <1>2, <2>1
    <3>2. Weight[i + (k - 1)] <= Weight[i + k]
      BY <1>5, <3>1
    <3>3. Weight[i] <= Weight[i + (k - 1)]
      BY <2>3
    <3> QED
      BY <1>4, <3>1, <3>2, <3>3
  <2>4. \A k \in 0 .. j - i : k \in Q
    <3> HIDE DEF Q
    <3> QED
      BY <2>1, <2>2, <2>3, UpTo
  <2>5. j - i \in 0 .. j - i /\ i + (j - i) = j
    BY <2>1
  <2> QED
    BY <2>4, <2>5
<1> QED
  BY <1>1, <1>4, <1>5, <1>6

\* Half of what some digits can tell.
LEMMA HalfIs ==
    ASSUME NEW e \in 1 .. ENC64
    PROVE  Half(e) \in Nat \ {0} /\ Half(e) + Half(e) <= Weight[e]
<1>1. PICK w : w = Weight[e] /\ w \in Nat /\ w >= 2
  BY WeightIs, IntSetAssumption
<1>2. w \div 2 \in Nat \ {0} /\ (w \div 2) + (w \div 2) <= w
  BY <1>1
<1> QED
  BY <1>1, <1>2 DEF Half

\* The digits of a number tell it.
LEMMA DigitsTell ==
    ASSUME NEW e \in 1 .. ENC64, NEW u \in 0 .. Weight[e] - 1, NEW mem, NEW ad,
           \A j \in 1 .. e : mem[ad + j] = (u \div Weight[j - 1]) % BASE
    PROVE  Unsigned(mem, ad, e) = u
<1>1. e \in Nat /\ ENC64 \in Nat /\ BASE \in Nat \ {0} /\ Weight[e] \in Nat \ {0} /\ u \in Nat
  BY WeightIs, IntSetAssumption
<1>2. PICK w : /\ w[0] = 0
               /\ \A k \in 1 .. e : w[k] = w[k - 1] + Weight[k - 1] * mem[ad + k]
               /\ Unsigned(mem, ad, e) = w[e]
  BY <1>1, UnsignedSolves
<1> DEFINE P == {k \in 0 .. e : w[k] = u % Weight[k]}
<1>3. 0 \in P
  BY <1>1, <1>2, WeightIs
<1>4. ASSUME NEW k \in 1 .. e, k - 1 \in P PROVE k \in P
  <2>1. k \in 1 .. ENC64 /\ k - 1 \in 0 .. ENC64 /\ k \in 0 .. e
    BY <1>1
  <2>2. PICK x \in Nat \ {0} : x = Weight[k - 1] /\ Weight[k] = BASE * x
    BY <2>1, WeightIs
  <2>3. w[k - 1] = u % x /\ mem[ad + k] = (u \div x) % BASE
    BY <1>4, <2>2
  <2>4. w[k] = (u % x) + x * ((u \div x) % BASE)
    BY <1>2, <2>2, <2>3
  <2>5. u % (BASE * x) = (u % x) + x * ((u \div x) % BASE)
    BY <1>1, NextDigit
  <2> QED
    BY <2>1, <2>2, <2>4, <2>5
<1>5. e \in P
  <2> HIDE DEF P
  <2>1. \A k \in 0 .. e : k \in P
    BY <1>1, <1>3, <1>4, UpTo
  <2> QED
    BY <1>1, <2>1
<1>6. u % Weight[e] = u
  BY <1>1
<1> QED
  BY <1>2, <1>5, <1>6

\* What was stored is loaded (_intsetSet, _intsetGetEncoded).
LEMMA LoadIs ==
    ASSUME NEW e \in 1 .. ENC64, NEW v \in Int, Fits(v, e), NEW mem, NEW ad, 
           \A j \in 1 .. e : mem[ad + j] = Digits(v, e)[j]
    PROVE  Load(mem, ad, e) = v
<1>1. PICK h \in Nat \ {0}, w \in Nat \ {0} : h = Half(e) /\ w = Weight[e] /\ h + h <= w
  BY HalfIs, WeightIs, IntSetAssumption
<1>2. v >= -h /\ v < h
  BY <1>1 DEF Fits
<1>3. PICK u : u = v % w
  OBVIOUS
<1>4. u \in 0 .. w - 1 /\ u = IF v >= 0 THEN v ELSE v + w
  <2>1. CASE v >= 0
    <3>1. v \in 0 .. w - 1
      BY <1>1, <1>2, <2>1
    <3>2. (w * 0 + v) % w = v
      BY <1>1, <3>1, DivisionIsUnique
    <3>3. w * 0 + v = v
      BY <1>1
    <3> QED
      BY <1>3, <2>1, <3>1, <3>2, <3>3
  <2>2. CASE v < 0
    <3>1. PICK r : r = v + w
      OBVIOUS
    <3>2. r \in 0 .. w - 1
      BY <1>1, <1>2, <2>2, <3>1
    <3>3. PICK q \in Int : q = -1
      OBVIOUS
    <3>4. (w * q + r) % w = r
      BY <1>1, <3>2, DivisionIsUnique
    <3>5. w * q + r = v
      BY <1>1, <3>1, <3>3
    <3> QED
      BY <1>3, <2>2, <3>1, <3>2, <3>4, <3>5
  <2> QED
    BY <2>1, <2>2
<1>5. \A j \in 1 .. e : mem[ad + j] = (u \div Weight[j - 1]) % BASE
  BY <1>1, <1>3 DEF Digits
<1>6. Unsigned(mem, ad, e) = u
  BY <1>1, <1>4, <1>5, DigitsTell
<1> QED
  BY <1>1, <1>2, <1>4, <1>6 DEF Load

\* The loop of the search: the recursive definition has a solution.
LEMMA BisectSolves ==
    ASSUME NEW is, NEW v, is.length \in Nat
    PROVE  \E w : /\ w[0] = [min |-> 0, max |-> is.length - 1, found |-> FALSE]
                  /\ \A k \in 1 .. is.length : w[k] = Halved(is, v, w[k - 1])
                  /\ Bisect(is, v) = [found |-> w[is.length].found,
                                       pos |-> IF w[is.length].found THEN (w[is.length].min + w[is.length].max) \div 2
                                               ELSE w[is.length].min]
<1> DEFINE n == is.length
           Val(f, k) == IF k = 0 THEN [min |-> 0, max |-> is.length - 1, found |-> FALSE] ELSE Halved(is, v, f[k - 1])
           Good(f, m) == f = [k \in 0 .. m |-> Val(f, k)]
           P == {m \in 0 .. n : \E f : Good(f, m)}
<1>1. n \in Nat
  OBVIOUS
<1>2. 0 \in P
  <2>1. Good([k \in 0 .. 0 |-> [min |-> 0, max |-> is.length - 1, found |-> FALSE]], 0)
    OBVIOUS
  <2>2. 0 \in 0 .. n
    BY <1>1
  <2> HIDE DEF Good, n
  <2> QED
    BY <2>1, <2>2
<1>3. ASSUME NEW m \in 1 .. n, m - 1 \in P PROVE m \in P
  <2>1. m \in Nat \ {0}
    BY <1>1
  <2>2. PICK f : Good(f, m - 1)
    BY <1>3
  <2> DEFINE g == [k \in 0 .. m |-> IF k = m THEN Val(f, m) ELSE f[k]]
  <2>3. ASSUME NEW k \in 0 .. m PROVE g[k] = Val(g, k)
    <3>1. CASE k = 0
      BY <2>1, <2>2, <3>1
    <3>2. CASE k # 0
      <4>1. k - 1 \in 0 .. m /\ k - 1 # m /\ g[k - 1] = f[k - 1]
        BY <2>1, <3>2
      <4>2. CASE k = m
        BY <3>2, <4>1, <4>2
      <4>3. CASE k # m
        <5>1. k \in 0 .. m - 1
          BY <2>1, <4>3
        <5>2. f[k] = Val(f, k)
          BY <2>2, <5>1
        <5> QED
          BY <3>2, <4>1, <4>3, <5>2
      <4> QED
        BY <4>2, <4>3
    <3> QED
      BY <3>1, <3>2
  <2>4. g = [k \in 0 .. m |-> g[k]]
    OBVIOUS
  <2> HIDE DEF Val, g
  <2>5. Good(g, m)
    BY <2>3, <2>4
  <2> HIDE DEF Good, n
  <2> QED
    BY <2>5
<1>4. n \in P
  <2> HIDE DEF P, n
  <2>1. \A k \in 0 .. n : k \in P
    BY <1>1, <1>2, <1>3, UpTo
  <2> QED
    BY <1>1, <2>1
<1> DEFINE w == CHOOSE f : Good(f, n)
<1>5. Bisect(is, v) = [found |-> w[n].found, pos |-> IF w[n].found THEN (w[n].min + w[n].max) \div 2 ELSE w[n].min]
  BY DEF Bisect
<1>6. Good(w, n)
  <2> HIDE DEF Good, n
  <2> QED
    BY <1>4
<1>7. w[0] = [min |-> 0, max |-> is.length - 1, found |-> FALSE] /\ \A k \in 1 .. n : w[k] = Halved(is, v, w[k - 1])
  <2>1. \A k \in 0 .. n : w[k] = Val(w, k)
    <3> HIDE DEF Val, w
    <3> QED
      BY <1>6
  <2>2. 0 \in 0 .. n /\ \A k \in 1 .. n : k \in 0 .. n /\ k # 0
    BY <1>1
  <2> HIDE DEF w, n
  <2> QED
    BY <2>1, <2>2
<1> HIDE DEF w
<1> QED
  BY <1>5, <1>7

(* What the members are widened with.                                      *)
WidenArgs(is, curenc, length, prepend) == length \in Nat

\* The loop that widens the members: the recursive definition has a solution.
LEMMA WidenSolves ==
    ASSUME NEW is, NEW curenc, NEW length, NEW prepend, WidenArgs(is, curenc, length, prepend)
    PROVE  \E w : /\ w[0] = is
                  /\ \A k \in 1 .. length : w[k] = Widened(w[k - 1], curenc, length - k, prepend)
                  /\ Widen(is, curenc, length, prepend) = w[length]
<1> DEFINE n == length
           Val(f, k) == IF k = 0 THEN is ELSE Widened(f[k - 1], curenc, length - k, prepend)
           Good(f, m) == f = [k \in 0 .. m |-> Val(f, k)]
           P == {m \in 0 .. n : \E f : Good(f, m)}
<1>1. n \in Nat
  BY DEF WidenArgs
<1>2. 0 \in P
  <2>1. Good([k \in 0 .. 0 |-> is], 0)
    OBVIOUS
  <2>2. 0 \in 0 .. n
    BY <1>1
  <2> HIDE DEF Good, n
  <2> QED
    BY <2>1, <2>2
<1>3. ASSUME NEW m \in 1 .. n, m - 1 \in P PROVE m \in P
  <2>1. m \in Nat \ {0}
    BY <1>1
  <2>2. PICK f : Good(f, m - 1)
    BY <1>3
  <2> DEFINE g == [k \in 0 .. m |-> IF k = m THEN Val(f, m) ELSE f[k]]
  <2>3. ASSUME NEW k \in 0 .. m PROVE g[k] = Val(g, k)
    <3>1. CASE k = 0
      BY <2>1, <2>2, <3>1
    <3>2. CASE k # 0
      <4>1. k - 1 \in 0 .. m /\ k - 1 # m /\ g[k - 1] = f[k - 1]
        BY <2>1, <3>2
      <4>2. CASE k = m
        BY <3>2, <4>1, <4>2
      <4>3. CASE k # m
        <5>1. k \in 0 .. m - 1
          BY <2>1, <4>3
        <5>2. f[k] = Val(f, k)
          BY <2>2, <5>1
        <5> QED
          BY <3>2, <4>1, <4>3, <5>2
      <4> QED
        BY <4>2, <4>3
    <3> QED
      BY <3>1, <3>2
  <2>4. g = [k \in 0 .. m |-> g[k]]
    OBVIOUS
  <2> HIDE DEF Val, g
  <2>5. Good(g, m)
    BY <2>3, <2>4
  <2> HIDE DEF Good, n
  <2> QED
    BY <2>5
<1>4. n \in P
  <2> HIDE DEF P, n
  <2>1. \A k \in 0 .. n : k \in P
    BY <1>1, <1>2, <1>3, UpTo
  <2> QED
    BY <1>1, <2>1
<1> DEFINE w == CHOOSE f : Good(f, n)
<1>5. Widen(is, curenc, length, prepend) = w[n]
  BY DEF Widen
<1>6. Good(w, n)
  <2> HIDE DEF Good, n
  <2> QED
    BY <1>4
<1>7. w[0] = is /\ \A k \in 1 .. n : w[k] = Widened(w[k - 1], curenc, length - k, prepend)
  <2>1. \A k \in 0 .. n : w[k] = Val(w, k)
    <3> HIDE DEF Val, w
    <3> QED
      BY <1>6
  <2>2. 0 \in 0 .. n /\ \A k \in 1 .. n : k \in 0 .. n /\ k # 0
    BY <1>1
  <2> HIDE DEF w, n
  <2> QED
    BY <2>1, <2>2
<1> HIDE DEF w
<1> QED
  BY <1>5, <1>7


-----------------------------------------------------------------------------
(* Intsets: the cells of the memory.                                       *)
IntsetEncodings == {ENC16, ENC32, ENC64}

(* The memory holds a value after the place at.                            *)
Cell(mem, ad, e, v) == \A j \in 1 .. e : mem[ad + j] = Digits(v, e)[j]

\* The encodings are widths, and an integer of the widest one is known.
LEMMA EncodingIs ==
    /\ ENC16 \in 1 .. ENC64 /\ ENC32 \in 1 .. ENC64 /\ ENC64 \in 1 .. ENC64 /\ ENC16 < ENC32 /\ ENC32 < ENC64
    /\ IntsetEncodings \subseteq 1 .. ENC64 /\ ENC64 \in Nat
    /\ \A v \in Int64 : v \in Int /\ Fits(v, ENC64)
  BY IntSetAssumption DEF IntsetEncodings

(* Where the member i is in the memory.                                    *)
Place(i, e) == i * e

\* Places in an array do not overlap (_intsetGet, _intsetSet).
LEMMA PlaceOrder ==
    ASSUME NEW p \in Nat, NEW q \in Nat, NEW e \in Nat
    PROVE  /\ Place(p, e) \in Nat /\ Place(q, e) \in Nat /\ Place(p + 1, e) = Place(p, e) + e
           /\ p < q => Place(p, e) + e <= Place(q, e)
           /\ p <= q => Place(p, e) <= Place(q, e)
<1>1. p * e \in Nat /\ q * e \in Nat /\ (p + 1) * e = p * e + e
  OBVIOUS
<1>2. ASSUME p < q PROVE p * e + e <= q * e
  <2>1. PICK d \in Nat : q = p + 1 + d
    <3>1. q - p - 1 \in Nat /\ q = p + 1 + (q - p - 1)
      BY <1>2
    <3> QED
      BY <3>1
  <2>2. (p + 1 + d) * e = p * e + e + d * e /\ d * e \in Nat
    OBVIOUS
  <2> QED
    BY <1>1, <2>1, <2>2
<1> QED
  BY <1>1, <1>2 DEF Place

\* Places of members that a move shifts (intsetMoveTail).
LEMMA PlaceShift ==
    ASSUME NEW i \in Int, NEW from \in Int, NEW to \in Int, NEW e \in Nat
    PROVE  /\ Place(i - to + from, e) = Place(i, e) - Place(to, e) + Place(from, e)
           /\ Place(i - from, e) = Place(i, e) - Place(from, e)
<1>1. (i - to + from) * e = i * e - to * e + from * e
  OBVIOUS
<1>2. (i - from) * e = i * e - from * e
  OBVIOUS
<1> QED
  BY <1>1, <1>2 DEF Place

\* Wider places begin later.
LEMMA WiderPlace ==
    ASSUME NEW p \in Nat, NEW e \in Nat, NEW f \in Nat, e <= f
    PROVE  Place(p, e) <= Place(p, f)
<1>1. PICK d \in Nat : f = e + d
  <2>1. f - e \in Nat /\ f = e + (f - e)
    OBVIOUS
  <2> QED
    BY <2>1
<1>2. p * (e + d) = p * e + p * d /\ p * d \in Nat /\ p * e \in Nat
  OBVIOUS
<1> QED
  BY <1>1, <1>2 DEF Place

\* The digits of an integer.
LEMMA DigitsType ==
    ASSUME NEW e \in 1 .. ENC64, NEW v \in Int
    PROVE  DOMAIN Digits(v, e) = 1 .. e /\ \A j \in 1 .. e : Digits(v, e)[j] \in Int
<1>1. Weight[e] \in Nat \ {0} /\ BASE \in Nat \ {0} /\ e \in Nat
  BY WeightIs, IntSetAssumption
<1>2. ASSUME NEW j \in 1 .. e PROVE Digits(v, e)[j] \in Int
  <2>1. Weight[j - 1] \in Nat \ {0}
    <3>1. j - 1 \in 0 .. ENC64
      BY IntSetAssumption
    <3> QED
      BY <3>1, WeightIs
  <2>2. PICK x \in Nat \ {0}, w \in Nat \ {0} : x = Weight[j - 1] /\ w = Weight[e]
    BY <1>1, <2>1
  <2>3. PICK r \in Int : r = v % w
    OBVIOUS
  <2>4. PICK q \in Int : q = r \div x
    OBVIOUS
  <2>5. q % BASE \in Int
    BY <1>1
  <2>6. Digits(v, e)[j] = q % BASE
    BY <2>2, <2>3, <2>4 DEF Digits
  <2> QED
    BY <2>5, <2>6
<1> QED
  BY <1>2 DEF Digits

(* The memory after a value was stored.                                    *)
Stored(mem, ad, e, v) == Store(mem, ad, Digits(v, e))

\* What a store writes and what it keeps (_intsetSet).
LEMMA StoreIs ==
    ASSUME NEW e \in 1 .. ENC64, NEW len \in Nat, NEW mem \in [1 .. len -> Int], NEW ad \in Nat, ad + e <= len,
           NEW v \in Int
    PROVE  /\ Stored(mem, ad, e, v) \in [1 .. len -> Int]
           /\ Cell(Stored(mem, ad, e, v), ad, e, v)
           /\ \A k \in 1 .. len : k <= ad \/ k > ad + e => Stored(mem, ad, e, v)[k] = mem[k]
<1> DEFINE x == Stored(mem, ad, e, v)
<1>1. PICK d : d = Digits(v, e) /\ DOMAIN d = 1 .. e /\ \A j \in 1 .. e : d[j] \in Int
  BY DigitsType
<1>2. x = [i \in 1 .. len |-> IF i - ad \in 1 .. e THEN d[i - ad] ELSE mem[i]]
  BY <1>1 DEF Store, Stored
<1>3. ASSUME NEW k \in 1 .. len, k <= ad \/ k > ad + e PROVE x[k] = mem[k]
  BY <1>2, <1>3, IntSetAssumption
<1>4. ASSUME NEW j \in 1 .. e PROVE x[ad + j] = d[j]
  <2>1. ad + j \in 1 .. len /\ (ad + j) - ad = j
    BY IntSetAssumption
  <2> QED
    BY <1>2, <2>1
<1>5. x \in [1 .. len -> Int]
  BY <1>1, <1>2
<1> HIDE DEF x
<1>6. x \in [1 .. len -> Int] /\ Cell(x, ad, e, v) /\ \A k \in 1 .. len : k <= ad \/ k > ad + e => x[k] = mem[k]
  BY <1>1, <1>3, <1>4, <1>5 DEF Cell
<1> USE DEF x
<1> QED
  BY <1>6

\* A value that is copied is the same at the other place (memmove, _intsetGetEncoded).
LEMMA CellCopied ==
    ASSUME NEW e, NEW v, NEW mem, NEW x, NEW ad, NEW from,
           \A j \in 1 .. e : x[ad + j] = mem[from + j], Cell(mem, from, e, v)
    PROVE  Cell(x, ad, e, v)
  BY DEF Cell

\* A place that is not written keeps its value.
LEMMA CellKept ==
    ASSUME NEW e \in Nat, NEW v, NEW mem, NEW x, NEW ad \in Nat, NEW len \in Nat, ad + e <= len,
           \A k \in 1 .. len : ad < k /\ k <= ad + e => x[k] = mem[k], Cell(mem, ad, e, v)
    PROVE  Cell(x, ad, e, v)
<1>1. ASSUME NEW j \in 1 .. e PROVE x[ad + j] = mem[ad + j]
  <2>1. ad + j \in 1 .. len /\ ad < ad + j /\ ad + j <= ad + e
    OBVIOUS
  <2> QED
    BY <2>1
<1> QED
  BY <1>1, CellCopied

\* What a cell holds is what is read (_intsetGetEncoded).
LEMMA CellIsRead ==
    ASSUME NEW is, NEW e \in 1 .. ENC64, NEW idx, NEW v \in Int, Fits(v, e), Cell(is.mem, Place(idx, e), e, v)
    PROVE  intsetGetEncoded(is, idx, e) = v
<1>1. PICK mem, ad : mem = is.mem /\ ad = Place(idx, e)
  OBVIOUS
<1>2. Load(mem, ad, e) = v
  BY <1>1, LoadIs DEF Cell
<1> QED
  BY <1>1, <1>2 DEF intsetGetEncoded, Place

\* A narrower encoding tells less.
LEMMA FitsWider ==
    ASSUME NEW e \in 1 .. ENC64, NEW f \in 1 .. ENC64, e <= f, NEW v \in Int, Fits(v, e)
    PROVE  Fits(v, f)
<1>1. PICK x \in Nat \ {0}, y \in Nat \ {0} : x = Weight[e] /\ y = Weight[f] /\ x <= y
  BY WeightIs, IntSetAssumption
<1>2. x \div 2 <= y \div 2 /\ x \div 2 \in Int /\ y \div 2 \in Int
  BY <1>1
<1> QED
  BY <1>1, <1>2 DEF Fits, Half

\* The encoding of a value is the narrowest that tells it (_intsetValueEncoding).
LEMMA ValueEncodingIs ==
    ASSUME NEW v \in Int64
    PROVE  /\ intsetValueEncoding(v) \in IntsetEncodings
           /\ Fits(v, intsetValueEncoding(v))
           /\ \A e \in IntsetEncodings : Fits(v, e) <=> intsetValueEncoding(v) <= e
<1>1. v \in Int /\ Fits(v, ENC64)
  BY EncodingIs
<1>2. Fits(v, ENC16) => Fits(v, ENC32)
  BY <1>1, EncodingIs, FitsWider
<1>3. PICK e16, e32, e64 : e16 = ENC16 /\ e32 = ENC32 /\ e64 = ENC64 /\ e16 \in Int /\ e32 \in Int /\ e64 \in Int
                           /\ e16 < e32 /\ e32 < e64
  BY EncodingIs
<1>4. CASE ~Fits(v, ENC32)
  <2>1. intsetValueEncoding(v) = ENC64
    BY <1>4 DEF intsetValueEncoding
  <2> QED
    BY <1>1, <1>2, <1>3, <1>4, <2>1 DEF IntsetEncodings
<1>5. CASE Fits(v, ENC32) /\ ~Fits(v, ENC16)
  <2>1. intsetValueEncoding(v) = ENC32
    BY <1>5 DEF intsetValueEncoding
  <2> QED
    BY <1>1, <1>2, <1>3, <1>5, <2>1 DEF IntsetEncodings
<1>6. CASE Fits(v, ENC16)
  <2>1. intsetValueEncoding(v) = ENC16
    BY <1>2, <1>6 DEF intsetValueEncoding
  <2> QED
    BY <1>1, <1>2, <1>3, <1>6, <2>1 DEF IntsetEncodings
<1> QED
  BY <1>4, <1>5, <1>6

(* A set of n integers in the encoding e, in the order g.                  *)
IntsetArray(is, e, n, m, g) ==
    /\ is = [enc |-> e, length |-> n, mem |-> m]
    /\ e \in IntsetEncodings /\ n \in Nat /\ m \in [1 .. Place(n, e) -> Int]
    /\ g \in [0 .. n - 1 -> Int64]
    /\ \A i \in 0 .. n - 1 : Fits(g[i], e) /\ Cell(m, Place(i, e), e, g[i])
    /\ \A i, k \in 0 .. n - 1 : i < k => g[i] < g[k]

(* What the search returns of an array.                                    *)
SearchResult(s, n, g, v) ==
    /\ s.found \in BOOLEAN /\ s.pos \in 0 .. n
    /\ s.found => s.pos < n /\ g[s.pos] = v
    /\ ~s.found => \A i \in 0 .. n - 1 : (i < s.pos => g[i] < v) /\ (i >= s.pos => v < g[i])

(* Where the search is after k steps.                                      *)
SearchState(b, k, n, g, v) ==
    /\ b \in [min : 0 .. n, max : -1 .. n - 1, found : BOOLEAN]
    /\ b.found => b.min <= b.max /\ g[(b.min + b.max) \div 2] = v
    /\ ~b.found => /\ b.max - b.min + 1 <= n - k /\ b.min <= b.max + 1
                   /\ \A i \in 0 .. n - 1 : (i < b.min => g[i] < v) /\ (i > b.max => v < g[i])

\* A member of the array is read at its position (_intsetGet).
LEMMA ArrayIsRead ==
    ASSUME NEW is, NEW e, NEW n, NEW m, NEW g, IntsetArray(is, e, n, m, g), NEW i \in 0 .. n - 1
    PROVE  intsetGet(is, i) = g[i] /\ intsetGetEncoded(is, i, e) = g[i] /\ g[i] \in Int /\ g[i] \in Int64
<1>1. is.enc = e /\ is.mem = m /\ e \in 1 .. ENC64 /\ g[i] \in Int64 /\ Fits(g[i], e) /\ Cell(m, Place(i, e), e, g[i])
  BY EncodingIs DEF IntsetArray
<1>2. g[i] \in Int
  BY <1>1, EncodingIs
<1>3. intsetGetEncoded(is, i, e) = g[i]
  BY <1>1, <1>2, CellIsRead
<1> QED
  BY <1>1, <1>2, <1>3 DEF intsetGet

\* A search that has got somewhere.
LEMMA SearchStateIs ==
    ASSUME NEW k, NEW n, NEW g, NEW v, NEW lo \in 0 .. n, NEW hi \in -1 .. n - 1, NEW fnd \in BOOLEAN,
           fnd => lo <= hi /\ g[(lo + hi) \div 2] = v,
           ~fnd => /\ hi - lo + 1 <= n - k /\ lo <= hi + 1
                   /\ \A i \in 0 .. n - 1 : (i < lo => g[i] < v) /\ (i > hi => v < g[i])
    PROVE  SearchState([min |-> lo, max |-> hi, found |-> fnd], k, n, g, v)
<1>1. PICK b : b = [min |-> lo, max |-> hi, found |-> fnd]
  OBVIOUS
<1>2. b.min = lo /\ b.max = hi /\ b.found = fnd /\ b \in [min : 0 .. n, max : -1 .. n - 1, found : BOOLEAN]
  BY <1>1
<1>3. SearchState(b, k, n, g, v)
  BY <1>2 DEF SearchState
<1> QED
  BY <1>1, <1>3

\* One step of the search (the loop of intsetSearch).
LEMMA HalvedIs ==
    ASSUME NEW is, NEW e, NEW n, NEW m, NEW g, IntsetArray(is, e, n, m, g), NEW v \in Int,
           NEW k \in 1 .. n, NEW b, SearchState(b, k - 1, n, g, v)
    PROVE  SearchState(Halved(is, v, b), k, n, g, v)
<1>1. PICK lo, hi, fnd : /\ b = [min |-> lo, max |-> hi, found |-> fnd] /\ lo = b.min /\ hi = b.max /\ fnd = b.found
                         /\ lo \in 0 .. n /\ hi \in -1 .. n - 1 /\ fnd \in BOOLEAN
  BY DEF SearchState
<1>2. n \in Nat /\ \A i \in 0 .. n - 1 : intsetGet(is, i) = g[i] /\ g[i] \in Int
  BY ArrayIsRead DEF IntsetArray
<1>3. \A i, j \in 0 .. n - 1 : i < j => g[i] < g[j]
  BY DEF IntsetArray
<1>4. CASE fnd \/ hi < lo
  <2>1. Halved(is, v, b) = b
    BY <1>1, <1>4 DEF Halved
  <2>2. b.found => b.min <= b.max /\ g[(b.min + b.max) \div 2] = v
    BY DEF SearchState
  <2>3. ~b.found => /\ b.max - b.min + 1 <= n - k /\ b.min <= b.max + 1
                    /\ \A i \in 0 .. n - 1 : (i < b.min => g[i] < v) /\ (i > b.max => v < g[i])
    BY <1>1, <1>2, <1>4 DEF SearchState
  <2> QED
    BY <1>1, <2>1, <2>2, <2>3 DEF SearchState
<1>5. CASE fnd = FALSE /\ lo <= hi
  <2>1. PICK mid : mid = (lo + hi) \div 2
    OBVIOUS
  <2>2. mid \in 0 .. n - 1 /\ lo <= mid /\ mid <= hi
    BY <1>1, <1>2, <1>5, <2>1
  <2>3. PICK cur \in Int : cur = g[mid] /\ intsetGet(is, mid) = cur
    BY <1>2, <2>2
  <2>4. hi - lo + 1 <= n - (k - 1) /\ \A i \in 0 .. n - 1 : (i < lo => g[i] < v) /\ (i > hi => v < g[i])
    BY <1>1, <1>5 DEF SearchState
  <2>5. \A i \in 0 .. n - 1 : g[i] \in Int /\ (i < mid => g[i] < cur) /\ (i > mid => cur < g[i])
    BY <1>2, <1>3, <2>2, <2>3
  <2>6. Halved(is, v, b) = IF v > cur THEN [b EXCEPT !.min = mid + 1]
                           ELSE IF v < cur THEN [b EXCEPT !.max = mid - 1] ELSE [b EXCEPT !.found = TRUE]
    BY <1>1, <1>5, <2>1, <2>3 DEF Halved
  <2>7. CASE v > cur
    <3>1. Halved(is, v, b) = [min |-> mid + 1, max |-> hi, found |-> FALSE]
      BY <1>1, <1>5, <2>6, <2>7
    <3>2. mid + 1 \in 0 .. n /\ hi - (mid + 1) + 1 <= n - k /\ mid + 1 <= hi + 1
      BY <1>1, <1>2, <2>2, <2>4
    <3>3. \A i \in 0 .. n - 1 : (i < mid + 1 => g[i] < v) /\ (i > hi => v < g[i])
      BY <1>2, <2>2, <2>3, <2>4, <2>5, <2>7
    <3> QED
      BY <1>1, <3>1, <3>2, <3>3, SearchStateIs
  <2>8. CASE v < cur
    <3>1. Halved(is, v, b) = [min |-> lo, max |-> mid - 1, found |-> FALSE]
      <4>1. ~(v > cur)
        BY <2>3, <2>8
      <4>2. Halved(is, v, b) = [b EXCEPT !.max = mid - 1]
        BY <2>6, <2>8, <4>1
      <4> QED
        BY <1>1, <1>5, <4>2
    <3>2. mid - 1 \in -1 .. n - 1 /\ (mid - 1) - lo + 1 <= n - k /\ lo <= (mid - 1) + 1
      BY <1>1, <1>2, <2>2, <2>4
    <3>3. \A i \in 0 .. n - 1 : (i < lo => g[i] < v) /\ (i > mid - 1 => v < g[i])
      BY <1>2, <2>2, <2>3, <2>4, <2>5, <2>8
    <3> QED
      BY <1>1, <3>1, <3>2, <3>3, SearchStateIs
  <2>9. CASE v = cur
    <3>1. Halved(is, v, b) = [min |-> lo, max |-> hi, found |-> TRUE]
      <4>1. ~(v > cur) /\ ~(v < cur)
        BY <2>3, <2>9
      <4>2. Halved(is, v, b) = [b EXCEPT !.found = TRUE]
        BY <2>6, <4>1
      <4> QED
        BY <1>1, <1>5, <4>2
    <3>2. lo <= hi /\ g[(lo + hi) \div 2] = v
      BY <1>5, <2>1, <2>3, <2>9
    <3> QED
      BY <1>1, <3>1, <3>2, SearchStateIs
  <2>10. v > cur \/ v < cur \/ v = cur
    BY <2>3
  <2> QED
    BY <2>7, <2>8, <2>9, <2>10
<1> QED
  <2>1. fnd = FALSE \/ fnd = TRUE
    BY <1>1
  <2>2. hi < lo \/ lo <= hi
    BY <1>1, <1>2
  <2> QED
    BY <1>4, <1>5, <2>1, <2>2

\* The whole search (intsetSearch).
LEMMA BisectIs ==
    ASSUME NEW is, NEW e, NEW n, NEW m, NEW g, IntsetArray(is, e, n, m, g), n > 0, NEW v \in Int
    PROVE  SearchResult(Bisect(is, v), n, g, v)
<1>1. n \in Nat /\ is.length = n
  BY DEF IntsetArray
<1>2. PICK w : /\ w[0] = [min |-> 0, max |-> n - 1, found |-> FALSE]
               /\ \A k \in 1 .. n : w[k] = Halved(is, v, w[k - 1])
               /\ Bisect(is, v) = [found |-> w[n].found,
                                   pos |-> IF w[n].found THEN (w[n].min + w[n].max) \div 2 ELSE w[n].min]
  BY <1>1, BisectSolves
<1> DEFINE P == {k \in 0 .. n : SearchState(w[k], k, n, g, v)}
<1>3. 0 \in P
  <2>1. 0 \in 0 .. n /\ n - 1 \in -1 .. n - 1 /\ (n - 1) - 0 + 1 <= n - 0 /\ 0 <= (n - 1) + 1
    BY <1>1
  <2>2. \A i \in 0 .. n - 1 : (i < 0 => g[i] < v) /\ (i > n - 1 => v < g[i])
    BY <1>1
  <2>3. SearchState(w[0], 0, n, g, v)
    BY <1>2, <2>1, <2>2, SearchStateIs
  <2> QED
    BY <2>1, <2>3
<1>4. ASSUME NEW k \in 1 .. n, k - 1 \in P PROVE k \in P
  <2>1. SearchState(Halved(is, v, w[k - 1]), k, n, g, v)
    BY <1>4, HalvedIs
  <2> QED
    BY <1>1, <1>2, <2>1
<1>5. n \in P
  <2> HIDE DEF P
  <2>1. \A k \in 0 .. n : k \in P
    BY <1>1, <1>3, <1>4, UpTo
  <2> QED
    BY <1>1, <2>1
<1>6. PICK b : b = w[n] /\ SearchState(b, n, n, g, v)
  BY <1>5
<1>7. PICK lo, hi, fnd : /\ lo = b.min /\ hi = b.max /\ fnd = b.found
                         /\ lo \in 0 .. n /\ hi \in -1 .. n - 1 /\ fnd \in BOOLEAN
  BY <1>6 DEF SearchState
<1>8. CASE fnd
  <2>1. lo <= hi /\ g[(lo + hi) \div 2] = v
    BY <1>6, <1>7, <1>8 DEF SearchState
  <2>2. PICK mid : mid = (lo + hi) \div 2 /\ mid \in 0 .. n - 1 /\ g[mid] = v
    <3>1. (lo + hi) \div 2 \in 0 .. n - 1
      BY <1>1, <1>7, <2>1
    <3> QED
      BY <2>1, <3>1
  <2>3. Bisect(is, v) = [found |-> TRUE, pos |-> mid]
    BY <1>2, <1>6, <1>7, <1>8, <2>2
  <2> QED
    BY <1>1, <2>2, <2>3 DEF SearchResult
<1>9. CASE fnd = FALSE
  <2>1. hi - lo + 1 <= n - n /\ \A i \in 0 .. n - 1 : (i < lo => g[i] < v) /\ (i > hi => v < g[i])
    BY <1>6, <1>7, <1>9 DEF SearchState
  <2>2. \A i \in 0 .. n - 1 : i >= lo => i > hi
    BY <1>1, <1>7, <2>1
  <2>3. Bisect(is, v) = [found |-> FALSE, pos |-> lo]
    BY <1>2, <1>6, <1>7, <1>9
  <2> QED
    BY <1>7, <2>1, <2>2, <2>3 DEF SearchResult
<1> QED
  BY <1>7, <1>8, <1>9

\* The search finds a member, or tells where it belongs (intsetSearch).
LEMMA SearchIs ==
    ASSUME NEW is, NEW e, NEW n, NEW m, NEW g, IntsetArray(is, e, n, m, g), NEW v \in Int
    PROVE  SearchResult(intsetSearch(is, v), n, g, v)
<1>1. n \in Nat /\ is.length = n
  BY DEF IntsetArray
<1>2. CASE n = 0
  BY <1>1, <1>2 DEF intsetSearch, SearchResult
<1>3. CASE n > 0
  <2>1. \A i \in 0 .. n - 1 : intsetGet(is, i) = g[i] /\ g[i] \in Int
    BY ArrayIsRead
  <2>2. \A i, k \in 0 .. n - 1 : i < k => g[i] < g[k]
    BY DEF IntsetArray
  <2>3. 0 \in 0 .. n - 1 /\ n - 1 \in 0 .. n - 1
    BY <1>1, <1>3
  <2>4. CASE v > intsetGet(is, n - 1)
    <3>1. intsetSearch(is, v) = [found |-> FALSE, pos |-> n]
      BY <1>1, <1>3, <2>4 DEF intsetSearch
    <3>2. ASSUME NEW i \in 0 .. n - 1 PROVE g[i] < v /\ ~(i >= n)
      <4>1. i = n - 1 \/ i < n - 1
        BY <1>1
      <4>2. g[i] <= g[n - 1] /\ g[n - 1] < v
        BY <2>1, <2>2, <2>3, <2>4, <4>1
      <4> QED
        BY <1>1, <2>1, <2>3, <4>2
    <3> QED
      BY <1>1, <3>1, <3>2 DEF SearchResult
  <2>5. CASE ~(v > intsetGet(is, n - 1)) /\ v < intsetGet(is, 0)
    <3>1. intsetSearch(is, v) = [found |-> FALSE, pos |-> 0]
      BY <1>1, <1>3, <2>5 DEF intsetSearch
    <3>2. ASSUME NEW i \in 0 .. n - 1 PROVE v < g[i] /\ ~(i < 0)
      <4>1. i = 0 \/ 0 < i
        BY <1>1
      <4>2. g[0] <= g[i] /\ v < g[0]
        BY <2>1, <2>2, <2>3, <2>5, <4>1
      <4> QED
        BY <1>1, <2>1, <2>3, <4>2
    <3> QED
      BY <1>1, <3>1, <3>2 DEF SearchResult
  <2>6. CASE ~(v > intsetGet(is, n - 1)) /\ ~(v < intsetGet(is, 0))
    <3>1. intsetSearch(is, v) = Bisect(is, v)
      BY <1>1, <1>3, <2>6 DEF intsetSearch
    <3> QED
      BY <1>3, <3>1, BisectIs
  <2> QED
    BY <2>4, <2>5, <2>6
<1> QED
  BY <1>1, <1>2, <1>3

(* The members of an array, and the array with one more.                   *)
Members(g, n) == {g[i] : i \in 0 .. n - 1}
Inserted(g, n, idx, v) == [i \in 0 .. n |-> IF i < idx THEN g[i] ELSE IF i = idx THEN v ELSE g[i - 1]]

(* The value v belongs at pos.                                             *)
BelongsAt(g, n, idx, v) ==
    /\ n \in Nat /\ g \in [0 .. n - 1 -> Int64] /\ idx \in 0 .. n /\ v \in Int64
    /\ \A i, k \in 0 .. n - 1 : i < k => g[i] < g[k]
    /\ \A i \in 0 .. n - 1 : (i < idx => g[i] < v) /\ (i >= idx => v < g[i])

\* A member that is put where the search said keeps the order.
LEMMA InsertedIs ==
    ASSUME NEW n, NEW g, NEW idx, NEW v, BelongsAt(g, n, idx, v)
    PROVE  \E h : /\ h = Inserted(g, n, idx, v)
                  /\ h \in [0 .. (n + 1) - 1 -> Int64]
                  /\ \A i, k \in 0 .. n : i < k => h[i] < h[k]
                  /\ Members(h, n + 1) = Members(g, n) \cup {v}
<1> /\ n \in Nat /\ g \in [0 .. n - 1 -> Int64] /\ idx \in 0 .. n /\ v \in Int64
    /\ \A i, k \in 0 .. n - 1 : i < k => g[i] < g[k]
    /\ \A i \in 0 .. n - 1 : (i < idx => g[i] < v) /\ (i >= idx => v < g[i])
  BY DEF BelongsAt
<1>0. PICK h : h = Inserted(g, n, idx, v)
  OBVIOUS
<1>1. v \in Int /\ \A i \in 0 .. n - 1 : g[i] \in Int /\ g[i] \in Int64
  BY EncodingIs
<1>2. \A i \in 0 .. n : h[i] = IF i < idx THEN g[i] ELSE IF i = idx THEN v ELSE g[i - 1]
  BY <1>0 DEF Inserted
<1>3. (n + 1) - 1 = n /\ \A i \in 0 .. n : (i < idx => i \in 0 .. n - 1) /\ (i > idx => i - 1 \in 0 .. n - 1)
  OBVIOUS
<1>4. ASSUME NEW i \in 0 .. n PROVE h[i] \in Int64
  BY <1>1, <1>2, <1>3
<1>5. h \in [0 .. (n + 1) - 1 -> Int64]
  BY <1>0, <1>3, <1>4 DEF Inserted
<1>6. ASSUME NEW i \in 0 .. n, NEW k \in 0 .. n, i < k PROVE h[i] < h[k]
  <2>1. CASE k < idx
    <3>1. h[i] = g[i] /\ h[k] = g[k] /\ i \in 0 .. n - 1 /\ k \in 0 .. n - 1
      BY <1>2, <1>6, <2>1
    <3> QED
      BY <1>6, <3>1
  <2>2. CASE k = idx
    <3>1. h[i] = g[i] /\ h[k] = v /\ i \in 0 .. n - 1 /\ i < idx
      BY <1>2, <1>6, <2>2
    <3> QED
      BY <3>1
  <2>3. CASE k > idx
    <3>1. h[k] = g[k - 1] /\ k - 1 \in 0 .. n - 1 /\ k - 1 >= idx /\ v < g[k - 1]
      BY <1>2, <2>3
    <3>2. CASE i < idx
      <4>1. h[i] = g[i] /\ i \in 0 .. n - 1 /\ g[i] < v
        BY <1>2, <3>2
      <4> QED
        BY <1>1, <3>1, <4>1
    <3>3. CASE i = idx
      BY <1>2, <3>1, <3>3
    <3>4. CASE i > idx
      <4>1. h[i] = g[i - 1] /\ i - 1 \in 0 .. n - 1 /\ i - 1 < k - 1
        BY <1>2, <1>6, <3>4
      <4> QED
        BY <3>1, <4>1
    <3> QED
      BY <3>2, <3>3, <3>4
  <2> QED
    BY <2>1, <2>2, <2>3
<1>7. Members(h, n + 1) \subseteq Members(g, n) \cup {v}
  <2>1. ASSUME NEW i \in 0 .. n PROVE h[i] \in Members(g, n) \cup {v}
    BY <1>2, <1>3 DEF Members
  <2> QED
    BY <1>3, <2>1 DEF Members
<1>8. Members(g, n) \cup {v} \subseteq Members(h, n + 1)
  <2>1. v \in Members(h, n + 1)
    <3>1. h[idx] = v
      BY <1>2
    <3> QED
      BY <1>3, <3>1 DEF Members
  <2>2. ASSUME NEW i \in 0 .. n - 1 PROVE g[i] \in Members(h, n + 1)
    <3>1. CASE i < idx
      <4>1. i \in 0 .. n /\ h[i] = g[i]
        BY <1>2, <3>1
      <4> QED
        BY <1>3, <4>1 DEF Members
    <3>2. CASE ~(i < idx)
      <4>1. i + 1 \in 0 .. n /\ (i + 1) - 1 = i /\ ~(i + 1 < idx) /\ i + 1 # idx
        BY <3>2
      <4>2. h[i + 1] = g[i]
        BY <1>2, <4>1
      <4> QED
        BY <1>3, <4>1, <4>2 DEF Members
    <3> QED
      BY <3>1, <3>2
  <2> QED
    BY <2>1, <2>2 DEF Members
<1> QED
  BY <1>0, <1>5, <1>6, <1>7, <1>8

\* The memory that a resize keeps (intsetResize).
LEMMA ReallocIs ==
    ASSUME NEW len \in Nat, NEW span \in Nat, NEW mem \in [1 .. len -> Int], NEW x, x = Realloc(mem, span)
    PROVE  x \in [1 .. span -> Int] /\ \A k \in 1 .. len : k <= span => x[k] = mem[k]
<1>1. x = [i \in 1 .. span |-> IF i \in 1 .. len THEN mem[i] ELSE 0]
  BY DEF Realloc
<1>2. \A k \in 1 .. len : k <= span => k \in 1 .. span
  OBVIOUS
<1> QED
  BY <1>1, <1>2

\* The cells that a move keeps and those that it moves (intsetMoveTail).
LEMMA MoveIs ==
    ASSUME NEW len \in Nat, NEW mem \in [1 .. len -> Int], NEW dst \in Nat, NEW src \in Nat, NEW n \in Nat, src + n <= len
    PROVE  /\ Memmove(mem, dst, src, n) \in [1 .. len -> Int]
           /\ \A ad \in Nat, from \in Nat, e \in Nat : \A v : ad + e <= len =>
                /\ ad + e <= dst /\ Cell(mem, ad, e, v) => Cell(Memmove(mem, dst, src, n), ad, e, v)
                /\ ad >= dst /\ ad - dst = from - src /\ from + e <= src + n /\ Cell(mem, from, e, v) =>
                     Cell(Memmove(mem, dst, src, n), ad, e, v)
<1>1. PICK x : x = Memmove(mem, dst, src, n)
  OBVIOUS
<1>2. x = [i \in 1 .. len |-> IF i - dst \in 1 .. n THEN mem[i - dst + src] ELSE mem[i]]
  BY <1>1 DEF Memmove
<1>3. \A i \in 1 .. len : i - dst \in 1 .. n => i - dst + src \in 1 .. len
  OBVIOUS
<1>4. x \in [1 .. len -> Int]
  BY <1>2, <1>3
<1>5. ASSUME NEW ad \in Nat, NEW e \in Nat, NEW v, ad + e <= len, ad + e <= dst, Cell(mem, ad, e, v)
      PROVE  Cell(x, ad, e, v)
  <2>1. ASSUME NEW j \in 1 .. e PROVE x[ad + j] = mem[ad + j]
    <3>1. ad + j \in 1 .. len /\ ~((ad + j) - dst \in 1 .. n)
      BY <1>5
    <3> QED
      BY <1>2, <3>1
  <2> QED
    BY <1>5, <2>1, CellCopied
<1>6. ASSUME NEW ad \in Nat, NEW from \in Nat, NEW e \in Nat, NEW v, ad + e <= len, ad >= dst, ad - dst = from - src,
             from + e <= src + n, Cell(mem, from, e, v)
      PROVE  Cell(x, ad, e, v)
  <2>1. ASSUME NEW j \in 1 .. e PROVE x[ad + j] = mem[from + j]
    <3>1. ad + j \in 1 .. len /\ (ad + j) - dst \in 1 .. n /\ (ad + j) - dst + src = from + j
      BY <1>6
    <3> QED
      BY <1>2, <3>1
  <2> QED
    BY <1>6, <2>1, CellCopied
<1> QED
  BY <1>1, <1>4, <1>5, <1>6

\* A value that is stored leaves what is elsewhere (_intsetSet).
LEMMA StoreKeeps ==
    ASSUME NEW e \in 1 .. ENC64, NEW len \in Nat, NEW mem \in [1 .. len -> Int], NEW ad \in Nat, ad + e <= len,
           NEW v \in Int, NEW f \in Nat, NEW place \in Nat, place + f <= len, place + f <= ad \/ ad + e <= place,
           NEW u, Cell(mem, place, f, u)
    PROVE  Cell(Stored(mem, ad, e, v), place, f, u)
<1>1. e \in Nat
  BY EncodingIs
<1>2. \A k \in 1 .. len : place < k /\ k <= place + f => k <= ad \/ k > ad + e
  BY <1>1
<1>3. \A k \in 1 .. len : k <= ad \/ k > ad + e => Stored(mem, ad, e, v)[k] = mem[k]
  BY StoreIs, SMTT(60)
<1>4. PICK x : x = Stored(mem, ad, e, v)
  OBVIOUS
<1>5. \A k \in 1 .. len : place < k /\ k <= place + f => x[k] = mem[k]
  BY <1>2, <1>3, <1>4
<1>6. Cell(x, place, f, u)
  BY <1>5, CellKept
<1> QED
  BY <1>4, <1>6

\* A value that is stored in its place leaves the others (_intsetSet).
LEMMA StoredCells ==
    ASSUME NEW e \in 1 .. ENC64, NEW n \in Nat, NEW len \in Nat, NEW p \in [0 .. n -> Nat],
           \A i \in 0 .. n : p[i] + e <= len /\ \A k \in 0 .. n : i < k => p[i] + e <= p[k],
           NEW m \in [1 .. len -> Int], NEW idx \in 0 .. n, NEW v \in Int, NEW h, h[idx] = v,
           \A i \in 0 .. n : i # idx => Cell(m, p[i], e, h[i]),
           NEW ad \in Nat, ad = p[idx]
    PROVE  Stored(m, ad, e, v) \in [1 .. len -> Int] /\ \A i \in 0 .. n : Cell(Stored(m, ad, e, v), p[i], e, h[i])
<1>1. e \in Nat
  BY EncodingIs
<1>2. ad + e <= len
  OBVIOUS
<1>3. Stored(m, ad, e, v) \in [1 .. len -> Int] /\ Cell(Stored(m, ad, e, v), ad, e, v)
  BY <1>2, StoreIs
<1>4. ASSUME NEW i \in 0 .. n, i # idx PROVE Cell(Stored(m, ad, e, v), p[i], e, h[i])
  <2>1. PICK place \in Nat : place = p[i] /\ place + e <= len /\ (place + e <= ad \/ ad + e <= place)
    <3>1. i < idx \/ idx < i
      BY <1>4
    <3> QED
      BY <1>2, <3>1
  <2>2. PICK u : u = h[i] /\ Cell(m, place, e, u)
    BY <1>4, <2>1
  <2>3. Cell(Stored(m, ad, e, v), place, e, u)
    BY <1>1, <1>2, <2>1, <2>2, StoreKeeps
  <2> QED
    BY <2>1, <2>2, <2>3
<1> QED
  BY <1>3, <1>4

(* The members are in their places, but for the one at pos.                *)
AllBut(e, n, m, idx, v, h) ==
    /\ e \in IntsetEncodings /\ n \in Nat /\ m \in [1 .. Place(n + 1, e) -> Int]
    /\ idx \in 0 .. n /\ v \in Int /\ h \in [0 .. (n + 1) - 1 -> Int64] /\ h[idx] = v
    /\ \A i \in 0 .. n : Fits(h[i], e) /\ (i # idx => Cell(m, Place(i, e), e, h[i]))
    /\ \A i, k \in 0 .. n : i < k => h[i] < h[k]

\* A value that is stored in its place completes the array.
LEMMA StoredInArray ==
    ASSUME NEW e, NEW n, NEW m, NEW idx, NEW v, NEW h, AllBut(e, n, m, idx, v, h)
    PROVE  \E x, r : /\ x = Stored(m, Place(idx, e), e, v)
                     /\ r = [enc |-> e, length |-> n + 1, mem |-> x]
                     /\ IntsetArray(r, e, n + 1, x, h)
<1>0. /\ e \in IntsetEncodings /\ n \in Nat /\ m \in [1 .. Place(n + 1, e) -> Int]
      /\ idx \in 0 .. n /\ v \in Int /\ h \in [0 .. (n + 1) - 1 -> Int64] /\ h[idx] = v
      /\ \A i \in 0 .. n : Fits(h[i], e) /\ (i # idx => Cell(m, Place(i, e), e, h[i]))
      /\ \A i, k \in 0 .. n : i < k => h[i] < h[k]
  BY DEF AllBut
<1>1. PICK p, len : p = [i \in 0 .. n |-> Place(i, e)] /\ len = Place(n + 1, e)
  OBVIOUS
<1>2. e \in 1 .. ENC64 /\ e \in Nat /\ n + 1 \in Nat /\ (n + 1) - 1 = n
  BY <1>0, EncodingIs
<1>3. len \in Nat /\ p \in [0 .. n -> Nat] /\ m \in [1 .. len -> Int]
      /\ \A i \in 0 .. n : p[i] + e <= len /\ \A k \in 0 .. n : i < k => p[i] + e <= p[k]
  <2>1. \A i \in 0 .. n : i \in Nat /\ i < n + 1
    BY <1>0
  <2>2. \A i \in 0 .. n : Place(i, e) \in Nat /\ Place(i, e) + e <= Place(n + 1, e)
    BY <1>0, <1>2, <2>1, PlaceOrder
  <2>3. Place(n + 1, e) \in Nat
    BY <1>0, <1>2, PlaceOrder
  <2>4. \A i, k \in 0 .. n : i < k => Place(i, e) + e <= Place(k, e)
    BY <1>0, <1>2, <2>1, PlaceOrder
  <2> QED
    BY <1>0, <1>1, <2>2, <2>3, <2>4
<1>4. PICK ad, x : ad \in Nat /\ ad = p[idx] /\ x = Stored(m, ad, e, v)
  BY <1>0, <1>3
<1>5. \A i \in 0 .. n : i # idx => Cell(m, p[i], e, h[i])
  BY <1>0, <1>1
<1>6. Stored(m, ad, e, v) \in [1 .. len -> Int] /\ \A i \in 0 .. n : Cell(Stored(m, ad, e, v), p[i], e, h[i])
  BY <1>0, <1>2, <1>3, <1>4, <1>5, StoredCells
<1>7. x \in [1 .. Place(n + 1, e) -> Int] /\ \A i \in 0 .. n : Cell(x, Place(i, e), e, h[i])
  BY <1>1, <1>4, <1>6
<1>8. PICK r : r = [enc |-> e, length |-> n + 1, mem |-> x]
  OBVIOUS
<1>9. IntsetArray(r, e, n + 1, x, h)
  BY <1>0, <1>2, <1>7, <1>8 DEF IntsetArray
<1>10. x = Stored(m, Place(idx, e), e, v)
  BY <1>0, <1>1, <1>4
<1> QED
  BY <1>8, <1>9, <1>10

\* The header and the memory after a store (_intsetSet).
LEMMA StoredRecord ==
    ASSUME NEW e, NEW n, NEW m, NEW idx, NEW v, NEW is, is = [enc |-> e, length |-> n, mem |-> m]
    PROVE  intsetSet(is, idx, v) = [enc |-> e, length |-> n, mem |-> Stored(m, Place(idx, e), e, v)]
<1>1. PICK x : x = Stored(m, Place(idx, e), e, v)
  OBVIOUS
<1>2. is.mem = m /\ is.enc = e
  OBVIOUS
<1>3. intsetSet(is, idx, v) = [is EXCEPT !.mem = x]
  BY <1>1, <1>2 DEF intsetSet, Place, Stored
<1>4. intsetSet(is, idx, v) = [enc |-> e, length |-> n, mem |-> x]
  BY <1>3
<1> QED
  BY <1>1, <1>4

(* The memory after room was made for a member.                            *)
Room(m, n, idx, e) ==
    LET r == Realloc(m, Place(n + 1, e))
    IN  IF idx < n THEN Memmove(r, Place(idx + 1, e), Place(idx, e), Place(n - idx, e)) ELSE r

\* Cells that a resize keeps (intsetResize).
LEMMA ReallocKeeps ==
    ASSUME NEW len \in Nat, NEW span \in Nat, NEW mem \in [1 .. len -> Int],
           NEW ad \in Nat, NEW e \in Nat, NEW v, ad + e <= len, ad + e <= span, Cell(mem, ad, e, v)
    PROVE  Cell(Realloc(mem, span), ad, e, v)
<1>1. PICK x : x = Realloc(mem, span) /\ \A k \in 1 .. len : k <= span => x[k] = mem[k]
  BY ReallocIs
<1>2. ASSUME NEW j \in 1 .. e PROVE x[ad + j] = mem[ad + j]
  <2>1. ad + j \in 1 .. len /\ ad + j <= span
    OBVIOUS
  <2> QED
    BY <1>1, <2>1
<1>3. Cell(x, ad, e, v)
  BY <1>2, CellCopied
<1> QED
  BY <1>1, <1>3

\* Room is made for a member: the others are where they will be (intsetAdd).
LEMMA RoomIs ==
    ASSUME NEW e \in Nat, NEW n \in Nat, NEW m \in [1 .. Place(n, e) -> Int], NEW g,
           \A i \in 0 .. n - 1 : Cell(m, Place(i, e), e, g[i]), NEW idx \in 0 .. n, NEW v
    PROVE  /\ Room(m, n, idx, e) \in [1 .. Place(n + 1, e) -> Int]
           /\ \A i \in 0 .. n : i # idx => Cell(Room(m, n, idx, e), Place(i, e), e, Inserted(g, n, idx, v)[i])
<1>1. PICK len \in Nat, span \in Nat : len = Place(n, e) /\ span = Place(n + 1, e) /\ span = len + e
  <2>1. n + 1 \in Nat
    OBVIOUS
  <2> QED
    BY <2>1, PlaceOrder
<1>2. PICK r : r = Realloc(m, span)
  OBVIOUS
<1>3. m \in [1 .. len -> Int] /\ r \in [1 .. span -> Int]
  <2>1. m \in [1 .. len -> Int]
    BY <1>1
  <2> QED
    BY <1>2, <2>1, ReallocIs
<1>4. ASSUME NEW i \in 0 .. n - 1 PROVE Cell(r, Place(i, e), e, g[i])
  <2>1. PICK ad \in Nat : ad = Place(i, e) /\ ad + e <= len /\ ad + e <= span
    <3>1. i \in Nat /\ i < n
      OBVIOUS
    <3>2. Place(i, e) \in Nat /\ Place(i, e) + e <= Place(n, e)
      BY <3>1, PlaceOrder
    <3> QED
      BY <1>1, <3>2
  <2>2. PICK u : u = g[i] /\ Cell(m, ad, e, u)
    BY <2>1
  <2>3. Cell(Realloc(m, span), ad, e, u)
    BY <1>3, <2>1, <2>2, ReallocKeeps
  <2> QED
    BY <1>2, <2>1, <2>2, <2>3
<1>5. CASE idx = n
  <2>1. Room(m, n, idx, e) = r
    BY <1>1, <1>2, <1>5 DEF Room
  <2>2. ASSUME NEW i \in 0 .. n, i # idx PROVE Cell(r, Place(i, e), e, Inserted(g, n, idx, v)[i])
    <3>1. i \in 0 .. n - 1 /\ Inserted(g, n, idx, v)[i] = g[i]
      BY <1>5, <2>2 DEF Inserted
    <3> QED
      BY <1>4, <3>1
  <2> QED
    BY <1>1, <1>3, <2>1, <2>2
<1>6. CASE idx < n
  <2>1. PICK td \in Nat, fe \in Nat : td = Place(idx + 1, e) /\ fe = Place(idx, e) /\ td = fe + e /\ fe <= len
    <3>1. idx \in Nat /\ idx <= n
      OBVIOUS
    <3>2. idx + 1 \in Nat
      BY <3>1
    <3> QED
      BY <1>1, <3>1, <3>2, PlaceOrder
  <2>2. PICK c, x : c \in Nat /\ x = Memmove(r, td, fe, c) /\ c = len - fe
    <3>1. len - fe \in Nat
      BY <1>1, <2>1
    <3> QED
      BY <3>1
  <2>3. Room(m, n, idx, e) = x
    <3>1. Place(n - idx, e) = c
      BY <1>1, <2>1, <2>2, PlaceShift
    <3> QED
      BY <1>1, <1>2, <1>6, <2>1, <2>2, <3>1 DEF Room
  <2>4. fe + c <= span /\ fe + c = len
    BY <1>1, <2>1, <2>2, SMTT(60)
  <2>5. /\ x \in [1 .. span -> Int]
        /\ \A ad \in Nat, from \in Nat, w \in Nat : \A u : ad + w <= span =>
             /\ ad + w <= td /\ Cell(r, ad, w, u) => Cell(x, ad, w, u)
             /\ ad >= td /\ ad - td = from - fe /\ from + w <= fe + c /\ Cell(r, from, w, u) => Cell(x, ad, w, u)
    <3>1. /\ Memmove(r, td, fe, c) \in [1 .. span -> Int]
          /\ \A ad \in Nat, from \in Nat, w \in Nat : \A u : ad + w <= span =>
               /\ ad + w <= td /\ Cell(r, ad, w, u) => Cell(Memmove(r, td, fe, c), ad, w, u)
               /\ ad >= td /\ ad - td = from - fe /\ from + w <= fe + c /\ Cell(r, from, w, u) =>
                    Cell(Memmove(r, td, fe, c), ad, w, u)
      BY <1>3, <2>2, <2>4, MoveIs
    <3> QED
      BY <2>2, <3>1
  <2>6. ASSUME NEW i \in 0 .. n, i # idx PROVE Cell(x, Place(i, e), e, Inserted(g, n, idx, v)[i])
    <3>1. PICK ad \in Nat : ad = Place(i, e) /\ ad + e <= span
      <4>1. i \in Nat /\ i < n + 1 /\ n + 1 \in Nat
        OBVIOUS
      <4>2. Place(i, e) \in Nat /\ Place(i, e) + e <= Place(n + 1, e)
        BY <4>1, PlaceOrder
      <4> QED
        BY <1>1, <4>2
    <3>2. CASE i < idx
      <4>1. PICK u : u = g[i] /\ u = Inserted(g, n, idx, v)[i] /\ Cell(r, ad, e, u)
        <5>1. i \in 0 .. n - 1 /\ Inserted(g, n, idx, v)[i] = g[i]
          BY <3>2 DEF Inserted
        <5> QED
          BY <1>4, <3>1, <5>1
      <4>2. ad + e <= td
        <5>1. i \in Nat /\ idx \in Nat
          OBVIOUS
        <5>2. Place(i, e) + e <= Place(idx, e)
          BY <3>2, <5>1, PlaceOrder
        <5> QED
          BY <2>1, <3>1, <5>2
      <4>3. Cell(x, ad, e, u)
        BY <2>5, <3>1, <4>1, <4>2
      <4> QED
        BY <3>1, <4>1, <4>3
    <3>3. CASE i > idx
      <4>1. PICK before \in Nat : before = Place(i - 1, e) /\ ad = before + e /\ before + e <= len /\ fe <= before
        <5>1. i - 1 \in Nat /\ (i - 1) + 1 = i /\ idx \in Nat /\ idx <= i - 1 /\ i - 1 < n
          BY <3>3
        <5>2. /\ Place(i - 1, e) \in Nat /\ Place(i, e) = Place(i - 1, e) + e
              /\ Place(i - 1, e) + e <= Place(n, e) /\ Place(idx, e) <= Place(i - 1, e)
          BY <5>1, PlaceOrder
        <5> QED
          BY <1>1, <2>1, <3>1, <5>2
      <4>2. PICK u : u = Inserted(g, n, idx, v)[i] /\ Cell(r, before, e, u)
        <5>1. i - 1 \in 0 .. n - 1 /\ Inserted(g, n, idx, v)[i] = g[i - 1]
          BY <3>3 DEF Inserted
        <5> QED
          BY <1>4, <4>1, <5>1
      <4>3. ad - td = before - fe /\ ad >= td /\ before + e <= fe + c
        <5>1. td = fe + e /\ ad = before + e /\ fe <= before
          BY <2>1, <4>1
        <5>2. before + e <= fe + c
          BY <2>4, <4>1
        <5> QED
          BY <5>1, <5>2
      <4>4. Cell(x, ad, e, u)
        BY <2>5, <3>1, <4>1, <4>2, <4>3
      <4> QED
        BY <3>1, <4>2, <4>4
    <3> QED
      BY <2>6, <3>2, <3>3
  <2> QED
    BY <1>1, <2>3, <2>5, <2>6
<1> QED
  BY <1>5, <1>6

\* An integer of the array's encoding is added (intsetAdd).
LEMMA AddIs ==
    ASSUME NEW is, NEW e, NEW n, NEW m, NEW g, IntsetArray(is, e, n, m, g), NEW v \in Int64,
           intsetValueEncoding(v) <= e
    PROVE  \E n2, m2, g2 : /\ IntsetArray(intsetAdd(is, v), e, n2, m2, g2)
                           /\ Members(g2, n2) = Members(g, n) \cup {v}
<1>1. /\ is = [enc |-> e, length |-> n, mem |-> m] /\ is.enc = e /\ is.length = n /\ is.mem = m
      /\ e \in IntsetEncodings /\ e \in 1 .. ENC64 /\ e \in Nat /\ n \in Nat /\ m \in [1 .. Place(n, e) -> Int]
      /\ g \in [0 .. n - 1 -> Int64] /\ v \in Int
  BY EncodingIs DEF IntsetArray
<1>2. /\ \A i \in 0 .. n - 1 : Fits(g[i], e) /\ Cell(m, Place(i, e), e, g[i])
      /\ \A i, k \in 0 .. n - 1 : i < k => g[i] < g[k]
  BY DEF IntsetArray
<1>3. PICK s : s = intsetSearch(is, v) /\ SearchResult(s, n, g, v)
  BY <1>1, SearchIs
<1>4. Fits(v, e) /\ ~(intsetValueEncoding(v) > e)
  <2>1. intsetValueEncoding(v) \in Int
    BY EncodingIs DEF intsetValueEncoding
  <2> QED
    BY <1>1, <2>1, ValueEncodingIs
<1>5. CASE s.found
  <2>1. intsetAdd(is, v) = is
    <3>1. intsetSearch(is, v).found /\ ~(intsetValueEncoding(v) > is.enc)
      BY <1>1, <1>3, <1>4, <1>5
    <3> QED
      BY <3>1, Zenon DEF intsetAdd
  <2>2. v \in Members(g, n)
    <3>1. s.pos \in 0 .. n - 1 /\ g[s.pos] = v
      BY <1>1, <1>3, <1>5 DEF SearchResult
    <3> QED
      BY <3>1 DEF Members
  <2> QED
    BY <2>1, <2>2
<1>6. CASE ~s.found
  <2>1. PICK idx \in 0 .. n : idx = s.pos /\ \A i \in 0 .. n - 1 : (i < idx => g[i] < v) /\ (i >= idx => v < g[i])
    BY <1>3, <1>6 DEF SearchResult
  <2>2. PICK h : /\ h = Inserted(g, n, idx, v)
                 /\ h \in [0 .. (n + 1) - 1 -> Int64]
                 /\ \A i, k \in 0 .. n : i < k => h[i] < h[k]
                 /\ Members(h, n + 1) = Members(g, n) \cup {v}
    <3>1. n \in Nat /\ g \in [0 .. n - 1 -> Int64] /\ \A i, k \in 0 .. n - 1 : i < k => g[i] < g[k]
      BY <1>1, <1>2
    <3>2. BelongsAt(g, n, idx, v)
      BY <2>1, <3>1 DEF BelongsAt
    <3> QED
      BY <3>2, InsertedIs
  <2>4. PICK x : x = Room(m, n, idx, e)
    OBVIOUS
  <2>5. /\ x \in [1 .. Place(n + 1, e) -> Int]
        /\ \A i \in 0 .. n : i # idx => Cell(x, Place(i, e), e, h[i])
    BY <1>1, <1>2, <2>2, <2>4, RoomIs
  <2>6. PICK room : room = [enc |-> e, length |-> n, mem |-> x]
    OBVIOUS
  <2>7. (IF idx < n THEN intsetMoveTail(intsetResize(is, n + 1), idx, idx + 1) ELSE intsetResize(is, n + 1)) = room
    <3>1. intsetResize(is, n + 1) = [enc |-> e, length |-> n, mem |-> Realloc(m, Place(n + 1, e))]
      BY <1>1 DEF intsetResize, Place
    <3>2. PICK r : r = Realloc(m, Place(n + 1, e))
      OBVIOUS
    <3>3. PICK q : q = [enc |-> e, length |-> n, mem |-> r] /\ q = intsetResize(is, n + 1)
      BY <3>1, <3>2
    <3>4. CASE idx < n
      <4>1. x = Memmove(r, Place(idx + 1, e), Place(idx, e), Place(n - idx, e))
        BY <2>4, <3>2, <3>4 DEF Room
      <4>2. q.enc = e /\ q.length = n /\ q.mem = r
        BY <3>3
      <4>3. intsetMoveTail(q, idx, idx + 1) = [q EXCEPT !.mem = x]
        BY <4>1, <4>2 DEF intsetMoveTail, Place
      <4>4. [q EXCEPT !.mem = x] = room
        BY <2>6, <3>3
      <4> QED
        BY <3>3, <3>4, <4>3, <4>4
    <3>5. CASE ~(idx < n)
      <4>1. x = r
        BY <2>4, <3>2, <3>5 DEF Room
      <4> QED
        BY <2>6, <3>3, <3>5, <4>1
    <3> QED
      BY <3>4, <3>5
  <2>8. PICK r : r = [intsetSet(room, idx, v) EXCEPT !.length = n + 1]
    OBVIOUS
  <2>9. intsetAdd(is, v) = r
    <3>1. intsetSet(room, idx, v).length = n
      BY <2>6 DEF intsetSet
    <3>2. intsetAdd(is, v) = [intsetSet(room, idx, v) EXCEPT !.length = intsetSet(room, idx, v).length + 1]
      BY <1>1, <1>3, <1>4, <1>6, <2>1, <2>7 DEF intsetAdd
    <3> QED
      BY <2>8, <3>1, <3>2
  <2>10. \A i \in 0 .. n : Fits(h[i], e)
    <3>1. ASSUME NEW i \in 0 .. n PROVE Fits(h[i], e)
      <4>1. h[i] = v \/ \E k \in 0 .. n - 1 : h[i] = g[k]
        <5>1. i < idx => i \in 0 .. n - 1
          BY <1>1
        <5>2. i > idx => i - 1 \in 0 .. n - 1
          BY <1>1
        <5> QED
          BY <1>1, <2>2, <5>1, <5>2 DEF Inserted
      <4> QED
        BY <1>2, <1>4, <4>1
    <3> QED
      BY <3>1
  <2>11. h[idx] = v
    BY <2>2 DEF Inserted
  <2>12. PICK y, t : /\ y = Stored(x, Place(idx, e), e, v)
                     /\ t = [enc |-> e, length |-> n + 1, mem |-> y]
                     /\ IntsetArray(t, e, n + 1, y, h)
    <3>1. e \in IntsetEncodings /\ n \in Nat /\ v \in Int
      BY <1>1
    <3>2. h \in [0 .. (n + 1) - 1 -> Int64] /\ \A i, k \in 0 .. n : i < k => h[i] < h[k]
      BY <2>2
    <3>3. AllBut(e, n, x, idx, v, h)
      BY <2>5, <2>10, <2>11, <3>1, <3>2 DEF AllBut
    <3> QED
      BY <3>3, StoredInArray
  <2>13. r = t
    <3>1. intsetSet(room, idx, v) = [enc |-> e, length |-> n, mem |-> Stored(x, Place(idx, e), e, v)]
      BY <2>6, StoredRecord
    <3>2. PICK q : q = intsetSet(room, idx, v) /\ q = [enc |-> e, length |-> n, mem |-> y]
      BY <2>12, <3>1
    <3>3. r = [q EXCEPT !.length = n + 1]
      BY <2>8, <3>2
    <3> QED
      BY <2>12, <3>2, <3>3
  <2> QED
    BY <2>2, <2>9, <2>12, <2>13
<1> QED
  BY <1>5, <1>6

\* A set finds its members and no other integer (intsetFind).
LEMMA FindIs ==
    ASSUME NEW is, NEW e, NEW n, NEW m, NEW g, IntsetArray(is, e, n, m, g), NEW v \in Int64
    PROVE  /\ intsetFind(is, v) \in BOOLEAN
           /\ intsetFind(is, v) <=> v \in Members(g, n)
           /\ intsetFind(is, v) => intsetSearch(is, v).pos \in 0 .. n - 1 /\ g[intsetSearch(is, v).pos] = v
<1>1. is.enc = e /\ n \in Nat /\ v \in Int /\ e \in IntsetEncodings
  BY EncodingIs DEF IntsetArray
<1>2. PICK s : s = intsetSearch(is, v) /\ SearchResult(s, n, g, v)
  BY <1>1, SearchIs
<1>3. intsetFind(is, v) <=> Fits(v, e) /\ s.found
  BY <1>1, <1>2, ValueEncodingIs DEF intsetFind
<1>4. s.found => s.pos \in 0 .. n - 1 /\ g[s.pos] = v
  BY <1>1, <1>2 DEF SearchResult
<1>5. ASSUME NEW i \in 0 .. n - 1, g[i] = v PROVE Fits(v, e) /\ s.found
  <2>1. Fits(v, e)
    BY <1>5 DEF IntsetArray
  <2>2. s.pos \in 0 .. n /\ (~s.found => (i < s.pos => g[i] < v) /\ (i >= s.pos => v < g[i]))
    BY <1>2 DEF SearchResult
  <2>3. i < s.pos \/ i >= s.pos
    BY <1>1, <2>2
  <2> QED
    BY <1>1, <1>5, <2>1, <2>2, <2>3
<1>6. intsetFind(is, v) \in BOOLEAN
  BY DEF intsetFind
<1>7. intsetFind(is, v) <=> v \in Members(g, n)
  <2>1. ASSUME v \in Members(g, n) PROVE Fits(v, e) /\ s.found
    <3>1. PICK i \in 0 .. n - 1 : g[i] = v
      BY <2>1 DEF Members
    <3> QED
      BY <1>5, <3>1
  <2>2. ASSUME s.found PROVE v \in Members(g, n)
    BY <1>4, <2>2 DEF Members
  <2> QED
    BY <1>3, <2>1, <2>2
<1> QED
  BY <1>2, <1>3, <1>4, <1>6, <1>7

(* The array without the member at pos, and its memory.                    *)
Removed(g, n, idx) == [i \in 0 .. (n - 1) - 1 |-> IF i < idx THEN g[i] ELSE g[i + 1]]
Shrunk(m, n, idx, e) ==
    IF idx < n - 1 THEN Memmove(m, Place(idx, e), Place(idx + 1, e), Place(n - (idx + 1), e)) ELSE m

\* A member that is taken out leaves the others in their order.
LEMMA RemovedIs ==
    ASSUME NEW is, NEW e, NEW n, NEW m, NEW g, IntsetArray(is, e, n, m, g), NEW idx \in 0 .. n - 1
    PROVE  \E h : /\ h = Removed(g, n, idx)
                  /\ h \in [0 .. (n - 1) - 1 -> Int64]
                  /\ \A i, k \in 0 .. (n - 1) - 1 : i < k => h[i] < h[k]
                  /\ \A i \in 0 .. (n - 1) - 1 : Fits(h[i], e)
                  /\ Members(h, n - 1) = Members(g, n) \ {g[idx]}
<1>1. n \in Nat /\ idx \in Nat /\ \A i \in 0 .. n - 1 : g[i] \in Int64 /\ g[i] \in Int /\ Fits(g[i], e)
  BY EncodingIs DEF IntsetArray
<1>2. \A i, k \in 0 .. n - 1 : i < k => g[i] < g[k]
  BY DEF IntsetArray
<1>3. PICK h : h = Removed(g, n, idx)
  OBVIOUS
<1>4. ASSUME NEW i \in 0 .. (n - 1) - 1
      PROVE  /\ i < idx => h[i] = g[i] /\ i \in 0 .. n - 1
             /\ i >= idx => h[i] = g[i + 1] /\ i + 1 \in 0 .. n - 1
  <2>1. i \in 0 .. n - 1 /\ i + 1 \in 0 .. n - 1 /\ (i >= idx => ~(i < idx))
    BY <1>1
  <2> QED
    BY <1>3, <2>1 DEF Removed
<1>5. ASSUME NEW i \in 0 .. (n - 1) - 1 PROVE h[i] \in Int64 /\ Fits(h[i], e)
  <2>1. i < idx \/ i >= idx
    BY <1>1
  <2> QED
    BY <1>1, <1>4, <2>1
<1>6. h \in [0 .. (n - 1) - 1 -> Int64]
  BY <1>3, <1>5 DEF Removed
<1>7. ASSUME NEW i \in 0 .. (n - 1) - 1, NEW k \in 0 .. (n - 1) - 1, i < k PROVE h[i] < h[k]
  <2>1. CASE k < idx
    <3>1. i < idx
      BY <1>1, <1>7, <2>1
    <3> QED
      BY <1>2, <1>4, <1>7, <2>1, <3>1
  <2>2. CASE k >= idx /\ i < idx
    <3>1. h[i] = g[i] /\ i \in 0 .. n - 1 /\ h[k] = g[k + 1] /\ k + 1 \in 0 .. n - 1 /\ i < k + 1
      BY <1>1, <1>4, <1>7, <2>2
    <3> QED
      BY <1>2, <3>1
  <2>3. CASE i >= idx
    <3>1. k >= idx
      BY <1>1, <1>7, <2>3
    <3>2. h[i] = g[i + 1] /\ i + 1 \in 0 .. n - 1 /\ h[k] = g[k + 1] /\ k + 1 \in 0 .. n - 1 /\ i + 1 < k + 1
      BY <1>1, <1>4, <1>7, <2>3, <3>1
    <3> QED
      BY <1>2, <3>2
  <2> QED
    BY <1>1, <2>1, <2>2, <2>3
<1>8. Members(h, n - 1) \subseteq Members(g, n) \ {g[idx]}
  <2>1. ASSUME NEW i \in 0 .. (n - 1) - 1 PROVE h[i] \in Members(g, n) \ {g[idx]}
    <3>1. PICK k \in 0 .. n - 1 : h[i] = g[k] /\ k # idx
      <4>1. CASE i < idx
        <5>1. i # idx
          BY <1>1, <4>1
        <5> QED
          BY <1>4, <4>1, <5>1
      <4>2. CASE i >= idx
        <5>1. i + 1 # idx
          BY <1>1, <4>2
        <5> QED
          BY <1>4, <4>2, <5>1
      <4>3. i < idx \/ i >= idx
        BY <1>1
      <4> QED
        BY <4>1, <4>2, <4>3
    <3>2. g[k] # g[idx]
      <4>1. k < idx \/ idx < k
        BY <1>1, <3>1
      <4>2. g[k] < g[idx] \/ g[idx] < g[k]
        BY <1>2, <4>1
      <4> QED
        BY <1>1, <4>2
    <3> QED
      BY <3>1, <3>2 DEF Members
  <2> QED
    BY <2>1 DEF Members
<1>9. Members(g, n) \ {g[idx]} \subseteq Members(h, n - 1)
  <2>1. ASSUME NEW k \in 0 .. n - 1, g[k] # g[idx] PROVE g[k] \in Members(h, n - 1)
    <3>1. PICK i \in 0 .. (n - 1) - 1 : h[i] = g[k]
      <4>1. CASE k < idx
        <5>1. k \in 0 .. (n - 1) - 1
          BY <1>1, <4>1
        <5> QED
          BY <1>4, <4>1, <5>1
      <4>2. CASE k > idx
        <5>1. k - 1 \in 0 .. (n - 1) - 1 /\ k - 1 >= idx /\ (k - 1) + 1 = k
          BY <1>1, <4>2
        <5> QED
          BY <1>4, <5>1
      <4>3. k < idx \/ k > idx
        BY <1>1, <2>1
      <4> QED
        BY <4>1, <4>2, <4>3
    <3> QED
      BY <3>1 DEF Members
  <2> QED
    BY <2>1 DEF Members
<1> QED
  BY <1>3, <1>5, <1>6, <1>7, <1>8, <1>9

\* The members that follow the one that is taken out move down (intsetRemove).
LEMMA ClosedIs ==
    ASSUME NEW is, NEW e, NEW n, NEW m, NEW g, IntsetArray(is, e, n, m, g), NEW idx \in 0 .. n - 1
    PROVE  /\ Shrunk(m, n, idx, e) \in [1 .. Place(n, e) -> Int]
           /\ \A i \in 0 .. (n - 1) - 1 : Cell(Shrunk(m, n, idx, e), Place(i, e), e, Removed(g, n, idx)[i])
<1>1. /\ n \in Nat /\ idx \in Nat /\ e \in Nat /\ m \in [1 .. Place(n, e) -> Int]
      /\ \A i \in 0 .. n - 1 : Cell(m, Place(i, e), e, g[i])
  BY EncodingIs DEF IntsetArray
<1>2. PICK len \in Nat : len = Place(n, e) /\ m \in [1 .. len -> Int]
  BY <1>1, PlaceOrder
<1>3. CASE ~(idx < n - 1)
  <2>1. Shrunk(m, n, idx, e) = m
    BY <1>3 DEF Shrunk
  <2>2. ASSUME NEW i \in 0 .. (n - 1) - 1 PROVE Cell(m, Place(i, e), e, Removed(g, n, idx)[i])
    <3>1. i \in 0 .. n - 1 /\ i < idx
      BY <1>1, <1>3
    <3>2. Removed(g, n, idx)[i] = g[i]
      BY <3>1 DEF Removed
    <3> QED
      BY <1>1, <3>1, <3>2
  <2> QED
    BY <1>1, <2>1, <2>2
<1>4. CASE idx < n - 1
  <2>1. PICK dst \in Nat, src \in Nat : dst = Place(idx, e) /\ src = Place(idx + 1, e) /\ src = dst + e /\ src <= len
    <3>1. idx + 1 \in Nat /\ idx + 1 <= n
      BY <1>1
    <3> QED
      BY <1>1, <1>2, <3>1, PlaceOrder
  <2>2. PICK c, x : c \in Nat /\ x = Memmove(m, dst, src, c) /\ c = len - src
    <3>1. len - src \in Nat
      BY <2>1
    <3> QED
      BY <3>1
  <2>3. Shrunk(m, n, idx, e) = x
    <3>1. idx + 1 \in Int
      BY <1>1
    <3>2. Place(n - (idx + 1), e) = c
      BY <1>1, <1>2, <2>1, <2>2, <3>1, PlaceShift
    <3> QED
      BY <1>4, <2>1, <2>2, <3>2 DEF Shrunk
  <2>4. src + c <= len /\ src + c = len
    BY <2>1, <2>2
  <2>5. /\ x \in [1 .. len -> Int]
        /\ \A ad \in Nat, from \in Nat, w \in Nat : \A u : ad + w <= len =>
             /\ ad + w <= dst /\ Cell(m, ad, w, u) => Cell(x, ad, w, u)
             /\ ad >= dst /\ ad - dst = from - src /\ from + w <= src + c /\ Cell(m, from, w, u) => Cell(x, ad, w, u)
    <3>1. /\ Memmove(m, dst, src, c) \in [1 .. len -> Int]
          /\ \A ad \in Nat, from \in Nat, w \in Nat : \A u : ad + w <= len =>
               /\ ad + w <= dst /\ Cell(m, ad, w, u) => Cell(Memmove(m, dst, src, c), ad, w, u)
               /\ ad >= dst /\ ad - dst = from - src /\ from + w <= src + c /\ Cell(m, from, w, u) =>
                    Cell(Memmove(m, dst, src, c), ad, w, u)
      BY <1>2, <2>2, <2>4, MoveIs
    <3> QED
      BY <2>2, <3>1
  <2>6. ASSUME NEW i \in 0 .. (n - 1) - 1 PROVE Cell(x, Place(i, e), e, Removed(g, n, idx)[i])
    <3>1. PICK ad \in Nat, next \in Nat : ad = Place(i, e) /\ next = Place(i + 1, e) /\ next = ad + e /\ next + e <= len
      <4>1. i \in Nat /\ i + 1 \in Nat /\ i + 1 < n
        BY <1>1
      <4>2. Place(i, e) \in Nat /\ Place(i + 1, e) = Place(i, e) + e
        BY <1>1, <4>1, PlaceOrder
      <4>3. Place(i + 1, e) \in Nat /\ Place(i + 1, e) + e <= Place(n, e)
        BY <1>1, <4>1, PlaceOrder
      <4> QED
        BY <1>2, <4>2, <4>3
    <3>2. CASE i < idx
      <4>1. PICK u : u = Removed(g, n, idx)[i] /\ Cell(m, ad, e, u)
        <5>1. i \in 0 .. n - 1
          BY <1>1
        <5>2. Removed(g, n, idx)[i] = g[i]
          BY <3>2 DEF Removed
        <5> QED
          BY <1>1, <3>1, <5>1, <5>2
      <4>2. ad + e <= dst
        <5>1. i \in Nat
          OBVIOUS
        <5>2. Place(i, e) + e <= Place(idx, e)
          BY <1>1, <3>2, <5>1, PlaceOrder
        <5> QED
          BY <2>1, <3>1, <5>2
      <4>3. ad + e <= len
        BY <1>1, <3>1
      <4>4. Cell(x, ad, e, u)
        BY <1>1, <2>5, <4>1, <4>2, <4>3
      <4> QED
        BY <3>1, <4>1, <4>4
    <3>3. CASE ~(i < idx)
      <4>1. PICK u : u = Removed(g, n, idx)[i] /\ Cell(m, next, e, u)
        <5>1. i + 1 \in 0 .. n - 1
          BY <1>1
        <5>2. Removed(g, n, idx)[i] = g[i + 1]
          BY <3>3 DEF Removed
        <5> QED
          BY <1>1, <3>1, <5>1, <5>2
      <4>2. ad >= dst
        <5>1. i \in Nat /\ idx <= i
          BY <1>1, <3>3
        <5>2. Place(idx, e) <= Place(i, e)
          BY <1>1, <5>1, PlaceOrder
        <5> QED
          BY <2>1, <3>1, <5>2
      <4>3. ad - dst = next - src
        <5>1. src = dst + e /\ next = ad + e
          BY <2>1, <3>1
        <5> QED
          BY <1>1, <5>1
      <4>4. next + e <= src + c /\ ad + e <= len
        BY <1>1, <2>4, <3>1
      <4>5. Cell(x, ad, e, u)
        BY <1>1, <2>5, <4>1, <4>2, <4>3, <4>4
      <4> QED
        BY <3>1, <4>1, <4>5
    <3> QED
      BY <3>2, <3>3
  <2> QED
    BY <1>2, <2>3, <2>5, <2>6
<1> QED
  BY <1>3, <1>4

\* A member is removed (intsetRemove).
LEMMA RemoveIs ==
    ASSUME NEW is, NEW e, NEW n, NEW m, NEW g, IntsetArray(is, e, n, m, g), NEW v \in Int64
    PROVE  \E n2, m2, g2 : /\ IntsetArray(intsetRemove(is, v), e, n2, m2, g2)
                           /\ Members(g2, n2) = Members(g, n) \ {v}
<1>1. /\ is = [enc |-> e, length |-> n, mem |-> m] /\ is.enc = e /\ is.length = n /\ is.mem = m
      /\ e \in IntsetEncodings /\ e \in Nat /\ n \in Nat
  BY EncodingIs DEF IntsetArray
<1>2. CASE ~intsetFind(is, v)
  <2>1. intsetRemove(is, v) = is
    BY <1>2, Zenon DEF intsetRemove
  <2>2. v \notin Members(g, n)
    BY <1>2, FindIs
  <2> QED
    BY <2>1, <2>2
<1>3. CASE intsetFind(is, v)
  <2>1. PICK idx \in 0 .. n - 1 : idx = intsetSearch(is, v).pos /\ g[idx] = v
    BY <1>3, FindIs
  <2>2. PICK h : /\ h = Removed(g, n, idx)
                 /\ h \in [0 .. (n - 1) - 1 -> Int64]
                 /\ \A i, k \in 0 .. (n - 1) - 1 : i < k => h[i] < h[k]
                 /\ \A i \in 0 .. (n - 1) - 1 : Fits(h[i], e)
                 /\ Members(h, n - 1) = Members(g, n) \ {g[idx]}
    BY RemovedIs
  <2>3. PICK x : x = Shrunk(m, n, idx, e)
    OBVIOUS
  <2>4. /\ x \in [1 .. Place(n, e) -> Int]
        /\ \A i \in 0 .. (n - 1) - 1 : Cell(x, Place(i, e), e, h[i])
    BY <2>2, <2>3, ClosedIs
  <2>5. n - 1 \in Nat /\ n = (n - 1) + 1
    BY <1>1
  <2>6. PICK len \in Nat, span \in Nat : len = Place(n, e) /\ span = Place(n - 1, e) /\ len = span + e
    <3>1. Place(n - 1, e) \in Nat /\ Place((n - 1) + 1, e) = Place(n - 1, e) + e
      BY <1>1, <2>5, PlaceOrder
    <3> QED
      BY <1>1, <2>5, <3>1, PlaceOrder
  <2>7. PICK y : y = Realloc(x, span)
    OBVIOUS
  <2>8. y \in [1 .. span -> Int]
    <3>1. x \in [1 .. len -> Int]
      BY <2>4, <2>6
    <3> QED
      BY <2>7, <3>1, ReallocIs
  <2>9. ASSUME NEW i \in 0 .. (n - 1) - 1 PROVE Cell(y, Place(i, e), e, h[i])
    <3>1. PICK ad \in Nat : ad = Place(i, e) /\ ad + e <= span
      <4>1. i \in Nat /\ i < n - 1
        BY <2>5
      <4>2. Place(i, e) \in Nat /\ Place(i, e) + e <= Place(n - 1, e)
        BY <1>1, <2>5, <4>1, PlaceOrder
      <4> QED
        BY <2>6, <4>2
    <3>2. PICK u : u = h[i] /\ Cell(x, ad, e, u)
      BY <2>4, <3>1
    <3>3. x \in [1 .. len -> Int] /\ ad + e <= len
      BY <1>1, <2>4, <2>6, <3>1
    <3>4. Cell(Realloc(x, span), ad, e, u)
      BY <1>1, <3>1, <3>2, <3>3, ReallocKeeps
    <3> QED
      BY <2>7, <3>1, <3>2, <3>4
  <2>10. PICK r : r = [enc |-> e, length |-> n - 1, mem |-> y]
    OBVIOUS
  <2>11. intsetRemove(is, v) = r
    <3>1. PICK q : q = [enc |-> e, length |-> n, mem |-> x]
      OBVIOUS
    <3>2. (IF idx < n - 1 THEN intsetMoveTail(is, idx + 1, idx) ELSE is) = q
      <4>1. CASE idx < n - 1
        <5>1. x = Memmove(m, Place(idx, e), Place(idx + 1, e), Place(n - (idx + 1), e))
          BY <2>3, <4>1 DEF Shrunk
        <5>2. intsetMoveTail(is, idx + 1, idx) = [is EXCEPT !.mem = x]
          BY <1>1, <5>1 DEF intsetMoveTail, Place
        <5>3. [is EXCEPT !.mem = x] = q
          BY <1>1, <3>1
        <5> QED
          BY <4>1, <5>2, <5>3
      <4>2. CASE ~(idx < n - 1)
        <5>1. x = m
          BY <2>3, <4>2 DEF Shrunk
        <5> QED
          BY <1>1, <3>1, <4>2, <5>1
      <4> QED
        BY <4>1, <4>2
    <3>3. intsetResize(q, n - 1) = [enc |-> e, length |-> n, mem |-> y]
      <4>1. q.enc = e /\ q.mem = x
        BY <3>1
      <4>2. intsetResize(q, n - 1) = [q EXCEPT !.mem = y]
        BY <2>6, <2>7, <4>1 DEF intsetResize, Place
      <4> QED
        BY <3>1, <4>2
    <3>4. PICK z : z = intsetResize(q, n - 1) /\ z = [enc |-> e, length |-> n, mem |-> y]
      BY <3>3
    <3>5. intsetRemove(is, v) = [z EXCEPT !.length = z.length - 1]
      BY <1>1, <1>3, <2>1, <3>2, <3>4 DEF intsetRemove
    <3>6. z.length - 1 = n - 1
      BY <3>4
    <3> QED
      BY <2>10, <3>4, <3>5, <3>6
  <2>12. y \in [1 .. Place(n - 1, e) -> Int]
    BY <2>6, <2>8
  <2>13. IntsetArray(r, e, n - 1, y, h)
    BY <1>1, <2>2, <2>5, <2>9, <2>10, <2>12 DEF IntsetArray
  <2> QED
    BY <2>1, <2>2, <2>11, <2>13
<1> QED
  BY <1>2, <1>3

(* The encodings that are wider than one.                                  *)
WiderEncodings(e) == {f \in IntsetEncodings : e < f}

(* Where the widening is after k members, from the last one.               *)
WidenState(w, k, e, f, n, g, p) ==
    \E x : /\ w = [enc |-> f, length |-> n, mem |-> x]
           /\ x \in [1 .. Place(n + 1, f) -> Int]
           /\ \A q \in 0 .. n - 1 : /\ q < n - k => Cell(x, Place(q, e), e, g[q])
                                    /\ q >= n - k => Cell(x, Place(q + p, f), f, g[q])

\* One member is widened: it covers no narrower one that is still to be read.
LEMMA WidenedIs ==
    ASSUME NEW is, NEW e, NEW n, NEW m, NEW g, IntsetArray(is, e, n, m, g),
           NEW f \in WiderEncodings(e), NEW p \in {0, 1}, NEW k \in 1 .. n,
           NEW w, WidenState(w, k - 1, e, f, n, g, p)
    PROVE  WidenState(Widened(w, e, n - k, p), k, e, f, n, g, p)
<1>1. /\ n \in Nat /\ k \in Nat /\ p \in Nat /\ e \in 1 .. ENC64 /\ f \in 1 .. ENC64 /\ e \in Nat /\ f \in Nat
      /\ e <= f /\ \A i \in 0 .. n - 1 : g[i] \in Int /\ Fits(g[i], e)
  BY EncodingIs DEF IntsetArray, WiderEncodings
<1>2. PICK x : /\ w = [enc |-> f, length |-> n, mem |-> x]
               /\ x \in [1 .. Place(n + 1, f) -> Int]
               /\ \A q \in 0 .. n - 1 : /\ q < n - (k - 1) => Cell(x, Place(q, e), e, g[q])
                                        /\ q >= n - (k - 1) => Cell(x, Place(q + p, f), f, g[q])
  BY DEF WidenState
<1>3. PICK idx \in 0 .. n - 1 : idx = n - k
  BY <1>1
<1>4. PICK u \in Int : u = g[idx] /\ Fits(u, e) /\ Cell(x, Place(idx, e), e, u)
  <2>1. idx < n - (k - 1)
    BY <1>1, <1>3
  <2> QED
    BY <1>1, <1>2, <2>1
<1>5. intsetGetEncoded(w, idx, e) = u
  <2>1. w.mem = x
    BY <1>2
  <2> QED
    BY <1>1, <1>4, <2>1, CellIsRead
<1>6. PICK ad \in Nat, span \in Nat : ad = Place(idx + p, f) /\ span = Place(n + 1, f) /\ ad + f <= span
  <2>1. idx + p \in Nat /\ n + 1 \in Nat /\ idx + p < n + 1
    BY <1>1
  <2>2. Place(idx + p, f) \in Nat /\ Place(n + 1, f) \in Nat /\ Place(idx + p, f) + f <= Place(n + 1, f)
    BY <1>1, <2>1, PlaceOrder
  <2> QED
    BY <2>2
<1>7. x \in [1 .. span -> Int]
  BY <1>2, <1>6
<1>8. PICK y : y = Stored(x, ad, f, u)
  OBVIOUS
<1>9. y \in [1 .. span -> Int] /\ Cell(y, ad, f, u)
  <2>1. Stored(x, ad, f, u) \in [1 .. span -> Int] /\ Cell(Stored(x, ad, f, u), ad, f, u)
    BY <1>1, <1>6, <1>7, StoreIs
  <2> QED
    BY <1>8, <2>1
<1>10. ASSUME NEW place \in Nat, NEW c \in Nat, NEW z, place + c <= ad \/ ad + f <= place, place + c <= span,
              Cell(x, place, c, z)
       PROVE  Cell(y, place, c, z)
  <2>1. Cell(Stored(x, ad, f, u), place, c, z)
    BY <1>1, <1>6, <1>7, <1>10, StoreKeeps
  <2> QED
    BY <1>8, <2>1
<1>11. Widened(w, e, n - k, p) = [enc |-> f, length |-> n, mem |-> y]
  <2>1. intsetSet(w, idx + p, u) = [enc |-> f, length |-> n, mem |-> Stored(x, Place(idx + p, f), f, u)]
    <3>1. PICK i : i = idx + p
      OBVIOUS
    <3>2. w = [enc |-> f, length |-> n, mem |-> x]
      BY <1>2
    <3>3. intsetSet(w, i, u) = [enc |-> f, length |-> n, mem |-> Stored(x, Place(i, f), f, u)]
      BY <3>2, StoredRecord
    <3> QED
      BY <3>1, <3>3
  <2> QED
    BY <1>3, <1>5, <1>6, <1>8, <2>1 DEF Widened
<1>12. ASSUME NEW q \in 0 .. n - 1, q < n - k PROVE Cell(y, Place(q, e), e, g[q])
  <2>1. q \in Nat /\ q < idx /\ idx \in Nat /\ q < n - (k - 1)
    BY <1>1, <1>3, <1>12
  <2>2. PICK place \in Nat : place = Place(q, e)
    BY <1>1, <2>1, PlaceOrder
  <2>3. place + e <= ad
    <3>1. Place(q, e) + e <= Place(idx, e)
      BY <1>1, <2>1, PlaceOrder
    <3>2. Place(idx, e) <= Place(idx, f)
      BY <1>1, <2>1, WiderPlace
    <3>3. idx + p \in Nat /\ idx <= idx + p
      BY <1>1, <2>1
    <3>4. Place(idx, f) <= Place(idx + p, f)
      BY <1>1, <2>1, <3>3, PlaceOrder
    <3>5. PICK a \in Nat, b \in Nat : a = Place(idx, e) /\ b = Place(idx, f)
      BY <1>1, <2>1, PlaceOrder
    <3>6. place + e <= a /\ a <= b /\ b <= ad
      BY <1>6, <2>2, <3>1, <3>2, <3>4, <3>5
    <3> QED
      BY <1>1, <3>6
  <2>4. place + e <= span
    BY <1>1, <1>6, <2>3
  <2>5. PICK z : z = g[q] /\ Cell(x, place, e, z)
    BY <1>2, <2>1, <2>2
  <2>6. Cell(y, place, e, z)
    BY <1>1, <1>10, <2>3, <2>4, <2>5
  <2> QED
    BY <2>2, <2>5, <2>6
<1>13. ASSUME NEW q \in 0 .. n - 1, q >= n - k PROVE Cell(y, Place(q + p, f), f, g[q])
  <2>1. CASE q = idx
    BY <1>4, <1>6, <1>9, <2>1
  <2>2. CASE q # idx
    <3>1. q \in Nat /\ idx < q /\ idx \in Nat /\ q >= n - (k - 1)
      BY <1>1, <1>3, <1>13, <2>2
    <3>2. idx + p \in Nat /\ q + p \in Nat /\ n + 1 \in Nat /\ idx + p < q + p /\ q + p < n + 1
      BY <1>1, <3>1
    <3>3. PICK place \in Nat : place = Place(q + p, f)
      BY <1>1, <3>2, PlaceOrder
    <3>4. ad + f <= place
      <4>1. Place(idx + p, f) + f <= Place(q + p, f)
        BY <1>1, <3>2, PlaceOrder
      <4> QED
        BY <1>6, <3>3, <4>1
    <3>5. place + f <= span
      <4>1. Place(q + p, f) + f <= Place(n + 1, f)
        BY <1>1, <3>2, PlaceOrder
      <4> QED
        BY <1>6, <3>3, <4>1
    <3>6. PICK z : z = g[q] /\ Cell(x, place, f, z)
      BY <1>2, <3>1, <3>3
    <3>7. Cell(y, place, f, z)
      BY <1>1, <1>10, <3>4, <3>5, <3>6
    <3> QED
      BY <3>3, <3>6, <3>7
  <2> QED
    BY <2>1, <2>2
<1> QED
  BY <1>6, <1>9, <1>11, <1>12, <1>13 DEF WidenState

\* All members are widened (intsetUpgradeAndAdd).
LEMMA WidenIs ==
    ASSUME NEW is, NEW e, NEW n, NEW m, NEW g, IntsetArray(is, e, n, m, g),
           NEW f \in WiderEncodings(e), NEW p \in {0, 1}, NEW room, WidenState(room, 0, e, f, n, g, p)
    PROVE  WidenState(Widen(room, e, n, p), n, e, f, n, g, p)
<1>1. n \in Nat
  BY DEF IntsetArray
<1>2. PICK w : /\ w[0] = room
               /\ \A k \in 1 .. n : w[k] = Widened(w[k - 1], e, n - k, p)
               /\ Widen(room, e, n, p) = w[n]
  <2>1. WidenArgs(room, e, n, p)
    BY <1>1 DEF WidenArgs
  <2> QED
    BY <2>1, WidenSolves
<1> DEFINE P == {k \in 0 .. n : WidenState(w[k], k, e, f, n, g, p)}
<1>3. 0 \in P
  BY <1>1, <1>2
<1>4. ASSUME NEW k \in 1 .. n, k - 1 \in P PROVE k \in P
  <2>1. WidenState(Widened(w[k - 1], e, n - k, p), k, e, f, n, g, p)
    BY <1>4, WidenedIs
  <2> QED
    BY <1>1, <1>2, <2>1
<1> HIDE DEF P
<1>5. \A k \in 0 .. n : k \in P
  BY <1>1, <1>3, <1>4, UpTo
<1>6. n \in P
  BY <1>1, <1>5
<1> USE DEF P
<1> QED
  BY <1>2, <1>6

\* A value that does not fit is beyond all members.
LEMMA BeyondAll ==
    ASSUME NEW e \in 1 .. ENC64, NEW v \in Int, ~Fits(v, e), NEW u \in Int, Fits(u, e)
    PROVE  IF v < 0 THEN v < u ELSE u < v
<1>1. PICK h \in Nat : h = Half(e)
  BY HalfIs
<1>2. u >= -h /\ u < h /\ ~(v >= -h /\ v < h)
  BY <1>1 DEF Fits
<1> QED
  BY <1>2

\* The room for the wider members.
LEMMA WiderRoom ==
    ASSUME NEW is, NEW e, NEW n, NEW m, NEW g, IntsetArray(is, e, n, m, g),
           NEW f \in WiderEncodings(e), NEW p \in {0, 1}
    PROVE  WidenState([enc |-> f, length |-> n, mem |-> Realloc(m, Place(n + 1, f))], 0, e, f, n, g, p)
<1>1. /\ n \in Nat /\ e \in Nat /\ f \in Nat /\ e <= f /\ m \in [1 .. Place(n, e) -> Int]
      /\ \A i \in 0 .. n - 1 : Cell(m, Place(i, e), e, g[i])
  BY EncodingIs DEF IntsetArray, WiderEncodings
<1>2. PICK len \in Nat, span \in Nat : len = Place(n, e) /\ span = Place(n + 1, f) /\ len <= span
  <2>1. n + 1 \in Nat /\ n <= n + 1
    BY <1>1
  <2>2. Place(n, e) <= Place(n, f)
    BY <1>1, WiderPlace
  <2>3. Place(n, f) <= Place(n + 1, f) /\ Place(n, f) \in Nat /\ Place(n + 1, f) \in Nat
    BY <1>1, <2>1, PlaceOrder
  <2>4. Place(n, e) \in Nat
    BY <1>1, PlaceOrder
  <2> QED
    BY <2>2, <2>3, <2>4
<1>3. PICK x : x = Realloc(m, span)
  OBVIOUS
<1>4. m \in [1 .. len -> Int] /\ x \in [1 .. span -> Int]
  <2>1. m \in [1 .. len -> Int]
    BY <1>1, <1>2
  <2> QED
    BY <1>3, <2>1, ReallocIs
<1>5. ASSUME NEW q \in 0 .. n - 1 PROVE Cell(x, Place(q, e), e, g[q])
  <2>1. PICK ad \in Nat : ad = Place(q, e) /\ ad + e <= len
    <3>1. q \in Nat /\ q < n
      BY <1>1
    <3>2. Place(q, e) \in Nat /\ Place(q, e) + e <= Place(n, e)
      BY <1>1, <3>1, PlaceOrder
    <3> QED
      BY <1>2, <3>2
  <2>2. ad + e <= span
    BY <1>1, <1>2, <2>1
  <2>3. PICK u : u = g[q] /\ Cell(m, ad, e, u)
    BY <1>1, <2>1
  <2>4. Cell(Realloc(m, span), ad, e, u)
    BY <1>1, <1>4, <2>1, <2>2, <2>3, ReallocKeeps
  <2> QED
    BY <1>3, <2>1, <2>3, <2>4
<1>6. PICK w : w = [enc |-> f, length |-> n, mem |-> x]
  OBVIOUS
<1>7. x \in [1 .. Place(n + 1, f) -> Int]
  BY <1>2, <1>4
<1>8. \A q \in 0 .. n - 1 : q < n - 0 /\ ~(q >= n - 0)
  BY <1>1
<1>9. WidenState(w, 0, e, f, n, g, p)
  BY <1>5, <1>6, <1>7, <1>8 DEF WidenState
<1> QED
  BY <1>2, <1>3, <1>6, <1>9

\* The set is upgraded for a wider value (intsetUpgradeAndAdd).
LEMMA UpgradeIs ==
    ASSUME NEW is, NEW e, NEW n, NEW m, NEW g, IntsetArray(is, e, n, m, g), NEW v \in Int64,
           NEW f \in WiderEncodings(e), f = intsetValueEncoding(v)
    PROVE  \E n2, m2, g2 : /\ IntsetArray(intsetUpgradeAndAdd(is, v), f, n2, m2, g2)
                           /\ Members(g2, n2) = Members(g, n) \cup {v}
<1>1. /\ is = [enc |-> e, length |-> n, mem |-> m] /\ is.enc = e /\ is.length = n /\ is.mem = m
      /\ e \in IntsetEncodings /\ e \in 1 .. ENC64 /\ n \in Nat /\ v \in Int
      /\ f \in IntsetEncodings /\ f \in 1 .. ENC64 /\ Fits(v, f) /\ e < f
  <2>1. f \in IntsetEncodings /\ Fits(v, f)
    BY ValueEncodingIs
  <2> QED
    BY <2>1, EncodingIs DEF IntsetArray, WiderEncodings
<1>2. /\ g \in [0 .. n - 1 -> Int64] /\ \A i \in 0 .. n - 1 : g[i] \in Int /\ Fits(g[i], e)
      /\ \A i, k \in 0 .. n - 1 : i < k => g[i] < g[k]
  BY EncodingIs DEF IntsetArray
<1>3. ~Fits(v, e)
  <2>1. ~(f <= e)
    BY <1>1
  <2> QED
    BY <1>1, <2>1, ValueEncodingIs
<1>4. PICK p \in {0, 1}, idx \in 0 .. n : /\ p = IF v < 0 THEN 1 ELSE 0
                                         /\ idx = IF v < 0 THEN 0 ELSE n
  BY <1>1
<1>5. \A i \in 0 .. n - 1 : (i < idx => g[i] < v) /\ (i >= idx => v < g[i])
  <2>1. ASSUME NEW i \in 0 .. n - 1 PROVE (i < idx => g[i] < v) /\ (i >= idx => v < g[i])
    <3>1. PICK u \in Int : u = g[i] /\ Fits(u, e)
      BY <1>2
    <3>2. IF v < 0 THEN v < u ELSE u < v
      BY <1>1, <1>3, <3>1, BeyondAll
    <3> QED
      BY <1>1, <1>4, <3>1, <3>2
  <2> QED
    BY <2>1
<1>6. PICK h : /\ h = Inserted(g, n, idx, v)
               /\ h \in [0 .. (n + 1) - 1 -> Int64]
               /\ \A i, k \in 0 .. n : i < k => h[i] < h[k]
               /\ Members(h, n + 1) = Members(g, n) \cup {v}
  <2>1. n \in Nat /\ g \in [0 .. n - 1 -> Int64] /\ \A i, k \in 0 .. n - 1 : i < k => g[i] < g[k]
    BY <1>1, <1>2
  <2>2. idx \in 0 .. n
    BY <1>4
  <2>3. BelongsAt(g, n, idx, v)
    BY <1>5, <2>1, <2>2 DEF BelongsAt
  <2> QED
    BY <2>3, InsertedIs
<1>7. PICK room : room = [enc |-> f, length |-> n, mem |-> Realloc(m, Place(n + 1, f))]
  OBVIOUS
<1>8. PICK w : w = Widen(room, e, n, p) /\ WidenState(w, n, e, f, n, g, p)
  <2>1. WidenState(room, 0, e, f, n, g, p)
    BY <1>1, <1>7, WiderRoom
  <2> QED
    BY <1>1, <2>1, WidenIs
<1>9. PICK x : /\ w = [enc |-> f, length |-> n, mem |-> x]
               /\ x \in [1 .. Place(n + 1, f) -> Int]
               /\ \A q \in 0 .. n - 1 : q >= n - n => Cell(x, Place(q + p, f), f, g[q])
  BY <1>8 DEF WidenState
<1>10. ASSUME NEW i \in 0 .. n, i # idx PROVE Cell(x, Place(i, f), f, h[i])
  <2>1. CASE v < 0
    <3>1. p = 1 /\ idx = 0 /\ i - 1 \in 0 .. n - 1 /\ i - 1 >= n - n /\ (i - 1) + p = i
      BY <1>1, <1>4, <1>10, <2>1
    <3>2. h[i] = g[i - 1]
      BY <1>6, <1>10, <3>1 DEF Inserted
    <3>3. Cell(x, Place((i - 1) + p, f), f, g[i - 1])
      BY <1>9, <3>1
    <3> QED
      BY <3>1, <3>2, <3>3
  <2>2. CASE ~(v < 0)
    <3>1. p = 0 /\ idx = n /\ i \in 0 .. n - 1 /\ i >= n - n /\ i + p = i /\ i < idx
      BY <1>1, <1>4, <1>10, <2>2
    <3>2. h[i] = g[i]
      BY <1>6, <3>1 DEF Inserted
    <3>3. Cell(x, Place(i + p, f), f, g[i])
      BY <1>9, <3>1
    <3> QED
      BY <3>1, <3>2, <3>3
  <2> QED
    BY <2>1, <2>2
<1>11. ASSUME NEW i \in 0 .. n PROVE Fits(h[i], f)
  <2>1. h[i] = v \/ \E k \in 0 .. n - 1 : h[i] = g[k]
    <3>1. i < idx => i \in 0 .. n - 1
      BY <1>1
    <3>2. i > idx => i - 1 \in 0 .. n - 1
      BY <1>1
    <3> QED
      BY <1>1, <1>6, <3>1, <3>2 DEF Inserted
  <2>2. ASSUME NEW k \in 0 .. n - 1 PROVE Fits(g[k], f)
    <3>1. e <= f
      BY <1>1
    <3> QED
      BY <1>1, <1>2, <3>1, FitsWider
  <2> QED
    BY <1>1, <2>1, <2>2
<1>12. h[idx] = v
  BY <1>6 DEF Inserted
<1>13. AllBut(f, n, x, idx, v, h)
  BY <1>1, <1>6, <1>9, <1>10, <1>11, <1>12 DEF AllBut
<1>14. PICK y, t : /\ y = Stored(x, Place(idx, f), f, v)
                   /\ t = [enc |-> f, length |-> n + 1, mem |-> y]
                   /\ IntsetArray(t, f, n + 1, y, h)
  BY <1>13, StoredInArray
<1>15. intsetUpgradeAndAdd(is, v) = t
  <2>1. intsetResize([is EXCEPT !.enc = intsetValueEncoding(v)], is.length + 1) = room
    <3>0. is = [enc |-> e, length |-> n, mem |-> m] /\ f = intsetValueEncoding(v)
      BY <1>1
    <3>1. PICK q : q = [enc |-> f, length |-> n, mem |-> m]
      OBVIOUS
    <3>2. PICK r : r = Realloc(m, Place(n + 1, f))
      OBVIOUS
    <3>3. q.enc = f /\ q.mem = m
      BY <3>1
    <3>4. intsetResize(q, n + 1) = [q EXCEPT !.mem = r]
      BY <3>2, <3>3 DEF intsetResize, Place
    <3>5. [q EXCEPT !.mem = r] = room
      BY <1>7, <3>1, <3>2
    <3>6. [is EXCEPT !.enc = intsetValueEncoding(v)] = q
      <4>1. [is EXCEPT !.enc = f] = q
        BY <3>0, <3>1
      <4> QED
        BY <3>0, <4>1
    <3> QED
      BY <1>1, <3>4, <3>5, <3>6
  <2>2. PICK s : s = intsetSet(w, idx, v) /\ s = [enc |-> f, length |-> n, mem |-> y]
    <3>1. w = [enc |-> f, length |-> n, mem |-> x]
      BY <1>9
    <3>2. intsetSet(w, idx, v) = [enc |-> f, length |-> n, mem |-> Stored(x, Place(idx, f), f, v)]
      BY <3>1, StoredRecord
    <3> QED
      BY <1>14, <3>2
  <2>3. intsetUpgradeAndAdd(is, v) = [s EXCEPT !.length = s.length + 1]
    <3>1. (IF v < 0 THEN 1 ELSE 0) = p
      BY <1>4
    <3>2. (IF p = 1 THEN 0 ELSE n) = idx
      BY <1>4
    <3> QED
      BY <1>1, <1>8, <2>1, <2>2, <3>1, <3>2 DEF intsetUpgradeAndAdd
  <2>4. s.length + 1 = n + 1
    BY <2>2
  <2>5. [s EXCEPT !.length = n + 1] = t
    BY <1>14, <2>2
  <2> QED
    BY <2>3, <2>4, <2>5
<1> QED
  BY <1>6, <1>14, <1>15

(* The array holds the set.                                                *)
IntsetInv == \E e, n, m, g : IntsetArray(intset, e, n, m, g) /\ members = Members(g, n)

\* The empty set (intsetNew).
LEMMA IntsetStarts ==
    ASSUME IntsetInit
    PROVE  IntsetInv
<1>1. intset = [enc |-> ENC16, length |-> 0, mem |-> <<>>] /\ members = {}
  BY DEF IntsetInit
<1>2. PICK g : g = [i \in 0 .. 0 - 1 |-> 0]
  OBVIOUS
<1>3. 0 .. 0 - 1 = {} /\ 1 .. 0 = {}
  OBVIOUS
<1>4. g \in [0 .. 0 - 1 -> Int64] /\ Members(g, 0) = {}
  BY <1>2, <1>3 DEF Members
<1>5. Place(0, ENC16) = 0
  BY EncodingIs DEF Place
<1>6. PICK m : m = <<>> /\ m \in [1 .. 0 -> Int]
  <2>1. <<>> \in Seq(Int) /\ Len(<<>>) = 0
    BY EmptySeq
  <2>2. <<>> \in [1 .. Len(<<>>) -> Int]
    BY <2>1, LenProperties
  <2> QED
    BY <2>1, <2>2
<1>7. IntsetArray(intset, ENC16, 0, m, g)
  BY <1>1, <1>3, <1>4, <1>5, <1>6 DEF IntsetArray, IntsetEncodings
<1> QED
  BY <1>1, <1>4, <1>7 DEF IntsetInv

\* An integer that is added, or removed, is added to the set or removed from it.
LEMMA IntsetSteps ==
    ASSUME IntsetInv, [IntsetNext]_intsetVars
    PROVE  IntsetInv'
<1>1. PICK e, n, m, g : IntsetArray(intset, e, n, m, g) /\ members = Members(g, n)
  BY DEF IntsetInv
<1>2. e \in IntsetEncodings /\ intset.enc = e
  BY <1>1 DEF IntsetArray
<1>3. ASSUME NEW v \in Int64, IntsetAdd(v) PROVE IntsetInv'
  <2>1. intset' = intsetAdd(intset, v) /\ members' = members \cup {v}
    BY <1>3 DEF IntsetAdd
  <2>2. PICK f : f = intsetValueEncoding(v) /\ f \in IntsetEncodings
    BY ValueEncodingIs
  <2>3. e \in Int /\ f \in Int
    BY <1>2, <2>2, EncodingIs
  <2>4. CASE f > e
    <3>1. intsetAdd(intset, v) = intsetUpgradeAndAdd(intset, v)
      BY <1>2, <2>2, <2>4, Zenon DEF intsetAdd
    <3>2. f \in WiderEncodings(e)
      BY <2>2, <2>3, <2>4 DEF WiderEncodings
    <3>3. PICK n2, m2, g2 : /\ IntsetArray(intsetUpgradeAndAdd(intset, v), f, n2, m2, g2)
                            /\ Members(g2, n2) = Members(g, n) \cup {v}
      BY <1>1, <2>2, <3>2, UpgradeIs
    <3> QED
      BY <1>1, <2>1, <3>1, <3>3 DEF IntsetInv
  <2>5. CASE ~(f > e)
    <3>1. intsetValueEncoding(v) <= e
      BY <2>2, <2>3, <2>5
    <3>2. PICK n2, m2, g2 : /\ IntsetArray(intsetAdd(intset, v), e, n2, m2, g2)
                            /\ Members(g2, n2) = Members(g, n) \cup {v}
      BY <1>1, <3>1, AddIs
    <3> QED
      BY <1>1, <2>1, <3>2 DEF IntsetInv
  <2> QED
    BY <2>4, <2>5
<1>4. ASSUME NEW v \in Int64, IntsetRemove(v) PROVE IntsetInv'
  <2>1. intset' = intsetRemove(intset, v) /\ members' = members \ {v}
    BY <1>4 DEF IntsetRemove
  <2>2. PICK n2, m2, g2 : /\ IntsetArray(intsetRemove(intset, v), e, n2, m2, g2)
                          /\ Members(g2, n2) = Members(g, n) \ {v}
    BY <1>1, RemoveIs
  <2> QED
    BY <1>1, <2>1, <2>2 DEF IntsetInv
<1>5. ASSUME UNCHANGED intsetVars PROVE IntsetInv'
  BY <1>1, <1>5 DEF IntsetInv, intsetVars
<1> QED
  BY <1>3, <1>4, <1>5 DEF IntsetNext

\* The array that holds the set is the set: sorted, of the size that its header
\* tells, and a search finds the members and no other integer (intsetFind).
LEMMA IntsetShows ==
    ASSUME IntsetInv
    PROVE  IntsetIsTheSet
<1>1. PICK e, n, m, g : IntsetArray(intset, e, n, m, g) /\ members = Members(g, n)
  BY DEF IntsetInv
<1>2. /\ intset.enc = e /\ intset.length = n /\ intset.mem = m /\ e \in Nat /\ n \in Nat
      /\ m \in [1 .. Place(n, e) -> Int] /\ g \in [0 .. n - 1 -> Int64]
      /\ \A i, k \in 0 .. n - 1 : i < k => g[i] < g[k]
  BY <1>1, EncodingIs DEF IntsetArray
<1>3. Len(intset.mem) = intset.length * intset.enc
  <2>1. PICK span \in Nat : span = Place(n, e) /\ m \in [1 .. span -> Int]
    BY <1>2, PlaceOrder
  <2>2. m \in Seq(Int)
    BY <2>1, SeqDef
  <2>3. Len(m) = span
    BY <2>1, <2>2, LenProperties
  <2> QED
    BY <1>2, <2>1, <2>3 DEF Place
<1>4. [i \in 0 .. intset.length - 1 |-> intsetGet(intset, i)] = g
  <2>1. \A i \in 0 .. n - 1 : intsetGet(intset, i) = g[i]
    BY <1>1, ArrayIsRead
  <2> QED
    BY <1>2, <2>1
<1>5. {g[i] : i \in DOMAIN g} = members
  BY <1>1, <1>2 DEF Members
<1>6. \A v \in Int64 : intsetFind(intset, v) <=> v \in members
  BY <1>1, FindIs
<1> QED
  BY <1>2, <1>3, <1>4, <1>5, <1>6 DEF IntsetIsTheSet

\* A small set of integers is the sorted array of its members, whatever is added
\* and removed and however often the array is widened in place: a member that is
\* widened never covers one that is still to be read, the members that move up or
\* down arrive where they belong, and the search misses no member (intset.c).
THEOREM IntsetIsTheSetAlways == IntsetInit /\ [][IntsetNext]_intsetVars => []IntsetIsTheSet
<1>1. IntsetInit => IntsetInv
  BY IntsetStarts
<1>2. IntsetInv /\ [IntsetNext]_intsetVars => IntsetInv'
  BY IntsetSteps
<1>3. IntsetInv => IntsetIsTheSet
  BY IntsetShows
<1> QED
  BY <1>1, <1>2, <1>3, PTL
=============================================================================
