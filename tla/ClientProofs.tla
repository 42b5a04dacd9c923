---------------------------- MODULE ClientProofs ----------------------------
(***************************************************************************)
(* What the server keeps of its clients and sends to them: the tables that *)
(* refer to them, for any clients and channels; the scripts, which slaves  *)
(* replay; the output of a client, for any sizes of its buffers; and its   *)
(* input, for any cuts of the stream into reads.                           *)
(***************************************************************************)
EXTENDS PubSub, Scripting, ClientInput, ClientOutput, SequenceLemmas

----------------------------------------------------------------------------
(* The tables of the clients.  A handler makes a new record t of them.     *)

ClientFlag == {"SLAVE", "MONITOR", "MASTER", "ASAP", "AFTER_REPLY"}

IsTables(t) ==
    /\ t = [clients |-> t.clients, flags |-> t.flags, channels |-> t.channels, patterns |-> t.patterns,
            subscribers |-> t.subscribers, psubscribers |-> t.psubscribers,
            slaves |-> t.slaves, monitors |-> t.monitors, closing |-> t.closing]
    /\ t.clients \subseteq Conn
    /\ t.flags \in [Conn -> SUBSET ClientFlag]
    /\ t.channels \in [Conn -> SUBSET Channel] /\ t.patterns \in [Conn -> SUBSET Channel]
    /\ t.subscribers \in [Channel -> [Conn -> Int]] /\ t.psubscribers \in [Channel -> [Conn -> Int]]
    /\ t.slaves \in [Conn -> Int] /\ t.monitors \in [Conn -> Int] /\ t.closing \in [Conn -> Int]

(* A monitor has the flag of a slave too (monitorCommand), so that it can  *)
(* not become a slave, which would count it where freeClient does not.     *)
Agreed(t) ==
    /\ IsTables(t)
    /\ \A c \in Conn : AgreeOn(t, c) /\ ("MONITOR" \in t.flags[c] => "SLAVE" \in t.flags[c])

SubInv == Agreed(Tables) /\ masterhost_set \in BOOLEAN

LEMMA TablesRecord ==
    ASSUME NEW cl \in SUBSET Conn, NEW fl \in [Conn -> SUBSET ClientFlag],
           NEW ch \in [Conn -> SUBSET Channel], NEW pa \in [Conn -> SUBSET Channel],
           NEW su \in [Channel -> [Conn -> Int]], NEW ps \in [Channel -> [Conn -> Int]],
           NEW sl \in [Conn -> Int], NEW mo \in [Conn -> Int], NEW cg \in [Conn -> Int]
    PROVE  IsTables([clients |-> cl, flags |-> fl, channels |-> ch, patterns |-> pa,
                     subscribers |-> su, psubscribers |-> ps, slaves |-> sl, monitors |-> mo, closing |-> cg])
  BY DEF IsTables

\* What the tables become is what the handler made of them.
LEMMA TablesAre ==
    ASSUME NEW t, IsTables(t), TablesBecome(t)
    PROVE  Tables' = t
  BY DEF IsTables, TablesBecome, Tables

(* The entries of client c are the same in two records.                    *)
SameEntries(t, u, c) ==
    /\ u.flags[c] = t.flags[c] /\ u.channels[c] = t.channels[c] /\ u.patterns[c] = t.patterns[c]
    /\ \A ch \in Channel : /\ u.subscribers[ch][c] = t.subscribers[ch][c]
                           /\ u.psubscribers[ch][c] = t.psubscribers[ch][c]
    /\ u.slaves[c] = t.slaves[c] /\ u.monitors[c] = t.monitors[c] /\ u.closing[c] = t.closing[c]

(* It has no entry in u, and its flags in t say how many it loses.         *)
EntriesGone(t, u, c) ==
    /\ u.flags[c] = {} /\ u.channels[c] = {} /\ u.patterns[c] = {}
    /\ \A ch \in Channel : /\ u.subscribers[ch][c] = t.subscribers[ch][c] - OneIf(ch \in t.channels[c])
                           /\ u.psubscribers[ch][c] = t.psubscribers[ch][c] - OneIf(ch \in t.patterns[c])
    /\ u.slaves[c] = t.slaves[c] - OneIf("SLAVE" \in t.flags[c] /\ "MONITOR" \notin t.flags[c])
    /\ u.monitors[c] = t.monitors[c] - OneIf("MONITOR" \in t.flags[c])

LEMMA DroppedEntries ==
    ASSUME NEW f \in [Conn -> Int], NEW cs
    PROVE  /\ Dropped(f, cs) \in [Conn -> Int]
           /\ \A c \in Conn : Dropped(f, cs)[c] = f[c] - OneIf(c \in cs)
  BY DEF Dropped, OneIf

LEMMA UnsubscribedEntries ==
    ASSUME NEW f \in [Channel -> [Conn -> Int]], NEW of, NEW cs
    PROVE  /\ Unsubscribed(f, of, cs) \in [Channel -> [Conn -> Int]]
           /\ \A ch \in Channel, c \in Conn :
                 Unsubscribed(f, of, cs)[ch][c] = f[ch][c] - OneIf(c \in cs /\ ch \in of[c])
<1>1. ASSUME NEW ch \in Channel
      PROVE  /\ Unsubscribed(f, of, cs)[ch] = Dropped(f[ch], {c \in cs : ch \in of[c]})
             /\ Unsubscribed(f, of, cs)[ch] \in [Conn -> Int]
             /\ \A c \in Conn : Unsubscribed(f, of, cs)[ch][c] = f[ch][c] - OneIf(c \in cs /\ ch \in of[c])
  <2> DEFINE gone == {c \in cs : ch \in of[c]}
  <2>1. Unsubscribed(f, of, cs)[ch] = Dropped(f[ch], gone)
    BY DEF Unsubscribed
  <2>2. \A c \in Conn : c \in gone <=> c \in cs /\ ch \in of[c]
    OBVIOUS
  <2> HIDE DEF gone
  <2>3. \A c \in Conn : OneIf(c \in gone) = OneIf(c \in cs /\ ch \in of[c])
    BY <2>2 DEF OneIf
  <2>4. f[ch] \in [Conn -> Int]
    OBVIOUS
  <2>5. /\ Dropped(f[ch], gone) \in [Conn -> Int]
        /\ \A c \in Conn : Dropped(f[ch], gone)[c] = f[ch][c] - OneIf(c \in gone)
    BY <2>4, DroppedEntries
  <2> QED
    BY <2>1, <2>3, <2>5 DEF gone
<1>2. Unsubscribed(f, of, cs) = [ch \in Channel |-> Unsubscribed(f, of, cs)[ch]]
  BY DEF Unsubscribed
<1> QED
  BY <1>1, <1>2

LEMMA UnlinkEntries ==
    ASSUME NEW t, IsTables(t), NEW cs \in SUBSET Conn
    PROVE  LET u == Unlink(t, cs)
           IN  /\ IsTables(u) /\ u.clients = t.clients \ cs
               /\ \A c \in Conn : /\ c \notin cs => SameEntries(t, u, c)
                                  /\ c \in cs => EntriesGone(t, u, c)
                                  /\ c \in cs => u.closing[c] = t.closing[c] - OneIf("ASAP" \in t.flags[c])
<1> DEFINE Flagged(f) == {c \in cs : f \in t.flags[c]}
           cl == t.clients \ cs
           fl == Cleared(t.flags, cs)
           ch == Cleared(t.channels, cs)
           pa == Cleared(t.patterns, cs)
           su == Unsubscribed(t.subscribers, t.channels, cs)
           ps == Unsubscribed(t.psubscribers, t.patterns, cs)
           sl == Dropped(t.slaves, Flagged("SLAVE") \ Flagged("MONITOR"))
           mo == Dropped(t.monitors, Flagged("MONITOR"))
           cg == Dropped(t.closing, Flagged("ASAP"))
           u  == [clients |-> cl, flags |-> fl, channels |-> ch, patterns |-> pa,
                  subscribers |-> su, psubscribers |-> ps, slaves |-> sl, monitors |-> mo, closing |-> cg]
<1>1. Unlink(t, cs) = u
  <2> DEFINE w == [clients |-> t.clients, flags |-> t.flags, channels |-> ch, patterns |-> pa,
                   subscribers |-> su, psubscribers |-> ps,
                   slaves |-> t.slaves, monitors |-> t.monitors, closing |-> t.closing]
  <2>1. pubsubUnsubscribeAllPatterns(pubsubUnsubscribeAllChannels(t, cs), cs) = w
    <3> DEFINE v == [clients |-> t.clients, flags |-> t.flags, channels |-> ch, patterns |-> t.patterns,
                     subscribers |-> su, psubscribers |-> t.psubscribers,
                     slaves |-> t.slaves, monitors |-> t.monitors, closing |-> t.closing]
    <3> DEFINE a == pubsubUnsubscribeAllChannels(t, cs)
               b == pubsubUnsubscribeAllPatterns(v, cs)
    <3>1. a = [t EXCEPT !.channels = ch, !.subscribers = su]
      BY DEF pubsubUnsubscribeAllChannels
    <3>2. b = [v EXCEPT !.patterns = pa, !.psubscribers = ps]
      BY DEF pubsubUnsubscribeAllPatterns
    <3> HIDE DEF a, b
    <3>3. a = v
      <4> HIDE DEF ch, su
      <4> QED
        BY <3>1 DEF IsTables
    <3>4. b = w
      <4> HIDE DEF ch, su, pa, ps
      <4> QED
        BY <3>2
    <3> HIDE DEF v, w
    <3> QED
      BY <3>3, <3>4 DEF a, b
  <2>2. Unlink(t, cs) = [w EXCEPT !.clients = @ \ cs,
                                  !.slaves   = Dropped(@, Flagged("SLAVE") \ Flagged("MONITOR")),
                                  !.monitors = Dropped(@, Flagged("MONITOR")),
                                  !.closing  = Dropped(@, Flagged("ASAP")),
                                  !.flags    = Cleared(@, cs)]
    BY <2>1 DEF Unlink
  <2> HIDE DEF ch, pa, su, ps, Flagged
  <2> QED
    BY <2>2
<1>2. \A c \in Conn : /\ c \in Flagged("SLAVE") \ Flagged("MONITOR")
                            <=> c \in cs /\ "SLAVE" \in t.flags[c] /\ "MONITOR" \notin t.flags[c]
                      /\ c \in Flagged("MONITOR") <=> c \in cs /\ "MONITOR" \in t.flags[c]
                      /\ c \in Flagged("ASAP") <=> c \in cs /\ "ASAP" \in t.flags[c]
  OBVIOUS
<1> HIDE DEF Flagged
<1>3. /\ fl \in [Conn -> SUBSET ClientFlag] /\ ch \in [Conn -> SUBSET Channel] /\ pa \in [Conn -> SUBSET Channel]
      /\ \A c \in Conn : /\ fl[c] = IF c \in cs THEN {} ELSE t.flags[c]
                         /\ ch[c] = IF c \in cs THEN {} ELSE t.channels[c]
                         /\ pa[c] = IF c \in cs THEN {} ELSE t.patterns[c]
  BY DEF Cleared, IsTables
<1>4. /\ sl \in [Conn -> Int] /\ mo \in [Conn -> Int] /\ cg \in [Conn -> Int]
      /\ \A c \in Conn :
           /\ sl[c] = t.slaves[c] - OneIf(c \in Flagged("SLAVE") \ Flagged("MONITOR"))
           /\ mo[c] = t.monitors[c] - OneIf(c \in Flagged("MONITOR"))
           /\ cg[c] = t.closing[c] - OneIf(c \in Flagged("ASAP"))
  BY DroppedEntries DEF IsTables
<1>5. /\ su \in [Channel -> [Conn -> Int]] /\ ps \in [Channel -> [Conn -> Int]]
      /\ \A d \in Channel, c \in Conn :
           /\ su[d][c] = t.subscribers[d][c] - OneIf(c \in cs /\ d \in t.channels[c])
           /\ ps[d][c] = t.psubscribers[d][c] - OneIf(c \in cs /\ d \in t.patterns[c])
  BY UnsubscribedEntries DEF IsTables
<1>6. cl \in SUBSET Conn
  BY DEF IsTables
<1> HIDE DEF cl, fl, ch, pa, su, ps, sl, mo, cg
<1>7. IsTables(u)
  BY <1>3, <1>4, <1>5, <1>6, TablesRecord
<1>8. ASSUME NEW c \in Conn, c \notin cs
      PROVE  SameEntries(t, u, c)
  BY <1>2, <1>3, <1>4, <1>5, <1>8 DEF SameEntries, OneIf, IsTables
<1>9. ASSUME NEW c \in Conn, c \in cs
      PROVE  EntriesGone(t, u, c) /\ u.closing[c] = t.closing[c] - OneIf("ASAP" \in t.flags[c])
  BY <1>2, <1>3, <1>4, <1>5, <1>9 DEF EntriesGone, OneIf, IsTables
<1>10. u.clients = t.clients \ cs
  BY DEF cl
<1> HIDE DEF u
<1> QED
  BY <1>1, <1>7, <1>8, <1>9, <1>10

\* Entries that stay are agreed on as before.
LEMMA SameAgree ==
    ASSUME NEW t, NEW u, NEW c \in Conn, SameEntries(t, u, c), AgreeOn(t, c), c \in t.clients => c \in u.clients
    PROVE  AgreeOn(u, c)
  BY DEF SameEntries, AgreeOn

\* Entries that are gone are agreed on.
LEMMA GoneAgree ==
    ASSUME NEW t, IsTables(t), NEW u, NEW c \in Conn, EntriesGone(t, u, c), u.closing[c] = 0,
           \A ch \in Channel : /\ t.subscribers[ch][c] = OneIf(ch \in t.channels[c])
                               /\ t.psubscribers[ch][c] = OneIf(ch \in t.patterns[c]),
           t.slaves[c] = OneIf("SLAVE" \in t.flags[c] /\ "MONITOR" \notin t.flags[c]),
           t.monitors[c] = OneIf("MONITOR" \in t.flags[c])
    PROVE  AgreeOn(u, c)
  BY DEF EntriesGone, AgreeOn, OneIf

LEMMA UnlinkAgrees ==
    ASSUME NEW t, Agreed(t), NEW cs \in SUBSET Conn
    PROVE  Agreed(Unlink(t, cs))
<1> DEFINE u == Unlink(t, cs)
<1>1. /\ IsTables(u) /\ u.clients = t.clients \ cs
      /\ \A c \in Conn : /\ c \notin cs => SameEntries(t, u, c)
                         /\ c \in cs => EntriesGone(t, u, c)
                         /\ c \in cs => u.closing[c] = t.closing[c] - OneIf("ASAP" \in t.flags[c])
  BY UnlinkEntries DEF Agreed
<1> HIDE DEF u
<1>2. ASSUME NEW c \in Conn, c \notin cs
      PROVE  AgreeOn(u, c) /\ ("MONITOR" \in u.flags[c] => "SLAVE" \in u.flags[c])
  BY <1>1, <1>2, SameAgree DEF Agreed, SameEntries
<1>3. ASSUME NEW c \in Conn, c \in cs
      PROVE  AgreeOn(u, c) /\ u.flags[c] = {}
  <2>1. EntriesGone(t, u, c) /\ AgreeOn(t, c) /\ u.closing[c] = 0 /\ IsTables(t)
    BY <1>1, <1>3 DEF Agreed, AgreeOn, OneIf
  <2> QED
    BY <2>1, GoneAgree DEF AgreeOn, EntriesGone
<1> QED
  BY <1>1, <1>2, <1>3 DEF Agreed, u

\* A step that changes the entries of one client.
LEMMA OneAgrees ==
    ASSUME NEW t, Agreed(t), NEW u, IsTables(u), NEW c \in Conn, u.clients \ {c} = t.clients \ {c},
           \A d \in Conn : d # c => SameEntries(t, u, d),
           AgreeOn(u, c), "MONITOR" \in u.flags[c] => "SLAVE" \in u.flags[c]
    PROVE  Agreed(u)
<1>1. ASSUME NEW d \in Conn, d # c
      PROVE  AgreeOn(u, d) /\ ("MONITOR" \in u.flags[d] => "SLAVE" \in u.flags[d])
  <2>1. SameEntries(t, u, d) /\ AgreeOn(t, d) /\ (d \in t.clients => d \in u.clients)
    BY <1>1 DEF Agreed
  <2>2. AgreeOn(u, d)
    BY <2>1, SameAgree
  <2> QED
    BY <2>1, <2>2 DEF SameEntries, Agreed
<1> QED
  BY <1>1 DEF Agreed

LEMMA SubscribeAgrees ==
    ASSUME NEW t, Agreed(t), NEW c \in t.clients, NEW ch \in Channel
    PROVE  Agreed(pubsubSubscribeChannel(t, c, ch)) /\ Agreed(pubsubSubscribePattern(t, c, ch))
<1>0. c \in Conn /\ IsTables(t) /\ AgreeOn(t, c)
  BY DEF Agreed, IsTables
<1>1. ASSUME ch \notin t.channels[c]
      PROVE  Agreed(pubsubSubscribeChannel(t, c, ch))
  <2> DEFINE f == [t.channels EXCEPT ![c] = @ \cup {ch}]
             n == [t.subscribers EXCEPT ![ch][c] = @ + 1]
             a == pubsubSubscribeChannel(t, c, ch)
             u == [clients |-> t.clients, flags |-> t.flags, channels |-> f, patterns |-> t.patterns,
                   subscribers |-> n, psubscribers |-> t.psubscribers,
                   slaves |-> t.slaves, monitors |-> t.monitors, closing |-> t.closing]
  <2>1. a = [t EXCEPT !.channels[c] = @ \cup {ch}, !.subscribers[ch][c] = @ + 1]
    BY <1>1 DEF pubsubSubscribeChannel
  <2> HIDE DEF a
  <2>2. a = u
    BY <1>0, <2>1 DEF IsTables
  <2>3. /\ f \in [Conn -> SUBSET Channel] /\ n \in [Channel -> [Conn -> Int]]
        /\ f[c] = t.channels[c] \cup {ch} /\ \A d \in Conn : d # c => f[d] = t.channels[d]
        /\ n[ch][c] = t.subscribers[ch][c] + 1
        /\ \A e \in Channel, d \in Conn : e # ch \/ d # c => n[e][d] = t.subscribers[e][d]
    BY <1>0 DEF IsTables
  <2> HIDE DEF f, n
  <2>4. IsTables(u)
    BY <1>0, <2>3, TablesRecord DEF IsTables
  <2>5. \A d \in Conn : d # c => SameEntries(t, u, d)
    BY <2>3 DEF SameEntries
  <2>6. AgreeOn(u, c)
    BY <1>0, <1>1, <2>3 DEF AgreeOn, OneIf, IsTables
  <2>7. "MONITOR" \in u.flags[c] => "SLAVE" \in u.flags[c]
    BY <1>0 DEF Agreed
  <2>8. u.clients \ {c} = t.clients \ {c}
    OBVIOUS
  <2> HIDE DEF u
  <2> QED
    BY <1>0, <2>2, <2>4, <2>5, <2>6, <2>7, <2>8, OneAgrees DEF a
<1>2. ASSUME ch \notin t.patterns[c]
      PROVE  Agreed(pubsubSubscribePattern(t, c, ch))
  <2> DEFINE f == [t.patterns EXCEPT ![c] = @ \cup {ch}]
             n == [t.psubscribers EXCEPT ![ch][c] = @ + 1]
             a == pubsubSubscribePattern(t, c, ch)
             u == [clients |-> t.clients, flags |-> t.flags, channels |-> t.channels, patterns |-> f,
                   subscribers |-> t.subscribers, psubscribers |-> n,
                   slaves |-> t.slaves, monitors |-> t.monitors, closing |-> t.closing]
  <2>1. a = [t EXCEPT !.patterns[c] = @ \cup {ch}, !.psubscribers[ch][c] = @ + 1]
    BY <1>2 DEF pubsubSubscribePattern
  <2> HIDE DEF a
  <2>2. a = u
    BY <1>0, <2>1 DEF IsTables
  <2>3. /\ f \in [Conn -> SUBSET Channel] /\ n \in [Channel -> [Conn -> Int]]
        /\ f[c] = t.patterns[c] \cup {ch} /\ \A d \in Conn : d # c => f[d] = t.patterns[d]
        /\ n[ch][c] = t.psubscribers[ch][c] + 1
        /\ \A e \in Channel, d \in Conn : e # ch \/ d # c => n[e][d] = t.psubscribers[e][d]
    BY <1>0 DEF IsTables
  <2> HIDE DEF f, n
  <2>4. IsTables(u)
    BY <1>0, <2>3, TablesRecord DEF IsTables
  <2>5. \A d \in Conn : d # c => SameEntries(t, u, d)
    BY <2>3 DEF SameEntries
  <2>6. AgreeOn(u, c)
    BY <1>0, <1>2, <2>3 DEF AgreeOn, OneIf, IsTables
  <2>7. "MONITOR" \in u.flags[c] => "SLAVE" \in u.flags[c]
    BY <1>0 DEF Agreed
  <2>8. u.clients \ {c} = t.clients \ {c}
    OBVIOUS
  <2> HIDE DEF u
  <2> QED
    BY <1>0, <2>2, <2>4, <2>5, <2>6, <2>7, <2>8, OneAgrees DEF a
<1> QED
  BY <1>1, <1>2 DEF pubsubSubscribeChannel, pubsubSubscribePattern

LEMMA UnsubscribeAgrees ==
    ASSUME NEW t, Agreed(t), NEW c \in t.clients, NEW ch \in Channel
    PROVE  Agreed(pubsubUnsubscribeChannel(t, c, ch)) /\ Agreed(pubsubUnsubscribePattern(t, c, ch))
<1>0. c \in Conn /\ IsTables(t) /\ AgreeOn(t, c)
  BY DEF Agreed, IsTables
<1>1. ASSUME ch \in t.channels[c]
      PROVE  Agreed(pubsubUnsubscribeChannel(t, c, ch))
  <2> DEFINE f == [t.channels EXCEPT ![c] = @ \ {ch}]
             n == [t.subscribers EXCEPT ![ch][c] = @ - 1]
             a == pubsubUnsubscribeChannel(t, c, ch)
             u == [clients |-> t.clients, flags |-> t.flags, channels |-> f, patterns |-> t.patterns,
                   subscribers |-> n, psubscribers |-> t.psubscribers,
                   slaves |-> t.slaves, monitors |-> t.monitors, closing |-> t.closing]
  <2>1. a = [t EXCEPT !.channels[c] = @ \ {ch}, !.subscribers[ch][c] = @ - 1]
    BY <1>1 DEF pubsubUnsubscribeChannel
  <2> HIDE DEF a
  <2>2. a = u
    BY <1>0, <2>1 DEF IsTables
  <2>3. /\ f \in [Conn -> SUBSET Channel] /\ n \in [Channel -> [Conn -> Int]]
        /\ f[c] = t.channels[c] \ {ch} /\ \A d \in Conn : d # c => f[d] = t.channels[d]
        /\ n[ch][c] = t.subscribers[ch][c] - 1
        /\ \A e \in Channel, d \in Conn : e # ch \/ d # c => n[e][d] = t.subscribers[e][d]
    BY <1>0 DEF IsTables
  <2> HIDE DEF f, n
  <2>4. IsTables(u)
    BY <1>0, <2>3, TablesRecord DEF IsTables
  <2>5. \A d \in Conn : d # c => SameEntries(t, u, d)
    BY <2>3 DEF SameEntries
  <2>6. AgreeOn(u, c)
    BY <1>0, <1>1, <2>3 DEF AgreeOn, OneIf, IsTables
  <2>7. "MONITOR" \in u.flags[c] => "SLAVE" \in u.flags[c]
    BY <1>0 DEF Agreed
  <2>8. u.clients \ {c} = t.clients \ {c}
    OBVIOUS
  <2> HIDE DEF u
  <2> QED
    BY <1>0, <2>2, <2>4, <2>5, <2>6, <2>7, <2>8, OneAgrees DEF a
<1>2. ASSUME ch \in t.patterns[c]
      PROVE  Agreed(pubsubUnsubscribePattern(t, c, ch))
  <2> DEFINE f == [t.patterns EXCEPT ![c] = @ \ {ch}]
             n == [t.psubscribers EXCEPT ![ch][c] = @ - 1]
             a == pubsubUnsubscribePattern(t, c, ch)
             u == [clients |-> t.clients, flags |-> t.flags, channels |-> t.channels, patterns |-> f,
                   subscribers |-> t.subscribers, psubscribers |-> n,
                   slaves |-> t.slaves, monitors |-> t.monitors, closing |-> t.closing]
  <2>1. a = [t EXCEPT !.patterns[c] = @ \ {ch}, !.psubscribers[ch][c] = @ - 1]
    BY <1>2 DEF pubsubUnsubscribePattern
  <2> HIDE DEF a
  <2>2. a = u
    BY <1>0, <2>1 DEF IsTables
  <2>3. /\ f \in [Conn -> SUBSET Channel] /\ n \in [Channel -> [Conn -> Int]]
        /\ f[c] = t.patterns[c] \ {ch} /\ \A d \in Conn : d # c => f[d] = t.patterns[d]
        /\ n[ch][c] = t.psubscribers[ch][c] - 1
        /\ \A e \in Channel, d \in Conn : e # ch \/ d # c => n[e][d] = t.psubscribers[e][d]
    BY <1>0 DEF IsTables
  <2> HIDE DEF f, n
  <2>4. IsTables(u)
    BY <1>0, <2>3, TablesRecord DEF IsTables
  <2>5. \A d \in Conn : d # c => SameEntries(t, u, d)
    BY <2>3 DEF SameEntries
  <2>6. AgreeOn(u, c)
    BY <1>0, <1>2, <2>3 DEF AgreeOn, OneIf, IsTables
  <2>7. "MONITOR" \in u.flags[c] => "SLAVE" \in u.flags[c]
    BY <1>0 DEF Agreed
  <2>8. u.clients \ {c} = t.clients \ {c}
    OBVIOUS
  <2> HIDE DEF u
  <2> QED
    BY <1>0, <2>2, <2>4, <2>5, <2>6, <2>7, <2>8, OneAgrees DEF a
<1> QED
  BY <1>1, <1>2 DEF pubsubUnsubscribeChannel, pubsubUnsubscribePattern

LEMMA UnsubscribeAllAgrees ==
    ASSUME NEW t, Agreed(t), NEW cs \in SUBSET Conn
    PROVE  Agreed(pubsubUnsubscribeAllChannels(t, cs)) /\ Agreed(pubsubUnsubscribeAllPatterns(t, cs))
<1>0. IsTables(t) /\ \A c \in Conn : AgreeOn(t, c) /\ ("MONITOR" \in t.flags[c] => "SLAVE" \in t.flags[c])
  BY DEF Agreed
<1>1. Agreed(pubsubUnsubscribeAllChannels(t, cs))
  <2> DEFINE f == Cleared(t.channels, cs)
             n == Unsubscribed(t.subscribers, t.channels, cs)
             a == pubsubUnsubscribeAllChannels(t, cs)
             u == [clients |-> t.clients, flags |-> t.flags, channels |-> f, patterns |-> t.patterns,
                   subscribers |-> n, psubscribers |-> t.psubscribers,
                   slaves |-> t.slaves, monitors |-> t.monitors, closing |-> t.closing]
  <2>1. a = [t EXCEPT !.channels = f, !.subscribers = n]
    BY DEF pubsubUnsubscribeAllChannels
  <2>2. f \in [Conn -> SUBSET Channel] /\ \A c \in Conn : f[c] = IF c \in cs THEN {} ELSE t.channels[c]
    BY <1>0 DEF Cleared, IsTables
  <2>3. /\ n \in [Channel -> [Conn -> Int]]
        /\ \A d \in Channel, c \in Conn : n[d][c] = t.subscribers[d][c] - OneIf(c \in cs /\ d \in t.channels[c])
    BY <1>0, UnsubscribedEntries DEF IsTables
  <2> HIDE DEF a, f, n
  <2>4. a = u
    BY <1>0, <2>1 DEF IsTables
  <2>5. IsTables(u)
    BY <1>0, <2>2, <2>3, TablesRecord DEF IsTables
  <2>6. ASSUME NEW c \in Conn PROVE AgreeOn(u, c)
    <3>1. AgreeOn(t, c)
      BY <1>0
    <3>2. ASSUME NEW d \in Channel PROVE n[d][c] = OneIf(d \in f[c])
      BY <2>2, <2>3, <3>1 DEF AgreeOn, OneIf
    <3>3. c \notin t.clients => f[c] = {}
      BY <2>2, <3>1 DEF AgreeOn
    <3> QED
      BY <3>1, <3>2, <3>3 DEF AgreeOn
  <2> QED
    BY <1>0, <2>4, <2>5, <2>6 DEF Agreed, a
<1>2. Agreed(pubsubUnsubscribeAllPatterns(t, cs))
  <2> DEFINE f == Cleared(t.patterns, cs)
             n == Unsubscribed(t.psubscribers, t.patterns, cs)
             a == pubsubUnsubscribeAllPatterns(t, cs)
             u == [clients |-> t.clients, flags |-> t.flags, channels |-> t.channels, patterns |-> f,
                   subscribers |-> t.subscribers, psubscribers |-> n,
                   slaves |-> t.slaves, monitors |-> t.monitors, closing |-> t.closing]
  <2>1. a = [t EXCEPT !.patterns = f, !.psubscribers = n]
    BY DEF pubsubUnsubscribeAllPatterns
  <2>2. f \in [Conn -> SUBSET Channel] /\ \A c \in Conn : f[c] = IF c \in cs THEN {} ELSE t.patterns[c]
    BY <1>0 DEF Cleared, IsTables
  <2>3. /\ n \in [Channel -> [Conn -> Int]]
        /\ \A d \in Channel, c \in Conn : n[d][c] = t.psubscribers[d][c] - OneIf(c \in cs /\ d \in t.patterns[c])
    BY <1>0, UnsubscribedEntries DEF IsTables
  <2> HIDE DEF a, f, n
  <2>4. a = u
    BY <1>0, <2>1 DEF IsTables
  <2>5. IsTables(u)
    BY <1>0, <2>2, <2>3, TablesRecord DEF IsTables
  <2>6. ASSUME NEW c \in Conn PROVE AgreeOn(u, c)
    <3>1. AgreeOn(t, c)
      BY <1>0
    <3>2. ASSUME NEW d \in Channel PROVE n[d][c] = OneIf(d \in f[c])
      BY <2>2, <2>3, <3>1 DEF AgreeOn, OneIf
    <3>3. c \notin t.clients => f[c] = {}
      BY <2>2, <3>1 DEF AgreeOn
    <3> QED
      BY <3>1, <3>2, <3>3 DEF AgreeOn
  <2> QED
    BY <1>0, <2>4, <2>5, <2>6 DEF Agreed, a
<1> QED
  BY <1>1, <1>2

\* Clients that are to be freed later are counted once in the queue.
LEMMA AsyncAgrees ==
    ASSUME NEW t, Agreed(t), NEW cs \in SUBSET t.clients
    PROVE  Agreed(freeClientAsync(t, cs))
<1> DEFINE new == {c \in cs : "ASAP" \notin t.flags[c]}
           f == [c \in Conn |-> IF c \in new THEN t.flags[c] \cup {"ASAP"} ELSE t.flags[c]]
           n == [c \in Conn |-> IF c \in new THEN t.closing[c] + 1 ELSE t.closing[c]]
           a == freeClientAsync(t, cs)
           u == [clients |-> t.clients, flags |-> f, channels |-> t.channels, patterns |-> t.patterns,
                 subscribers |-> t.subscribers, psubscribers |-> t.psubscribers,
                 slaves |-> t.slaves, monitors |-> t.monitors, closing |-> n]
<1>0. IsTables(t) /\ \A c \in Conn : AgreeOn(t, c) /\ ("MONITOR" \in t.flags[c] => "SLAVE" \in t.flags[c])
  BY DEF Agreed
<1>1. a = [t EXCEPT !.flags = f, !.closing = n]
  BY DEF freeClientAsync
<1>2. \A c \in Conn : c \in new <=> c \in cs /\ "ASAP" \notin t.flags[c]
  OBVIOUS
<1> HIDE DEF new
<1>3. /\ f \in [Conn -> SUBSET ClientFlag] /\ n \in [Conn -> Int]
      /\ \A c \in Conn : /\ f[c] = IF c \in new THEN t.flags[c] \cup {"ASAP"} ELSE t.flags[c]
                         /\ n[c] = IF c \in new THEN t.closing[c] + 1 ELSE t.closing[c]
  BY <1>0 DEF IsTables, ClientFlag
<1> HIDE DEF a, f, n
<1>4. a = u
  BY <1>0, <1>1 DEF IsTables
<1>5. IsTables(u)
  BY <1>0, <1>3, TablesRecord DEF IsTables
<1>6. ASSUME NEW c \in Conn
      PROVE  AgreeOn(u, c) /\ ("MONITOR" \in u.flags[c] => "SLAVE" \in u.flags[c])
  <2>1. CASE c \notin new
    BY <1>0, <1>3, <2>1 DEF AgreeOn
  <2>2. CASE c \in new
    <3>1. c \in t.clients /\ "ASAP" \notin t.flags[c]
      BY <1>2, <2>2
    <3>2. t.closing[c] = 0
      BY <1>0, <3>1 DEF AgreeOn, OneIf
    <3>3. f[c] = t.flags[c] \cup {"ASAP"} /\ n[c] = 1
      BY <1>3, <2>2, <3>2
    <3> QED
      BY <1>0, <3>1, <3>3 DEF AgreeOn, OneIf
  <2> QED
    BY <2>1, <2>2
<1> QED
  BY <1>4, <1>5, <1>6 DEF Agreed, a

LEMMA FreeAgrees ==
    ASSUME NEW t, Agreed(t), NEW cs \in SUBSET Conn
    PROVE  Agreed(freeClients(t, cs))
<1>1. cs \cup SlavesOf(t) \in SUBSET Conn
  BY DEF Agreed, IsTables, SlavesOf
<1> QED
  BY <1>1, UnlinkAgrees DEF freeClients

\* The clients of the queue lose their flag first and their entry last.
LEMMA QueuedAgrees ==
    ASSUME NEW t, Agreed(t)
    PROVE  Agreed(FreeQueued(t, {c \in Conn : t.closing[c] > 0}))
<1> DEFINE cs == {c \in Conn : t.closing[c] > 0}
           f == [c \in Conn |-> IF c \in cs THEN t.flags[c] \ {"ASAP"} ELSE t.flags[c]]
           a == [t EXCEPT !.flags = [c \in Conn |-> IF c \in cs THEN @[c] \ {"ASAP"} ELSE @[c]]]
           v == [clients |-> t.clients, flags |-> f, channels |-> t.channels, patterns |-> t.patterns,
                 subscribers |-> t.subscribers, psubscribers |-> t.psubscribers,
                 slaves |-> t.slaves, monitors |-> t.monitors, closing |-> t.closing]
<1>0. IsTables(t) /\ \A c \in Conn : AgreeOn(t, c) /\ ("MONITOR" \in t.flags[c] => "SLAVE" \in t.flags[c])
  BY DEF Agreed
<1>1. \A c \in Conn : c \in cs <=> "ASAP" \in t.flags[c]
  BY <1>0 DEF AgreeOn, OneIf
<1>2. a = [t EXCEPT !.flags = f]
  OBVIOUS
<1>3. cs \in SUBSET Conn
  OBVIOUS
<1> HIDE DEF cs
<1>4. /\ f \in [Conn -> SUBSET ClientFlag]
      /\ \A c \in Conn : /\ f[c] = t.flags[c] \ {"ASAP"}
                         /\ \A x \in {"SLAVE", "MONITOR", "MASTER"} : x \in f[c] <=> x \in t.flags[c]
  BY <1>0, <1>1 DEF IsTables
<1> HIDE DEF a, f
<1>5. a = v
  BY <1>0, <1>2 DEF IsTables
<1>6. IsTables(v)
  BY <1>0, <1>4, TablesRecord DEF IsTables
<1>7. PICK gone \in SUBSET Conn : freeClients(v, cs) = Unlink(v, gone) /\ cs \subseteq gone
  <2>1. cs \cup SlavesOf(v) \in SUBSET Conn
    BY <1>3, <1>6 DEF IsTables, SlavesOf
  <2> QED
    BY <1>3, <2>1 DEF freeClients
<1> DEFINE u == Unlink(v, gone)
           n == Dropped(u.closing, cs)
           b == FreeQueued(t, cs)
           w == [clients |-> u.clients, flags |-> u.flags, channels |-> u.channels, patterns |-> u.patterns,
                 subscribers |-> u.subscribers, psubscribers |-> u.psubscribers,
                 slaves |-> u.slaves, monitors |-> u.monitors, closing |-> n]
<1>8. b = [u EXCEPT !.closing = n]
  BY <1>5, <1>7 DEF FreeQueued, a
<1>9. /\ IsTables(u) /\ u.clients = v.clients \ gone
      /\ \A c \in Conn : /\ c \notin gone => SameEntries(v, u, c)
                         /\ c \in gone => EntriesGone(v, u, c)
                         /\ c \in gone => u.closing[c] = v.closing[c] - OneIf("ASAP" \in v.flags[c])
  BY <1>6, UnlinkEntries
<1> HIDE DEF u
<1>10. n \in [Conn -> Int] /\ \A c \in Conn : n[c] = u.closing[c] - OneIf(c \in cs)
  BY <1>9, DroppedEntries DEF IsTables
<1> HIDE DEF b, n
<1>11. b = w
  BY <1>8, <1>9 DEF IsTables
<1>12. IsTables(w)
  BY <1>9, <1>10, TablesRecord DEF IsTables
<1>13. ASSUME NEW c \in Conn
       PROVE  AgreeOn(w, c) /\ ("MONITOR" \in w.flags[c] => "SLAVE" \in w.flags[c])
  <2>1. v.closing[c] = OneIf(c \in cs) /\ OneIf("ASAP" \in v.flags[c]) = 0
    BY <1>0, <1>1, <1>4 DEF AgreeOn, OneIf
  <2>2. CASE c \in gone
    <3>1. EntriesGone(v, w, c)
      BY <1>9, <2>2 DEF EntriesGone
    <3>2. w.closing[c] = 0
      BY <1>9, <1>10, <2>1, <2>2 DEF OneIf
    <3>3. /\ \A ch \in Channel : /\ v.subscribers[ch][c] = OneIf(ch \in v.channels[c])
                                 /\ v.psubscribers[ch][c] = OneIf(ch \in v.patterns[c])
          /\ v.slaves[c] = OneIf("SLAVE" \in v.flags[c] /\ "MONITOR" \notin v.flags[c])
          /\ v.monitors[c] = OneIf("MONITOR" \in v.flags[c])
      BY <1>0, <1>4 DEF AgreeOn
    <3> HIDE DEF v, w
    <3>4. AgreeOn(w, c)
      BY <1>6, <3>1, <3>2, <3>3, GoneAgree
    <3> QED
      BY <3>1, <3>4 DEF EntriesGone
  <2>3. CASE c \notin gone
    <3>1. c \notin cs /\ f[c] = t.flags[c] /\ OneIf(c \in cs) = 0
      BY <1>1, <1>4, <1>7, <2>3 DEF OneIf
    <3>2. SameEntries(t, w, c)
      BY <1>9, <1>10, <2>3, <3>1 DEF SameEntries, IsTables
    <3>3. c \in t.clients => c \in w.clients
      BY <1>9, <2>3
    <3> HIDE DEF w
    <3>4. AgreeOn(w, c)
      BY <1>0, <3>2, <3>3, SameAgree
    <3> QED
      BY <1>0, <3>2, <3>4 DEF SameEntries
  <2> QED
    BY <2>2, <2>3
<1> QED
  BY <1>11, <1>12, <1>13 DEF Agreed, b, cs

LEMMA BecomeAgrees ==
    ASSUME NEW t, Agreed(t), TablesBecome(t), masterhost_set' \in BOOLEAN
    PROVE  SubInv'
<1>1. Tables' = t
  BY TablesAre DEF Agreed
<1>2. Agreed(Tables')
  BY <1>1
<1> QED
  BY <1>2 DEF SubInv, Agreed, IsTables, AgreeOn, OneIf

\* Flags of a client that no table depends on.
LEMMA FlagAgrees ==
    ASSUME NEW t, Agreed(t), NEW c \in Conn, NEW g \in SUBSET {"MASTER", "AFTER_REPLY"},
           NEW cl \in SUBSET Conn, cl \ {c} = t.clients \ {c}, c \in cl
    PROVE  Agreed([t EXCEPT !.clients = cl, !.flags[c] = t.flags[c] \cup g])
<1> DEFINE f == [t.flags EXCEPT ![c] = t.flags[c] \cup g]
           a == [t EXCEPT !.clients = cl, !.flags[c] = t.flags[c] \cup g]
           u == [clients |-> cl, flags |-> f, channels |-> t.channels, patterns |-> t.patterns,
                 subscribers |-> t.subscribers, psubscribers |-> t.psubscribers,
                 slaves |-> t.slaves, monitors |-> t.monitors, closing |-> t.closing]
<1>0. IsTables(t) /\ AgreeOn(t, c) /\ ("MONITOR" \in t.flags[c] => "SLAVE" \in t.flags[c])
  BY DEF Agreed
<1>1. a = [t EXCEPT !.clients = cl, !.flags[c] = t.flags[c] \cup g]
  OBVIOUS
<1> HIDE DEF a
<1>2. a = u
  BY <1>0, <1>1 DEF IsTables
<1>3. /\ f \in [Conn -> SUBSET ClientFlag] /\ f[c] = t.flags[c] \cup g
      /\ \A d \in Conn : d # c => f[d] = t.flags[d]
  BY <1>0 DEF IsTables, ClientFlag
<1> HIDE DEF f
<1>4. IsTables(u)
  BY <1>0, <1>3, TablesRecord DEF IsTables
<1>5. \A d \in Conn : d # c => SameEntries(t, u, d)
  BY <1>3 DEF SameEntries
<1>6. \A x \in {"SLAVE", "MONITOR", "ASAP"} : x \in u.flags[c] <=> x \in t.flags[c]
  BY <1>3
<1>7. AgreeOn(u, c) /\ ("MONITOR" \in u.flags[c] => "SLAVE" \in u.flags[c])
  BY <1>0, <1>6 DEF AgreeOn, OneIf
<1>8. u.clients \ {c} = t.clients \ {c}
  OBVIOUS
<1> HIDE DEF u
<1> QED
  BY <1>2, <1>4, <1>5, <1>7, <1>8, OneAgrees DEF a

\* A client that becomes a slave, or a monitor.
LEMMA SlaveAgrees ==
    ASSUME NEW t, Agreed(t), NEW c \in t.clients, t.flags[c] \cap {"SLAVE", "MASTER"} = {}
    PROVE  /\ Agreed([t EXCEPT !.flags[c] = @ \cup {"SLAVE"}, !.slaves[c] = @ + 1])
           /\ Agreed([t EXCEPT !.flags[c] = @ \cup {"SLAVE", "MONITOR"}, !.monitors[c] = @ + 1])
<1>0. /\ IsTables(t) /\ c \in Conn /\ AgreeOn(t, c)
      /\ "SLAVE" \notin t.flags[c] /\ "MONITOR" \notin t.flags[c]
  BY DEF Agreed, IsTables
<1>1. Agreed([t EXCEPT !.flags[c] = @ \cup {"SLAVE"}, !.slaves[c] = @ + 1])
  <2> DEFINE f == [t.flags EXCEPT ![c] = @ \cup {"SLAVE"}]
             n == [t.slaves EXCEPT ![c] = @ + 1]
             a == [t EXCEPT !.flags[c] = @ \cup {"SLAVE"}, !.slaves[c] = @ + 1]
             u == [clients |-> t.clients, flags |-> f, channels |-> t.channels, patterns |-> t.patterns,
                   subscribers |-> t.subscribers, psubscribers |-> t.psubscribers,
                   slaves |-> n, monitors |-> t.monitors, closing |-> t.closing]
  <2>1. a = [t EXCEPT !.flags[c] = @ \cup {"SLAVE"}, !.slaves[c] = @ + 1]
    OBVIOUS
  <2> HIDE DEF a
  <2>2. a = u
    BY <1>0, <2>1 DEF IsTables
  <2>3. /\ f \in [Conn -> SUBSET ClientFlag] /\ n \in [Conn -> Int]
        /\ f[c] = t.flags[c] \cup {"SLAVE"} /\ n[c] = t.slaves[c] + 1
        /\ \A d \in Conn : d # c => f[d] = t.flags[d] /\ n[d] = t.slaves[d]
    BY <1>0 DEF IsTables, ClientFlag
  <2> HIDE DEF f, n
  <2>4. IsTables(u)
    BY <1>0, <2>3, TablesRecord DEF IsTables
  <2>5. \A d \in Conn : d # c => SameEntries(t, u, d)
    BY <2>3 DEF SameEntries
  <2>6. AgreeOn(u, c) /\ ("MONITOR" \in u.flags[c] => "SLAVE" \in u.flags[c])
    BY <1>0, <2>3 DEF AgreeOn, OneIf
  <2>7. u.clients \ {c} = t.clients \ {c}
    OBVIOUS
  <2> HIDE DEF u
  <2> QED
    BY <1>0, <2>2, <2>4, <2>5, <2>6, <2>7, OneAgrees DEF a
<1>2. Agreed([t EXCEPT !.flags[c] = @ \cup {"SLAVE", "MONITOR"}, !.monitors[c] = @ + 1])
  <2> DEFINE f == [t.flags EXCEPT ![c] = @ \cup {"SLAVE", "MONITOR"}]
             n == [t.monitors EXCEPT ![c] = @ + 1]
             a == [t EXCEPT !.flags[c] = @ \cup {"SLAVE", "MONITOR"}, !.monitors[c] = @ + 1]
             u == [clients |-> t.clients, flags |-> f, channels |-> t.channels, patterns |-> t.patterns,
                   subscribers |-> t.subscribers, psubscribers |-> t.psubscribers,
                   slaves |-> t.slaves, monitors |-> n, closing |-> t.closing]
  <2>1. a = [t EXCEPT !.flags[c] = @ \cup {"SLAVE", "MONITOR"}, !.monitors[c] = @ + 1]
    OBVIOUS
  <2> HIDE DEF a
  <2>2. a = u
    BY <1>0, <2>1 DEF IsTables
  <2>3. /\ f \in [Conn -> SUBSET ClientFlag] /\ n \in [Conn -> Int]
        /\ f[c] = t.flags[c] \cup {"SLAVE", "MONITOR"} /\ n[c] = t.monitors[c] + 1
        /\ \A d \in Conn : d # c => f[d] = t.flags[d] /\ n[d] = t.monitors[d]
    BY <1>0 DEF IsTables, ClientFlag
  <2> HIDE DEF f, n
  <2>4. IsTables(u)
    BY <1>0, <2>3, TablesRecord DEF IsTables
  <2>5. \A d \in Conn : d # c => SameEntries(t, u, d)
    BY <2>3 DEF SameEntries
  <2>6. AgreeOn(u, c) /\ ("MONITOR" \in u.flags[c] => "SLAVE" \in u.flags[c])
    BY <1>0, <2>3 DEF AgreeOn, OneIf
  <2>7. u.clients \ {c} = t.clients \ {c}
    OBVIOUS
  <2> HIDE DEF u
  <2> QED
    BY <1>0, <2>2, <2>4, <2>5, <2>6, <2>7, OneAgrees DEF a
<1> QED
  BY <1>1, <1>2

LEMMA SubInitial == SubInit => SubInv
<1> SUFFICES ASSUME SubInit PROVE SubInv
  OBVIOUS
<1>1. Tables = [clients |-> {}, flags |-> [c \in Conn |-> {}],
                channels |-> [c \in Conn |-> {}], patterns |-> [c \in Conn |-> {}],
                subscribers |-> [ch \in Channel |-> NoOne], psubscribers |-> [ch \in Channel |-> NoOne],
                slaves |-> NoOne, monitors |-> NoOne, closing |-> NoOne]
  BY DEF SubInit, Tables
<1>2. IsTables(Tables)
  <2>1. NoOne \in [Conn -> Int] /\ [ch \in Channel |-> NoOne] \in [Channel -> [Conn -> Int]]
    BY DEF NoOne
  <2>2. [c \in Conn |-> {}] \in [Conn -> SUBSET ClientFlag] /\ [c \in Conn |-> {}] \in [Conn -> SUBSET Channel]
    OBVIOUS
  <2> QED
    BY <1>1, <2>1, <2>2, TablesRecord
<1>3. ASSUME NEW c \in Conn
      PROVE  AgreeOn(Tables, c) /\ "MONITOR" \notin Tables.flags[c]
  BY <1>1 DEF AgreeOn, OneIf, NoOne
<1> QED
  BY <1>2, <1>3 DEF SubInv, Agreed, SubInit

LEMMA SubSteps ==
    ASSUME SubInv, SubNext
    PROVE  SubInv'
<1> DEFINE t == Tables
<1>0. /\ Agreed(t) /\ IsTables(t) /\ t.clients = clients /\ t.flags = flags /\ clients \subseteq Conn
      /\ t.channels = channels /\ t.patterns = patterns /\ t.closing = clients_to_close
      /\ t.subscribers = pubsub_channels /\ t.psubscribers = pubsub_patterns /\ masterhost_set \in BOOLEAN
  BY DEF SubInv, Agreed, IsTables, Tables
<1>1. ASSUME NEW c \in Conn, acceptCommonHandler(c) PROVE SubInv'
  <2>1. Agreed([t EXCEPT !.clients = clients \cup {c}])
    <3> DEFINE cl == clients \cup {c}
               a == [t EXCEPT !.clients = cl, !.flags[c] = t.flags[c] \cup {}]
               b == [t EXCEPT !.clients = cl]
    <3>1. cl \in SUBSET Conn /\ cl \ {c} = t.clients \ {c} /\ c \in cl
      BY <1>0
    <3>2. Agreed(a)
      BY <1>0, <3>1, FlagAgrees
    <3>3. a = b
      <4> DEFINE v == [clients |-> cl, flags |-> t.flags, channels |-> t.channels, patterns |-> t.patterns,
                       subscribers |-> t.subscribers, psubscribers |-> t.psubscribers,
                       slaves |-> t.slaves, monitors |-> t.monitors, closing |-> t.closing]
      <4>1. a = [t EXCEPT !.clients = cl, !.flags[c] = t.flags[c] \cup {}] /\ b = [t EXCEPT !.clients = cl]
        OBVIOUS
      <4> HIDE DEF a, b, cl, t
      <4>2. a = v
        BY <1>0, <4>1 DEF IsTables
      <4>3. b = v
        BY <1>0, <4>1 DEF IsTables
      <4> QED
        BY <4>2, <4>3
    <3> HIDE DEF a
    <3> QED
      BY <3>2, <3>3
  <2>2. \E u : Agreed(u) /\ TablesBecome(u) /\ masterhost_set' \in BOOLEAN
    BY <1>0, <1>1, <2>1 DEF acceptCommonHandler
  <2> QED
    BY <2>2, BecomeAgrees
<1>2. ASSUME NEW c \in Conn, MasterConnects(c) PROVE SubInv'
  <2> DEFINE cl == clients \cup {c}
             a == [t EXCEPT !.clients = cl, !.flags[c] = t.flags[c] \cup {"MASTER"}]
  <2>1. cl \in SUBSET Conn /\ cl \ {c} = t.clients \ {c} /\ c \in cl
    BY <1>0
  <2>2. Agreed(a)
    BY <1>0, <2>1, FlagAgrees
  <2>3. t.flags[c] \cup {"MASTER"} = {"MASTER"}
    BY <1>0, <1>2 DEF MasterConnects, Agreed, AgreeOn
  <2>4. TablesBecome(a) /\ masterhost_set' \in BOOLEAN
    BY <1>0, <1>2, <2>3 DEF MasterConnects
  <2> HIDE DEF a
  <2> QED
    BY <2>2, <2>4, BecomeAgrees
<1>3. ASSUME NEW c \in Conn, Subscriptions(c) PROVE SubInv'
  <2>1. c \in t.clients /\ {c} \in SUBSET Conn /\ masterhost_set' \in BOOLEAN
    BY <1>0, <1>3 DEF Subscriptions, MayCommand
  <2>2. PICK ch \in Channel :
          \/ TablesBecome(pubsubSubscribeChannel(t, c, ch))
          \/ TablesBecome(pubsubUnsubscribeChannel(t, c, ch))
          \/ TablesBecome(pubsubSubscribePattern(t, c, ch))
          \/ TablesBecome(pubsubUnsubscribePattern(t, c, ch))
          \/ TablesBecome(pubsubUnsubscribeAllChannels(t, {c}))
          \/ TablesBecome(pubsubUnsubscribeAllPatterns(t, {c}))
    BY <1>3 DEF Subscriptions
  <2> HIDE DEF t
  <2>3. /\ Agreed(pubsubSubscribeChannel(t, c, ch)) /\ Agreed(pubsubSubscribePattern(t, c, ch))
        /\ Agreed(pubsubUnsubscribeChannel(t, c, ch)) /\ Agreed(pubsubUnsubscribePattern(t, c, ch))
    BY <1>0, <2>1, SubscribeAgrees, UnsubscribeAgrees
  <2>4. Agreed(pubsubUnsubscribeAllChannels(t, {c})) /\ Agreed(pubsubUnsubscribeAllPatterns(t, {c}))
    BY <1>0, <2>1, UnsubscribeAllAgrees
  <2> QED
    BY <2>1, <2>2, <2>3, <2>4, BecomeAgrees
<1>4. ASSUME NEW c \in Conn, syncCommand(c) \/ monitorCommand(c) PROVE SubInv'
  <2>1. c \in t.clients /\ t.flags[c] \cap {"SLAVE", "MASTER"} = {} /\ masterhost_set' \in BOOLEAN
    BY <1>0, <1>4 DEF syncCommand, monitorCommand, MayCommand
  <2>2. \/ TablesBecome([t EXCEPT !.flags[c] = @ \cup {"SLAVE"}, !.slaves[c] = @ + 1])
        \/ TablesBecome([t EXCEPT !.flags[c] = @ \cup {"SLAVE", "MONITOR"}, !.monitors[c] = @ + 1])
    BY <1>4 DEF syncCommand, monitorCommand
  <2> HIDE DEF t
  <2>3. /\ Agreed([t EXCEPT !.flags[c] = @ \cup {"SLAVE"}, !.slaves[c] = @ + 1])
        /\ Agreed([t EXCEPT !.flags[c] = @ \cup {"SLAVE", "MONITOR"}, !.monitors[c] = @ + 1])
    BY <1>0, <2>1, SlaveAgrees
  <2> QED
    BY <2>1, <2>2, <2>3, BecomeAgrees
<1>5. ASSUME NEW c \in Conn, publishCommand(c) PROVE SubInv'
  <2>1. PICK ch \in Channel : pubsubPublishMessage(ch)
    BY <1>5 DEF publishCommand
  <2>2. PICK full \in SUBSET {d \in Conn : pubsub_channels[ch][d] + pubsub_patterns[ch][d] > 0} :
          TablesBecome(freeClientAsync(t, full))
    BY <2>1 DEF pubsubPublishMessage
  <2>3. ASSUME NEW d \in full PROVE d \in t.clients
    <3>1. d \in Conn /\ t.subscribers[ch][d] + t.psubscribers[ch][d] > 0 /\ AgreeOn(t, d)
      BY <1>0, <2>3 DEF Agreed
    <3> QED
      BY <3>1 DEF AgreeOn, OneIf
  <2>4. Agreed(freeClientAsync(t, full)) /\ masterhost_set' \in BOOLEAN
    <3>1. full \in SUBSET t.clients
      BY <2>3
    <3> HIDE DEF t
    <3> QED
      BY <1>0, <2>1, <3>1, AsyncAgrees DEF pubsubPublishMessage
  <2> QED
    BY <2>2, <2>4, BecomeAgrees
<1>6. ASSUME NEW c \in Conn PROVE Agreed(freeClient(t, c))
  <2> HIDE DEF t
  <2> QED
    BY <1>0, FreeAgrees DEF freeClient
<1>7. ASSUME NEW c \in Conn, ConnectionCloses(c) \/ IdleTimeout(c) PROVE SubInv'
  <2>1. TablesBecome(freeClient(t, c)) /\ masterhost_set' \in BOOLEAN
    BY <1>0, <1>7 DEF ConnectionCloses, IdleTimeout
  <2> QED
    BY <1>6, <2>1, BecomeAgrees
<1>8. ASSUME NEW c \in Conn, NEW victim \in Conn, clientKill(c, victim) PROVE SubInv'
  <2>0. masterhost_set' \in BOOLEAN /\ c \in clients
    BY <1>0, <1>8 DEF clientKill, MayCommand
  <2>1. CASE c # victim
    <3>1. TablesBecome(freeClient(t, victim))
      BY <1>8, <2>1 DEF clientKill
    <3> QED
      BY <1>6, <2>0, <3>1, BecomeAgrees
  <2>2. CASE c = victim
    <3> DEFINE b == [t EXCEPT !.flags[c] = @ \cup {"AFTER_REPLY"}]
               a == [t EXCEPT !.clients = t.clients, !.flags[c] = t.flags[c] \cup {"AFTER_REPLY"}]
               f == [t.flags EXCEPT ![c] = @ \cup {"AFTER_REPLY"}]
               v == [clients |-> t.clients, flags |-> f, channels |-> t.channels, patterns |-> t.patterns,
                     subscribers |-> t.subscribers, psubscribers |-> t.psubscribers,
                     slaves |-> t.slaves, monitors |-> t.monitors, closing |-> t.closing]
    <3>1. TablesBecome(b)
      BY <1>8, <2>2 DEF clientKill
    <3>2. a = [t EXCEPT !.clients = t.clients, !.flags[c] = t.flags[c] \cup {"AFTER_REPLY"}]
          /\ b = [t EXCEPT !.flags[c] = @ \cup {"AFTER_REPLY"}]
      OBVIOUS
    <3>3. Agreed(a)
      <4>1. t.clients \in SUBSET Conn /\ c \in t.clients
        BY <1>0, <2>0
      <4> HIDE DEF t
      <4> QED
        BY <1>0, <4>1, FlagAgrees
    <3> HIDE DEF a, b, t
    <3>4. a = v /\ b = v
      <4>1. a = v
        BY <1>0, <3>2 DEF IsTables
      <4>2. b = v
        BY <1>0, <3>2 DEF IsTables
      <4> QED
        BY <4>1, <4>2
    <3> HIDE DEF v
    <3> QED
      BY <2>0, <3>1, <3>3, <3>4, BecomeAgrees
  <2> QED
    BY <2>1, <2>2
<1>9. ASSUME freeClientsInAsyncFreeQueue PROVE SubInv'
  <2>1. TablesBecome(FreeQueued(t, {c \in Conn : t.closing[c] > 0})) /\ masterhost_set' \in BOOLEAN
    BY <1>0, <1>9 DEF freeClientsInAsyncFreeQueue
  <2> HIDE DEF t
  <2> QED
    BY <1>0, <2>1, QueuedAgrees, BecomeAgrees
<1>10. ASSUME slaveofCommand PROVE SubInv'
  <2> DEFINE masters == {c \in clients : "MASTER" \in flags[c]}
             u == Unlink(t, masters)
  <2>1. /\ masterhost_set' \in BOOLEAN
        /\ TablesBecome(u) \/ TablesBecome(disconnectSlaves(u))
    BY <1>10 DEF slaveofCommand
  <2>2. masters \in SUBSET Conn
    BY <1>0
  <2> HIDE DEF masters, t
  <2>3. Agreed(u)
    BY <1>0, <2>2, UnlinkAgrees
  <2> HIDE DEF u
  <2>4. Agreed(disconnectSlaves(u))
    <3>1. SlavesOf(u) \in SUBSET Conn
      BY <2>3 DEF Agreed, IsTables, SlavesOf
    <3> QED
      BY <2>3, <3>1, UnlinkAgrees DEF disconnectSlaves
  <2> QED
    BY <2>1, <2>3, <2>4, BecomeAgrees
<1> QED
  BY <1>1, <1>2, <1>3, <1>4, <1>5, <1>7, <1>8, <1>9, <1>10 DEF SubNext

LEMMA SubRests ==
    ASSUME SubInv, UNCHANGED subVars
    PROVE  SubInv'
<1>1. Tables' = Tables /\ masterhost_set' = masterhost_set
  BY DEF subVars, Tables
<1>2. Agreed(Tables') /\ masterhost_set' \in BOOLEAN
  BY <1>1 DEF SubInv
<1> QED
  BY <1>2 DEF SubInv, Agreed, IsTables, AgreeOn, OneIf

LEMMA SubInvImplies == SubInv => TablesAgree
  BY DEF SubInv, Agreed, TablesAgree

\* Whatever clients do and in whatever order they are freed, every list of
\* the server holds exactly the clients that exist and belong there, once
\* each (freeClient, freeClientAsync, the subscription commands).
THEOREM ClientsAreListedOnce ==
    SubInit /\ [][SubNext]_subVars => []TablesAgree
<1>1. SubInv /\ [SubNext]_subVars => SubInv'
  BY SubSteps, SubRests
<1> QED
  BY <1>1, SubInitial, SubInvImplies, PTL

(* The record of a script that runs.                                       *)
IsExecution(st) ==
    /\ st = [data |-> st.data, got |-> st.got, lua_random_dirty |-> st.lua_random_dirty,
             lua_write_dirty |-> st.lua_write_dirty, err |-> st.err]
    /\ st.lua_random_dirty \in BOOLEAN /\ st.lua_write_dirty \in BOOLEAN /\ st.err \in BOOLEAN

(* Two executions differ at most in what was read after a command that is  *)
(* not deterministic.                                                      *)
SameEffect(a, b) ==
    /\ IsExecution(a) /\ IsExecution(b)
    /\ b.data = a.data /\ b.lua_random_dirty = a.lua_random_dirty
    /\ b.lua_write_dirty = a.lua_write_dirty /\ b.err = a.err
    /\ ~a.lua_random_dirty => b.got = a.got

(* What call makes of the record st of its script: r.                      *)
Effect(st, call, random, r) ==
    /\ IsExecution(r)
    /\ r.lua_write_dirty = FALSE => ~st.lua_write_dirty /\ r.data = st.data
    /\ r.err = FALSE => ~st.err
    /\ st.err => r = st
    /\ ~st.err /\ call.op = "loop" => r = st
    /\ ~st.err /\ call.op = "get" =>
         /\ r.data = st.data /\ r.got = st.data[call.key] /\ r.err = FALSE
         /\ r.lua_random_dirty = st.lua_random_dirty /\ r.lua_write_dirty = st.lua_write_dirty
    /\ ~st.err /\ call.op = "random" =>
         /\ r.data = st.data /\ r.got = random /\ r.err = FALSE
         /\ r.lua_random_dirty = TRUE /\ r.lua_write_dirty = st.lua_write_dirty
    /\ ~st.err /\ call.op = "error" =>
         /\ r.data = st.data /\ r.got = st.got /\ r.err = TRUE
         /\ r.lua_random_dirty = st.lua_random_dirty /\ r.lua_write_dirty = st.lua_write_dirty
    /\ ~st.err /\ call.op \in {"set", "pset"} /\ st.lua_random_dirty =>
         /\ r.data = st.data /\ r.got = st.got /\ r.err = (call.op = "set")
         /\ r.lua_random_dirty = TRUE /\ r.lua_write_dirty = st.lua_write_dirty
    /\ ~st.err /\ call.op \in {"set", "pset"} /\ ~st.lua_random_dirty =>
         /\ r.data = [st.data EXCEPT ![call.key] = (st.got + 1) % Cardinality(LuaValue)] /\ r.got = st.got /\ r.err = FALSE
         /\ r.lua_random_dirty = FALSE /\ r.lua_write_dirty = TRUE

\* What becomes of the record of a script by a call.
LEMMA CallEffect ==
    ASSUME NEW st, IsExecution(st), NEW call \in LuaCall, NEW random, NEW r,
           r = luaRedisGenericCommand(st, call, random)
    PROVE  Effect(st, call, random, r)
<1> DEFINE n == (st.got + 1) % Cardinality(LuaValue)
           d == [st.data EXCEPT ![call.key] = n]
           rd == st.lua_random_dirty
           wd == st.lua_write_dirty
<1>0. call.op \in {"get", "set", "pset", "random", "loop", "error"}
  BY DEF LuaCall
<1>1. rd \in BOOLEAN /\ wd \in BOOLEAN /\ st.err \in BOOLEAN
  BY DEF IsExecution
<1>2. CASE st.err
  BY <1>1, <1>2 DEF luaRedisGenericCommand, Effect
<1>3. CASE ~st.err /\ call.op = "loop"
  BY <1>1, <1>3 DEF luaRedisGenericCommand, Effect
<1>4. CASE ~st.err /\ call.op = "get"
  <2>1. r = [st EXCEPT !.got = st.data[call.key]]
    BY <1>4 DEF luaRedisGenericCommand
  <2>2. r = [data |-> st.data, got |-> st.data[call.key], lua_random_dirty |-> rd, lua_write_dirty |-> wd, err |-> FALSE]
    BY <1>4, <2>1 DEF IsExecution
  <2> QED
    BY <1>1, <1>4, <2>2 DEF Effect, IsExecution
<1>5. CASE ~st.err /\ call.op = "random"
  <2>1. r = [st EXCEPT !.got = random, !.lua_random_dirty = TRUE]
    BY <1>5 DEF luaRedisGenericCommand
  <2>2. r = [data |-> st.data, got |-> random, lua_random_dirty |-> TRUE, lua_write_dirty |-> wd, err |-> FALSE]
    BY <1>5, <2>1 DEF IsExecution
  <2> QED
    BY <1>1, <1>5, <2>2 DEF Effect, IsExecution
<1>6. CASE ~st.err /\ call.op = "error"
  <2>1. r = [st EXCEPT !.err = TRUE]
    BY <1>6 DEF luaRedisGenericCommand
  <2>2. r = [data |-> st.data, got |-> st.got, lua_random_dirty |-> rd, lua_write_dirty |-> wd, err |-> TRUE]
    BY <1>6, <2>1 DEF IsExecution
  <2> QED
    BY <1>1, <1>6, <2>2 DEF Effect, IsExecution
<1>7. CASE ~st.err /\ call.op \in {"set", "pset"} /\ rd
  <2> DEFINE e == call.op = "set"
  <2>1. r = [st EXCEPT !.err = e]
    BY <1>7 DEF luaRedisGenericCommand, WriteRefused
  <2>2. e \in BOOLEAN
    OBVIOUS
  <2> HIDE DEF e
  <2>3. r = [data |-> st.data, got |-> st.got, lua_random_dirty |-> rd, lua_write_dirty |-> wd, err |-> e]
    BY <1>7, <2>1 DEF IsExecution
  <2>4. /\ IsExecution(r) /\ r.data = st.data /\ r.got = st.got /\ r.err = e
        /\ r.lua_random_dirty = rd /\ r.lua_write_dirty = wd
    BY <1>1, <2>2, <2>3 DEF IsExecution
  <2> QED
    BY <1>1, <1>7, <2>4 DEF Effect, e
<1>8. CASE ~st.err /\ call.op \in {"set", "pset"} /\ ~rd
  <2>1. r = [st EXCEPT !.data[call.key] = n, !.lua_write_dirty = TRUE]
    BY <1>8 DEF luaRedisGenericCommand, WriteRefused
  <2>2. r = [data |-> d, got |-> st.got, lua_random_dirty |-> rd, lua_write_dirty |-> TRUE, err |-> FALSE]
    BY <1>8, <2>1 DEF IsExecution
  <2> HIDE DEF d
  <2>3. /\ IsExecution(r) /\ r.data = d /\ r.got = st.got /\ r.err = FALSE
        /\ r.lua_random_dirty = rd /\ r.lua_write_dirty = TRUE
    BY <1>1, <2>2 DEF IsExecution
  <2> QED
    BY <1>1, <1>8, <2>3 DEF Effect, d
<1> QED
  BY <1>0, <1>1, <1>2, <1>3, <1>4, <1>5, <1>6, <1>7, <1>8

\* The same call has the same effect, whatever is random.
LEMMA CallsAgree ==
    ASSUME NEW a, NEW b, SameEffect(a, b), NEW call \in LuaCall, NEW r1, NEW r2
    PROVE  SameEffect(luaRedisGenericCommand(a, call, r1), luaRedisGenericCommand(b, call, r2))
<1> DEFINE x == luaRedisGenericCommand(a, call, r1)
           y == luaRedisGenericCommand(b, call, r2)
<1>0. call.op \in {"get", "set", "pset", "random", "loop", "error"}
  BY DEF LuaCall
<1>1. IsExecution(a) /\ IsExecution(b)
  BY DEF SameEffect
<1>11. Effect(a, call, r1, x)
  BY <1>1, CallEffect
<1>12. Effect(b, call, r2, y)
  BY <1>1, CallEffect
<1>3. /\ a.lua_random_dirty \in BOOLEAN /\ b.lua_random_dirty = a.lua_random_dirty
      /\ b.lua_write_dirty = a.lua_write_dirty /\ b.err = a.err /\ b.data = a.data
      /\ a.lua_random_dirty \/ b.got = a.got
  BY <1>1 DEF SameEffect, IsExecution
<1> HIDE DEF x, y
<1> SUFFICES SameEffect(x, y)
  BY DEF x, y
<1>2. /\ Effect(a, call, r1, x) /\ Effect(b, call, r2, y)
      /\ IsExecution(x) /\ IsExecution(y)
  BY <1>11, <1>12 DEF Effect
<1>4. CASE a.err
  <2>1. x = a /\ y = b
    BY <1>1, <1>3, <1>4, <1>2 DEF Effect
  <2> QED
    BY <2>1
<1>5. CASE ~a.err /\ call.op = "loop"
  <2>1. x = a /\ y = b
    BY <1>1, <1>3, <1>5, <1>2 DEF Effect
  <2> QED
    BY <2>1
<1>6. CASE ~a.err /\ call.op = "get"
  <2>1. /\ x.data = a.data /\ x.got = a.data[call.key] /\ x.err = FALSE
        /\ x.lua_random_dirty = a.lua_random_dirty /\ x.lua_write_dirty = a.lua_write_dirty
    BY <1>1, <1>6, <1>2 DEF Effect
  <2>2. /\ y.data = b.data /\ y.got = b.data[call.key] /\ y.err = FALSE
        /\ y.lua_random_dirty = b.lua_random_dirty /\ y.lua_write_dirty = b.lua_write_dirty
    BY <1>1, <1>3, <1>6, <1>2 DEF Effect
  <2> QED
    BY <1>2, <1>3, <2>1, <2>2 DEF SameEffect
<1>7. CASE ~a.err /\ call.op = "random"
  <2>1. /\ x.data = a.data /\ x.err = FALSE
        /\ x.lua_random_dirty = TRUE /\ x.lua_write_dirty = a.lua_write_dirty
    BY <1>1, <1>7, <1>2 DEF Effect
  <2>2. /\ y.data = b.data /\ y.err = FALSE
        /\ y.lua_random_dirty = TRUE /\ y.lua_write_dirty = b.lua_write_dirty
    BY <1>1, <1>3, <1>7, <1>2 DEF Effect
  <2> QED
    BY <1>2, <1>3, <2>1, <2>2 DEF SameEffect
<1>8. CASE ~a.err /\ call.op = "error"
  <2>1. /\ x.data = a.data /\ x.got = a.got /\ x.err = TRUE
        /\ x.lua_random_dirty = a.lua_random_dirty /\ x.lua_write_dirty = a.lua_write_dirty
    BY <1>1, <1>8, <1>2 DEF Effect
  <2>2. /\ y.data = b.data /\ y.got = b.got /\ y.err = TRUE
        /\ y.lua_random_dirty = b.lua_random_dirty /\ y.lua_write_dirty = b.lua_write_dirty
    BY <1>1, <1>3, <1>8, <1>2 DEF Effect
  <2> QED
    BY <1>2, <1>3, <2>1, <2>2 DEF SameEffect
<1>9. CASE ~a.err /\ call.op \in {"set", "pset"} /\ a.lua_random_dirty
  <2>1. /\ x.data = a.data /\ x.err = (call.op = "set")
        /\ x.lua_random_dirty = TRUE /\ x.lua_write_dirty = a.lua_write_dirty
    BY <1>1, <1>9, <1>2 DEF Effect
  <2>2. /\ y.data = b.data /\ y.err = (call.op = "set")
        /\ y.lua_random_dirty = TRUE /\ y.lua_write_dirty = b.lua_write_dirty
    BY <1>1, <1>3, <1>9, <1>2 DEF Effect
  <2> QED
    BY <1>2, <1>3, <2>1, <2>2 DEF SameEffect
<1>10. CASE ~a.err /\ call.op \in {"set", "pset"} /\ ~a.lua_random_dirty
  <2> DEFINE Next(st) == [st.data EXCEPT ![call.key] = (st.got + 1) % Cardinality(LuaValue)]
  <2>1. /\ x.data = Next(a) /\ x.got = a.got /\ x.err = FALSE
        /\ x.lua_random_dirty = FALSE /\ x.lua_write_dirty = TRUE
    BY <1>1, <1>10, <1>2 DEF Effect
  <2>2. /\ y.data = Next(b) /\ y.got = b.got /\ y.err = FALSE
        /\ y.lua_random_dirty = FALSE /\ y.lua_write_dirty = TRUE
    BY <1>1, <1>3, <1>10, <1>2 DEF Effect
  <2>3. b.data = a.data /\ b.got = a.got
    BY <1>3, <1>10
  <2>4. Next(b) = Next(a)
    BY <2>3
  <2> HIDE DEF Next
  <2> QED
    BY <1>2, <2>1, <2>2, <2>3, <2>4 DEF SameEffect
<1> QED
  BY <1>0, <1>4, <1>5, <1>6, <1>7, <1>8, <1>9, <1>10

\* The recursive definition of an execution has a solution.
LEMMA ExecutionIs ==
    ASSUME NEW data, NEW s \in Seq(LuaCall), NEW random
    PROVE  LET e == Execution(data, s, random)
           IN  /\ e[0] = Begin(data)
               /\ \A i \in 1 .. Len(s) : e[i] = luaRedisGenericCommand(e[i - 1], s[i], random[i])
<1> DEFINE Val(f, i) == IF i = 0 THEN Begin(data) ELSE luaRedisGenericCommand(f[i - 1], s[i], random[i])
           Good(f, n) == f = [i \in 0 .. n |-> Val(f, i)]
           T == {n \in Nat : ~ \E f : Good(f, n)}
<1>0. Len(s) \in Nat
  BY LenProperties
<1>1. T = {}
  <2> SUFFICES ASSUME T # {} PROVE FALSE
    OBVIOUS
  <2> DEFINE m == Min(T)
  <2>1. m \in T /\ \A t \in T : m <= t
    BY MinOfNaturals
  <2>2. m \in Nat /\ ~ \E f : Good(f, m)
    BY <2>1
  <2> HIDE DEF m
  <2>3. m # 0
    <3>1. Good([i \in 0 .. 0 |-> Begin(data)], 0)
      OBVIOUS
    <3> QED
      BY <2>2, <3>1
  <2>4. m - 1 \in Nat /\ ~(m <= m - 1)
    BY <2>2, <2>3
  <2>41. m - 1 \notin T
    BY <2>1, <2>4
  <2>5. PICK f : Good(f, m - 1)
    BY <2>4, <2>41
  <2> DEFINE g == [i \in 0 .. m |-> IF i = m THEN Val(f, m) ELSE f[i]]
  <2>6. ASSUME NEW i \in 0 .. m PROVE g[i] = Val(g, i)
    <3>1. CASE i = 0
      BY <2>2, <2>3, <2>5, <3>1
    <3>2. CASE i # 0
      <4>1. i - 1 \in 0 .. m /\ i - 1 # m /\ g[i - 1] = f[i - 1]
        BY <2>2, <3>2
      <4>2. CASE i = m
        BY <3>2, <4>1, <4>2
      <4>3. CASE i # m
        <5>1. f[i] = Val(f, i)
          BY <2>2, <2>5, <4>3
        <5> QED
          BY <3>2, <4>1, <4>3, <5>1
      <4> QED
        BY <4>2, <4>3
    <3> QED
      BY <3>1, <3>2
  <2>7. Good(g, m)
    BY <2>6
  <2> QED
    BY <2>2, <2>7
<1>2. \E f : Good(f, Len(s))
  BY <1>0, <1>1
<1>3. Execution(data, s, random) = CHOOSE f : Good(f, Len(s))
  BY DEF Execution
<1>4. Good(Execution(data, s, random), Len(s))
  BY <1>2, <1>3
<1> QED
  BY <1>0, <1>4

\* A call after an error has no effect.
LEMMA NothingAfterError ==
    ASSUME NEW data, NEW s \in Seq(LuaCall), NEW random, NEW n \in 0 .. Len(s),
           Execution(data, s, random)[n].err
    PROVE  Execution(data, s, random)[Len(s)] = Execution(data, s, random)[n]
<1> DEFINE e == Execution(data, s, random)
           T == {i \in n .. Len(s) : e[i] # e[n]}
<1>1. Len(s) \in Nat
  BY LenProperties
<1>2. \A i \in 1 .. Len(s) : e[i] = luaRedisGenericCommand(e[i - 1], s[i], random[i])
  BY ExecutionIs
<1> HIDE DEF e
<1>3. T = {}
  <2> SUFFICES ASSUME T # {} PROVE FALSE
    OBVIOUS
  <2>1. T \subseteq Nat
    BY <1>1
  <2> DEFINE m == Min(T)
  <2>2. m \in T /\ \A t \in T : m <= t
    BY <2>1, MinOfNaturals
  <2> HIDE DEF m
  <2>3. m \in n .. Len(s) /\ e[m] # e[n]
    BY <2>2
  <2>4. m - 1 \in n .. Len(s) /\ ~(m <= m - 1) /\ m \in 1 .. Len(s)
    BY <1>1, <2>3
  <2>5. e[m - 1] = e[n]
    BY <2>2, <2>4
  <2>6. e[m] = luaRedisGenericCommand(e[m - 1], s[m], random[m])
    BY <1>2, <2>4
  <2>7. e[m] = e[n]
    BY <2>5, <2>6 DEF luaRedisGenericCommand, e
  <2> QED
    BY <2>3, <2>7
<1> QED
  BY <1>1, <1>3 DEF e

(* A script that runs has had the effect that it will have on the slave;   *)
(* if it was killed, it has had none.                                      *)
RunInv ==
    /\ run = [script |-> run.script, pc |-> run.pc, evalsha |-> run.evalsha, from |-> run.from, st |-> run.st]
    /\ run.script \in Seq(LuaCall) /\ run.pc \in 1 .. Len(run.script) + 1
    /\ IsExecution(run.st)
    /\ ~run.st.lua_write_dirty => run.st.data = dataset
    /\ run.st.lua_write_dirty \/ ~run.st.err =>
         \A random : SameEffect(run.st, Execution(dataset, run.script, random)[run.pc - 1])
    /\ lua_kill => /\ ~run.st.lua_write_dirty
                   /\ run.st.err \/ (run.pc <= Len(run.script) /\ run.script[run.pc].op = "loop")

LuaInv ==
    /\ slaveset = dataset /\ ~killedDirty /\ lua_kill \in BOOLEAN
    /\ Busy => RunInv

LEMMA LuaInitInv == LuaInit => LuaInv
  BY DEF LuaInit, LuaInv, Busy

\* EVAL begins.
LEMMA EvalBegins ==
    ASSUME LuaInv, NEW s \in Script, NEW evalsha \in BOOLEAN, evalGenericCommand(s, evalsha)
    PROVE  LuaInv'
<1>1. s \in Seq(LuaCall)
  BY LuaAssumption
<1>2. Len(s) \in Nat
  BY <1>1, LenProperties
<1>3. run' = [script |-> s, pc |-> 1, evalsha |-> evalsha, from |-> dataset, st |-> Begin(dataset)]
  BY DEF evalGenericCommand
<1>4. /\ run'.script = s /\ run'.pc = 1 /\ run'.st = Begin(dataset)
      /\ run' = [script |-> run'.script, pc |-> run'.pc, evalsha |-> run'.evalsha, from |-> run'.from, st |-> run'.st]
  BY <1>3
<1>5. dataset' = dataset /\ slaveset' = slaveset /\ killedDirty' = killedDirty /\ lua_kill' = FALSE
  BY DEF evalGenericCommand
<1>6. /\ IsExecution(Begin(dataset)) /\ SameEffect(Begin(dataset), Begin(dataset))
      /\ Begin(dataset).data = dataset /\ Begin(dataset).lua_write_dirty = FALSE
  BY DEF Begin, IsExecution, SameEffect
<1>7. \A random : Execution(dataset, s, random)[1 - 1] = Begin(dataset)
  BY <1>1, ExecutionIs
<1>8. RunInv'
  BY <1>1, <1>2, <1>4, <1>5, <1>6, <1>7 DEF RunInv
<1> QED
  BY <1>5, <1>8 DEF LuaInv

\* A call of the script that runs.
LEMMA CallIsReplayed ==
    ASSUME LuaInv, ScriptStep
    PROVE  LuaInv'
<1>1. /\ Busy /\ run.pc <= Len(run.script) /\ ~run.st.err /\ run.script[run.pc].op # "loop"
      /\ dataset' = dataset /\ slaveset' = slaveset /\ killedDirty' = killedDirty /\ lua_kill' = lua_kill
  BY DEF ScriptStep
<1>2. RunInv /\ slaveset = dataset /\ ~killedDirty /\ lua_kill \in BOOLEAN
  BY <1>1 DEF LuaInv
<1> DEFINE s == run.script
           call == s[run.pc]
<1>3. PICK r \in LuaValue :
        run' = [run EXCEPT !.st = luaRedisGenericCommand(run.st, call, r), !.pc = @ + 1]
  BY DEF ScriptStep
<1> DEFINE x == luaRedisGenericCommand(run.st, call, r)
<1>4. s \in Seq(LuaCall) /\ Len(s) \in Nat /\ run.pc \in 1 .. Len(s) /\ call \in LuaCall
  <2>1. s \in Seq(LuaCall)
    BY <1>2 DEF RunInv
  <2>2. Len(s) \in Nat
    BY <2>1, LenProperties
  <2>3. run.pc \in 1 .. Len(s)
    BY <1>1, <1>2, <2>2 DEF RunInv
  <2> QED
    BY <2>1, <2>2, <2>3, ElementOfSeq
<1>5. IsExecution(run.st)
  BY <1>2 DEF RunInv
<1>6. Effect(run.st, call, r, x)
  BY <1>4, <1>5, CallEffect
<1>7. \A random : SameEffect(run.st, Execution(dataset, s, random)[run.pc - 1])
  BY <1>1, <1>2 DEF RunInv
<1>8. ASSUME NEW random PROVE SameEffect(x, Execution(dataset, s, random)[run.pc])
  <2> DEFINE e == Execution(dataset, s, random)
  <2>0. \A i \in 1 .. Len(s) : e[i] = luaRedisGenericCommand(e[i - 1], s[i], random[i])
    BY <1>4, ExecutionIs
  <2>1. e[run.pc] = luaRedisGenericCommand(e[run.pc - 1], call, random[run.pc])
    BY <1>4, <2>0
  <2>2. SameEffect(run.st, Execution(dataset, s, random)[run.pc - 1])
    BY <1>7
  <2>3. SameEffect(x, luaRedisGenericCommand(Execution(dataset, s, random)[run.pc - 1], call, random[run.pc]))
    BY <1>4, <2>2, CallsAgree
  <2> QED
    BY <2>1, <2>3
<1>9. ~lua_kill
  BY <1>1, <1>2 DEF RunInv
<1>10. run' = [script |-> s, pc |-> run.pc + 1, evalsha |-> run.evalsha, from |-> run.from, st |-> x]
  <2> HIDE DEF x
  <2>1. run' = [run EXCEPT !.st = x, !.pc = run.pc + 1]
    BY <1>3 DEF x
  <2> QED
    BY <1>2, <2>1 DEF RunInv
<1> HIDE DEF x
<1>11. /\ run'.script = s /\ run'.pc = run.pc + 1 /\ run'.st = x
       /\ run' = [script |-> run'.script, pc |-> run'.pc, evalsha |-> run'.evalsha, from |-> run'.from, st |-> run'.st]
  BY <1>10
<1>12. IsExecution(x) /\ (~x.lua_write_dirty => x.data = dataset)
  <2>1. IsExecution(x) /\ (x.lua_write_dirty = FALSE => ~run.st.lua_write_dirty /\ x.data = run.st.data)
    BY <1>6 DEF Effect
  <2>2. x.lua_write_dirty \in BOOLEAN
    BY <2>1 DEF IsExecution
  <2>3. ~run.st.lua_write_dirty => run.st.data = dataset
    BY <1>2 DEF RunInv
  <2> QED
    BY <2>1, <2>2, <2>3
<1>13. run'.pc - 1 = run.pc /\ run'.pc \in 1 .. Len(s) + 1
  BY <1>4, <1>11
<1>14. \A random : SameEffect(run'.st, Execution(dataset, s, random)[run'.pc - 1])
  BY <1>8, <1>11, <1>13
<1>15. RunInv'
  BY <1>1, <1>4, <1>9, <1>11, <1>12, <1>13, <1>14 DEF RunInv
<1> QED
  BY <1>1, <1>2, <1>15 DEF LuaInv

\* A loop ends by itself, or because the script is killed.
LEMMA LoopIsReplayed ==
    ASSUME LuaInv, LoopEnds
    PROVE  LuaInv'
<1>1. /\ Busy /\ run.pc <= Len(run.script) /\ ~run.st.err /\ run.script[run.pc].op = "loop"
      /\ run' = [run EXCEPT !.pc = @ + 1, !.st.err = lua_kill]
      /\ killedDirty' = (killedDirty \/ (lua_kill /\ run.st.lua_write_dirty))
      /\ dataset' = dataset /\ slaveset' = slaveset /\ lua_kill' = lua_kill
  BY DEF LoopEnds
<1>2. RunInv /\ slaveset = dataset /\ ~killedDirty /\ lua_kill \in BOOLEAN
  BY <1>1 DEF LuaInv
<1> DEFINE s == run.script
           call == s[run.pc]
           x == [run.st EXCEPT !.err = lua_kill]
<1>3. s \in Seq(LuaCall) /\ Len(s) \in Nat /\ run.pc \in 1 .. Len(s) /\ call \in LuaCall
  <2>1. s \in Seq(LuaCall)
    BY <1>2 DEF RunInv
  <2>2. Len(s) \in Nat
    BY <2>1, LenProperties
  <2>3. run.pc \in 1 .. Len(s)
    BY <1>1, <1>2, <2>2 DEF RunInv
  <2> QED
    BY <2>1, <2>2, <2>3, ElementOfSeq
<1>4. IsExecution(run.st)
  BY <1>2 DEF RunInv
<1>5. x = [data |-> run.st.data, got |-> run.st.got, lua_random_dirty |-> run.st.lua_random_dirty,
           lua_write_dirty |-> run.st.lua_write_dirty, err |-> lua_kill]
  BY <1>4 DEF IsExecution
<1>6. run' = [script |-> s, pc |-> run.pc + 1, evalsha |-> run.evalsha, from |-> run.from, st |-> x]
  <2> HIDE DEF x
  <2>1. run' = [run EXCEPT !.pc = run.pc + 1, !.st = x]
    BY <1>1 DEF x
  <2> QED
    BY <1>2, <2>1 DEF RunInv
<1> HIDE DEF x
<1>7. /\ run'.script = s /\ run'.pc = run.pc + 1 /\ run'.st = x
      /\ run' = [script |-> run'.script, pc |-> run'.pc, evalsha |-> run'.evalsha, from |-> run'.from, st |-> run'.st]
  BY <1>6
<1>8. /\ IsExecution(x) /\ (~x.lua_write_dirty => x.data = dataset)
      /\ lua_kill => ~x.lua_write_dirty /\ x.err
      /\ ~lua_kill => x = run.st
  <2>1. lua_kill => ~run.st.lua_write_dirty
    BY <1>2 DEF RunInv
  <2>2. ~run.st.lua_write_dirty => run.st.data = dataset
    BY <1>2 DEF RunInv
  <2>3. /\ x.data = run.st.data /\ x.err = lua_kill /\ x.lua_write_dirty = run.st.lua_write_dirty
        /\ IsExecution(x)
    BY <1>2, <1>4, <1>5 DEF IsExecution
  <2>4. ~lua_kill => x = run.st
    <3>1. run.st.err = FALSE
      BY <1>1, <1>4 DEF IsExecution
    <3> QED
      BY <1>2, <1>4, <1>5, <3>1 DEF IsExecution
  <2> QED
    BY <2>1, <2>2, <2>3, <2>4
<1>9. run'.pc - 1 = run.pc /\ run'.pc \in 1 .. Len(s) + 1
  BY <1>3, <1>7
<1>10. ASSUME ~lua_kill, NEW random PROVE SameEffect(x, Execution(dataset, s, random)[run.pc])
  <2> DEFINE e == Execution(dataset, s, random)
  <2>0. \A i \in 1 .. Len(s) : e[i] = luaRedisGenericCommand(e[i - 1], s[i], random[i])
    BY <1>3, ExecutionIs
  <2>1. e[run.pc] = luaRedisGenericCommand(e[run.pc - 1], call, random[run.pc])
    BY <1>3, <2>0
  <2>2. SameEffect(run.st, e[run.pc - 1])
    BY <1>1, <1>2 DEF RunInv
  <2> HIDE DEF e
  <2>3. IsExecution(e[run.pc - 1]) /\ ~e[run.pc - 1].err
    BY <1>1, <2>2 DEF SameEffect
  <2>4. Effect(e[run.pc - 1], call, random[run.pc], e[run.pc])
    BY <1>3, <2>1, <2>3, CallEffect
  <2>5. e[run.pc] = e[run.pc - 1]
    BY <1>1, <2>3, <2>4 DEF Effect
  <2>6. SameEffect(x, e[run.pc])
    BY <1>8, <1>10, <2>2, <2>5
  <2> QED
    BY <2>6 DEF e
<1>11. run'.st.lua_write_dirty \/ ~run'.st.err =>
         \A random : SameEffect(run'.st, Execution(dataset, s, random)[run'.pc - 1])
  BY <1>7, <1>8, <1>9, <1>10
<1>12. RunInv'
  BY <1>1, <1>3, <1>7, <1>8, <1>9, <1>11 DEF RunInv
<1>13. ~killedDirty'
  BY <1>1, <1>2 DEF RunInv
<1> QED
  BY <1>1, <1>2, <1>12, <1>13 DEF LuaInv

\* The end of a script: the slave, which runs all of it, gets its data.
LEMMA EndIsReplayed ==
    ASSUME LuaInv, EvalEnds
    PROVE  LuaInv'
<1>1. /\ Busy /\ (run.pc > Len(run.script) \/ run.st.err)
      /\ dataset' = run.st.data /\ run' = NoRun
      /\ killedDirty' = killedDirty /\ lua_kill' = lua_kill
  BY DEF EvalEnds
<1>2. RunInv /\ slaveset = dataset /\ ~killedDirty /\ lua_kill \in BOOLEAN
  BY <1>1 DEF LuaInv
<1> DEFINE s == run.script
<1>3. PICK random \in [1 .. Len(s) -> LuaValue] :
        IF run.st.lua_write_dirty THEN slaveset' = Execution(slaveset, s, random)[Len(s)].data
        ELSE slaveset' = slaveset
  BY DEF EvalEnds, SlaveRuns
<1>4. s \in Seq(LuaCall) /\ Len(s) \in Nat /\ run.pc \in 1 .. Len(s) + 1 /\ IsExecution(run.st)
  <2>1. s \in Seq(LuaCall)
    BY <1>2 DEF RunInv
  <2> QED
    BY <1>2, <2>1, LenProperties DEF RunInv
<1>5. CASE run.st.lua_write_dirty
  <2> DEFINE e == Execution(dataset, s, random)
  <2>1. SameEffect(run.st, e[run.pc - 1])
    BY <1>2, <1>5 DEF RunInv
  <2>2. e[Len(s)] = e[run.pc - 1]
    <3>1. CASE run.st.err
      <4>1. e[run.pc - 1].err
        BY <2>1, <3>1 DEF SameEffect
      <4>2. run.pc - 1 \in 0 .. Len(s)
        BY <1>4
      <4> QED
        BY <1>4, <4>1, <4>2, NothingAfterError
    <3>2. CASE ~run.st.err
      <4>1. run.pc - 1 = Len(s)
        BY <1>1, <1>4, <3>2
      <4> QED
        BY <4>1
    <3> QED
      BY <3>1, <3>2
  <2>3. slaveset' = e[Len(s)].data
    BY <1>2, <1>3, <1>5
  <2> HIDE DEF e
  <2>4. slaveset' = dataset'
    BY <1>1, <2>1, <2>2, <2>3 DEF SameEffect
  <2> QED
    BY <1>1, <1>2, <2>4 DEF LuaInv, Busy
<1>6. CASE ~run.st.lua_write_dirty
  <2>1. slaveset' = dataset'
    BY <1>1, <1>2, <1>3, <1>6 DEF RunInv
  <2> QED
    BY <1>1, <1>2, <2>1 DEF LuaInv, Busy
<1> QED
  BY <1>5, <1>6

LEMMA LuaStep ==
    ASSUME ~Evicts, LuaInv, [LuaNext]_luaVars
    PROVE  LuaInv'
<1>1. ASSUME UNCHANGED <<dataset, slaveset, run, lua_kill, killedDirty>> PROVE LuaInv'
  BY <1>1 DEF LuaInv, RunInv, Busy
<1>2. CASE UNCHANGED luaVars
  BY <1>1, <1>2 DEF luaVars
<1>3. ASSUME NEW s \in Script, scriptLoad(s) PROVE LuaInv'
  BY <1>1, <1>3 DEF scriptLoad
<1>4. ASSUME NEW s \in Script, NEW evalsha \in BOOLEAN, evalGenericCommand(s, evalsha) PROVE LuaInv'
  BY <1>4, EvalBegins
<1>5. CASE ScriptStep
  BY <1>5, CallIsReplayed
<1>6. CASE HookTimesOut
  BY <1>1, <1>6 DEF HookTimesOut
<1>7. CASE LoopEnds
  BY <1>7, LoopIsReplayed
<1>8. CASE ScriptKill
  <2>1. /\ Busy /\ ~run.st.lua_write_dirty /\ run.pc <= Len(run.script) /\ run.script[run.pc].op = "loop"
        /\ lua_kill' = TRUE /\ UNCHANGED <<dataset, slaveset, run, killedDirty>>
    BY <1>8 DEF ScriptKill, scriptKill
  <2>2. RunInv
    BY <2>1 DEF LuaInv
  <2>3. RunInv'
    BY <2>1, <2>2 DEF RunInv
  <2> QED
    BY <2>1, <2>3 DEF LuaInv
<1>9. CASE RefusedCommand
  BY <1>1, <1>9 DEF RefusedCommand
<1>10. CASE EvalEnds
  BY <1>10, EndIsReplayed
<1>11. CASE scriptFlush
  BY <1>1, <1>11 DEF scriptFlush
<1> QED
  BY <1>2, <1>3, <1>4, <1>5, <1>6, <1>7, <1>8, <1>9, <1>10, <1>11 DEF LuaNext

(* Where no key is evicted, a script that was run by EVAL or EVALSHA, to   *)
(* its end, to its error or until SCRIPT KILL, leaves master and slave     *)
(* with the same data, whatever commands answered that are not             *)
(* deterministic, and no script is killed that wrote (scripting.c).        *)
THEOREM ScriptsAreReplayedAlways ==
    ASSUME ~Evicts
    PROVE  LuaInit /\ [][LuaNext]_luaVars => []ScriptsAreReplayed
<1>1. LuaInit => LuaInv
  BY LuaInitInv
<1>2. LuaInv /\ [LuaNext]_luaVars => LuaInv'
  BY LuaStep
<1>3. LuaInv => ScriptsAreReplayed
  BY DEF LuaInv, ScriptsAreReplayed
<1> QED
  BY <1>1, <1>2, <1>3, PTL

----------------------------------------------------------------------------
(* The bytes of a sequence of objects.                                     *)

\* The recursive definition of the bytes has a solution.
LEMMA JoinedIs ==
    ASSUME NEW S, NEW r \in Seq(S)
    PROVE  /\ JoinedTo(r)[0] = <<>>
           /\ \A i \in 1 .. Len(r) : JoinedTo(r)[i] = JoinedTo(r)[i - 1] \o r[i].bytes
<1> DEFINE Val(f, i) == IF i = 0 THEN <<>> ELSE f[i - 1] \o r[i].bytes
           Good(f, n) == f = [i \in 0 .. n |-> Val(f, i)]
           T == {n \in Nat : ~ \E f : Good(f, n)}
<1>0. Len(r) \in Nat
  BY LenProperties
<1>1. T = {}
  <2> SUFFICES ASSUME T # {} PROVE FALSE
    OBVIOUS
  <2> DEFINE m == Min(T)
  <2>1. m \in T /\ \A t \in T : m <= t
    BY MinOfNaturals
  <2>2. m \in Nat /\ ~ \E f : Good(f, m)
    BY <2>1
  <2> HIDE DEF m
  <2>3. m # 0
    <3>1. Good([i \in 0 .. 0 |-> <<>>], 0)
      OBVIOUS
    <3> QED
      BY <2>2, <3>1
  <2>4. m - 1 \in Nat /\ ~(m <= m - 1)
    BY <2>2, <2>3
  <2>5. m - 1 \notin T
    BY <2>1, <2>4
  <2>6. PICK f : Good(f, m - 1)
    BY <2>4, <2>5
  <2> DEFINE g == [i \in 0 .. m |-> IF i = m THEN Val(f, m) ELSE f[i]]
  <2>7. ASSUME NEW i \in 0 .. m PROVE g[i] = Val(g, i)
    <3>1. CASE i = 0
      BY <2>2, <2>3, <2>6, <3>1
    <3>2. CASE i # 0
      <4>1. i - 1 \in 0 .. m /\ i - 1 # m /\ g[i - 1] = f[i - 1]
        BY <2>2, <3>2
      <4>2. CASE i = m
        BY <3>2, <4>1, <4>2
      <4>3. CASE i # m
        <5>1. i \in 0 .. m - 1
          BY <2>2, <4>3
        <5>2. f[i] = Val(f, i)
          BY <2>6, <5>1
        <5> QED
          BY <3>2, <4>1, <4>3, <5>2
      <4> QED
        BY <4>2, <4>3
    <3> QED
      BY <3>1, <3>2
  <2>8. Good(g, m)
    BY <2>7
  <2> QED
    BY <2>2, <2>8
<1>2. \E f : Good(f, Len(r))
  BY <1>0, <1>1
<1>3. JoinedTo(r) = CHOOSE f : Good(f, Len(r))
  BY SMTT(60) DEF JoinedTo
<1>4. Good(JoinedTo(r), Len(r))
  BY <1>2, <1>3
<1> QED
  BY <1>0, <1>4

\* The recursive definition of their number has a solution.
LEMMA CountedIs ==
    ASSUME NEW S, NEW r \in Seq(S)
    PROVE  /\ CountedTo(r)[0] = 0
           /\ \A i \in 1 .. Len(r) :
                CountedTo(r)[i] = CountedTo(r)[i - 1] + (IF r[i].null THEN 0 ELSE Len(r[i].bytes))
<1> DEFINE Val(f, i) == IF i = 0 THEN 0 ELSE f[i - 1] + (IF r[i].null THEN 0 ELSE Len(r[i].bytes))
           Good(f, n) == f = [i \in 0 .. n |-> Val(f, i)]
           T == {n \in Nat : ~ \E f : Good(f, n)}
<1>0. Len(r) \in Nat
  BY LenProperties
<1>1. T = {}
  <2> SUFFICES ASSUME T # {} PROVE FALSE
    OBVIOUS
  <2> DEFINE m == Min(T)
  <2>1. m \in T /\ \A t \in T : m <= t
    BY MinOfNaturals
  <2>2. m \in Nat /\ ~ \E f : Good(f, m)
    BY <2>1
  <2> HIDE DEF m
  <2>3. m # 0
    <3>1. Good([i \in 0 .. 0 |-> 0], 0)
      OBVIOUS
    <3> QED
      BY <2>2, <3>1
  <2>4. m - 1 \in Nat /\ ~(m <= m - 1)
    BY <2>2, <2>3
  <2>5. m - 1 \notin T
    BY <2>1, <2>4
  <2>6. PICK f : Good(f, m - 1)
    BY <2>4, <2>5
  <2> DEFINE g == [i \in 0 .. m |-> IF i = m THEN Val(f, m) ELSE f[i]]
  <2>7. ASSUME NEW i \in 0 .. m PROVE g[i] = Val(g, i)
    <3>1. CASE i = 0
      BY <2>2, <2>3, <2>6, <3>1
    <3>2. CASE i # 0
      <4>1. i - 1 \in 0 .. m /\ i - 1 # m /\ g[i - 1] = f[i - 1]
        BY <2>2, <3>2
      <4>2. CASE i = m
        BY <3>2, <4>1, <4>2
      <4>3. CASE i # m
        <5>1. i \in 0 .. m - 1
          BY <2>2, <4>3
        <5>2. f[i] = Val(f, i)
          BY <2>6, <5>1
        <5> QED
          BY <3>2, <4>1, <4>3, <5>2
      <4> QED
        BY <4>2, <4>3
    <3> QED
      BY <3>1, <3>2
  <2>8. Good(g, m)
    BY <2>7
  <2> QED
    BY <2>2, <2>8
<1>2. \E f : Good(f, Len(r))
  BY <1>0, <1>1
<1>3. CountedTo(r) = CHOOSE f : Good(f, Len(r))
  BY DEF CountedTo
<1>4. Good(CountedTo(r), Len(r))
  BY <1>2, <1>3
<1> QED
  BY <1>0, <1>4

(* Objects, and sends, have bytes.                                         *)
HaveBytes(S) == \A o \in S : o.bytes \in Seq(Int)

LEMMA JoinedType ==
    ASSUME NEW S, HaveBytes(S), NEW r \in Seq(S)
    PROVE  \A i \in 0 .. Len(r) : JoinedTo(r)[i] \in Seq(Int)
<1> DEFINE J == JoinedTo(r)
           T == {i \in 0 .. Len(r) : J[i] \notin Seq(Int)}
<1>1. /\ J[0] = <<>>
      /\ \A i \in 1 .. Len(r) : J[i] = J[i - 1] \o r[i].bytes
  BY JoinedIs
<1>2. Len(r) \in Nat /\ \A i \in 1 .. Len(r) : r[i].bytes \in Seq(Int)
  BY LenProperties, ElementOfSeq DEF HaveBytes
<1> HIDE DEF J
<1>3. T = {}
  <2> SUFFICES ASSUME T # {} PROVE FALSE
    OBVIOUS
  <2> DEFINE m == Min(T)
  <2>0. T \subseteq Nat
    BY <1>2
  <2>1. m \in T /\ \A t \in T : m <= t
    BY <2>0, MinOfNaturals
  <2> HIDE DEF m
  <2>2. m \in 0 .. Len(r) /\ J[m] \notin Seq(Int)
    BY <2>1
  <2>3. m # 0
    BY <1>1, <2>2, EmptySeq
  <2>4. m - 1 \in 0 .. Len(r) /\ ~(m <= m - 1) /\ m \in 1 .. Len(r)
    BY <1>2, <2>2, <2>3
  <2>5. J[m - 1] \in Seq(Int)
    BY <2>1, <2>4
  <2>6. J[m] = J[m - 1] \o r[m].bytes /\ r[m].bytes \in Seq(Int)
    BY <1>1, <1>2, <2>4
  <2> QED
    BY <2>2, <2>5, <2>6, ConcatProperties
<1> QED
  BY <1>3 DEF J

LEMMA BytesInOrder ==
    \A s, t, u \in Seq(Int) : (s \o t) \o u = s \o (t \o u) /\ s \o t \in Seq(Int)
  BY ConcatAssociative, ConcatProperties

\* Objects that are the same from some place on add the same bytes.
(* From place a of r and b of q on they have the same n elements.           *)
SameFrom(r, q, a, b, n) ==
    /\ a \in 0 .. Len(r) /\ b \in 0 .. Len(q) /\ n \in Nat /\ a + n <= Len(r) /\ b + n <= Len(q)
    /\ \A i \in 1 .. n : r[a + i] = q[b + i]

(* What r holds up to place a is x and what q holds up to place b.         *)
Follows(r, q, a, b, x) == JoinedTo(r)[a] = x \o JoinedTo(q)[b]

LEMMA JoinedAlike ==
    ASSUME NEW S, HaveBytes(S), NEW r \in Seq(S), NEW q \in Seq(S), NEW a, NEW b, NEW n, SameFrom(r, q, a, b, n),
           NEW x \in Seq(Int), Follows(r, q, a, b, x)
    PROVE  Follows(r, q, a + n, b + n, x)
<1> DEFINE J == JoinedTo(r)
           K == JoinedTo(q)
           T == {i \in 0 .. n : J[a + i] # x \o K[b + i]}
<1>0. /\ a \in 0 .. Len(r) /\ b \in 0 .. Len(q) /\ n \in Nat /\ a + n <= Len(r) /\ b + n <= Len(q)
      /\ \A i \in 1 .. n : r[a + i] = q[b + i]
  BY DEF SameFrom
<1>1. \A i \in 1 .. Len(r) : J[i] = J[i - 1] \o r[i].bytes
  BY JoinedIs
<1>2. \A i \in 1 .. Len(q) : K[i] = K[i - 1] \o q[i].bytes
  BY JoinedIs
<1>3. \A i \in 0 .. Len(q) : K[i] \in Seq(Int)
  BY JoinedType
<1>4. Len(r) \in Nat /\ Len(q) \in Nat /\ \A i \in 1 .. Len(q) : q[i].bytes \in Seq(Int)
  BY LenProperties, ElementOfSeq DEF HaveBytes
<1>5. J[a] = x \o K[b]
  BY DEF Follows
<1> HIDE DEF J, K
<1>6. T = {}
  <2> SUFFICES ASSUME T # {} PROVE FALSE
    OBVIOUS
  <2> DEFINE m == Min(T)
  <2>0. T \subseteq Nat
    BY <1>0
  <2>1. m \in T /\ \A t \in T : m <= t
    BY <2>0, MinOfNaturals
  <2> HIDE DEF m
  <2>2. m \in 0 .. n /\ J[a + m] # x \o K[b + m]
    BY <2>1
  <2>3. m # 0
    <3>1. a + 0 = a /\ b + 0 = b
      BY <1>0, <1>4
    <3> QED
      BY <1>5, <2>2, <3>1
  <2>4. m - 1 \in 0 .. n /\ ~(m <= m - 1) /\ m \in 1 .. n
    BY <1>0, <2>2, <2>3
  <2> DEFINE am == a + m
             bm == b + m
             am1 == a + (m - 1)
             bm1 == b + (m - 1)
  <2>5. am \in 1 .. Len(r) /\ bm \in 1 .. Len(q)
    BY <1>0, <1>4, <2>4
  <2>6. am - 1 = am1 /\ bm - 1 = bm1 /\ bm1 \in 0 .. Len(q)
    BY <1>0, <1>4, <2>4
  <2>7. J[am1] = x \o K[bm1]
    BY <2>1, <2>4
  <2>8. r[am].bytes = q[bm].bytes
    BY <1>0, <2>4
  <2> DEFINE k == K[bm1]
             h == q[bm].bytes
  <2>9. J[am] # x \o K[bm]
    BY <2>2
  <2> HIDE DEF am, bm, am1, bm1
  <2>10. J[am] = J[am1] \o h /\ K[bm] = k \o h
    BY <1>1, <1>2, <2>5, <2>6, <2>8
  <2>11. h \in Seq(Int) /\ k \in Seq(Int)
    BY <1>3, <1>4, <2>5, <2>6
  <2> HIDE DEF h, k
  <2>12. (x \o k) \o h = x \o (k \o h)
    BY <2>11, BytesInOrder
  <2>13. J[am1] = x \o k
    BY <2>7 DEF k
  <2> QED
    BY <2>9, <2>10, <2>12, <2>13
<1>7. n \in 0 .. n
  BY <1>0
<1>8. J[a + n] = x \o K[b + n]
  BY <1>6, <1>7
<1> QED
  BY <1>8 DEF J, K, Follows

LEMMA CountedType ==
    ASSUME NEW S, HaveBytes(S), NEW r \in Seq(S)
    PROVE  \A i \in 0 .. Len(r) : CountedTo(r)[i] \in Int
<1> DEFINE J == CountedTo(r)
           Here(i) == IF r[i].null THEN 0 ELSE Len(r[i].bytes)
           T == {i \in 0 .. Len(r) : J[i] \notin Int}
<1>1. /\ J[0] = 0
      /\ \A i \in 1 .. Len(r) : J[i] = J[i - 1] + Here(i)
  BY CountedIs
<1>2. Len(r) \in Nat /\ \A i \in 1 .. Len(r) : r[i].bytes \in Seq(Int)
  BY LenProperties, ElementOfSeq DEF HaveBytes
<1>3. \A i \in 1 .. Len(r) : Here(i) \in Int
  BY <1>2, LenProperties
<1> HIDE DEF J, Here
<1>4. T = {}
  <2> SUFFICES ASSUME T # {} PROVE FALSE
    OBVIOUS
  <2> DEFINE m == Min(T)
  <2>0. T \subseteq Nat
    BY <1>2
  <2>1. m \in T /\ \A t \in T : m <= t
    BY <2>0, MinOfNaturals
  <2> HIDE DEF m
  <2>2. m \in 0 .. Len(r) /\ J[m] \notin Int
    BY <2>1
  <2>3. m # 0
    BY <1>1, <2>2
  <2>4. m - 1 \in 0 .. Len(r) /\ ~(m <= m - 1) /\ m \in 1 .. Len(r)
    BY <1>2, <2>2, <2>3
  <2>5. J[m - 1] \in Int
    BY <2>1, <2>4
  <2>6. J[m] = J[m - 1] + Here(m) /\ Here(m) \in Int
    BY <1>1, <1>3, <2>4
  <2> QED
    BY <2>2, <2>5, <2>6
<1> QED
  BY <1>4 DEF J

\* The same for their number.
LEMMA CountedAlike ==
    ASSUME NEW S, HaveBytes(S), NEW r \in Seq(S), NEW q \in Seq(S), NEW a, NEW b, NEW n, SameFrom(r, q, a, b, n),
           NEW x \in Int, CountedTo(r)[a] = x + CountedTo(q)[b]
    PROVE  CountedTo(r)[a + n] = x + CountedTo(q)[b + n]
<1> DEFINE J == CountedTo(r)
           K == CountedTo(q)
           Here(o) == IF o.null THEN 0 ELSE Len(o.bytes)
           T == {i \in 0 .. n : J[a + i] # x + K[b + i]}
<1>0. /\ a \in 0 .. Len(r) /\ b \in 0 .. Len(q) /\ n \in Nat /\ a + n <= Len(r) /\ b + n <= Len(q)
      /\ \A i \in 1 .. n : r[a + i] = q[b + i]
  BY DEF SameFrom
<1>1. \A i \in 1 .. Len(r) : J[i] = J[i - 1] + Here(r[i])
  BY CountedIs
<1>2. \A i \in 1 .. Len(q) : K[i] = K[i - 1] + Here(q[i])
  BY CountedIs
<1>3. \A i \in 0 .. Len(q) : K[i] \in Int
  BY CountedType
<1>4. Len(r) \in Nat /\ Len(q) \in Nat /\ \A i \in 1 .. Len(q) : q[i].bytes \in Seq(Int)
  BY LenProperties, ElementOfSeq DEF HaveBytes
<1>5. J[a] = x + K[b] /\ \A i \in 1 .. Len(q) : Here(q[i]) \in Int
  BY <1>0, <1>4, LenProperties
<1> HIDE DEF J, K, Here
<1>6. T = {}
  <2> SUFFICES ASSUME T # {} PROVE FALSE
    OBVIOUS
  <2> DEFINE m == Min(T)
  <2>0. T \subseteq Nat
    BY <1>0
  <2>1. m \in T /\ \A t \in T : m <= t
    BY <2>0, MinOfNaturals
  <2> HIDE DEF m
  <2>2. m \in 0 .. n /\ J[a + m] # x + K[b + m]
    BY <2>1
  <2>3. m # 0
    <3>1. a + 0 = a /\ b + 0 = b
      BY <1>0, <1>4
    <3> QED
      BY <1>5, <2>2, <3>1
  <2>4. /\ m - 1 \in 0 .. n /\ ~(m <= m - 1) /\ m \in 1 .. n
        /\ a + m \in 1 .. Len(r) /\ b + m \in 1 .. Len(q)
        /\ a + m - 1 = a + (m - 1) /\ b + m - 1 = b + (m - 1) /\ b + (m - 1) \in 0 .. Len(q)
    BY <1>0, <1>4, <2>2, <2>3
  <2>5. J[a + (m - 1)] = x + K[b + (m - 1)]
    BY <2>1, <2>4
  <2>6. /\ J[a + m] = J[a + (m - 1)] + Here(r[a + m])
        /\ K[b + m] = K[b + (m - 1)] + Here(q[b + m])
        /\ r[a + m] = q[b + m] /\ Here(q[b + m]) \in Int
        /\ K[b + (m - 1)] \in Int
    BY <1>0, <1>1, <1>2, <1>3, <1>5, <2>4
  <2> DEFINE k == K[b + (m - 1)]
             h == Here(q[b + m])
  <2>7. /\ k \in Int /\ h \in Int /\ J[a + (m - 1)] = x + k
        /\ J[a + m] = J[a + (m - 1)] + h /\ K[b + m] = k + h
    BY <2>5, <2>6
  <2> HIDE DEF h, k
  <2>8. J[a + m] = x + K[b + m]
    BY <2>7
  <2> QED
    BY <2>2, <2>8
<1>7. n \in 0 .. n
  BY <1>0
<1>8. J[a + n] = x + K[b + n]
  BY <1>6, <1>7
<1> QED
  BY <1>8 DEF J, K

LEMMA JoinedSame ==
    ASSUME NEW S, HaveBytes(S), NEW r \in Seq(S), NEW q \in Seq(S), NEW n \in Nat, n <= Len(r), n <= Len(q),
           \A i \in 1 .. n : r[i] = q[i]
    PROVE  JoinedTo(r)[n] = JoinedTo(q)[n] /\ CountedTo(r)[n] = CountedTo(q)[n]
<1>1. Len(r) \in Nat /\ Len(q) \in Nat
  BY LenProperties
<1>2. JoinedTo(r)[0] = <<>> /\ JoinedTo(q)[0] = <<>> /\ CountedTo(r)[0] = 0 /\ CountedTo(q)[0] = 0
  BY JoinedIs, CountedIs
<1>3. <<>> \in Seq(Int) /\ <<>> \o <<>> = <<>>
  BY EmptySeq, ConcatEmptySeq
<1>4. JoinedTo(r)[0] = <<>> \o JoinedTo(q)[0] /\ CountedTo(r)[0] = 0 + CountedTo(q)[0]
  BY <1>2, <1>3
<1>5. 0 \in 0 .. Len(r) /\ 0 \in 0 .. Len(q) /\ 0 + n <= Len(r) /\ 0 + n <= Len(q)
  BY <1>1
<1>6. \A i \in 1 .. n : r[0 + i] = q[0 + i]
  OBVIOUS
<1>8. JoinedTo(r)[0 + n] = <<>> \o JoinedTo(q)[0 + n] /\ CountedTo(r)[0 + n] = 0 + CountedTo(q)[0 + n]
  <2> DEFINE z == 0
             e == <<>>
  <2>1. /\ z \in 0 .. Len(r) /\ z \in 0 .. Len(q) /\ z + n <= Len(r) /\ z + n <= Len(q)
        /\ \A i \in 1 .. n : r[z + i] = q[z + i]
        /\ JoinedTo(r)[z] = e \o JoinedTo(q)[z] /\ CountedTo(r)[z] = z + CountedTo(q)[z]
        /\ e \in Seq(Int) /\ z \in Int
    BY <1>3, <1>4, <1>5, <1>6
  <2>2. SUFFICES JoinedTo(r)[z + n] = e \o JoinedTo(q)[z + n] /\ CountedTo(r)[z + n] = z + CountedTo(q)[z + n]
    OBVIOUS
  <2> HIDE DEF z, e
  <2>5. SameFrom(r, q, z, z, n)
    BY <2>1 DEF SameFrom
  <2>6. Follows(r, q, z, z, e)
    BY <2>1 DEF Follows
  <2>7. Follows(r, q, z + n, z + n, e)
    BY <2>1, <2>5, <2>6, JoinedAlike
  <2>3. JoinedTo(r)[z + n] = e \o JoinedTo(q)[z + n]
    BY <2>7 DEF Follows
  <2>4. CountedTo(r)[z + n] = z + CountedTo(q)[z + n]
    BY <2>1, <2>5, CountedAlike
  <2> QED
    BY <2>3, <2>4
<1>10. 0 + n = n /\ n \in 0 .. Len(q)
  BY <1>1
<1>11. JoinedTo(q)[n] \in Seq(Int) /\ CountedTo(q)[n] \in Int
  BY <1>10, JoinedType, CountedType
<1>12. <<>> \o JoinedTo(q)[n] = JoinedTo(q)[n]
  BY <1>11, ConcatEmptySeq
<1>13. \A c \in Int : 0 + c = c
  OBVIOUS
<1> QED
  BY <1>8, <1>10, <1>11, <1>12, <1>13

LEMMA JoinedTypes ==
    ASSUME NEW S, HaveBytes(S), NEW r \in Seq(S)
    PROVE  Joined(r) \in Seq(Int) /\ Counted(r) \in Int
<1>1. Len(r) \in 0 .. Len(r)
  BY LenProperties
<1> QED
  BY <1>1, JoinedType, CountedType DEF Joined, Counted

LEMMA JoinedNone == Joined(<<>>) = <<>> /\ Counted(<<>>) = 0
<1>1. <<>> \in Seq(Int) /\ Len(<<>>) = 0
  BY EmptySeq
<1> QED
  BY <1>1, JoinedIs, CountedIs DEF Joined, Counted

Unless(o) == IF o.null THEN 0 ELSE Len(o.bytes)

LEMMA JoinedAppend ==
    ASSUME NEW S, HaveBytes(S), NEW r \in Seq(S), NEW o \in S
    PROVE  /\ Joined(Append(r, o)) = Joined(r) \o o.bytes
           /\ Counted(Append(r, o)) = Counted(r) + Unless(o)
<1> DEFINE q == Append(r, o)
           n == Len(r)
<1>1. /\ q \in Seq(S) /\ Len(q) = n + 1 /\ q[n + 1] = o /\ n \in Nat
      /\ \A i \in 1 .. n : q[i] = r[i]
  BY PushTailSequence
<1> HIDE DEF q
<1>2. JoinedTo(q)[n] = JoinedTo(r)[n] /\ CountedTo(q)[n] = CountedTo(r)[n]
  BY <1>1, JoinedSame
<1>3. n + 1 \in 1 .. Len(q) /\ (n + 1) - 1 = n
  BY <1>1
<1>4. /\ \A i \in 1 .. Len(q) : JoinedTo(q)[i] = JoinedTo(q)[i - 1] \o q[i].bytes
      /\ \A i \in 1 .. Len(q) : CountedTo(q)[i] = CountedTo(q)[i - 1] + Unless(q[i])
  BY <1>1, JoinedIs, CountedIs DEF Unless
<1>5. JoinedTo(q)[n + 1] = JoinedTo(q)[n] \o o.bytes /\ CountedTo(q)[n + 1] = CountedTo(q)[n] + Unless(o)
  BY <1>1, <1>3, <1>4
<1> QED
  BY <1>1, <1>2, <1>5 DEF Joined, Counted, q

LEMMA JoinedHead ==
    ASSUME NEW S, HaveBytes(S), NEW r \in Seq(S), r # <<>>
    PROVE  /\ Joined(r) = Head(r).bytes \o Joined(Tail(r))
           /\ Counted(r) = Unless(Head(r)) + Counted(Tail(r))
<1> DEFINE q == Tail(r)
           n == Len(r) - 1
           x == Head(r).bytes
           c == Unless(Head(r))
<1>1. /\ q \in Seq(S) /\ Len(q) = n /\ Len(r) \in Nat /\ Len(r) > 0
      /\ \A i \in 1 .. n : q[i] = r[i + 1]
      /\ Head(r) = r[1] /\ Head(r) \in S
  BY PopHeadSequence
<1>2. x \in Seq(Int) /\ c \in Int /\ n \in Nat
  <2>1. x \in Seq(Int)
    BY <1>1 DEF HaveBytes
  <2> QED
    BY <1>1, <2>1, LenProperties DEF Unless
<1> HIDE DEF q, x, c
<1>3. JoinedTo(q)[0] = <<>> /\ CountedTo(q)[0] = 0
  BY <1>1, JoinedIs, CountedIs
<1>4. JoinedTo(r)[1] = x /\ CountedTo(r)[1] = c
  <2>1. 1 \in 1 .. Len(r) /\ 1 - 1 = 0
    BY <1>1
  <2>2. /\ JoinedTo(r)[0] = <<>> /\ CountedTo(r)[0] = 0
        /\ \A i \in 1 .. Len(r) : JoinedTo(r)[i] = JoinedTo(r)[i - 1] \o r[i].bytes
        /\ \A i \in 1 .. Len(r) : CountedTo(r)[i] = CountedTo(r)[i - 1] + Unless(r[i])
    BY JoinedIs, CountedIs DEF Unless
  <2>3. JoinedTo(r)[1] = <<>> \o x /\ CountedTo(r)[1] = 0 + c
    BY <1>1, <2>1, <2>2 DEF x, c
  <2>4. <<>> \o x = x
    BY <1>2, ConcatEmptySeq
  <2> QED
    BY <1>2, <2>3, <2>4
<1>5. JoinedTo(r)[1] = x \o JoinedTo(q)[0] /\ CountedTo(r)[1] = c + CountedTo(q)[0]
  <2>1. x \o <<>> = x
    BY <1>2, ConcatEmptySeq
  <2> QED
    BY <1>2, <1>3, <1>4, <2>1
<1>6. 1 \in 0 .. Len(r) /\ 0 \in 0 .. Len(q) /\ 1 + n <= Len(r) /\ 0 + n <= Len(q) /\ 1 + n = Len(r) /\ 0 + n = Len(q)
  BY <1>1, <1>2
<1>7. \A i \in 1 .. n : r[1 + i] = q[0 + i]
  <2>1. \A i \in 1 .. n : 1 + i = i + 1 /\ 0 + i = i
    BY <1>2
  <2> QED
    BY <1>1, <2>1
<1>8. JoinedTo(r)[1 + n] = x \o JoinedTo(q)[0 + n] /\ CountedTo(r)[1 + n] = c + CountedTo(q)[0 + n]
  <2> DEFINE z == 0
             a == 1
  <2>1. /\ a \in 0 .. Len(r) /\ z \in 0 .. Len(q) /\ a + n <= Len(r) /\ z + n <= Len(q)
        /\ \A i \in 1 .. n : r[a + i] = q[z + i]
        /\ JoinedTo(r)[a] = x \o JoinedTo(q)[z] /\ CountedTo(r)[a] = c + CountedTo(q)[z]
    BY <1>5, <1>6, <1>7
  <2>2. SUFFICES JoinedTo(r)[a + n] = x \o JoinedTo(q)[z + n] /\ CountedTo(r)[a + n] = c + CountedTo(q)[z + n]
    OBVIOUS
  <2> HIDE DEF z, a, n
  <2>5. SameFrom(r, q, a, z, n)
    BY <1>2, <2>1 DEF SameFrom
  <2>6. Follows(r, q, a, z, x)
    BY <2>1 DEF Follows
  <2>7. Follows(r, q, a + n, z + n, x)
    BY <1>1, <1>2, <2>5, <2>6, JoinedAlike
  <2>3. JoinedTo(r)[a + n] = x \o JoinedTo(q)[z + n]
    BY <2>7 DEF Follows
  <2>4. CountedTo(r)[a + n] = c + CountedTo(q)[z + n]
    BY <1>1, <1>2, <2>1, <2>5, CountedAlike
  <2> QED
    BY <2>3, <2>4
<1> QED
  BY <1>6, <1>8 DEF Joined, Counted, q, x, c

Object == [bytes : Seq(Int), null : BOOLEAN]

LEMMA ObjectsHaveBytes == HaveBytes(Object)
  BY DEF HaveBytes, Object

LEMMA ObjectIs ==
    ASSUME NEW f \in Seq(Int)
    PROVE  Obj(f) \in Object /\ Obj(f).bytes = f /\ Obj(f).null = FALSE /\ Unless(Obj(f)) = Len(f)
  BY DEF Obj, Object, Unless

(* q is r with o at place i.                                               *)
Replaced(r, i, o, q) == Len(q) = Len(r) /\ \A j \in 1 .. Len(r) : q[j] = IF j = i THEN o ELSE r[j]

(* The bytes of o are those of place i of r, and f.                        *)
Longer(r, i, o, f) == o.bytes = r[i].bytes \o f

LEMMA ExceptReplaces ==
    ASSUME NEW S, NEW r \in Seq(S), NEW i \in 1 .. Len(r), NEW o \in S
    PROVE  [r EXCEPT ![i] = o] \in Seq(S) /\ Replaced(r, i, o, [r EXCEPT ![i] = o])
<1> DEFINE q == [r EXCEPT ![i] = o]
<1>1. q \in Seq(S) /\ Len(q) = Len(r) /\ \A j \in 1 .. Len(r) : q[j] = IF j = i THEN o ELSE r[j]
  BY ExceptSeq
<1> HIDE DEF q
<1>2. q \in Seq(S) /\ Replaced(r, i, o, q)
  BY <1>1 DEF Replaced
<1> QED
  BY <1>2 DEF q

LEMMA ObjectGlued ==
    ASSUME NEW o \in Object, ~o.null, NEW f \in Seq(Int)
    PROVE  [o EXCEPT !.bytes = @ \o f] = [bytes |-> o.bytes \o f, null |-> FALSE]
<1> DEFINE g == o.bytes \o f
           a == [o EXCEPT !.bytes = @ \o f]
<1>1. o = [bytes |-> o.bytes, null |-> FALSE]
  BY DEF Object
<1>2. a = [o EXCEPT !.bytes = g]
  OBVIOUS
<1> DEFINE h == o.bytes
<1>4. o = [bytes |-> h, null |-> FALSE]
  BY <1>1
<1> HIDE DEF g, a, h
<1>3. a = [bytes |-> g, null |-> FALSE]
  BY <1>2, <1>4
<1> QED
  BY <1>3 DEF g, a

\* One element of a sequence is replaced.
LEMMA JoinedReplaced ==
    ASSUME NEW S, HaveBytes(S), NEW r \in Seq(S), NEW i \in 1 .. Len(r), NEW o \in S, NEW q \in Seq(S),
           Replaced(r, i, o, q), NEW f \in Seq(Int), Longer(r, i, o, f)
    PROVE  /\ JoinedTo(q)[i] = JoinedTo(r)[i] \o f
           /\ CountedTo(q)[i] = CountedTo(r)[i] - Unless(r[i]) + Unless(o)
<1>1. Len(q) = Len(r) /\ \A j \in 1 .. Len(r) : q[j] = IF j = i THEN o ELSE r[j]
  BY DEF Replaced
<1>2. Len(r) \in Nat /\ r[i] \in S
  BY LenProperties, ElementOfSeq
<1> DEFINE n == i - 1
<1>3. n \in Nat /\ n <= Len(r) /\ n <= Len(q) /\ n \in 0 .. Len(r) /\ \A j \in 1 .. n : r[j] = q[j]
  BY <1>1, <1>2
<1>4. JoinedTo(r)[n] = JoinedTo(q)[n] /\ CountedTo(r)[n] = CountedTo(q)[n]
  <2> HIDE DEF n
  <2> QED
    BY <1>1, <1>3, JoinedSame
<1>5. JoinedTo(r)[n] \in Seq(Int) /\ CountedTo(r)[n] \in Int
  BY <1>3, JoinedType, CountedType
<1>6. r[i].bytes \in Seq(Int) /\ Unless(r[i]) \in Int /\ Unless(o) \in Int
  BY <1>2, LenProperties DEF HaveBytes, Unless
<1>7. /\ \A j \in 1 .. Len(q) : JoinedTo(q)[j] = JoinedTo(q)[j - 1] \o q[j].bytes
      /\ \A j \in 1 .. Len(q) : CountedTo(q)[j] = CountedTo(q)[j - 1] + Unless(q[j])
      /\ \A j \in 1 .. Len(r) : JoinedTo(r)[j] = JoinedTo(r)[j - 1] \o r[j].bytes
      /\ \A j \in 1 .. Len(r) : CountedTo(r)[j] = CountedTo(r)[j - 1] + Unless(r[j])
  BY <1>1, JoinedIs, CountedIs DEF Unless
<1>0. i \in 1 .. Len(q) /\ q[i] = o
  BY <1>1
<1>8. /\ JoinedTo(q)[i] = JoinedTo(q)[n] \o o.bytes /\ CountedTo(q)[i] = CountedTo(q)[n] + Unless(o)
      /\ JoinedTo(r)[i] = JoinedTo(r)[n] \o r[i].bytes /\ CountedTo(r)[i] = CountedTo(r)[n] + Unless(r[i])
  BY <1>0, <1>7
<1> HIDE DEF n
<1>9. (JoinedTo(r)[n] \o r[i].bytes) \o f = JoinedTo(r)[n] \o (r[i].bytes \o f)
  BY <1>5, <1>6, BytesInOrder
<1>10. JoinedTo(q)[i] = JoinedTo(r)[i] \o f
  BY <1>4, <1>8, <1>9 DEF Longer
<1>11. CountedTo(q)[i] = CountedTo(r)[i] - Unless(r[i]) + Unless(o)
  <2>1. \A c, u, v \in Int : (c + u) - u + v = c + v
    OBVIOUS
  <2> QED
    BY <1>4, <1>5, <1>6, <1>8, <2>1
<1> QED
  BY <1>1, <1>10, <1>11

\* Bytes are glued to the last object.
LEMMA JoinedGlued ==
    ASSUME NEW r \in Seq(Object), r # <<>>, ~Last(r).null, NEW f \in Seq(Int)
    PROVE  LET q == [r EXCEPT ![Len(r)].bytes = @ \o f]
           IN  /\ q \in Seq(Object) /\ Len(q) = Len(r)
               /\ \A j \in 1 .. Len(r) : q[j].null = r[j].null /\ Len(q[j].bytes) >= Len(r[j].bytes)
               /\ Joined(q) = Joined(r) \o f /\ Counted(q) = Counted(r) + Len(f)
<1> DEFINE n == Len(r)
           q == [r EXCEPT ![Len(r)].bytes = @ \o f]
           last == [bytes |-> r[n].bytes \o f, null |-> FALSE]
<1>1. n \in Nat /\ n \in 1 .. n /\ r[n] \in Object /\ \A i \in 1 .. n : r[i] \in Object
  <2>1. n \in Nat /\ n > 0
    BY LenProperties, EmptySeq
  <2> QED
    BY <2>1, ElementOfSeq
<1>2. r[n].null = FALSE /\ r[n].bytes \in Seq(Int)
  BY <1>1 DEF Object, Last
<1>3. last \in Object /\ last.bytes = r[n].bytes \o f /\ last.null = FALSE /\ Len(last.bytes) = Len(r[n].bytes) + Len(f)
  BY <1>2, ConcatProperties DEF Object
<1>4. [r[n] EXCEPT !.bytes = @ \o f] = last
  BY <1>1, <1>2, ObjectGlued
<1>5. q = [r EXCEPT ![n] = last]
  BY <1>4
<1> HIDE DEF last, q
<1>6. /\ q \in Seq(Object) /\ Replaced(r, n, last, q)
      /\ JoinedTo(q)[n] = JoinedTo(r)[n] \o f
      /\ CountedTo(q)[n] = CountedTo(r)[n] - Unless(r[n]) + Unless(last)
  <2> HIDE DEF n
  <2>1. n \in 1 .. Len(r)
    BY <1>1 DEF n
  <2>2. q \in Seq(Object) /\ Replaced(r, n, last, q)
    BY <1>3, <1>5, <2>1, ExceptReplaces
  <2>3. Longer(r, n, last, f)
    BY <1>3 DEF Longer
  <2> QED
    BY <1>3, <2>1, <2>2, <2>3, JoinedReplaced, ObjectsHaveBytes
<1>61. Len(q) = Len(r) /\ \A j \in 1 .. Len(r) : q[j] = IF j = n THEN last ELSE r[j]
  BY <1>6 DEF Replaced
<1>7. Len(f) \in Nat /\ \A j \in 1 .. n : Len(r[j].bytes) \in Nat
  BY <1>1, LenProperties DEF Object
<1>8. ASSUME NEW j \in 1 .. n PROVE q[j].null = r[j].null /\ Len(q[j].bytes) >= Len(r[j].bytes)
  <2>1. CASE j = n
    <3>1. q[j] = last
      BY <1>61, <2>1
    <3>2. Len(last.bytes) >= Len(r[n].bytes)
      BY <1>1, <1>3, <1>7
    <3> QED
      BY <1>2, <1>3, <2>1, <3>1, <3>2
  <2>2. CASE j # n
    <3>1. q[j] = r[j]
      BY <1>61, <2>2
    <3>2. Len(r[j].bytes) >= Len(r[j].bytes)
      BY <1>7
    <3> QED
      BY <3>1, <3>2
  <2> QED
    BY <2>1, <2>2
<1>9. Unless(r[n]) = Len(r[n].bytes) /\ Unless(last) = Len(r[n].bytes) + Len(f)
  BY <1>2, <1>3 DEF Unless
<1>10. CountedTo(r)[n] \in Int
  <2>1. n \in 0 .. Len(r)
    BY <1>1
  <2> HIDE DEF n
  <2> QED
    BY <2>1, CountedType, ObjectsHaveBytes
<1>11. CountedTo(q)[n] = CountedTo(r)[n] + Len(f)
  <2> DEFINE c == CountedTo(r)[n]
             u == Len(r[n].bytes)
             v == Len(f)
  <2>1. CountedTo(q)[n] = c - u + (u + v) /\ c \in Int /\ u \in Nat /\ v \in Nat
    BY <1>1, <1>6, <1>7, <1>9, <1>10
  <2> HIDE DEF c, u, v
  <2>2. CountedTo(q)[n] = c + v
    BY <2>1
  <2> QED
    BY <2>2 DEF c, v
<1>12. Joined(q) = Joined(r) \o f /\ Counted(q) = Counted(r) + Len(f)
  BY <1>6, <1>61, <1>11 DEF Joined, Counted
<1> QED
  BY <1>6, <1>61, <1>8, <1>12 DEF q

\* A sequence without its element at position n, by its positions.
LEMMA RemoveAtPositions ==
    ASSUME NEW S, NEW s \in Seq(S), NEW n \in 1 .. Len(s)
    PROVE  LET q == RemoveAt(s, n)
           IN  /\ q \in Seq(S) /\ Len(q) = Len(s) - 1 /\ Len(s) \in Nat
               /\ \A i \in 1 .. n - 1 : q[i] = s[i]
               /\ \A i \in n .. Len(s) - 1 : q[i] = s[i + 1]
<1> DEFINE a == SubSeq(s, 1, n - 1)
           b == SubSeq(s, n + 1, Len(s))
           q == RemoveAt(s, n)
<1>1. Len(s) \in Nat /\ \A i \in 1..Len(s) : s[i] \in S
  BY LenProperties, ElementOfSeq
<1>2. a \in Seq(S) /\ Len(a) = n - 1 /\ \A i \in 1..n - 1 : a[i] = s[i]
  <2>1. n - 1 \in Int /\ 1 \in Int /\ \A i \in 1..n - 1 : s[i] \in S
    BY <1>1
  <2>2. /\ a \in Seq(S)
        /\ Len(a) = IF 1 <= n - 1 THEN (n - 1) - 1 + 1 ELSE 0
        /\ \A i \in 1..(n - 1) - 1 + 1 : a[i] = s[1 + i - 1]
    BY <2>1, SubSeqProperties
  <2> QED
    BY <1>1, <2>2
<1>3. b \in Seq(S) /\ Len(b) = Len(s) - n /\ \A i \in 1..Len(s) - n : b[i] = s[n + i]
  <2>1. n + 1 \in Int /\ Len(s) \in Int /\ \A i \in n + 1..Len(s) : s[i] \in S
    BY <1>1
  <2>2. /\ b \in Seq(S)
        /\ Len(b) = IF n + 1 <= Len(s) THEN Len(s) - (n + 1) + 1 ELSE 0
        /\ \A i \in 1..Len(s) - (n + 1) + 1 : b[i] = s[(n + 1) + i - 1]
    BY <2>1, SubSeqProperties
  <2>3. Len(s) - (n + 1) + 1 = Len(s) - n /\ \A i \in Int : (n + 1) + i - 1 = n + i
    BY <1>1, SMTT(60)
  <2> HIDE DEF b
  <2>4. Len(b) = Len(s) - n
    <3>1. \A m \in Nat : \A j \in 1..m : IF j + 1 <= m THEN m - j > 0 ELSE m - j = 0
      OBVIOUS
    <3>2. IF n + 1 <= Len(s) THEN Len(s) - n > 0 ELSE Len(s) - n = 0
      BY <1>1, <3>1
    <3> QED
      BY <2>2, <2>3, <3>2
  <2>5. ASSUME NEW i \in 1..Len(s) - n PROVE b[i] = s[n + i]
    <3>1. i \in Int /\ i \in 1..Len(s) - (n + 1) + 1
      BY <2>3, <2>5
    <3>2. b[i] = s[(n + 1) + i - 1]
      BY <2>2, <3>1
    <3> QED
      BY <2>3, <3>1, <3>2
  <2> QED
    BY <2>2, <2>4, <2>5
<1>4. q = a \o b
  BY DEF RemoveAt
<1> HIDE DEF a, b, q
<1>5. /\ q \in Seq(S) /\ Len(q) = (n - 1) + (Len(s) - n)
      /\ \A i \in 1 .. (n - 1) + (Len(s) - n) : q[i] = IF i <= n - 1 THEN a[i] ELSE b[i - (n - 1)]
  <2>1. /\ a \o b \in Seq(S) /\ Len(a \o b) = Len(a) + Len(b)
        /\ \A i \in 1 .. Len(a) + Len(b) : (a \o b)[i] = IF i <= Len(a) THEN a[i] ELSE b[i - Len(a)]
    BY <1>2, <1>3, ConcatProperties
  <2> QED
    BY <1>2, <1>3, <1>4, <2>1
<1>6. (n - 1) + (Len(s) - n) = Len(s) - 1
  BY <1>1
<1>7. ASSUME NEW i \in 1 .. n - 1 PROVE q[i] = s[i]
  BY <1>1, <1>2, <1>5, <1>6
<1>8. ASSUME NEW i \in n .. Len(s) - 1 PROVE q[i] = s[i + 1]
  <2>1. i \in 1 .. Len(s) - 1 /\ ~(i <= n - 1) /\ i - (n - 1) \in 1 .. Len(s) - n /\ n + (i - (n - 1)) = i + 1
    BY <1>1
  <2>2. q[i] = b[i - (n - 1)]
    BY <1>5, <1>6, <2>1
  <2> QED
    BY <1>3, <2>1, <2>2
<1> QED
  BY <1>1, <1>5, <1>6, <1>7, <1>8 DEF q

\* The deferred length takes its place before the next object, or is glued
\* to it.
LEMMA JoinedMerged ==
    ASSUME NEW r \in Seq(Object), NEW i \in 1 .. Len(r), i + 1 <= Len(r), r[i].null, ~r[i + 1].null
    PROVE  LET q == RemoveAt([r EXCEPT ![i] = Obj(r[i].bytes \o r[i + 1].bytes)], i + 1)
           IN  /\ q \in Seq(Object) /\ Len(q) = Len(r) - 1 /\ Len(r) \in Nat
               /\ Len(q[1].bytes) >= Len(r[1].bytes)
               /\ Joined(q) = Joined(r) /\ Counted(q) = Counted(r) + Len(r[i].bytes)
<1> DEFINE f == r[i + 1].bytes
           o == Obj(r[i].bytes \o f)
           t == [r EXCEPT ![i] = o]
           k == i + 1
           q == RemoveAt(t, k)
           n == Len(r) - k
<1>1. Len(r) \in Nat /\ k \in 1 .. Len(r) /\ n \in Nat /\ k + n = Len(r) /\ i + n = Len(r) - 1
  BY LenProperties
<1>2. /\ r[i].bytes \in Seq(Int) /\ f \in Seq(Int) /\ r[i].null = TRUE /\ r[k].null = FALSE
      /\ \A j \in 1 .. Len(r) : Len(r[j].bytes) \in Nat
  <2>1. \A j \in 1 .. Len(r) : r[j] \in Object
    BY ElementOfSeq
  <2>2. \A j \in 1 .. Len(r) : r[j].bytes \in Seq(Int) /\ r[j].null \in BOOLEAN
    BY <2>1 DEF Object
  <2>3. \A j \in 1 .. Len(r) : Len(r[j].bytes) \in Nat
    BY <2>2, LenProperties
  <2> QED
    BY <1>1, <2>2, <2>3
<1>3. /\ o \in Object /\ o.bytes = r[i].bytes \o f /\ o.null = FALSE
      /\ Unless(o) = Len(r[i].bytes) + Len(f)
  <2>1. r[i].bytes \o f \in Seq(Int) /\ Len(r[i].bytes \o f) = Len(r[i].bytes) + Len(f)
    BY <1>2, ConcatProperties
  <2> QED
    BY <2>1, ObjectIs
<1> HIDE DEF o, f, q
<1>41. t \in Seq(Object) /\ Replaced(r, i, o, t)
  BY <1>3, ExceptReplaces
<1> HIDE DEF t
<1>4. /\ t \in Seq(Object) /\ Len(t) = Len(r)
      /\ \A j \in 1 .. Len(r) : t[j] = IF j = i THEN o ELSE r[j]
      /\ JoinedTo(t)[i] = JoinedTo(r)[i] \o f
      /\ CountedTo(t)[i] = CountedTo(r)[i] - Unless(r[i]) + Unless(o)
  <2>1. /\ JoinedTo(t)[i] = JoinedTo(r)[i] \o f
        /\ CountedTo(t)[i] = CountedTo(r)[i] - Unless(r[i]) + Unless(o)
    <3>1. Longer(r, i, o, f)
      BY <1>3 DEF Longer
    <3> QED
      BY <1>2, <1>3, <1>41, <3>1, JoinedReplaced, ObjectsHaveBytes
  <2> QED
    BY <1>41, <2>1 DEF Replaced
<1>5. /\ q \in Seq(Object) /\ Len(q) = Len(r) - 1
      /\ \A j \in 1 .. k - 1 : q[j] = t[j]
      /\ \A j \in k .. Len(t) - 1 : q[j] = t[j + 1]
  <2>1. k \in 1 .. Len(t) /\ q = RemoveAt(t, k)
    BY <1>1, <1>4 DEF q
  <2> HIDE DEF k
  <2> QED
    BY <1>4, <2>1, RemoveAtPositions, ZenonT(60)
<1>6. /\ JoinedTo(r)[k] = JoinedTo(r)[i] \o f
      /\ CountedTo(r)[k] = CountedTo(r)[i] + Len(f)
  <2>1. /\ \A j \in 1 .. Len(r) : JoinedTo(r)[j] = JoinedTo(r)[j - 1] \o r[j].bytes
        /\ \A j \in 1 .. Len(r) : CountedTo(r)[j] = CountedTo(r)[j - 1] + Unless(r[j])
    BY JoinedIs, CountedIs DEF Unless
  <2>2. k - 1 = i
    BY <1>1
  <2>3. Unless(r[k]) = Len(f) /\ r[k].bytes = f
    BY <1>2 DEF Unless, f
  <2> HIDE DEF k
  <2> QED
    BY <1>1, <2>1, <2>2, <2>3
<1>7. /\ JoinedTo(q)[i] = JoinedTo(r)[k]
      /\ CountedTo(q)[i] = CountedTo(r)[k] + Len(r[i].bytes)
  <2>0. k - 1 = i
    BY <1>1
  <2>1. i \in Nat /\ i <= Len(q) /\ i <= Len(t) /\ \A j \in 1 .. i : q[j] = t[j]
    <3>1. i \in Nat /\ i <= Len(r) - 1 /\ i <= Len(r)
      BY <1>1
    <3> HIDE DEF k
    <3> QED
      BY <1>4, <1>5, <2>0, <3>1
  <2>2. JoinedTo(q)[i] = JoinedTo(t)[i] /\ CountedTo(q)[i] = CountedTo(t)[i]
    BY <1>4, <1>5, <2>1, JoinedSame, ObjectsHaveBytes, ZenonT(60)
  <2>3. Unless(r[i]) = 0
    BY <1>2 DEF Unless
  <2>4. i \in 0 .. Len(r)
    BY <1>1
  <2>5. CountedTo(r)[i] \in Int
    BY <2>4, CountedType, ObjectsHaveBytes
  <2>6. Len(f) \in Nat /\ Len(r[i].bytes) \in Nat
    BY <1>2, LenProperties
  <2>7. \A c \in Int : \A u, v \in Nat : c - 0 + (u + v) = (c + v) + u
    OBVIOUS
  <2> HIDE DEF k
  <2> QED
    BY <1>3, <1>4, <1>6, <2>2, <2>3, <2>5, <2>6, <2>7
<1>8. /\ SameFrom(q, r, i, k, n)
      /\ i + n = Len(q) /\ k + n = Len(r)
  <2>1. ASSUME NEW j \in 1 .. n PROVE q[i + j] = r[k + j]
    <3>1. i + j \in k .. Len(t) - 1 /\ (i + j) + 1 = k + j /\ k + j \in 1 .. Len(r) /\ k + j # i
      BY <1>1, <1>4
    <3>2. q[i + j] = t[k + j]
      BY <1>5, <3>1
    <3>3. t[k + j] = r[k + j]
      BY <1>4, <3>1
    <3> QED
      BY <3>2, <3>3
  <2>2. i \in 0 .. Len(q) /\ k \in 0 .. Len(r) /\ n \in Nat /\ i + n <= Len(q) /\ k + n <= Len(r)
    <3>1. i \in 0 .. Len(r) - 1
      BY <1>1
    <3> HIDE DEF k, n
    <3> QED
      BY <1>1, <1>5, <3>1
  <2> QED
    BY <1>1, <1>5, <2>1, <2>2 DEF SameFrom
<1> HIDE DEF k, n
<1>9. JoinedTo(r)[k] \in Seq(Int) /\ JoinedTo(r)[k + n] \in Seq(Int)
  <2>1. k \in 0 .. Len(r) /\ k + n \in 0 .. Len(r)
    BY <1>1
  <2> QED
    BY <2>1, JoinedType, ObjectsHaveBytes
<1>10. JoinedTo(q)[i + n] = JoinedTo(r)[k + n]
  <2> DEFINE e == <<>>
  <2>1. e \in Seq(Int) /\ JoinedTo(r)[k] = e \o JoinedTo(r)[k] /\ e \o JoinedTo(r)[k + n] = JoinedTo(r)[k + n]
    BY <1>9, EmptySeq, ConcatEmptySeq
  <2> HIDE DEF e
  <2>2. Follows(q, r, i, k, e)
    BY <1>7, <2>1 DEF Follows
  <2>3. Follows(q, r, i + n, k + n, e)
    BY <1>5, <1>8, <2>1, <2>2, JoinedAlike, ObjectsHaveBytes
  <2> QED
    BY <2>1, <2>3 DEF Follows
<1>11. CountedTo(q)[i + n] = Len(r[i].bytes) + CountedTo(r)[k + n]
  <2> DEFINE l == Len(r[i].bytes)
  <2>1. l \in Int
    BY <1>2
  <2>2. CountedTo(r)[k] \in Int
    <3>1. k \in 0 .. Len(r)
      BY <1>1
    <3> QED
      BY <3>1, CountedType, ObjectsHaveBytes
  <2>3. CountedTo(q)[i] = l + CountedTo(r)[k]
    BY <1>7, <2>1, <2>2
  <2> HIDE DEF l
  <2>4. CountedTo(q)[i + n] = l + CountedTo(r)[k + n]
    BY <1>5, <1>8, <2>1, <2>3, CountedAlike, ObjectsHaveBytes
  <2> QED
    BY <2>4 DEF l
<1>12. Joined(q) = Joined(r)
  BY <1>8, <1>10 DEF Joined
<1>13. Counted(q) = Counted(r) + Len(r[i].bytes)
  <2>1. Counted(r) \in Int
    BY JoinedTypes, ObjectsHaveBytes
  <2>2. Counted(q) = Len(r[i].bytes) + Counted(r)
    BY <1>8, <1>11 DEF Counted
  <2> QED
    BY <1>2, <2>1, <2>2
<1>14. Len(q[1].bytes) >= Len(r[1].bytes)
  <2>1. 1 \in 1 .. k - 1 /\ 1 \in 1 .. Len(r) /\ i \in 1 .. Len(r)
    BY <1>1 DEF k
  <2>2. q[1] = IF i = 1 THEN o ELSE r[1]
    BY <1>4, <1>5, <2>1
  <2>3. i = 1 => Len(o.bytes) = Len(r[1].bytes) + Len(f)
    BY <1>2, <1>3, ConcatProperties
  <2>4. Len(f) \in Nat /\ Len(r[1].bytes) \in Nat
    BY <1>2, <2>1, LenProperties
  <2> QED
    BY <2>2, <2>3, <2>4
<1> QED
  BY <1>1, <1>5, <1>12, <1>13, <1>14 DEF q, t, o, f, k

----------------------------------------------------------------------------
(* What is left to be sent.                                                *)

LEMMA UnsentOf ==
    ASSUME NEW s \in Seq(Int), NEW n \in 0 .. Len(s)
    PROVE  /\ Unsent(s, n) \in Seq(Int) /\ Len(Unsent(s, n)) = Len(s) - n
           /\ \A i \in 1 .. Len(s) - n : Unsent(s, n)[i] = s[n + i]
           /\ n = Len(s) => Unsent(s, n) = <<>>
           /\ n = 0 => Unsent(s, n) = s
<1> DEFINE b == SubSeq(s, n + 1, Len(s))
<1>1. Len(s) \in Nat /\ \A i \in 1..Len(s) : s[i] \in Int
  BY LenProperties, ElementOfSeq
<1>2. n + 1 \in Int /\ Len(s) \in Int /\ \A i \in n + 1..Len(s) : s[i] \in Int
  BY <1>1
<1>3. /\ b \in Seq(Int)
      /\ Len(b) = IF n + 1 <= Len(s) THEN Len(s) - (n + 1) + 1 ELSE 0
      /\ \A i \in 1..Len(s) - (n + 1) + 1 : b[i] = s[(n + 1) + i - 1]
  BY <1>2, SubSeqProperties
<1>4. n = Len(s) => b = <<>>
  BY <1>1, <1>2, SubSeqEmpty
<1>5. n = 0 => b = s
  <2>1. SubSeq(s, 1, Len(s)) = s
    BY SubSeqFull
  <2> QED
    BY <2>1
<1> HIDE DEF b
<1>6. Len(s) - (n + 1) + 1 = Len(s) - n /\ \A i \in Int : (n + 1) + i - 1 = n + i
  BY <1>1
<1>7. Len(b) = Len(s) - n
  <2>1. IF n + 1 <= Len(s) THEN Len(s) - (n + 1) + 1 = Len(s) - n ELSE 0 = Len(s) - n
    BY <1>1
  <2> QED
    BY <1>3, <2>1
<1>8. ASSUME NEW i \in 1..Len(s) - n PROVE b[i] = s[n + i]
  <2>1. i \in Int /\ i \in 1..Len(s) - (n + 1) + 1
    BY <1>6, <1>8
  <2>2. b[i] = s[(n + 1) + i - 1]
    BY <1>3, <2>1
  <2> QED
    BY <1>6, <2>1, <2>2
<1> QED
  BY <1>3, <1>4, <1>5, <1>7, <1>8 DEF Unsent, b

LEMMA UnsentConcat ==
    ASSUME NEW s \in Seq(Int), NEW t \in Seq(Int), NEW n \in 0 .. Len(s)
    PROVE  Unsent(s \o t, n) = Unsent(s, n) \o t
<1> DEFINE x == s \o t
           u == Unsent(s, n)
           v == Unsent(x, n)
           w == u \o t
<1>1. Len(s) \in Nat /\ Len(t) \in Nat
  BY LenProperties
<1>2. /\ x \in Seq(Int) /\ Len(x) = Len(s) + Len(t)
      /\ \A i \in 1 .. Len(s) + Len(t) : x[i] = IF i <= Len(s) THEN s[i] ELSE t[i - Len(s)]
  BY ConcatProperties
<1>3. u \in Seq(Int) /\ Len(u) = Len(s) - n /\ \A i \in 1 .. Len(s) - n : u[i] = s[n + i]
  BY UnsentOf
<1> HIDE DEF x, u
<1>4. /\ v \in Seq(Int) /\ Len(v) = Len(x) - n
      /\ \A i \in 1 .. Len(x) - n : v[i] = x[n + i]
  <2>1. n \in 0 .. Len(x)
    BY <1>1, <1>2
  <2> QED
    BY <1>2, <2>1, UnsentOf
<1>5. /\ w \in Seq(Int) /\ Len(w) = Len(u) + Len(t)
      /\ \A i \in 1 .. Len(u) + Len(t) : w[i] = IF i <= Len(u) THEN u[i] ELSE t[i - Len(u)]
  BY <1>3, ConcatProperties
<1> HIDE DEF v, w
<1>6. Len(v) = Len(w)
  BY <1>1, <1>2, <1>3, <1>4, <1>5
<1>7. ASSUME NEW i \in 1 .. Len(v) PROVE v[i] = w[i]
  <2>1. i \in 1 .. Len(x) - n /\ i \in 1 .. Len(u) + Len(t) /\ n + i \in 1 .. Len(s) + Len(t)
    BY <1>1, <1>2, <1>4, <1>6, <1>5
  <2>2. v[i] = x[n + i]
    BY <1>4, <2>1
  <2>3. CASE i <= Len(s) - n
    <3>1. n + i <= Len(s) /\ i \in 1 .. Len(s) - n /\ i <= Len(u)
      BY <1>1, <1>3, <2>3
    <3>2. x[n + i] = s[n + i] /\ w[i] = u[i] /\ u[i] = s[n + i]
      BY <1>2, <1>3, <1>5, <2>1, <3>1
    <3> QED
      BY <2>2, <3>2
  <2>4. CASE ~(i <= Len(s) - n)
    <3>1. ~(n + i <= Len(s)) /\ ~(i <= Len(u)) /\ n + i - Len(s) = i - Len(u)
      BY <1>1, <1>3, <2>4
    <3> DEFINE d == n + i
    <3>2. d \in 1 .. Len(s) + Len(t) /\ ~(d <= Len(s)) /\ d - Len(s) = i - Len(u)
      BY <2>1, <3>1
    <3> HIDE DEF d
    <3>3. x[d] = t[d - Len(s)]
      BY <1>2, <3>2
    <3>4. w[i] = t[i - Len(u)]
      BY <1>5, <2>1, <3>1
    <3>5. v[i] = x[d]
      BY <2>2 DEF d
    <3> QED
      BY <3>2, <3>3, <3>4, <3>5
  <2> QED
    BY <2>3, <2>4
<1>8. v = w
  BY <1>4, <1>5, <1>6, <1>7, SeqEqual
<1> QED
  BY <1>8 DEF v, w, x, u

LEMMA UnsentSplit ==
    ASSUME NEW s \in Seq(Int), NEW m \in Nat, NEW n \in Nat, m + n <= Len(s)
    PROVE  /\ Unsent(s, m) = SubSeq(s, m + 1, m + n) \o Unsent(s, m + n)
           /\ SubSeq(s, m + 1, m + n) \in Seq(Int)
<1>1. Len(s) \in Nat /\ \A i \in 1..Len(s) : s[i] \in Int
  BY LenProperties, ElementOfSeq
<1> DEFINE a == m + 1
           k == m + n
           z == Len(s)
<1>2. /\ a \in 1 .. Len(s) + 1 /\ k \in a - 1 .. Len(s) /\ z \in k .. Len(s)
      /\ a \in Int /\ k \in Int /\ \A i \in a .. k : s[i] \in Int
  BY <1>1
<1> HIDE DEF a, k, z
<1>3. SubSeq(s, a, k) \o SubSeq(s, k + 1, z) = SubSeq(s, a, z)
  BY <1>2, ConcatAdjacentSubSeq
<1>4. SubSeq(s, a, k) \in Seq(Int)
  BY <1>2, SubSeqProperties
<1> QED
  BY <1>3, <1>4 DEF Unsent, a, k, z

(* The bytes that were not sent of a buffer, of which and else of the      *)
(* first object sent bytes left, and of the objects of r.                  *)
LeftOf(buf, sent, r) ==
    Unsent(buf, IF buf = <<>> THEN 0 ELSE sent) \o Unsent(Joined(r), IF buf = <<>> THEN sent ELSE 0)

Fits(buf, sent, r) ==
    /\ buf \in Seq(Int) /\ r \in Seq(Object) /\ sent \in Nat
    /\ buf # <<>> => sent <= Len(buf)
    /\ buf = <<>> /\ r = <<>> => sent = 0
    /\ buf = <<>> /\ r # <<>> => sent <= Len(r[1].bytes)

\* Without a buffer, and with one.
LEMMA LeftCases ==
    ASSUME NEW buf, NEW sent, NEW r, Fits(buf, sent, r)
    PROVE  /\ Joined(r) \in Seq(Int) /\ LeftOf(buf, sent, r) \in Seq(Int)
           /\ buf = <<>> => /\ sent \in 0 .. Len(Joined(r)) /\ LeftOf(buf, sent, r) = Unsent(Joined(r), sent)
                            /\ Unsent(Joined(r), sent) \in Seq(Int)
           /\ buf # <<>> => /\ sent \in 0 .. Len(buf) /\ LeftOf(buf, sent, r) = Unsent(buf, sent) \o Joined(r)
                            /\ Unsent(buf, sent) \in Seq(Int)
<1>1. Joined(r) \in Seq(Int) /\ Len(Joined(r)) \in Nat /\ r \in Seq(Object) /\ sent \in Nat /\ buf \in Seq(Int)
      /\ Len(buf) \in Nat
  BY JoinedTypes, ObjectsHaveBytes, LenProperties DEF Fits
<1>2. CASE buf = <<>>
  <2>1. sent \in 0 .. Len(Joined(r))
    <3>1. CASE r = <<>>
      BY <1>1, <1>2, <3>1 DEF Fits
    <3>2. CASE r # <<>>
      <4>1. Joined(r) = Head(r).bytes \o Joined(Tail(r)) /\ Head(r) \in Object /\ Tail(r) \in Seq(Object) /\ Head(r) = r[1]
        BY <1>1, <3>2, JoinedHead, PopHeadSequence, ObjectsHaveBytes
      <4>2. Joined(Tail(r)) \in Seq(Int) /\ Head(r).bytes \in Seq(Int)
        BY <4>1, JoinedTypes, ObjectsHaveBytes DEF Object
      <4>3. Len(Joined(r)) = Len(Head(r).bytes) + Len(Joined(Tail(r)))
        BY <4>1, <4>2, ConcatProperties
      <4>4. Len(Joined(Tail(r))) \in Nat /\ Len(Head(r).bytes) \in Nat
        BY <4>2, LenProperties
      <4>5. sent <= Len(Head(r).bytes)
        BY <1>2, <3>2, <4>1 DEF Fits
      <4> QED
        BY <1>1, <4>3, <4>4, <4>5
    <3> QED
      BY <3>1, <3>2
  <2>2. Unsent(Joined(r), sent) \in Seq(Int)
    BY <1>1, <2>1, UnsentOf
  <2>3. Unsent(<<>>, 0) = <<>>
    <3>1. <<>> \in Seq(Int) /\ 0 \in 0 .. Len(<<>>) /\ Len(<<>>) = 0
      BY EmptySeq
    <3> QED
      BY <3>1, UnsentOf
  <2>4. LeftOf(buf, sent, r) = <<>> \o Unsent(Joined(r), sent)
    BY <1>2, <2>3 DEF LeftOf
  <2> QED
    BY <1>1, <1>2, <2>1, <2>2, <2>4, ConcatEmptySeq
<1>3. CASE buf # <<>>
  <2>1. sent \in 0 .. Len(buf)
    BY <1>1, <1>3 DEF Fits
  <2>2. Unsent(buf, sent) \in Seq(Int)
    BY <1>1, <2>1, UnsentOf
  <2>3. Unsent(Joined(r), 0) = Joined(r)
    <3>1. 0 \in 0 .. Len(Joined(r))
      BY <1>1
    <3> QED
      BY <1>1, <3>1, UnsentOf
  <2>4. LeftOf(buf, sent, r) = Unsent(buf, sent) \o Joined(r)
    BY <1>3, <2>3 DEF LeftOf
  <2> QED
    BY <1>1, <1>3, <2>1, <2>2, <2>4, ConcatProperties
<1> QED
  BY <1>2, <1>3

\* The first object, if there is one.
LEMMA FirstObject ==
    ASSUME NEW r \in Seq(Object), r # <<>>
    PROVE  r[1] \in Object /\ r[1].bytes \in Seq(Int) /\ Len(r[1].bytes) \in Nat
<1>1. Len(r) \in Nat \ {0}
  BY EmptySeq
<1>2. 1 \in 1 .. Len(r)
  BY <1>1
<1>3. r[1] \in Object
  BY <1>2, ElementOfSeq
<1>4. r[1].bytes \in Seq(Int)
  BY <1>3 DEF Object
<1> QED
  BY <1>3, <1>4, LenProperties

(* q holds the bytes of r and then f.                                      *)
Grown(r, q, f) == Joined(q) = Joined(r) \o f

\* Bytes that the list gets are left to be sent.
LEMMA LeftGrows ==
    ASSUME NEW buf, NEW sent, NEW r, Fits(buf, sent, r), NEW q \in Seq(Object), q # <<>>,
           r # <<>> => Len(q[1].bytes) >= Len(r[1].bytes), NEW f \in Seq(Int), Grown(r, q, f)
    PROVE  Fits(buf, sent, q) /\ LeftOf(buf, sent, q) = LeftOf(buf, sent, r) \o f
<1> DEFINE J == Joined(r)
<1>1. Joined(q) = J \o f /\ J \in Seq(Int)
  BY LeftCases DEF Grown
<1>2. Fits(buf, sent, q)
  <2>1. q[1] \in Object /\ q[1].bytes \in Seq(Int) /\ Len(q[1].bytes) \in Nat
    BY FirstObject
  <2>2. r # <<>> => Len(r[1].bytes) \in Nat
    <3>1. r \in Seq(Object)
      BY DEF Fits
    <3> QED
      BY <3>1, FirstObject
  <2> QED
    BY <2>1, <2>2 DEF Fits
<1> HIDE DEF J
<1>3. CASE buf = <<>>
  <2>1. /\ sent \in 0 .. Len(J) /\ LeftOf(buf, sent, r) = Unsent(J, sent)
        /\ LeftOf(buf, sent, q) = Unsent(J \o f, sent)
    BY <1>1, <1>2, <1>3, LeftCases DEF J
  <2> QED
    BY <1>1, <1>2, <2>1, UnsentConcat
<1>4. CASE buf # <<>>
  <2> DEFINE u == Unsent(buf, sent)
  <2>0. LeftOf(buf, sent, r) = u \o J /\ LeftOf(buf, sent, q) = u \o Joined(q) /\ u \in Seq(Int)
    BY <1>2, <1>4, LeftCases, SMTT(60) DEF J
  <2>1. LeftOf(buf, sent, r) = u \o J /\ LeftOf(buf, sent, q) = u \o (J \o f) /\ u \in Seq(Int)
    BY <1>1, <2>0
  <2> HIDE DEF u
  <2>2. u \o (J \o f) = (u \o J) \o f
    BY <1>1, <2>1, BytesInOrder
  <2> QED
    BY <1>2, <2>1, <2>2
<1> QED
  BY <1>3, <1>4

\* So are the bytes that the buffer gets.
LEMMA LeftFills ==
    ASSUME NEW buf, NEW sent, Fits(buf, sent, <<>>), NEW f \in Seq(Int), f # <<>>
    PROVE  Fits(buf \o f, sent, <<>>) /\ LeftOf(buf \o f, sent, <<>>) = LeftOf(buf, sent, <<>>) \o f
<1> DEFINE b == buf \o f
           e == <<>>
<1>1. buf \in Seq(Int) /\ sent \in Nat /\ e \in Seq(Object) /\ Len(buf) \in Nat /\ Len(f) \in Nat \ {0}
  BY LenProperties, EmptySeq DEF Fits
<1>2. b \in Seq(Int) /\ Len(b) = Len(buf) + Len(f)
  BY <1>1, ConcatProperties
<1>3. Joined(e) = <<>>
  BY JoinedNone
<1>4. buf = e => sent = 0 /\ b = f
  BY ConcatEmptySeq DEF Fits
<1> HIDE DEF b
<1>5. b # <<>>
  BY <1>1, <1>2, EmptySeq
<1>6. Fits(b, sent, e)
  BY <1>1, <1>2, <1>4, <1>5 DEF Fits
<1>7. LeftOf(b, sent, e) = Unsent(b, sent) \o Joined(e) /\ Unsent(b, sent) \in Seq(Int)
  BY <1>5, <1>6, LeftCases
<1>8. LeftOf(b, sent, e) = Unsent(b, sent)
  BY <1>3, <1>7, ConcatEmptySeq
<1>9. CASE buf = e
  <2>1. LeftOf(buf, sent, e) = Unsent(Joined(e), sent)
    BY <1>9, LeftCases
  <2>2. Unsent(<<>>, 0) = <<>> /\ Unsent(f, 0) = f
    <3>1. <<>> \in Seq(Int) /\ 0 \in 0 .. Len(<<>>) /\ Len(<<>>) = 0
      BY EmptySeq
    <3>2. 0 \in 0 .. Len(f)
      BY <1>1
    <3> QED
      BY <3>1, <3>2, UnsentOf
  <2>3. LeftOf(buf, sent, e) = <<>> /\ LeftOf(b, sent, e) = f
    BY <1>3, <1>4, <1>8, <1>9, <2>1, <2>2
  <2>4. <<>> \o f = f
    BY ConcatEmptySeq
  <2> QED
    BY <1>6, <2>3, <2>4 DEF b
<1>10. CASE buf # e
  <2>1. LeftOf(buf, sent, e) = Unsent(buf, sent) \o Joined(e) /\ Unsent(buf, sent) \in Seq(Int) /\ sent \in 0 .. Len(buf)
    BY <1>10, LeftCases
  <2>2. LeftOf(buf, sent, e) = Unsent(buf, sent)
    BY <1>3, <2>1, ConcatEmptySeq
  <2>3. Unsent(buf \o f, sent) = Unsent(buf, sent) \o f
    BY <1>1, <2>1, UnsentConcat
  <2> QED
    BY <1>6, <1>8, <2>2, <2>3 DEF b
<1> QED
  BY <1>9, <1>10

\* All of a buffer was sent: it may be emptied.
LEMMA LeftReset ==
    ASSUME NEW buf, NEW sent, NEW r, Fits(buf, sent, r), sent = Len(buf)
    PROVE  Fits(<<>>, 0, r) /\ LeftOf(<<>>, 0, r) = LeftOf(buf, sent, r) /\ LeftOf(buf, sent, r) = Joined(r)
<1> DEFINE e == <<>>
           z == 0
<1>0. z = 0 /\ z \in Nat /\ e \in Seq(Int) /\ Len(e) = 0
  BY EmptySeq
<1>1. Fits(e, z, r)
  <2>1. r # <<>> => Len(r[1].bytes) \in Nat
    <3>1. r \in Seq(Object)
      BY DEF Fits
    <3> QED
      BY <3>1, FirstObject
  <2> QED
    BY <1>0, <2>1 DEF Fits
<1>2. Joined(r) \in Seq(Int) /\ Len(Joined(r)) \in Nat
  BY LeftCases, LenProperties
<1>3. LeftOf(e, z, r) = Unsent(Joined(r), z)
  <2> HIDE DEF z
  <2>1. e = <<>>
    OBVIOUS
  <2> HIDE DEF e
  <2> QED
    BY <1>1, <2>1, LeftCases
<1>4. Unsent(Joined(r), z) = Joined(r)
  BY <1>0, <1>2, UnsentOf
<1>5. CASE buf = <<>>
  BY <1>0, <1>1, <1>3, <1>4, <1>5
<1>6. CASE buf # <<>>
  <2>0. buf \in Seq(Int)
    BY DEF Fits
  <2>1. LeftOf(buf, sent, r) = Unsent(buf, sent) \o Joined(r) /\ sent \in 0 .. Len(buf) /\ buf \in Seq(Int)
    BY <1>6, <2>0, LeftCases
  <2>2. Unsent(buf, sent) = <<>>
    BY <2>1, UnsentOf
  <2>3. <<>> \o Joined(r) = Joined(r)
    BY <1>2, ConcatEmptySeq
  <2> QED
    BY <1>1, <1>3, <1>4, <2>1, <2>2, <2>3
<1> QED
  BY <1>5, <1>6

\* The rest of the buffer is sent.
LEMMA LeftBuffer ==
    ASSUME NEW buf, NEW sent, NEW r, Fits(buf, sent, r), buf # <<>>, NEW n \in Nat, sent + n <= Len(buf)
    PROVE  /\ Fits(buf, sent + n, r)
           /\ LeftOf(buf, sent, r) = SubSeq(buf, sent + 1, sent + n) \o LeftOf(buf, sent + n, r)
           /\ SubSeq(buf, sent + 1, sent + n) \in Seq(Int)
<1> DEFINE J == Joined(r)
           x == SubSeq(buf, sent + 1, sent + n)
           m == sent + n
<1>0. J \in Seq(Int)
  BY LeftCases
<1>1. buf \in Seq(Int) /\ sent \in Nat /\ Len(buf) \in Nat /\ J \in Seq(Int) /\ m \in Nat /\ m <= Len(buf)
  BY <1>0, LenProperties DEF Fits
<1>2. Unsent(buf, sent) = x \o Unsent(buf, m) /\ x \in Seq(Int)
  BY <1>1, UnsentSplit
<1> HIDE DEF m, x
<1>3. Fits(buf, m, r)
  BY <1>1 DEF Fits
<1>4. LeftOf(buf, sent, r) = Unsent(buf, sent) \o J
  BY LeftCases DEF J
<1>5. LeftOf(buf, m, r) = Unsent(buf, m) \o J /\ Unsent(buf, m) \in Seq(Int)
  BY <1>3, LeftCases DEF J
<1> DEFINE u == Unsent(buf, m)
<1> HIDE DEF u, J
<1>6. (x \o u) \o J = x \o (u \o J)
  BY <1>1, <1>2, <1>5, BytesInOrder DEF u
<1>7. LeftOf(buf, sent, r) = x \o LeftOf(buf, m, r)
  BY <1>2, <1>4, <1>5, <1>6 DEF u
<1> QED
  BY <1>2, <1>3, <1>7 DEF m, x

\* Bytes of the first object are sent, at last all of them.
LEMMA LeftObject ==
    ASSUME NEW sent, NEW r, Fits(<<>>, sent, r), r # <<>>, NEW n \in Nat, sent + n <= Len(Head(r).bytes)
    PROVE  LET o == Head(r).bytes
               x == SubSeq(o, sent + 1, sent + n)
           IN  /\ x \in Seq(Int)
               /\ sent + n = Len(o) => Fits(<<>>, 0, Tail(r)) /\ LeftOf(<<>>, sent, r) = x \o LeftOf(<<>>, 0, Tail(r))
               /\ Fits(<<>>, sent + n, r) /\ LeftOf(<<>>, sent, r) = x \o LeftOf(<<>>, sent + n, r)
<1> DEFINE o == Head(r).bytes
           x == SubSeq(o, sent + 1, sent + n)
           J == Joined(Tail(r))
           m == sent + n
           e == <<>>
<1>1. r \in Seq(Object) /\ sent \in Nat /\ e \in Seq(Int) /\ Len(e) = 0 /\ m \in Nat /\ m <= Len(o)
  BY EmptySeq DEF Fits
<1>2. Head(r) \in Object /\ Head(r) = r[1] /\ Tail(r) \in Seq(Object) /\ Joined(r) = o \o J
  BY <1>1, JoinedHead, PopHeadSequence, ObjectsHaveBytes
<1>3. o \in Seq(Int) /\ J \in Seq(Int) /\ Len(o) \in Nat
  BY <1>2, JoinedTypes, ObjectsHaveBytes, LenProperties DEF Object
<1>4. Unsent(o, sent) = x \o Unsent(o, m) /\ x \in Seq(Int)
  BY <1>1, <1>3, UnsentSplit
<1>5. sent \in 0 .. Len(o) /\ m \in 0 .. Len(o)
  BY <1>1, <1>3
<1>6. Fits(e, m, r)
  BY <1>1, <1>2 DEF Fits
<1>7. m = Len(o) => Fits(e, 0, Tail(r)) /\ LeftOf(e, 0, Tail(r)) = J
  <2>1. Fits(e, 0, Tail(r))
    <3>1. Tail(r) # <<>> => Len(Tail(r)[1].bytes) \in Nat
      BY <1>2, FirstObject
    <3> QED
      BY <1>1, <1>2, <3>1 DEF Fits
  <2>2. LeftOf(e, 0, Tail(r)) = J
    BY <1>1, <2>1, LeftReset
  <2> QED
    BY <2>1, <2>2
<1>8. LeftOf(e, sent, r) = Unsent(Joined(r), sent) /\ LeftOf(e, m, r) = Unsent(Joined(r), m)
  <2> HIDE DEF m
  <2>1. e = <<>> /\ Fits(e, sent, r)
    OBVIOUS
  <2> HIDE DEF e
  <2> QED
    BY <1>6, <2>1, LeftCases
<1> DEFINE u == Unsent(o, m)
<1>9. Unsent(Joined(r), sent) = Unsent(o, sent) \o J /\ Unsent(Joined(r), m) = u \o J
  <2> HIDE DEF m
  <2>1. Unsent(o \o J, sent) = Unsent(o, sent) \o J
    BY <1>3, <1>5, UnsentConcat
  <2>2. Unsent(o \o J, m) = Unsent(o, m) \o J
    BY <1>3, <1>5, UnsentConcat
  <2> QED
    BY <1>2, <2>1, <2>2
<1>10. u \in Seq(Int) /\ (m = Len(o) => u = <<>>)
  <2> HIDE DEF m
  <2> QED
    BY <1>3, <1>5, UnsentOf
<1> HIDE DEF u, x, J, m, o
<1>11. (x \o u) \o J = x \o (u \o J)
  BY <1>3, <1>4, <1>10, BytesInOrder
<1>12. LeftOf(e, sent, r) = x \o LeftOf(e, m, r)
  BY <1>4, <1>8, <1>9, <1>11 DEF u
<1>13. m = Len(o) => LeftOf(e, m, r) = J
  <2>1. <<>> \o J = J
    BY <1>3, ConcatEmptySeq
  <2> QED
    BY <1>8, <1>9, <1>10, <2>1
<1>14. m = Len(o) => Fits(e, 0, Tail(r)) /\ LeftOf(e, sent, r) = x \o LeftOf(e, 0, Tail(r))
  BY <1>7, <1>12, <1>13
<1> QED
  BY <1>4, <1>6, <1>12, <1>14 DEF x, m, o

\* The first object is queued; all of the buffer was before.
LEMMA LeftQueued ==
    ASSUME NEW buf, NEW sent, NEW r, Fits(buf, sent, r), r # <<>>, sent = Len(buf)
    PROVE  /\ Fits(buf, sent, Tail(r))
           /\ LeftOf(buf, sent, r) = Head(r).bytes \o LeftOf(buf, sent, Tail(r))
           /\ Head(r).bytes \in Seq(Int) /\ Head(r) \in Object
<1> DEFINE t == Tail(r)
<1>1. r \in Seq(Object) /\ sent \in Nat
  BY DEF Fits
<1>2. Head(r) \in Object /\ t \in Seq(Object) /\ Joined(r) = Head(r).bytes \o Joined(t)
  BY <1>1, JoinedHead, PopHeadSequence, ObjectsHaveBytes
<1>3. t # <<>> => Len(t[1].bytes) \in Nat
  BY <1>2, FirstObject
<1> HIDE DEF t
<1>4. Fits(buf, sent, t)
  <2>1. buf = <<>> => sent = 0
    BY EmptySeq
  <2> QED
    BY <1>1, <1>2, <1>3, <2>1 DEF Fits
<1>5. LeftOf(buf, sent, r) = Joined(r) /\ LeftOf(buf, sent, t) = Joined(t)
  BY <1>4, LeftReset
<1> QED
  BY <1>2, <1>4, <1>5 DEF t, Object

LEMMA ObjectCleared ==
    ASSUME NEW o \in Object
    PROVE  [o EXCEPT !.null = FALSE] = Obj(o.bytes)
<1> DEFINE g == o.bytes
           h == o.null
           a == [o EXCEPT !.null = FALSE]
<1>1. o = [bytes |-> g, null |-> h]
  BY DEF Object
<1>2. a = [o EXCEPT !.null = FALSE]
  OBVIOUS
<1> HIDE DEF g, h, a
<1>3. a = [bytes |-> g, null |-> FALSE]
  BY <1>1, <1>2
<1> QED
  BY <1>3 DEF Obj, a, g

\* A deferred length gets its object.
LEMMA JoinedCleared ==
    ASSUME NEW r \in Seq(Object), NEW i \in 1 .. Len(r), r[i].null
    PROVE  LET q == [r EXCEPT ![i].null = FALSE]
           IN  /\ q \in Seq(Object) /\ Len(q) = Len(r) /\ Len(r) \in Nat
               /\ Len(q[1].bytes) >= Len(r[1].bytes)
               /\ Joined(q) = Joined(r) /\ Counted(q) = Counted(r) + Len(r[i].bytes)
<1> DEFINE q == [r EXCEPT ![i].null = FALSE]
           o == Obj(r[i].bytes)
           n == Len(r)
           e == <<>>
           L == Len(r[i].bytes)
<1>1. n \in Nat /\ i \in 1 .. n /\ r[i] \in Object /\ r[1] \in Object
  <2>1. n \in Nat
    BY LenProperties
  <2>2. 1 \in 1 .. n
    BY <2>1
  <2> QED
    BY <2>1, <2>2, ElementOfSeq
<1>2. r[i].bytes \in Seq(Int) /\ r[1].bytes \in Seq(Int) /\ L \in Nat /\ Len(r[1].bytes) \in Nat
  <2>1. r[i].bytes \in Seq(Int) /\ r[1].bytes \in Seq(Int)
    BY <1>1 DEF Object
  <2> QED
    BY <2>1, LenProperties
<1>3. o \in Object /\ o.bytes = r[i].bytes /\ Unless(o) = L /\ Unless(r[i]) = 0
  BY <1>2, ObjectIs DEF Unless
<1>4. q = [r EXCEPT ![i] = o]
  <2>1. [r[i] EXCEPT !.null = FALSE] = o
    BY <1>1, ObjectCleared
  <2> QED
    BY <2>1
<1>5. e \in Seq(Int) /\ \A s \in Seq(Int) : s \o e = s /\ e \o s = s
  BY EmptySeq, ConcatEmptySeq
<1> HIDE DEF q, o, e
<1>6. q \in Seq(Object) /\ Replaced(r, i, o, q)
  BY <1>1, <1>3, <1>4, ExceptReplaces
<1>7. Longer(r, i, o, e)
  BY <1>2, <1>3, <1>5 DEF Longer
<1>8. JoinedTo(q)[i] = JoinedTo(r)[i] \o e /\ CountedTo(q)[i] = CountedTo(r)[i] - Unless(r[i]) + Unless(o)
  BY <1>1, <1>3, <1>5, <1>6, <1>7, JoinedReplaced, ObjectsHaveBytes
<1>9. Len(q) = n /\ \A j \in 1 .. n : q[j] = IF j = i THEN o ELSE r[j]
  BY <1>6 DEF Replaced
<1>10. JoinedTo(r)[i] \in Seq(Int) /\ CountedTo(r)[i] \in Int
  <2>1. i \in 0 .. Len(r)
    BY <1>1
  <2> QED
    BY <2>1, JoinedType, CountedType, ObjectsHaveBytes
<1>11. Follows(q, r, i, i, e)
  BY <1>5, <1>8, <1>10 DEF Follows
<1>12. CountedTo(q)[i] = L + CountedTo(r)[i]
  <2>1. \A c, u \in Int : c - 0 + u = u + c
    OBVIOUS
  <2> QED
    BY <1>2, <1>3, <1>8, <1>10, <2>1
<1> DEFINE k == n - i
<1>13. i + k = n /\ SameFrom(q, r, i, i, k) /\ n \in 0 .. Len(r)
  <2>1. k \in Nat /\ i + k = n /\ i \in 0 .. n /\ n \in 0 .. n
    BY <1>1
  <2>2. \A j \in 1 .. k : i + j \in 1 .. n /\ i + j # i
    BY <1>1
  <2> HIDE DEF k
  <2>3. \A j \in 1 .. k : q[i + j] = r[i + j]
    BY <1>9, <2>2
  <2>4. i \in 0 .. Len(q) /\ i \in 0 .. Len(r) /\ i + k <= Len(q) /\ i + k <= Len(r)
    BY <1>1, <1>9, <2>1
  <2>5. SameFrom(q, r, i, i, k)
    BY <2>1, <2>3, <2>4 DEF SameFrom
  <2> QED
    BY <2>1, <2>5
<1> HIDE DEF k, L, n
<1>14. Follows(q, r, i + k, i + k, e)
  BY <1>5, <1>6, <1>11, <1>13, JoinedAlike, ObjectsHaveBytes
<1>15. CountedTo(q)[i + k] = L + CountedTo(r)[i + k]
  <2>1. L \in Int
    BY <1>2
  <2> QED
    BY <1>6, <1>12, <1>13, <2>1, CountedAlike, ObjectsHaveBytes
<1>16. Joined(q) = Joined(r)
  <2>1. JoinedTo(r)[n] \in Seq(Int)
    BY <1>13, JoinedType, ObjectsHaveBytes
  <2>2. JoinedTo(q)[n] = JoinedTo(r)[n]
    BY <1>5, <1>13, <1>14, <2>1 DEF Follows
  <2> QED
    BY <1>9, <2>2 DEF Joined, n
<1>17. Counted(q) = Counted(r) + L
  <2>1. CountedTo(r)[n] \in Int
    BY <1>13, CountedType, ObjectsHaveBytes
  <2>2. CountedTo(q)[n] = CountedTo(r)[n] + L
    <3>1. \A c, u \in Int : u + c = c + u
      OBVIOUS
    <3> QED
      BY <1>2, <1>13, <1>15, <2>1, <3>1
  <2> QED
    BY <1>9, <2>2 DEF Counted, n
<1>18. Len(q[1].bytes) >= Len(r[1].bytes)
  <2>1. 1 \in 1 .. n
    BY <1>1
  <2>2. q[1].bytes = r[1].bytes
    <3>1. CASE i = 1
      BY <1>3, <1>9, <2>1, <3>1
    <3>2. CASE i # 1
      BY <1>9, <2>1, <3>2
    <3> QED
      BY <3>1, <3>2
  <2> DEFINE c == Len(r[1].bytes)
  <2>3. c \in Nat
    BY <1>2
  <2> HIDE DEF c
  <2>4. c >= c
    BY <2>3
  <2> QED
    BY <2>2, <2>4 DEF c
<1> QED
  BY <1>1, <1>6, <1>9, <1>16, <1>17, <1>18 DEF q, L, n

----------------------------------------------------------------------------
(* The list of objects.                                                    *)

(* What the list must satisfy after it got the bytes f, of which count are *)
(* counted.                                                                *)
ListGot(r, q, f, count) ==
    /\ q \in Seq(Object) /\ q # <<>>
    /\ r # <<>> => Len(q[1].bytes) >= Len(r[1].bytes)
    /\ Grown(r, q, f)
    /\ Counted(q) = Counted(r) + count

LEMMA ListGotObject ==
    ASSUME NEW r \in Seq(Object), NEW o \in Object
    PROVE  ListGot(r, Append(r, o), o.bytes, Unless(o))
<1> DEFINE q == Append(r, o)
<1>1. q \in Seq(Object) /\ q # <<>> /\ Len(r) \in Nat /\ \A i \in 1 .. Len(r) : q[i] = r[i]
  BY PushTailSequence
<1>2. Joined(q) = Joined(r) \o o.bytes /\ Counted(q) = Counted(r) + Unless(o)
  BY JoinedAppend, ObjectsHaveBytes
<1> HIDE DEF q
<1>3. ASSUME r # <<>> PROVE Len(q[1].bytes) >= Len(r[1].bytes)
  <2> DEFINE c == Len(r[1].bytes)
  <2>1. c \in Nat
    BY <1>3, FirstObject
  <2>2. Len(r) # 0
    BY <1>3, EmptySeq
  <2>3. q[1] = r[1]
    BY <1>1, <2>2
  <2> HIDE DEF c
  <2>4. c >= c
    BY <2>1
  <2> QED
    BY <2>3, <2>4 DEF c
<1>4. ListGot(r, q, o.bytes, Unless(o))
  BY <1>1, <1>2, <1>3 DEF ListGot, Grown
<1> QED
  BY <1>4 DEF q

LEMMA ListGotReply ==
    ASSUME NEW r \in Seq(Object), NEW f \in Seq(Int)
    PROVE  ListGot(r, AddToList(r, f), f, Len(f))
<1>1. CASE r # <<>> /\ ~Last(r).null /\ Len(Last(r).bytes) + Len(f) <= BUF_BYTES
  <2> DEFINE q == [r EXCEPT ![Len(r)].bytes = @ \o f]
  <2>1. /\ q \in Seq(Object) /\ Len(q) = Len(r)
        /\ \A j \in 1 .. Len(r) : q[j].null = r[j].null /\ Len(q[j].bytes) >= Len(r[j].bytes)
        /\ Joined(q) = Joined(r) \o f /\ Counted(q) = Counted(r) + Len(f)
    BY <1>1, JoinedGlued
  <2>2. AddToList(r, f) = q
    BY <1>1 DEF AddToList
  <2> HIDE DEF q
  <2>3. Len(r) \in Nat \ {0}
    BY <1>1, EmptySeq
  <2>4. q # <<>> /\ 1 \in 1 .. Len(r)
    BY <2>1, <2>3, EmptySeq
  <2> QED
    BY <2>1, <2>2, <2>4 DEF ListGot, Grown
<1>2. CASE ~(r # <<>> /\ ~Last(r).null /\ Len(Last(r).bytes) + Len(f) <= BUF_BYTES)
  <2>1. Obj(f) \in Object /\ Obj(f).bytes = f /\ Unless(Obj(f)) = Len(f)
    BY ObjectIs
  <2>2. AddToList(r, f) = Append(r, Obj(f))
    BY <1>2 DEF AddToList
  <2>3. ListGot(r, Append(r, Obj(f)), Obj(f).bytes, Unless(Obj(f)))
    BY <2>1, ListGotObject
  <2> QED
    BY <2>1, <2>2, <2>3
<1> QED
  BY <1>1, <1>2

(* What setDeferredMultiBulkLength makes of the list.                      *)
Completed(r, i) ==
    IF i < Len(r) /\ ~r[i + 1].null
    THEN RemoveAt([r EXCEPT ![i] = Obj(r[i].bytes \o r[i + 1].bytes)], i + 1)
    ELSE [r EXCEPT ![i].null = FALSE]

LEMMA ListGotLength ==
    ASSUME NEW r \in Seq(Object), NEW i \in 1 .. Len(r), r[i].null
    PROVE  ListGot(r, Completed(r, i), <<>>, Len(r[i].bytes))
<1>0. Len(r) \in Nat /\ i \in Nat
  BY LenProperties
<1>1. Joined(r) \o <<>> = Joined(r)
  BY JoinedTypes, ObjectsHaveBytes, ConcatEmptySeq
<1>2. CASE i < Len(r) /\ ~r[i + 1].null
  <2> DEFINE q == RemoveAt([r EXCEPT ![i] = Obj(r[i].bytes \o r[i + 1].bytes)], i + 1)
  <2>0. i + 1 <= Len(r)
    BY <1>0, <1>2
  <2>1. /\ q \in Seq(Object) /\ Len(q) = Len(r) - 1 /\ Len(r) \in Nat
        /\ Len(q[1].bytes) >= Len(r[1].bytes)
        /\ Joined(q) = Joined(r) /\ Counted(q) = Counted(r) + Len(r[i].bytes)
    BY <1>2, <2>0, JoinedMerged
  <2>2. Completed(r, i) = q
    BY <1>2 DEF Completed
  <2> HIDE DEF q
  <2>3. q # <<>>
    BY <1>0, <1>2, <2>1, EmptySeq
  <2> QED
    BY <1>1, <2>1, <2>2, <2>3 DEF ListGot, Grown
<1>3. CASE ~(i < Len(r) /\ ~r[i + 1].null)
  <2> DEFINE q == [r EXCEPT ![i].null = FALSE]
  <2>1. /\ q \in Seq(Object) /\ Len(q) = Len(r) /\ Len(r) \in Nat
        /\ Len(q[1].bytes) >= Len(r[1].bytes)
        /\ Joined(q) = Joined(r) /\ Counted(q) = Counted(r) + Len(r[i].bytes)
    BY JoinedCleared
  <2>2. Completed(r, i) = q
    BY <1>3 DEF Completed
  <2> HIDE DEF q
  <2>3. q # <<>>
    BY <1>0, <2>1, EmptySeq
  <2> QED
    BY <1>1, <2>1, <2>2, <2>3 DEF ListGot, Grown
<1> QED
  BY <1>2, <1>3

----------------------------------------------------------------------------
(* The order of the bytes: w that left, j in flight, l that wait.          *)
InOrder(w, j, l, p) == (w \o j) \o l = [i \in 1 .. p |-> i]

LEMMA OrderMoves ==
    ASSUME NEW w \in Seq(Int), NEW j \in Seq(Int), NEW x \in Seq(Int), NEW l \in Seq(Int), NEW p
    PROVE  /\ w \o x \in Seq(Int) /\ j \o x \in Seq(Int)
           /\ InOrder(w, <<>>, x \o l, p) => InOrder(w \o x, <<>>, l, p)
           /\ InOrder(w, j, x \o l, p) => InOrder(w, j \o x, l, p)
           /\ InOrder(w, x \o j, l, p) => InOrder(w \o x, j, l, p)
<1> DEFINE a == w \o x
           b == j \o x
           wj == w \o j
           e == <<>>
<1>1. a \in Seq(Int) /\ b \in Seq(Int) /\ wj \in Seq(Int)
  BY BytesInOrder
<1>2. w \o e = w /\ a \o e = a
  <2>1. \A s \in Seq(Int) : s \o e = s
    BY ConcatEmptySeq
  <2> HIDE DEF a, e
  <2> QED
    BY <1>1, <2>1
<1>3. w \o (x \o l) = (w \o x) \o l
  <2>1. (w \o x) \o l = w \o (x \o l)
    BY BytesInOrder
  <2> QED
    BY <2>1
<1>4. (w \o j) \o (x \o l) = (w \o (j \o x)) \o l
  <2>1. wj \o (x \o l) = (wj \o x) \o l
    <3> HIDE DEF wj, a, b
    <3>0. wj \in Seq(Int)
      BY <1>1
    <3>1. (wj \o x) \o l = wj \o (x \o l)
      BY <3>0, BytesInOrder
    <3> QED
      BY <3>1
  <2>2. (w \o j) \o x = w \o (j \o x)
    BY BytesInOrder, SMTT(60)
  <2> QED
    BY <2>1, <2>2
<1>5. (w \o (x \o j)) = ((w \o x) \o j)
  BY BytesInOrder
<1>6. InOrder(w, e, x \o l, p) => InOrder(a, e, l, p)
  BY <1>2, <1>3 DEF InOrder
<1>7. InOrder(w, j, x \o l, p) => InOrder(w, b, l, p)
  BY <1>4 DEF InOrder
<1>8. InOrder(w, x \o j, l, p) => InOrder(a, j, l, p)
  BY <1>5 DEF InOrder
<1> QED
  BY <1>1, <1>6, <1>7, <1>8

\* The next replies come last.
LEMMA OrderGrows ==
    ASSUME NEW w \in Seq(Int), NEW j \in Seq(Int), NEW l \in Seq(Int), NEW p \in Nat, NEW n \in Nat
    PROVE  InOrder(w, j, l, p) => InOrder(w, j, l \o [i \in 1 .. n |-> p + i], p + n)
<1> DEFINE f == [i \in 1 .. n |-> p + i]
           d == [i \in 1 .. p |-> i]
           g == [i \in 1 .. p + n |-> i]
           wj == w \o j
           m == p + n
<1>1. f \in Seq(Int) /\ Len(f) = n /\ \A i \in 1 .. n : f[i] = p + i
  <2>1. \A i \in 1 .. n : p + i \in Int
    OBVIOUS
  <2> QED
    BY <2>1
<1>2. d \in Seq(Int) /\ Len(d) = p /\ \A i \in 1 .. p : d[i] = i
  OBVIOUS
<1>3. g \in Seq(Int) /\ Len(g) = m /\ \A i \in 1 .. m : g[i] = i
  <2>1. m \in Nat
    OBVIOUS
  <2> HIDE DEF m
  <2> QED
    BY <2>1 DEF m
<1>4. wj \in Seq(Int)
  BY BytesInOrder
<1> HIDE DEF f, d, g, wj
<1>5. d \o f = g
  <2> DEFINE c == d \o f
  <2>1. c \in Seq(Int) /\ Len(c) = Len(d) + Len(f)
        /\ \A i \in 1 .. Len(d) + Len(f) : c[i] = IF i <= Len(d) THEN d[i] ELSE f[i - Len(d)]
    BY <1>1, <1>2, ConcatProperties
  <2> HIDE DEF c
  <2>2. Len(c) = Len(g)
    BY <1>1, <1>2, <1>3, <2>1
  <2>3. ASSUME NEW i \in 1 .. Len(c) PROVE c[i] = g[i]
    <3>1. i \in 1 .. m /\ i \in 1 .. Len(d) + Len(f) /\ g[i] = i
      BY <1>1, <1>2, <1>3, <2>1, <2>3
    <3>2. CASE i <= p
      BY <1>2, <2>1, <3>1, <3>2
    <3>3. CASE ~(i <= p)
      <4>1. i - p \in 1 .. n /\ p + (i - p) = i
        BY <3>1, <3>3
      <4>2. c[i] = f[i - p]
        BY <1>2, <2>1, <3>1, <3>3
      <4>3. f[i - p] = p + (i - p)
        BY <1>1, <4>1
      <4> QED
        BY <3>1, <4>1, <4>2, <4>3
    <3> QED
      BY <3>2, <3>3
  <2>4. c = g
    BY <1>3, <2>1, <2>2, <2>3, SeqEqual
  <2> QED
    BY <2>4 DEF c
<1>6. wj \o (l \o f) = (wj \o l) \o f
  BY <1>1, <1>4, BytesInOrder
<1> QED
  BY <1>5, <1>6 DEF InOrder, f, d, g, wj

----------------------------------------------------------------------------
(* The invariant of the output.                                            *)

SendReq == [buf : BOOLEAN, end : Int, bytes : Seq(Int)]

LEMMA SendsHaveBytes == HaveBytes(SendReq)
  BY DEF HaveBytes, SendReq

OutTypes ==
    /\ {outIocp, fromMaster, handler, afterReply, asap, outClosed} \subseteq BOOLEAN
    /\ sending \in Seq(SendReq) /\ wire \in Seq(Int) /\ produced \in Nat

(* The sends of the buffer end one after the other, at most at the last    *)
(* byte of it that was queued.                                             *)
EndsGrow(sends, last) ==
    /\ \A i \in 1 .. Len(sends) : sends[i].buf => sends[i].end \in 1 .. last
    /\ \A i, j \in 1 .. Len(sends) : i < j /\ sends[i].buf /\ sends[j].buf => sends[i].end < sends[j].end

SendsAgree ==
    /\ outIocp /\ outBuf = <<>> => sentlen = 0
    /\ ~outIocp => sending = <<>>
    /\ outIocp /\ fromMaster => sending = <<>> /\ totwritten = Idle
    /\ totwritten # Idle => ~Deferred
    /\ EndsGrow(sending, sentlen)

(* Nothing of the output is lost as long as the client is there, and       *)
(* something will send it.                                                 *)
OutputIsServed ==
    ~outClosed => /\ ~OutputIsEmpty => handler
                  /\ afterReply => handler \/ asap

CountIsExact ==
    /\ reply_bytes \in Int
    /\ (outIocp /\ fromMaster) \/ reply_bytes = Counted(reply)

NothingIsLost == ~fromMaster => InOrder(wire, Joined(sending), LeftOf(outBuf, sentlen, reply), produced)

OutInv == OutTypes /\ Fits(outBuf, sentlen, reply) /\ SendsAgree /\ OutputIsServed /\ CountIsExact /\ NothingIsLost

LEMMA OutInitInv == OutInit => OutInv
<1> SUFFICES ASSUME OutInit PROVE OutInv
  OBVIOUS
<1> USE DEF OutInit
<1> DEFINE e == <<>>
<1>1. e \in Seq(SendReq) /\ e \in Seq(Int) /\ e \in Seq(Object) /\ Len(e) = 0
  BY EmptySeq
<1>2. Joined(e) = e /\ Counted(e) = 0
  BY JoinedNone
<1>3. OutTypes /\ Fits(outBuf, sentlen, reply) /\ SendsAgree /\ OutputIsServed /\ CountIsExact
  <2>1. OutTypes
    BY <1>1 DEF OutTypes
  <2>2. Fits(outBuf, sentlen, reply)
    BY <1>1 DEF Fits
  <2>3. SendsAgree
    BY <1>1 DEF SendsAgree, EndsGrow
  <2>4. OutputIsServed
    BY DEF OutputIsServed, OutputIsEmpty
  <2>5. CountIsExact
    BY <1>2 DEF CountIsExact
  <2> QED
    BY <2>1, <2>2, <2>3, <2>4, <2>5
<1>4. NothingIsLost
  <2>1. Fits(e, 0, e) /\ 0 = Len(e)
    BY <1>1, <1>3
  <2>2. LeftOf(e, 0, e) = e
    <3> DEFINE z == 0
    <3>1. Fits(e, z, e) /\ z = Len(e)
      BY <2>1
    <3> HIDE DEF z
    <3>2. LeftOf(e, z, e) = Joined(e)
      <4> HIDE DEF e
      <4> QED
        BY <3>1, LeftReset
    <3> QED
      BY <1>2, <3>2 DEF z
  <2>3. (e \o e) \o e = [i \in 1 .. 0 |-> i]
    <3>1. e \o e = e
      BY <1>1, ConcatEmptySeq
    <3>2. [i \in 1 .. 0 |-> i] = <<>>
      OBVIOUS
    <3> QED
      BY <3>1, <3>2
  <2> QED
    BY <1>2, <2>2, <2>3 DEF NothingIsLost, InOrder
<1> QED
  BY <1>3, <1>4 DEF OutInv

LEMMA FreshIs ==
    ASSUME produced \in Nat, NEW n \in Nat, n # 0
    PROVE  Fresh(n) \in Seq(Int) /\ Len(Fresh(n)) = n /\ Fresh(n) # <<>>
<1> DEFINE f == [i \in 1 .. n |-> produced + i]
<1>1. f \in Seq(Int) /\ Len(f) = n
  <2>1. \A i \in 1 .. n : produced + i \in Int
    OBVIOUS
  <2> QED
    BY <2>1
<1> HIDE DEF f
<1>2. f # <<>>
  BY <1>1, EmptySeq
<1> QED
  BY <1>1, <1>2 DEF Fresh, f

\* The bytes in flight and those that wait.
LEMMA OutBytes ==
    ASSUME OutInv
    PROVE  /\ Joined(sending) \in Seq(Int) /\ LeftOf(outBuf, sentlen, reply) \in Seq(Int)
           /\ wire \in Seq(Int) /\ produced \in Nat
           /\ reply \in Seq(Object) /\ Counted(reply) \in Int /\ reply_bytes \in Int
           /\ outBuf \in Seq(Int) /\ sentlen \in Nat
<1>1. Fits(outBuf, sentlen, reply) /\ OutTypes /\ CountIsExact
  BY DEF OutInv
<1>2. sending \in Seq(SendReq) /\ wire \in Seq(Int) /\ produced \in Nat
  BY <1>1 DEF OutTypes
<1>3. LeftOf(outBuf, sentlen, reply) \in Seq(Int)
  BY <1>1, LeftCases
<1>4. reply \in Seq(Object) /\ outBuf \in Seq(Int) /\ sentlen \in Nat
  BY <1>1 DEF Fits
<1> QED
  BY <1>1, <1>2, <1>3, <1>4, JoinedTypes, SendsHaveBytes, ObjectsHaveBytes DEF CountIsExact

LEMMA ListGrows ==
    ASSUME OutInv, totwritten = Idle, NEW f \in Seq(Int), NEW c \in Int, ListGot(reply, reply', f, c),
           UNCHANGED <<outIocp, fromMaster, outBuf, sentlen, sending, wire, totwritten>>, reply_bytes' = reply_bytes + c
    PROVE  /\ Fits(outBuf, sentlen, reply)' /\ SendsAgree' /\ CountIsExact'
           /\ LeftOf(outBuf, sentlen, reply)' = LeftOf(outBuf, sentlen, reply) \o f
<1> DEFINE q == reply'
<1>1. Fits(outBuf, sentlen, reply) /\ SendsAgree /\ CountIsExact
  BY DEF OutInv
<1>2. /\ q \in Seq(Object) /\ q # <<>>
      /\ reply # <<>> => Len(q[1].bytes) >= Len(reply[1].bytes)
      /\ Grown(reply, q, f)
      /\ Counted(q) = Counted(reply) + c
  BY DEF ListGot
<1>3. Fits(outBuf, sentlen, q) /\ LeftOf(outBuf, sentlen, q) = LeftOf(outBuf, sentlen, reply) \o f
  <2> DEFINE r == reply
             b == outBuf
             n == sentlen
  <2>1. /\ q \in Seq(Object) /\ q # <<>>
        /\ r # <<>> => Len(q[1].bytes) >= Len(r[1].bytes)
        /\ Grown(r, q, f) /\ Fits(b, n, r)
    BY <1>1, <1>2
  <2> HIDE DEF q, r, b, n
  <2>2. Fits(b, n, q) /\ LeftOf(b, n, q) = LeftOf(b, n, r) \o f
    BY <2>1, LeftGrows
  <2> QED
    BY <2>2 DEF r, b, n
<1> HIDE DEF q
<1>4. CountIsExact'
  <2>1. Counted(reply) \in Int /\ reply_bytes \in Int
    BY OutBytes
  <2>2. CountIsExact' <=> /\ reply_bytes' \in Int
                          /\ (outIocp /\ fromMaster) \/ reply_bytes' = Counted(q)
    BY DEF CountIsExact, q
  <2> QED
    BY <1>1, <1>2, <2>1, <2>2 DEF CountIsExact
<1>5. SendsAgree'
  BY <1>1 DEF SendsAgree
<1> QED
  BY <1>3, <1>4, <1>5 DEF q

\* Replies come last, and the handler will send them.
LEMMA OutputGrows ==
    ASSUME OutInv, NEW n \in Nat, n # 0, LeftOf(outBuf, sentlen, reply)' = LeftOf(outBuf, sentlen, reply) \o Fresh(n),
           produced' = produced + n, ~afterReply, prepareClientToWrite,
           UNCHANGED <<outIocp, fromMaster, afterReply, outClosed, sending, wire>>, asap' \in BOOLEAN
    PROVE  NothingIsLost' /\ OutTypes' /\ OutputIsServed'
<1>1. NothingIsLost /\ OutTypes /\ OutputIsServed
  BY DEF OutInv
<1>2. NothingIsLost'
  <2> DEFINE w == wire
             j == Joined(sending)
             l == LeftOf(outBuf, sentlen, reply)
             f == Fresh(n)
             p == produced
             m == LeftOf(outBuf, sentlen, reply)'
  <2>1. w \in Seq(Int) /\ j \in Seq(Int) /\ l \in Seq(Int) /\ p \in Nat
    BY OutBytes
  <2>2. f = [i \in 1 .. n |-> p + i]
    BY DEF Fresh
  <2>3. NothingIsLost' <=> (~fromMaster => InOrder(w, j, m, p + n))
    BY DEF NothingIsLost
  <2>4. NothingIsLost <=> (~fromMaster => InOrder(w, j, l, p))
    BY DEF NothingIsLost
  <2>5. m = l \o f
    OBVIOUS
  <2> HIDE DEF w, j, l, f, p, m
  <2>6. InOrder(w, j, l, p) => InOrder(w, j, l \o f, p + n)
    BY <2>1, <2>2, OrderGrows
  <2> QED
    BY <1>1, <2>3, <2>4, <2>5, <2>6
<1>3. handler' \in BOOLEAN
  BY DEF prepareClientToWrite
<1>4. produced' \in Nat
  BY <1>1 DEF OutTypes
<1>5. OutTypes'
  BY <1>1, <1>3, <1>4 DEF OutTypes
<1>6. OutputIsServed'
  BY <1>1 DEF OutputIsServed, prepareClientToWrite
<1> QED
  BY <1>2, <1>5, <1>6

LEMMA AddReplyKeeps ==
    ASSUME OutInv, NEW n \in 1 .. BUF_BYTES + 1, addReply(n)
    PROVE  OutInv'
<1>1. /\ ~outClosed /\ totwritten = Idle /\ ~afterReply
      /\ prepareClientToWrite
      /\ produced' = produced + n
      /\ UNCHANGED <<outIocp, fromMaster, sentlen, afterReply, outClosed, sending, wire, totwritten>>
  BY DEF addReply
<1>2. n \in Nat /\ n # 0
  BY OutputAssumption
<1>3. Fits(outBuf, sentlen, reply) /\ SendsAgree /\ OutTypes /\ CountIsExact
  BY DEF OutInv
<1>4. Fresh(n) \in Seq(Int) /\ Len(Fresh(n)) = n /\ Fresh(n) # <<>>
  BY <1>2, <1>3, FreshIs DEF OutTypes
<1>5. CASE /\ FitsBuffer(n)
           /\ outBuf' = outBuf \o Fresh(n)
           /\ UNCHANGED <<reply, reply_bytes, softSince, asap>>
  <2> DEFINE f == Fresh(n)
             b == outBuf \o f
  <2>1. reply = <<>>
    BY <1>5 DEF FitsBuffer
  <2>2. Fits(b, sentlen, <<>>) /\ LeftOf(b, sentlen, <<>>) = LeftOf(outBuf, sentlen, <<>>) \o f
    BY <1>3, <1>4, <2>1, LeftFills
  <2>3. b # <<>>
    <3>1. Len(b) = Len(outBuf) + Len(f) /\ Len(outBuf) \in Nat
      BY <1>4, OutBytes, ConcatProperties, LenProperties
    <3> HIDE DEF b
    <3>2. Len(b) # 0
      BY <1>2, <1>4, <3>1
    <3> QED
      BY <3>2, EmptySeq
  <2>4. Fits(outBuf, sentlen, reply)' /\ LeftOf(outBuf, sentlen, reply)' = LeftOf(outBuf, sentlen, reply) \o Fresh(n)
    BY <1>1, <1>5, <2>1, <2>2
  <2>5. outBuf' # <<>>
    BY <1>5, <2>3
  <2>6. SendsAgree' /\ CountIsExact'
    <3>1. SendsAgree'
      BY <1>1, <1>3, <1>5, <2>5 DEF SendsAgree
    <3>2. CountIsExact'
      BY <1>1, <1>3, <1>5 DEF CountIsExact
    <3> QED
      BY <3>1, <3>2
  <2>7. asap' \in BOOLEAN
    BY <1>3, <1>5 DEF OutTypes
  <2>8. NothingIsLost' /\ OutTypes' /\ OutputIsServed'
    BY <1>1, <1>2, <2>4, <2>7, OutputGrows
  <2> QED
    BY <2>4, <2>6, <2>8 DEF OutInv
<1>6. CASE /\ reply' = AddToList(reply, Fresh(n))
           /\ reply_bytes' = reply_bytes + n
           /\ IF asap THEN UNCHANGED <<softSince, asap>>
              ELSE \E late \in BOOLEAN : checkClientOutputBufferLimits(reply_bytes + n, late)
           /\ UNCHANGED outBuf
  <2>1. reply \in Seq(Object)
    BY OutBytes
  <2>2. ListGot(reply, reply', Fresh(n), n)
    BY <1>4, <1>6, <2>1, ListGotReply
  <2>3. n \in Int
    BY <1>2
  <2>4. /\ Fits(outBuf, sentlen, reply)' /\ SendsAgree' /\ CountIsExact'
        /\ LeftOf(outBuf, sentlen, reply)' = LeftOf(outBuf, sentlen, reply) \o Fresh(n)
    BY <1>1, <1>4, <1>6, <2>2, <2>3, ListGrows
  <2>5. asap' \in BOOLEAN
    BY <1>3, <1>6 DEF OutTypes, checkClientOutputBufferLimits
  <2>6. NothingIsLost' /\ OutTypes' /\ OutputIsServed'
    BY <1>1, <1>2, <2>4, <2>5, OutputGrows
  <2> QED
    BY <2>4, <2>6 DEF OutInv
<1> QED
  BY <1>5, <1>6 DEF addReply

LEMMA AddDeferredKeeps ==
    ASSUME OutInv, addDeferredMultiBulkLength
    PROVE  OutInv'
<1>1. /\ ~outClosed /\ totwritten = Idle /\ ~afterReply
      /\ prepareClientToWrite
      /\ produced' = produced + 1
      /\ reply' = Append(reply, [bytes |-> Fresh(1), null |-> TRUE])
      /\ UNCHANGED <<outIocp, fromMaster, outBuf, sentlen, reply_bytes, softSince, afterReply, asap, outClosed, sending,
                     wire, totwritten>>
  BY DEF addDeferredMultiBulkLength
<1>2. OutTypes /\ reply \in Seq(Object) /\ reply_bytes \in Int
  BY OutBytes DEF OutInv
<1> DEFINE f == Fresh(1)
           o == [bytes |-> f, null |-> TRUE]
<1>3. f \in Seq(Int)
  <2> DEFINE k == 1
  <2>1. k \in Nat /\ k # 0
    OBVIOUS
  <2> HIDE DEF k
  <2>2. Fresh(k) \in Seq(Int)
    BY <1>2, <2>1, FreshIs DEF OutTypes
  <2> QED
    BY <2>2 DEF k
<1> HIDE DEF f
<1>4. o \in Object /\ o.bytes = f /\ Unless(o) = 0
  BY <1>3 DEF Object, Unless
<1>5. reply' = Append(reply, o)
  BY <1>1 DEF f
<1> HIDE DEF o
<1>6. ListGot(reply, reply', f, 0)
  <2>1. ListGot(reply, Append(reply, o), o.bytes, Unless(o))
    BY <1>2, <1>4, ListGotObject
  <2> QED
    BY <1>4, <1>5, <2>1
<1>7. reply_bytes' = reply_bytes + 0
  BY <1>1, <1>2
<1>8. /\ Fits(outBuf, sentlen, reply)' /\ SendsAgree' /\ CountIsExact'
      /\ LeftOf(outBuf, sentlen, reply)' = LeftOf(outBuf, sentlen, reply) \o f
  <2> DEFINE c == 0
  <2>1. c \in Int /\ ListGot(reply, reply', f, c) /\ reply_bytes' = reply_bytes + c
    BY <1>6, <1>7
  <2> HIDE DEF c
  <2> QED
    BY <1>1, <1>3, <2>1, ListGrows
<1>9. asap' \in BOOLEAN
  BY <1>1, <1>2 DEF OutTypes
<1>10. NothingIsLost' /\ OutTypes' /\ OutputIsServed'
  <2> DEFINE k == 1
  <2>1. k \in Nat /\ k # 0 /\ f = Fresh(k) /\ produced' = produced + k
    BY <1>1 DEF f
  <2> HIDE DEF k
  <2>2. LeftOf(outBuf, sentlen, reply)' = LeftOf(outBuf, sentlen, reply) \o Fresh(k)
    BY <1>8, <2>1
  <2> QED
    BY <1>1, <1>9, <2>1, <2>2, OutputGrows
<1> QED
  BY <1>8, <1>10 DEF OutInv

LEMMA SetDeferredKeeps ==
    ASSUME OutInv, setDeferredMultiBulkLength
    PROVE  OutInv'
<1>1. UNCHANGED <<outIocp, fromMaster, outBuf, sentlen, handler, afterReply, outClosed, sending, wire, produced,
                  totwritten>>
  BY DEF setDeferredMultiBulkLength
<1>2. PICK i \in 1 .. Len(reply) :
          /\ reply[i].null
          /\ reply' = Completed(reply, i)
          /\ reply_bytes' = reply_bytes + Len(reply[i].bytes)
          /\ \E late \in BOOLEAN : IF asap THEN UNCHANGED <<softSince, asap>>
                                   ELSE checkClientOutputBufferLimits(reply_bytes', late)
  BY DEF setDeferredMultiBulkLength, Completed
<1>3. reply \in Seq(Object) /\ OutTypes /\ SendsAgree /\ OutputIsServed /\ NothingIsLost
  BY OutBytes DEF OutInv
<1>4. totwritten = Idle
  BY <1>2, <1>3 DEF SendsAgree, Deferred
<1> DEFINE e == <<>>
           c == Len(reply[i].bytes)
<1>5. e \in Seq(Int) /\ c \in Int
  <2>1. reply[i] \in Object
    BY <1>3, ElementOfSeq
  <2>2. reply[i].bytes \in Seq(Int)
    BY <2>1 DEF Object
  <2> QED
    BY <2>2, LenProperties, EmptySeq
<1>6. ListGot(reply, reply', e, c)
  BY <1>2, <1>3, ListGotLength
<1>7. reply_bytes' = reply_bytes + c
  BY <1>2
<1> HIDE DEF e, c
<1>8. /\ Fits(outBuf, sentlen, reply)' /\ SendsAgree' /\ CountIsExact'
      /\ LeftOf(outBuf, sentlen, reply)' = LeftOf(outBuf, sentlen, reply) \o e
  BY <1>1, <1>4, <1>5, <1>6, <1>7, ListGrows
<1>9. LeftOf(outBuf, sentlen, reply)' = LeftOf(outBuf, sentlen, reply)
  <2>1. LeftOf(outBuf, sentlen, reply) \in Seq(Int)
    BY OutBytes
  <2> DEFINE l == LeftOf(outBuf, sentlen, reply)
  <2> HIDE DEF l
  <2>2. l \o <<>> = l
    BY <2>1, ConcatEmptySeq DEF l
  <2> QED
    BY <1>8, <2>2 DEF l, e
<1>10. asap' \in BOOLEAN /\ (asap => asap')
  BY <1>2, <1>3 DEF OutTypes, checkClientOutputBufferLimits
<1>11. NothingIsLost'
  BY <1>1, <1>3, <1>9 DEF NothingIsLost
<1>12. OutTypes'
  BY <1>1, <1>3, <1>10 DEF OutTypes
<1>13. OutputIsServed'
  <2>1. reply # <<>>
    BY <1>2, EmptySeq
  <2>2. ~OutputIsEmpty
    BY <2>1 DEF OutputIsEmpty
  <2> QED
    BY <1>1, <1>3, <2>2, <1>10 DEF OutputIsServed
<1> QED
  BY <1>8, <1>11, <1>12, <1>13 DEF OutInv

\* Steps that move no byte.
LEMMA NoByteMoves ==
    ASSUME OutInv, UNCHANGED <<outIocp, fromMaster, outBuf, sentlen, reply, reply_bytes, sending, wire, produced>>,
           totwritten' = totwritten \/ totwritten' = Idle \/ (~Deferred /\ ~(outIocp /\ fromMaster)),
           {handler', afterReply', asap', outClosed'} \subseteq BOOLEAN, OutputIsServed'
    PROVE  OutInv'
<1>1. OutTypes /\ Fits(outBuf, sentlen, reply) /\ SendsAgree /\ CountIsExact /\ NothingIsLost
  BY DEF OutInv
<1>2. OutTypes'
  BY <1>1 DEF OutTypes
<1>3. Fits(outBuf, sentlen, reply)'
  BY <1>1
<1>4. SendsAgree'
  BY <1>1 DEF SendsAgree, Deferred
<1>5. CountIsExact'
  BY <1>1 DEF CountIsExact
<1>6. NothingIsLost'
  BY <1>1 DEF NothingIsLost
<1> QED
  BY <1>2, <1>3, <1>4, <1>5, <1>6 DEF OutInv

LEMMA QuietStepKeeps ==
    ASSUME OutInv, ReplyDropped \/ CloseAfterReply \/ FreeClientLater \/ SendFails \/ WriteEnds \/ SendEnds
    PROVE  OutInv'
<1>1. OutTypes /\ OutputIsServed /\ Fits(outBuf, sentlen, reply)
  BY DEF OutInv
<1> USE DEF OutputIsServed, OutTypes
<1>2. CASE ReplyDropped
  BY <1>1, <1>2, NoByteMoves DEF ReplyDropped, prepareClientToWrite, OutputIsEmpty
<1>3. CASE CloseAfterReply
  BY <1>1, <1>3, NoByteMoves DEF CloseAfterReply, OutputIsEmpty
<1>4. CASE FreeClientLater
  BY <1>1, <1>4, NoByteMoves DEF FreeClientLater, FreeIt
<1>5. CASE SendFails
  BY <1>1, <1>5, NoByteMoves DEF SendFails, FreeIt
<1>6. CASE WriteEnds
  <2>1. UNCHANGED <<outIocp, fromMaster, outBuf, reply, reply_bytes, afterReply, asap, sending, wire, produced>>
    BY <1>6 DEF WriteEnds
  <2>2. CASE OutputIsEmpty
    <3>1. sentlen = 0
      BY <1>1, <2>2 DEF Fits, OutputIsEmpty
    <3>2. sentlen' = 0
      BY <1>6, <2>2 DEF WriteEnds
    <3>3. UNCHANGED <<outIocp, fromMaster, outBuf, sentlen, reply, reply_bytes, sending, wire, produced>>
      BY <2>1, <3>1, <3>2
    <3>4. totwritten' = Idle /\ {handler', afterReply', asap', outClosed'} \subseteq BOOLEAN
      BY <1>1, <1>6, <2>1, <2>2 DEF WriteEnds, FreeIt
    <3>5. OutputIsEmpty'
      BY <2>1, <2>2 DEF OutputIsEmpty
    <3>6. OutputIsServed'
      BY <1>6, <2>1, <2>2, <3>5 DEF WriteEnds, FreeIt
    <3> QED
      BY <3>3, <3>4, <3>6, NoByteMoves
  <2>3. CASE ~OutputIsEmpty
    BY <1>1, <1>6, <2>1, <2>3, NoByteMoves DEF WriteEnds, OutputIsEmpty
  <2> QED
    BY <2>2, <2>3
<1>7. CASE SendEnds
  BY <1>1, <1>7, NoByteMoves DEF SendEnds, OutputIsEmpty
<1> QED
  BY <1>2, <1>3, <1>4, <1>5, <1>6, <1>7

LEMMA WritableKeeps ==
    ASSUME OutInv, sendReplyToClient
    PROVE  OutInv'
<1>1. OutTypes /\ SendsAgree /\ OutputIsServed /\ CountIsExact
  BY DEF OutInv
<1>2. /\ handler /\ ~outClosed /\ totwritten = Idle /\ ~Deferred
      /\ UNCHANGED <<outIocp, fromMaster, reply_bytes, softSince, handler, afterReply, asap, outClosed, sending, wire,
                     produced>>
  BY DEF sendReplyToClient
<1>3. CASE DropReplies
  <2>1. /\ outIocp /\ fromMaster /\ outBuf' = <<>> /\ sentlen' = 0 /\ reply' = <<>> /\ totwritten' = Idle
    BY <1>2, <1>3 DEF DropReplies
  <2>2. sending = <<>> /\ Len(<<>>) = 0 /\ <<>> \in Seq(Int) /\ <<>> \in Seq(Object)
    BY <1>1, <2>1, EmptySeq DEF SendsAgree
  <2>3. OutTypes'
    BY <1>1, <1>2 DEF OutTypes
  <2>4. Fits(outBuf, sentlen, reply)'
    BY <2>1, <2>2 DEF Fits
  <2>5. SendsAgree'
    BY <1>2, <2>1, <2>2 DEF SendsAgree, EndsGrow
  <2>6. OutputIsServed'
    BY <1>2 DEF OutputIsServed
  <2>7. CountIsExact' /\ NothingIsLost'
    BY <1>1, <1>2, <2>1 DEF CountIsExact, NothingIsLost
  <2> QED
    BY <2>3, <2>4, <2>5, <2>6, <2>7 DEF OutInv
<1>4. CASE ~(outIocp /\ fromMaster) /\ totwritten' = 0 /\ UNCHANGED <<outBuf, sentlen, reply>>
  <2>1. {handler', afterReply', asap', outClosed'} \subseteq BOOLEAN
    BY <1>1, <1>2 DEF OutTypes
  <2>2. OutputIsServed'
    BY <1>1, <1>2, <1>4 DEF OutputIsServed, OutputIsEmpty
  <2> QED
    BY <1>2, <1>4, <2>1, <2>2, NoByteMoves
<1> QED
  BY <1>3, <1>4 DEF sendReplyToClient

\* Bytes leave at once.
LEMMA BytesLeave ==
    ASSUME OutInv, ~outIocp, ~OutputIsEmpty, NEW x \in Seq(Int), fromMaster \/ wire' = wire \o x, fromMaster => wire' = wire,
           LeftOf(outBuf, sentlen, reply) = x \o LeftOf(outBuf, sentlen, reply)', Fits(outBuf, sentlen, reply)',
           UNCHANGED <<outIocp, fromMaster, handler, afterReply, asap, outClosed, sending, produced>>
    PROVE  OutTypes' /\ NothingIsLost' /\ OutputIsServed'
<1>1. OutTypes /\ SendsAgree /\ NothingIsLost /\ OutputIsServed
  BY DEF OutInv
<1>2. sending = <<>> /\ Joined(sending) = <<>>
  BY <1>1, JoinedNone DEF SendsAgree
<1>3. OutTypes'
  <2>1. wire' \in Seq(Int)
    BY <1>1, BytesInOrder DEF OutTypes
  <2> QED
    BY <1>1, <2>1 DEF OutTypes
<1>4. NothingIsLost'
  <2> DEFINE w == wire
             m == LeftOf(outBuf, sentlen, reply)'
             l == LeftOf(outBuf, sentlen, reply)
             p == produced
             e == <<>>
  <2>1. w \in Seq(Int) /\ e \in Seq(Int)
    BY OutBytes, EmptySeq
  <2>2. m \in Seq(Int)
    BY LeftCases
  <2>3. NothingIsLost <=> (~fromMaster => InOrder(w, e, l, p))
    BY <1>2 DEF NothingIsLost
  <2>4. NothingIsLost' <=> (~fromMaster => InOrder(wire', e, m, p))
    BY <1>2 DEF NothingIsLost
  <2>5. l = x \o m
    OBVIOUS
  <2>6. ~fromMaster => wire' = w \o x
    OBVIOUS
  <2> HIDE DEF m, l, w, p
  <2>7. InOrder(w, e, x \o m, p) => InOrder(w \o x, e, m, p)
    BY <2>1, <2>2, OrderMoves
  <2> QED
    BY <1>1, <2>3, <2>4, <2>5, <2>6, <2>7
<1>5. OutputIsServed'
  BY <1>1 DEF OutputIsServed
<1> QED
  BY <1>3, <1>4, <1>5

LEMMA WriteBufferKeeps ==
    ASSUME OutInv, NEW n \in 1 .. BUF_BYTES + 1, WriteBuffer(n)
    PROVE  OutInv'
<1>1. /\ ~outIocp /\ totwritten # Idle
      /\ outBuf # <<>> /\ sentlen + n <= Len(outBuf)
      /\ wire' = IF fromMaster THEN wire ELSE wire \o SubSeq(outBuf, sentlen + 1, sentlen + n)
      /\ IF sentlen + n = Len(outBuf) THEN outBuf' = <<>> /\ sentlen' = 0
         ELSE sentlen' = sentlen + n /\ UNCHANGED outBuf
      /\ UNCHANGED <<outIocp, fromMaster, reply, reply_bytes, softSince, handler, afterReply, asap, outClosed, sending,
                     produced>>
  BY DEF WriteBuffer
<1>2. SendsAgree /\ Fits(outBuf, sentlen, reply) /\ CountIsExact
  BY DEF OutInv
<1> DEFINE b == outBuf
           k == sentlen
           r == reply
           x == SubSeq(b, k + 1, k + n)
           m == k + n
<1>3. n \in Nat
  BY OutputAssumption
<1>4. Fits(b, m, r) /\ LeftOf(b, k, r) = x \o LeftOf(b, m, r) /\ x \in Seq(Int)
  <2>1. b # <<>> /\ k + n <= Len(b) /\ Fits(b, k, r)
    BY <1>1, <1>2
  <2> HIDE DEF b, k, r
  <2> QED
    BY <1>3, <2>1, LeftBuffer
<1>5. m = Len(b) => Fits(<<>>, 0, r) /\ LeftOf(<<>>, 0, r) = LeftOf(b, m, r)
  <2> HIDE DEF b, m, r
  <2> QED
    BY <1>4, LeftReset
<1>6. Fits(outBuf, sentlen, reply)' /\ LeftOf(outBuf, sentlen, reply)' = LeftOf(b, m, r)
  <2>1. reply' = r
    BY <1>1
  <2>2. CASE m = Len(b)
    <3>1. outBuf' = <<>> /\ sentlen' = 0
      BY <1>1, <2>2
    <3> QED
      BY <1>5, <2>1, <2>2, <3>1
  <2>3. CASE m # Len(b)
    <3>1. outBuf' = b /\ sentlen' = m
      BY <1>1, <2>3
    <3> QED
      BY <1>4, <2>1, <3>1
  <2> QED
    BY <2>2, <2>3
<1>7. OutTypes' /\ NothingIsLost' /\ OutputIsServed'
  <2>1. (fromMaster \/ wire' = wire \o x) /\ (fromMaster => wire' = wire)
    BY <1>1
  <2>2. ~OutputIsEmpty
    BY <1>1 DEF OutputIsEmpty
  <2>3. LeftOf(outBuf, sentlen, reply) = x \o LeftOf(outBuf, sentlen, reply)'
    BY <1>4, <1>6
  <2> HIDE DEF x
  <2> QED
    BY <1>1, <1>4, <1>6, <2>1, <2>2, <2>3, BytesLeave
<1>8. CountIsExact'
  BY <1>1, <1>2 DEF CountIsExact
<1>9. SendsAgree'
  <2>1. sending' = <<>> /\ Len(<<>>) = 0 /\ ~outIocp' /\ reply' = reply
    BY <1>1, <1>2, EmptySeq DEF SendsAgree
  <2>2. ~Deferred
    BY <1>1, <1>2 DEF SendsAgree
  <2> QED
    BY <2>1, <2>2 DEF SendsAgree, EndsGrow, Deferred
<1> QED
  BY <1>6, <1>7, <1>8, <1>9 DEF OutInv

LEMMA WriteObjectKeeps ==
    ASSUME OutInv, NEW n \in 1 .. BUF_BYTES + 1, WriteObject(n)
    PROVE  OutInv'
<1> DEFINE k == sentlen
           r == reply
           o == Head(r).bytes
           x == SubSeq(o, k + 1, k + n)
           m == k + n
           e == <<>>
<1>1. /\ ~outIocp /\ totwritten # Idle
      /\ outBuf = e /\ r # <<>> /\ k + n <= Len(o)
      /\ wire' = IF fromMaster THEN wire ELSE wire \o x
      /\ IF m = Len(o) THEN reply' = Tail(r) /\ sentlen' = 0 /\ reply_bytes' = reply_bytes - Len(o)
         ELSE sentlen' = m /\ UNCHANGED <<reply, reply_bytes>>
      /\ UNCHANGED <<outIocp, fromMaster, outBuf, softSince, handler, afterReply, asap, outClosed, sending, produced>>
  BY DEF WriteObject
<1>2. SendsAgree /\ Fits(e, k, r) /\ CountIsExact
  BY <1>1 DEF OutInv
<1>3. n \in Nat
  BY OutputAssumption
<1>4. /\ x \in Seq(Int)
      /\ m = Len(o) => Fits(e, 0, Tail(r)) /\ LeftOf(e, k, r) = x \o LeftOf(e, 0, Tail(r))
      /\ Fits(e, m, r) /\ LeftOf(e, k, r) = x \o LeftOf(e, m, r)
  <2>1. r # <<>> /\ k + n <= Len(Head(r).bytes) /\ Fits(<<>>, k, r)
    BY <1>1, <1>2
  <2> HIDE DEF k, r
  <2> QED
    BY <1>3, <2>1, LeftObject
<1>5. Fits(outBuf, sentlen, reply)' /\ LeftOf(outBuf, sentlen, reply) = x \o LeftOf(outBuf, sentlen, reply)'
  <2>1. outBuf' = e /\ LeftOf(outBuf, sentlen, reply) = LeftOf(e, k, r)
    BY <1>1
  <2>2. CASE m = Len(o)
    <3>1. reply' = Tail(r) /\ sentlen' = 0
      BY <1>1, <2>2
    <3> QED
      BY <1>4, <2>1, <2>2, <3>1
  <2>3. CASE m # Len(o)
    <3>1. reply' = r /\ sentlen' = m
      BY <1>1, <2>3
    <3> QED
      BY <1>4, <2>1, <3>1
  <2> QED
    BY <2>2, <2>3
<1>6. OutTypes' /\ NothingIsLost' /\ OutputIsServed'
  <2>1. (fromMaster \/ wire' = wire \o x) /\ (fromMaster => wire' = wire)
    BY <1>1
  <2>2. ~OutputIsEmpty
    BY <1>1 DEF OutputIsEmpty
  <2> HIDE DEF x
  <2> QED
    BY <1>1, <1>4, <1>5, <2>1, <2>2, BytesLeave
<1>7. r \in Seq(Object) /\ reply_bytes \in Int /\ ~Deferred
  BY <1>1, <1>2, OutBytes DEF SendsAgree
<1>8. /\ Tail(r) \in Seq(Object) /\ Len(Tail(r)) = Len(r) - 1 /\ Len(r) \in Nat
      /\ \A i \in 1 .. Len(r) - 1 : Tail(r)[i] = r[i + 1]
      /\ Head(r) \in Object /\ Head(r) = r[1] /\ Len(r) > 0
  BY <1>1, <1>7, PopHeadSequence
<1>9. ~Head(r).null /\ \A i \in 1 .. Len(Tail(r)) : ~Tail(r)[i].null
  <2>1. \A i \in 1 .. Len(r) : ~r[i].null
    BY <1>7 DEF Deferred
  <2>2. 1 \in 1 .. Len(r) /\ \A i \in 1 .. Len(r) - 1 : i + 1 \in 1 .. Len(r)
    BY <1>8
  <2> HIDE DEF r
  <2> QED
    BY <1>8, <2>1, <2>2
<1>10. CountIsExact'
  <2>1. Counted(r) = Unless(Head(r)) + Counted(Tail(r)) /\ Counted(Tail(r)) \in Int
    BY <1>1, <1>7, <1>8, JoinedHead, JoinedTypes, ObjectsHaveBytes
  <2>2. Unless(Head(r)) = Len(o)
    BY <1>9 DEF Unless
  <2>3. Len(o) \in Nat
    BY <1>8, LenProperties DEF Object
  <2>4. CASE m = Len(o)
    <3>1. reply' = Tail(r) /\ reply_bytes' = reply_bytes - Len(o)
      BY <1>1, <2>4
    <3> DEFINE c == Len(o)
               d == Counted(Tail(r))
               all == Counted(r)
    <3>2. all = c + d /\ c \in Nat /\ d \in Int /\ reply_bytes = all
      BY <1>1, <1>2, <2>1, <2>2, <2>3 DEF CountIsExact
    <3> HIDE DEF c, d, all
    <3>3. reply_bytes' = d /\ d \in Int
      BY <3>1, <3>2 DEF c
    <3> QED
      BY <3>1, <3>3 DEF CountIsExact, d
  <2>5. CASE m # Len(o)
    <3>1. UNCHANGED <<outIocp, fromMaster, reply, reply_bytes>>
      BY <1>1, <2>5
    <3> QED
      BY <1>2, <3>1 DEF CountIsExact
  <2> QED
    BY <2>4, <2>5
<1>11. SendsAgree'
  <2>1. sending' = <<>> /\ Len(<<>>) = 0 /\ ~outIocp'
    BY <1>1, <1>2, EmptySeq DEF SendsAgree
  <2>2. ~Deferred'
    BY <1>1, <1>7, <1>9 DEF Deferred
  <2> QED
    BY <2>1, <2>2 DEF SendsAgree, EndsGrow
<1> QED
  BY <1>5, <1>6, <1>10, <1>11 DEF OutInv

LEMMA EndsGrowAppended ==
    ASSUME NEW s \in Seq(SendReq), NEW k \in Nat, NEW m \in Nat, k <= m, EndsGrow(s, k), NEW req \in SendReq,
           req.buf => req.end > k /\ req.end <= m
    PROVE  EndsGrow(Append(s, req), m)
<1> DEFINE t == Append(s, req)
           n == Len(s)
<1>1. /\ t \in Seq(SendReq) /\ Len(t) = n + 1 /\ n \in Nat /\ t[n + 1] = req /\ \A i \in 1 .. n : t[i] = s[i]
  BY PushTailSequence
<1>2. /\ \A i \in 1 .. n : s[i].buf => s[i].end \in 1 .. k
      /\ \A i, j \in 1 .. n : i < j /\ s[i].buf /\ s[j].buf => s[i].end < s[j].end
  BY DEF EndsGrow
<1> HIDE DEF t, n
<1>3. req.end \in Int
  BY DEF SendReq
<1>4. ASSUME NEW i \in 1 .. Len(t), t[i].buf PROVE t[i].end \in 1 .. m
  <2>1. CASE i = n + 1
    BY <1>1, <1>3, <1>4, <2>1
  <2>2. CASE i # n + 1
    <3>1. i \in 1 .. n
      BY <1>1, <1>4, <2>2
    <3>2. s[i].end \in 1 .. k
      BY <1>1, <1>2, <1>4, <3>1
    <3> QED
      BY <1>1, <3>1, <3>2
  <2> QED
    BY <2>1, <2>2
<1>5. ASSUME NEW i \in 1 .. Len(t), NEW j \in 1 .. Len(t), i < j, t[i].buf, t[j].buf PROVE t[i].end < t[j].end
  <2>1. i \in 1 .. n /\ t[i] = s[i]
    BY <1>1, <1>5
  <2>2. CASE j = n + 1
    <3>1. s[i].end \in 1 .. k /\ t[j] = req
      BY <1>1, <1>2, <1>5, <2>1, <2>2
    <3> QED
      BY <1>3, <1>5, <2>1, <3>1
  <2>3. CASE j # n + 1
    <3>1. j \in 1 .. n /\ t[j] = s[j]
      BY <1>1, <1>5, <2>3
    <3> QED
      BY <1>2, <1>5, <2>1, <3>1
  <2> QED
    BY <2>2, <2>3
<1>6. EndsGrow(t, m)
  BY <1>4, <1>5 DEF EndsGrow
<1> QED
  BY <1>6 DEF t

LEMMA EndsGrowTail ==
    ASSUME NEW s \in Seq(SendReq), s # <<>>, NEW k \in Nat, EndsGrow(s, k)
    PROVE  /\ EndsGrow(Tail(s), k)
           /\ Head(s).buf => Head(s).end \in 1 .. k
           /\ Head(s).buf /\ Head(s).end = k => EndsGrow(Tail(s), 0)
<1> DEFINE t == Tail(s)
           n == Len(s) - 1
<1>1. /\ t \in Seq(SendReq) /\ Len(t) = n /\ n \in Nat /\ \A i \in 1 .. n : t[i] = s[i + 1]
      /\ Len(s) = n + 1 /\ Head(s) = s[1]
  BY PopHeadSequence
<1>2. /\ \A i \in 1 .. Len(s) : s[i].buf => s[i].end \in 1 .. k
      /\ \A i, j \in 1 .. Len(s) : i < j /\ s[i].buf /\ s[j].buf => s[i].end < s[j].end
  BY DEF EndsGrow
<1> HIDE DEF t, n
<1>3. 1 \in 1 .. Len(s) /\ \A i \in 1 .. n : i + 1 \in 1 .. Len(s) /\ 1 < i + 1
  BY <1>1
<1>4. \A i \in 1 .. n : t[i].buf => t[i].end \in 1 .. k
  BY <1>1, <1>2, <1>3
<1>5. ASSUME NEW i \in 1 .. n, NEW j \in 1 .. n, i < j, t[i].buf, t[j].buf PROVE t[i].end < t[j].end
  <2>1. i + 1 < j + 1 /\ i + 1 \in 1 .. Len(s) /\ j + 1 \in 1 .. Len(s) /\ t[i] = s[i + 1] /\ t[j] = s[j + 1]
    BY <1>1, <1>3, <1>5
  <2> DEFINE a == i + 1
             b == j + 1
  <2>2. a < b /\ a \in 1 .. Len(s) /\ b \in 1 .. Len(s) /\ t[i] = s[a] /\ t[j] = s[b]
    BY <2>1
  <2> HIDE DEF a, b
  <2> QED
    BY <1>2, <1>5, <2>2
<1>6. EndsGrow(t, k)
  BY <1>1, <1>4, <1>5 DEF EndsGrow
<1>7. Head(s).buf => Head(s).end \in 1 .. k
  BY <1>1, <1>2, <1>3
<1>8. ASSUME Head(s).buf, Head(s).end = k PROVE EndsGrow(t, 0)
  <2>1. ASSUME NEW i \in 1 .. n, t[i].buf PROVE FALSE
    <3> DEFINE a == i + 1
    <3>1. a \in 1 .. Len(s) /\ 1 < a /\ t[i] = s[a] /\ 1 \in 1 .. Len(s)
      BY <1>1, <1>3, <2>1
    <3> HIDE DEF a
    <3>2. s[1].end < s[a].end /\ s[a].end \in 1 .. k /\ s[1].end = k
      BY <1>1, <1>2, <1>8, <2>1, <3>1
    <3> QED
      BY <3>2
  <2> QED
    BY <1>1, <2>1 DEF EndsGrow
<1> QED
  BY <1>6, <1>7, <1>8 DEF t

\* Bytes are queued.
LEMMA BytesQueued ==
    ASSUME OutInv, NEW req \in SendReq, sending' = Append(sending, req),
           LeftOf(outBuf, sentlen, reply) = req.bytes \o LeftOf(outBuf, sentlen, reply)', Fits(outBuf, sentlen, reply)',
           ~OutputIsEmpty,
           UNCHANGED <<outIocp, fromMaster, handler, afterReply, asap, outClosed, wire, produced>>
    PROVE  OutTypes' /\ NothingIsLost' /\ OutputIsServed'
<1>1. OutTypes /\ NothingIsLost /\ OutputIsServed
  BY DEF OutInv
<1>2. sending \in Seq(SendReq)
  BY <1>1 DEF OutTypes
<1>3. OutTypes'
  <2>1. sending' \in Seq(SendReq)
    BY <1>2, PushTailSequence
  <2> QED
    BY <1>1, <2>1 DEF OutTypes
<1>4. NothingIsLost'
  <2> DEFINE w == wire
             m == LeftOf(outBuf, sentlen, reply)'
             l == LeftOf(outBuf, sentlen, reply)
             p == produced
             j == Joined(sending)
             x == req.bytes
  <2>1. w \in Seq(Int) /\ j \in Seq(Int) /\ x \in Seq(Int)
    BY OutBytes DEF SendReq
  <2>2. m \in Seq(Int)
    BY LeftCases
  <2>3. Joined(sending)' = j \o x
    BY <1>2, JoinedAppend, SendsHaveBytes
  <2>4. NothingIsLost <=> (~fromMaster => InOrder(w, j, l, p))
    BY DEF NothingIsLost
  <2>5. NothingIsLost' <=> (~fromMaster => InOrder(w, j \o x, m, p))
    BY <2>3 DEF NothingIsLost
  <2>6. l = x \o m
    OBVIOUS
  <2> HIDE DEF m, l, w, p, j, x
  <2>7. InOrder(w, j, x \o m, p) => InOrder(w, j \o x, m, p)
    BY <2>1, <2>2, OrderMoves
  <2> QED
    BY <1>1, <2>4, <2>5, <2>6, <2>7
<1>5. OutputIsServed'
  BY <1>1 DEF OutputIsServed
<1> QED
  BY <1>3, <1>4, <1>5

LEMMA SendBufferKeeps ==
    ASSUME OutInv, SendBuffer
    PROVE  OutInv'
<1> DEFINE b == outBuf
           k == sentlen
           r == reply
           m == Len(b)
           x == Unsent(b, k)
           req == [buf |-> TRUE, end |-> m, bytes |-> x]
<1>1. /\ outIocp /\ totwritten # Idle /\ m > k
      /\ sending' = Append(sending, req)
      /\ sentlen' = m
      /\ UNCHANGED <<outIocp, fromMaster, outBuf, reply, reply_bytes, softSince, handler, afterReply, asap, outClosed,
                     wire, produced>>
  BY DEF SendBuffer
<1>2. SendsAgree /\ Fits(b, k, r) /\ CountIsExact /\ OutTypes
  BY DEF OutInv
<1>3. b \in Seq(Int) /\ k \in Nat /\ m \in Nat /\ b # <<>> /\ k \in 0 .. m
  <2>1. b \in Seq(Int) /\ k \in Nat /\ m \in Nat
    BY OutBytes, LenProperties
  <2>2. m # 0
    BY <1>1, <2>1
  <2>3. b # <<>>
    BY <2>2, EmptySeq
  <2> QED
    BY <1>1, <2>1, <2>3
<1>4. Fits(b, m, r) /\ LeftOf(b, k, r) = x \o LeftOf(b, m, r) /\ x \in Seq(Int)
  <2> DEFINE n == m - k
  <2>1. n \in Nat /\ k + n = m /\ k + n <= Len(b)
    BY <1>3
  <2>2. Unsent(b, k) = SubSeq(b, k + 1, k + n)
    BY <2>1 DEF Unsent
  <2> HIDE DEF b, k, r, n, m
  <2>3. /\ Fits(b, k + n, r) /\ LeftOf(b, k, r) = SubSeq(b, k + 1, k + n) \o LeftOf(b, k + n, r)
        /\ SubSeq(b, k + 1, k + n) \in Seq(Int)
    BY <1>2, <1>3, <2>1, LeftBuffer, ZenonT(60)
  <2> QED
    BY <2>1, <2>2, <2>3
<1> HIDE DEF x
<1>5. req \in SendReq /\ req.bytes = x /\ req.buf /\ req.end = m
  BY <1>3, <1>4 DEF SendReq
<1>6. Fits(outBuf, sentlen, reply)' /\ LeftOf(outBuf, sentlen, reply) = req.bytes \o LeftOf(outBuf, sentlen, reply)'
  BY <1>1, <1>4, <1>5
<1>7. OutTypes' /\ NothingIsLost' /\ OutputIsServed'
  <2>1. ~OutputIsEmpty
    BY <1>3 DEF OutputIsEmpty
  <2> HIDE DEF req
  <2> QED
    BY <1>1, <1>5, <1>6, <2>1, BytesQueued
<1>8. CountIsExact'
  BY <1>1, <1>2 DEF CountIsExact
<1>9. EndsGrow(sending', sentlen')
  <2>1. sending \in Seq(SendReq) /\ EndsGrow(sending, k) /\ k <= m /\ req.end > k /\ req.end <= m
    BY <1>1, <1>2, <1>3, <1>5 DEF OutTypes, SendsAgree
  <2> HIDE DEF req, k, m
  <2>2. EndsGrow(Append(sending, req), m)
    BY <1>3, <1>5, <2>1, EndsGrowAppended
  <2> QED
    BY <1>1, <2>2
<1>10. SendsAgree'
  <2>1. ~fromMaster /\ ~Deferred /\ outBuf' # <<>> /\ outIocp'
    BY <1>1, <1>2, <1>3 DEF SendsAgree
  <2> QED
    BY <1>1, <1>9, <2>1 DEF SendsAgree, Deferred
<1> QED
  BY <1>6, <1>7, <1>8, <1>10 DEF OutInv

LEMMA SendObjectKeeps ==
    ASSUME OutInv, SendObject
    PROVE  OutInv'
<1> DEFINE b == outBuf
           k == sentlen
           r == reply
           x == Head(r).bytes
           req == [buf |-> FALSE, end |-> 0, bytes |-> x]
<1>1. /\ outIocp /\ totwritten # Idle /\ Len(b) = k /\ r # <<>>
      /\ sending' = Append(sending, req)
      /\ reply' = Tail(r)
      /\ reply_bytes' = reply_bytes - Len(x)
      /\ UNCHANGED <<outIocp, fromMaster, outBuf, sentlen, softSince, handler, afterReply, asap, outClosed, wire,
                     produced>>
  BY DEF SendObject
<1>2. SendsAgree /\ Fits(b, k, r) /\ CountIsExact /\ OutTypes
  BY DEF OutInv
<1>3. /\ Fits(b, k, Tail(r)) /\ LeftOf(b, k, r) = x \o LeftOf(b, k, Tail(r))
      /\ x \in Seq(Int) /\ Head(r) \in Object
  <2>1. k = Len(b)
    BY <1>1
  <2> HIDE DEF b, k, r
  <2> QED
    BY <1>1, <1>2, <2>1, LeftQueued
<1>4. req \in SendReq /\ req.bytes = x /\ ~req.buf
  <2> HIDE DEF x
  <2> QED
    BY <1>3 DEF SendReq
<1>5. Fits(outBuf, sentlen, reply)' /\ LeftOf(outBuf, sentlen, reply) = req.bytes \o LeftOf(outBuf, sentlen, reply)'
  BY <1>1, <1>3, <1>4
<1>6. OutTypes' /\ NothingIsLost' /\ OutputIsServed'
  <2>1. ~OutputIsEmpty
    BY <1>1 DEF OutputIsEmpty
  <2> HIDE DEF req
  <2> QED
    BY <1>1, <1>4, <1>5, <2>1, BytesQueued
<1>7. r \in Seq(Object) /\ reply_bytes \in Int /\ ~Deferred /\ ~fromMaster
  BY <1>1, <1>2, OutBytes DEF SendsAgree
<1>8. /\ Tail(r) \in Seq(Object) /\ Len(Tail(r)) = Len(r) - 1 /\ Len(r) \in Nat
      /\ \A i \in 1 .. Len(r) - 1 : Tail(r)[i] = r[i + 1]
      /\ Head(r) = r[1] /\ Len(r) > 0
  BY <1>1, <1>7, PopHeadSequence
<1>9. ~Head(r).null /\ \A i \in 1 .. Len(Tail(r)) : ~Tail(r)[i].null
  <2>1. \A i \in 1 .. Len(r) : ~r[i].null
    BY <1>7 DEF Deferred
  <2>2. 1 \in 1 .. Len(r) /\ \A i \in 1 .. Len(r) - 1 : i + 1 \in 1 .. Len(r)
    BY <1>8
  <2> HIDE DEF r
  <2> QED
    BY <1>8, <2>1, <2>2
<1>10. CountIsExact'
  <2>1. Counted(r) = Unless(Head(r)) + Counted(Tail(r)) /\ Counted(Tail(r)) \in Int
    BY <1>1, <1>7, <1>8, JoinedHead, JoinedTypes, ObjectsHaveBytes
  <2>2. Unless(Head(r)) = Len(x)
    BY <1>9 DEF Unless
  <2>3. Len(x) \in Nat
    BY <1>3, LenProperties
  <2> DEFINE c == Len(x)
             d == Counted(Tail(r))
             all == Counted(r)
  <2>4. all = c + d /\ c \in Nat /\ d \in Int /\ reply_bytes = all /\ reply_bytes' = reply_bytes - c
    BY <1>1, <1>2, <1>7, <2>1, <2>2, <2>3 DEF CountIsExact
  <2> HIDE DEF c, d, all
  <2>5. reply_bytes' = d /\ d \in Int
    BY <2>4
  <2> QED
    BY <1>1, <2>5 DEF CountIsExact, d
<1>11. EndsGrow(sending', sentlen')
  <2>1. sending \in Seq(SendReq) /\ EndsGrow(sending, k) /\ k \in Nat
    BY <1>2, OutBytes DEF OutTypes, SendsAgree
  <2>2. k <= k
    BY <2>1
  <2> HIDE DEF req, k
  <2>3. EndsGrow(Append(sending, req), k)
    BY <1>4, <2>1, <2>2, EndsGrowAppended
  <2> QED
    BY <1>1, <2>3 DEF k
<1>12. SendsAgree'
  <2>1. ~Deferred'
    BY <1>1, <1>9 DEF Deferred
  <2> QED
    BY <1>1, <1>2, <1>7, <1>11, <2>1 DEF SendsAgree
<1> QED
  BY <1>5, <1>6, <1>10, <1>12 DEF OutInv

LEMMA SendDoneKeeps ==
    ASSUME OutInv, SendDone
    PROVE  OutInv'
<1> DEFINE req == Head(sending)
           t == Tail(sending)
           buf == IF req.buf /\ LastOfBuffer(req) THEN <<>> ELSE outBuf
           ends == buf = <<>> /\ reply = <<>>
<1>1. /\ sending # <<>> /\ totwritten = Idle /\ ~Deferred
      /\ sending' = t
      /\ wire' = wire \o req.bytes
      /\ IF outClosed THEN UNCHANGED <<outBuf, sentlen, handler, asap>>
         ELSE /\ outBuf' = buf
              /\ sentlen' = IF (req.buf /\ LastOfBuffer(req)) \/ ends THEN 0 ELSE sentlen
              /\ handler' = (handler /\ ~ends)
              /\ asap' = (asap \/ (ends /\ afterReply))
      /\ UNCHANGED <<outIocp, fromMaster, reply, reply_bytes, softSince, afterReply, outClosed, produced, totwritten>>
  BY DEF SendDone
<1>2. SendsAgree /\ Fits(outBuf, sentlen, reply) /\ CountIsExact /\ OutTypes /\ OutputIsServed /\ NothingIsLost
  BY DEF OutInv
<1>3. outIocp /\ ~fromMaster /\ sending \in Seq(SendReq) /\ EndsGrow(sending, sentlen)
  BY <1>1, <1>2 DEF SendsAgree, OutTypes
<1>4. sentlen \in Nat /\ outBuf \in Seq(Int) /\ Len(outBuf) \in Nat
  BY OutBytes, LenProperties
<1>5. t \in Seq(SendReq) /\ req \in SendReq
  BY <1>1, <1>3, PopHeadSequence
<1>6. /\ EndsGrow(t, sentlen) /\ (req.buf => req.end \in 1 .. sentlen)
      /\ req.buf /\ req.end = sentlen => EndsGrow(t, 0)
  BY <1>1, <1>3, <1>4, EndsGrowTail
<1>7. ASSUME req.buf, LastOfBuffer(req)
      PROVE  outBuf # <<>> /\ sentlen = Len(outBuf) /\ req.end = sentlen
  <2>1. Len(outBuf) = req.end /\ req.end \in 1 .. sentlen
    BY <1>6, <1>7 DEF LastOfBuffer
  <2>2. outBuf # <<>>
    BY <1>4, <2>1, EmptySeq
  <2>3. sentlen <= Len(outBuf)
    BY <1>2, <2>2 DEF Fits
  <2> QED
    BY <1>4, <2>1, <2>2, <2>3
<1>8. reply' = reply
  BY <1>1
<1>9. /\ Fits(outBuf, sentlen, reply)' /\ LeftOf(outBuf, sentlen, reply)' = LeftOf(outBuf, sentlen, reply)
      /\ EndsGrow(t, sentlen') /\ (outBuf' = <<>> => sentlen' = 0)
      /\ ~outClosed => (ends <=> OutputIsEmpty') /\ (OutputIsEmpty => ends)
  <2>1. CASE ~outClosed /\ req.buf /\ LastOfBuffer(req)
    <3>1. outBuf' = <<>> /\ sentlen' = 0 /\ buf = <<>>
      BY <1>1, <2>1
    <3>2. Fits(<<>>, 0, reply) /\ LeftOf(<<>>, 0, reply) = LeftOf(outBuf, sentlen, reply)
      BY <1>2, <1>7, <2>1, LeftReset
    <3>3. EndsGrow(t, 0)
      BY <1>6, <1>7, <2>1
    <3>4. (ends <=> OutputIsEmpty') /\ (OutputIsEmpty => ends)
      BY <1>8, <3>1 DEF OutputIsEmpty
    <3> HIDE DEF ends
    <3> QED
      BY <1>8, <3>1, <3>2, <3>3, <3>4
  <2>2. CASE ~(~outClosed /\ req.buf /\ LastOfBuffer(req))
    <3>1. ~outClosed => buf = outBuf
      BY <2>2
    <3>2. outBuf = <<>> => sentlen = 0
      BY <1>2, <1>3 DEF SendsAgree
    <3>3. outBuf' = outBuf /\ sentlen' = sentlen
      <4>1. CASE outClosed
        BY <1>1, <4>1
      <4>2. CASE ~outClosed
        <5>1. outBuf' = outBuf /\ sentlen' = IF ends THEN 0 ELSE sentlen
          BY <1>1, <2>2, <3>1, <4>2
        <5>2. ends => sentlen = 0
          BY <3>1, <3>2, <4>2
        <5> HIDE DEF ends
        <5> QED
          BY <5>1, <5>2
      <4> QED
        BY <4>1, <4>2
    <3>4. ~outClosed => (ends <=> OutputIsEmpty') /\ (OutputIsEmpty => ends)
      BY <1>8, <3>1, <3>3 DEF OutputIsEmpty
    <3> HIDE DEF ends
    <3> QED
      BY <1>2, <1>6, <1>8, <3>2, <3>3, <3>4
  <2> QED
    BY <2>1, <2>2
<1>10. ~outClosed => handler' = (handler /\ ~ends) /\ asap' = (asap \/ (ends /\ afterReply))
  BY <1>1
<1>11. outClosed => UNCHANGED <<handler, asap>>
  BY <1>1
<1> HIDE DEF ends, buf
<1>12. OutTypes'
  <2>1. wire' \in Seq(Int)
    <3>1. wire \in Seq(Int) /\ req.bytes \in Seq(Int)
      BY <1>2, <1>5 DEF OutTypes, SendReq
    <3> QED
      BY <1>1, <3>1, BytesInOrder
  <2>2. {handler', asap'} \subseteq BOOLEAN
    BY <1>2, <1>10, <1>11 DEF OutTypes
  <2>3. sending' \in Seq(SendReq)
    BY <1>1, <1>5
  <2>4. UNCHANGED <<outIocp, fromMaster, afterReply, outClosed, produced>>
    BY <1>1
  <2> QED
    BY <1>2, <2>1, <2>2, <2>3, <2>4 DEF OutTypes
<1>13. NothingIsLost'
  <2> DEFINE w == wire
             l == LeftOf(outBuf, sentlen, reply)
             p == produced
             j == Joined(t)
             x == req.bytes
  <2>1. w \in Seq(Int) /\ l \in Seq(Int) /\ x \in Seq(Int)
    BY <1>5, OutBytes DEF SendReq
  <2>2. j \in Seq(Int)
    BY <1>5, JoinedTypes, SendsHaveBytes
  <2>3. Joined(sending) = x \o j
    BY <1>1, <1>3, JoinedHead, SendsHaveBytes
  <2>4. NothingIsLost <=> InOrder(w, x \o j, l, p)
    BY <1>3, <2>3 DEF NothingIsLost
  <2>5. NothingIsLost' <=> InOrder(w \o x, j, l, p)
    <3>1. ~fromMaster' /\ wire' = w \o x /\ Joined(sending)' = j /\ produced' = p
      BY <1>1, <1>3
    <3>2. LeftOf(outBuf, sentlen, reply)' = l
      BY <1>9
    <3> HIDE DEF w, l, j, x, p
    <3> QED
      BY <3>1, <3>2 DEF NothingIsLost
  <2> HIDE DEF l, w, p, j, x
  <2>6. InOrder(w, x \o j, l, p) => InOrder(w \o x, j, l, p)
    BY <2>1, <2>2, OrderMoves
  <2> QED
    BY <1>2, <2>4, <2>5, <2>6
<1>14. CountIsExact'
  BY <1>1, <1>2 DEF CountIsExact
<1>15. SendsAgree'
  <2>1. outIocp' /\ ~fromMaster' /\ totwritten' = Idle /\ sending' = t
    BY <1>1, <1>3
  <2> QED
    BY <1>9, <2>1 DEF SendsAgree
<1>16. OutputIsServed'
  <2>1. outClosed' = outClosed /\ afterReply' = afterReply
    BY <1>1
  <2> QED
    BY <1>2, <1>9, <1>10, <2>1 DEF OutputIsServed
<1> QED
  BY <1>9, <1>12, <1>13, <1>14, <1>15, <1>16 DEF OutInv

LEMMA OutStep == OutInv /\ [OutNext]_outVars => OutInv'
<1> SUFFICES ASSUME OutInv, [OutNext]_outVars PROVE OutInv'
  OBVIOUS
<1>1. ASSUME NEW n \in 1 .. BUF_BYTES + 1, addReply(n) PROVE OutInv'
  BY <1>1, AddReplyKeeps
<1>2. ASSUME NEW n \in 1 .. BUF_BYTES + 1, WriteBuffer(n) PROVE OutInv'
  BY <1>2, WriteBufferKeeps
<1>3. ASSUME NEW n \in 1 .. BUF_BYTES + 1, WriteObject(n) PROVE OutInv'
  BY <1>3, WriteObjectKeeps
<1>4. CASE addDeferredMultiBulkLength
  BY <1>4, AddDeferredKeeps
<1>5. CASE setDeferredMultiBulkLength
  BY <1>5, SetDeferredKeeps
<1>6. CASE ReplyDropped \/ CloseAfterReply \/ FreeClientLater \/ SendFails \/ WriteEnds \/ SendEnds
  BY <1>6, QuietStepKeeps
<1>7. CASE sendReplyToClient
  BY <1>7, WritableKeeps
<1>8. CASE SendBuffer
  BY <1>8, SendBufferKeeps
<1>9. CASE SendObject
  BY <1>9, SendObjectKeeps
<1>10. CASE SendDone
  BY <1>10, SendDoneKeeps
<1>11. CASE UNCHANGED outVars
  <2>1. UNCHANGED <<outIocp, fromMaster, outBuf, sentlen, reply, reply_bytes, sending, wire, produced, totwritten>>
    BY <1>11 DEF outVars
  <2>2. UNCHANGED <<handler, afterReply, asap, outClosed>>
    BY <1>11 DEF outVars
  <2>3. {handler', afterReply', asap', outClosed'} \subseteq BOOLEAN
    BY <2>2 DEF OutInv, OutTypes
  <2>4. OutputIsServed'
    BY <2>1, <2>2 DEF OutInv, OutputIsServed, OutputIsEmpty
  <2> QED
    BY <2>1, <2>3, <2>4, NoByteMoves
<1> QED
  BY <1>1, <1>2, <1>3, <1>4, <1>5, <1>6, <1>7, <1>8, <1>9, <1>10, <1>11 DEF OutNext

LEMMA InvKeepsOrder == OutInv => RepliesInOrder
<1> SUFFICES ASSUME OutInv PROVE RepliesInOrder
  OBVIOUS
<1>1. OutputIsServed /\ CountIsExact /\ NothingIsLost
  BY DEF OutInv
<1>2. ~fromMaster => (wire \o Joined(sending)) \o LeftOf(outBuf, sentlen, reply) = [i \in 1 .. produced |-> i]
  BY <1>1 DEF NothingIsLost, InOrder
<1> DEFINE inBuf == IF outBuf = <<>> THEN 0 ELSE sentlen
           inObj == IF outBuf = <<>> THEN sentlen ELSE 0
           left  == Unsent(outBuf, inBuf) \o Unsent(Joined(reply), inObj)
<1>3. LeftOf(outBuf, sentlen, reply) = left
  BY DEF LeftOf
<1> HIDE DEF left
<1>4. ~fromMaster => wire \o Joined(sending) \o left = [i \in 1 .. produced |-> i]
  BY <1>2, <1>3
<1> QED
  BY <1>1, <1>4 DEF RepliesInOrder, left, OutputIsServed, CountIsExact

(* However commands, writes, queued sends and their callbacks interleave,  *)
(* whatever the sizes of the buffer and of the replies (networking.c,      *)
(* addReply ... sendReplyToClient, sendReplyBufferDone): what left, what   *)
(* is in flight and what waits are the replies in order, none lost or sent *)
(* twice, something will send what waits, and reply_bytes is exact.        *)
THEOREM RepliesInOrderAlways == OutInit /\ [][OutNext]_outVars => []RepliesInOrder
<1>1. OutInit => OutInv
  BY OutInitInv
<1>2. OutInv /\ [OutNext]_outVars => OutInv'
  BY OutStep
<1>3. OutInv => RepliesInOrder
  BY InvKeepsOrder
<1> QED
  BY <1>1, <1>2, <1>3, PTL

----------------------------------------------------------------------------
(* The input of a client: what was read and what is on the way are the     *)
(* requests that are left, from the place where processInputBuffer is.     *)

(* Joined by its own operator: the lemmas are about it.                    *)
Cat(s, t) == s \o t
CRLF == <<CR, LF>>

(* A request in the stream: its first line, what follows that line, and    *)
(* the line before the argument k + 1 or at its end.                       *)
HeadLine(r) ==
    CASE r.type \in {"multibulk", "badbulk"} -> <<Tok("*", ArgCount(r))>>
      [] r.type = "badcount" -> <<Tok("*", Invalid)>>
      [] r.type = "inline"   -> InlineOf(r.args)[Len(r.args)]
      [] r.type = "endless"  -> r.line
Arguments(r) == IF r.type \in {"multibulk", "badbulk"} THEN Cat(BulksOf(r.args)[Len(r.args)], Ending(r)) ELSE <<>>
LineAt(r, k) == IF k < Len(r.args) THEN <<Tok("$", Len(r.args[k + 1]))>> ELSE r.line

(* The first of the last i requests, and what follows its first k arguments. *)
NextRequest(rs, i) == rs[Len(rs) + 1 - i]
After(rs, i, k) ==
    Cat(Cat(BulksOf(NextRequest(rs, i).args)[Len(NextRequest(rs, i).args) - k], Ending(NextRequest(rs, i))), Stream(rs)[i - 1])

(* When the client is waited for, the next item is not complete.           *)
IsShort(n) == at = "idle" /\ ~inBlocked /\ ~inFreed /\ querybuf # <<>> => Len(querybuf) < n
Unread == Cat(From(querybuf, pos), incoming)

TypesOf(r) ==
    CASE r.type = "inline"  -> {"none", "inline"}
      [] r.type = "endless" -> {"none", "inline", "multibulk"}
      [] OTHER              -> {"none", "multibulk"}
FirstLength(r) == IF r.type = "endless" THEN INLINE_MAX + 1 ELSE Len(HeadLine(r)) + 2

(* Between two requests: i are left.                                       *)
Between(i) ==
    /\ at # "bulk" /\ multibulklen = 0 /\ pos = 0 /\ bulklen = None /\ argv = <<>>
    /\ Cat(querybuf, incoming) = Stream(requests)[i]
    /\ i > 0 => /\ reqtype \in TypesOf(NextRequest(requests, i))
                /\ IsShort(FirstLength(NextRequest(requests, i)))

(* Inside the request r, of which k arguments were read.                   *)
Inside(i, r, k) ==
    /\ i > 0 /\ r.type \in {"multibulk", "badbulk"} /\ reqtype = "multibulk"
    /\ pos <= Len(querybuf)
    /\ k <= Len(r.args) /\ argv = SubSeq(r.args, 1, k)
    /\ multibulklen = ArgCount(r) - k
    /\ at # "bulk" => pos = 0 /\ multibulklen > 0
    /\ bulklen = None => Unread = After(requests, i, k) /\ IsShort(Len(LineAt(r, k)) + 2)
    /\ bulklen # None => /\ k < Len(r.args) /\ bulklen = Len(r.args[k + 1])
                         /\ Unread = Cat(Cat(r.args[k + 1], CRLF), After(requests, i, k + 1))
                         /\ IsShort(bulklen + 2)

(* What was read is a read and an item that was not complete, unless the   *)
(* client was blocked.                                                     *)
Bounded(i) ==
    \/ wasBlocked \/ IsClosing
    \/ Len(querybuf) <= BIG_ARG + 1 + IOBUF_LEN
    \/ bulklen >= BIG_ARG /\ pos = 0 /\ Len(querybuf) <= bulklen + 2
    \/ /\ at # "bulk" /\ multibulklen = 0 /\ i > 0 /\ NextRequest(requests, i).type = "inline"
       /\ Len(querybuf) <= Len(HeadLine(NextRequest(requests, i))) + 1 + IOBUF_LEN

(* All requests but the last i were executed, and the connection is open.  *)
Served(i) ==
    /\ ~inAfterReply
    /\ executed = CommandsTo(requests)[Len(requests) - i]
    /\ \A j \in 1 .. Len(requests) - i : ~Ends(requests[j])

Reading(i) ==
    /\ Served(i)
    /\ Between(i) \/ Inside(i, NextRequest(requests, i), Len(argv))
    /\ Bounded(i)

InputClosed == inAfterReply /\ at # "bulk" /\ IsPrefix(executed, Expected) /\ (wasBlocked \/ IsClosing)

InputTypes ==
    /\ requests \in Streams
    /\ incoming \in Seq(Token) /\ querybuf \in Seq(Token) /\ reqtype \in {"none", "inline", "multibulk"}
    /\ multibulklen \in Nat /\ bulklen \in Nat \cup {None} /\ argv \in Seq(Seq(Token))
    /\ at \in {"idle", "top", "bulk"} /\ pos \in Nat
    /\ inBlocked \in BOOLEAN /\ wasBlocked \in BOOLEAN /\ inAfterReply \in BOOLEAN /\ inFreed \in BOOLEAN
    /\ inBlocked => wasBlocked /\ at # "bulk"

InputInv == InputTypes /\ (InputClosed \/ \E i \in 0 .. Len(requests) : Reading(i))

----------------------------------------------------------------------------
(* The input of a client: sequences that are read from their beginning.    *)

\* A sequence and one after it (sdscatlen).
LEMMA CatIs ==
    ASSUME NEW S, NEW s \in Seq(S), NEW t \in Seq(S)
    PROVE  /\ Cat(s, t) \in Seq(S)
           /\ Len(Cat(s, t)) = Len(s) + Len(t) /\ Len(s) \in Nat /\ Len(t) \in Nat
           /\ \A i \in 1 .. Len(s) + Len(t) : Cat(s, t)[i] = IF i <= Len(s) THEN s[i] ELSE t[i - Len(s)]
  BY LenProperties, ConcatProperties DEF Cat

\* Three sequences one after the other, and the empty one.
LEMMA CatFlat ==
    ASSUME NEW S, NEW s \in Seq(S), NEW t \in Seq(S), NEW u \in Seq(S)
    PROVE  /\ Cat(Cat(s, t), u) = Cat(s, Cat(t, u))
           /\ Cat(s, <<>>) = s /\ Cat(<<>>, s) = s
  BY ConcatAssociative, ConcatEmptySeq DEF Cat

\* What is left of the buffer when a prefix is consumed (sdsrange).
LEMMA FromIs ==
    ASSUME NEW S, NEW s \in Seq(S), NEW n \in 0 .. Len(s)
    PROVE  /\ From(s, n) \in Seq(S)
           /\ Len(From(s, n)) = Len(s) - n /\ Len(s) \in Nat
           /\ \A i \in 1 .. Len(s) - n : From(s, n)[i] = s[n + i]
<1>1. Len(s) \in Nat /\ \A i \in 1 .. Len(s) : s[i] \in S
  BY LenProperties, ElementOfSeq
<1>2. \A i \in n + 1 .. Len(s) : s[i] \in S
  BY <1>1
<1>3. n + 1 \in Int /\ Len(s) \in Int
  BY <1>1
<1>4. /\ From(s, n) \in Seq(S)
      /\ Len(From(s, n)) = IF n + 1 <= Len(s) THEN Len(s) - (n + 1) + 1 ELSE 0
      /\ \A i \in 1 .. Len(s) - (n + 1) + 1 : From(s, n)[i] = s[n + 1 + i - 1]
  BY <1>2, <1>3, SubSeqProperties DEF From
<1>5. Len(From(s, n)) = Len(s) - n
  BY <1>1, <1>4
<1>6. ASSUME NEW i \in 1 .. Len(s) - n PROVE From(s, n)[i] = s[n + i]
  <2>1. i \in 1 .. Len(s) - (n + 1) + 1 /\ n + 1 + i - 1 = n + i
    BY <1>1
  <2> QED
    BY <1>4, <2>1
<1> QED
  BY <1>1, <1>4, <1>5, <1>6

\* Nothing, everything, or two prefixes are consumed.
LEMMA FromTo ==
    ASSUME NEW S, NEW s \in Seq(S), NEW n \in 0 .. Len(s)
    PROVE  /\ From(s, 0) = s
           /\ From(s, Len(s)) = <<>>
           /\ \A k \in 0 .. Len(s) - n : From(From(s, n), k) = From(s, n + k)
<1>1. Len(s) \in Nat
  BY LenProperties
<1>2. From(s, 0) = s
  BY SubSeqFull DEF From
<1>3. From(s, Len(s)) = <<>>
  BY <1>1, SubSeqEmpty DEF From
<1>4. ASSUME NEW k \in 0 .. Len(s) - n PROVE From(From(s, n), k) = From(s, n + k)
  <2> DEFINE f == From(s, n)  g == From(f, k)  h == From(s, n + k)
  <2>1. f \in Seq(S) /\ Len(f) = Len(s) - n /\ \A i \in 1 .. Len(s) - n : f[i] = s[n + i]
    BY FromIs
  <2>2. k \in 0 .. Len(f) /\ n + k \in 0 .. Len(s)
    BY <1>1, <2>1
  <2>3. g \in Seq(S) /\ Len(g) = Len(f) - k /\ \A i \in 1 .. Len(f) - k : g[i] = f[k + i]
    BY <2>1, <2>2, FromIs
  <2>4. h \in Seq(S) /\ Len(h) = Len(s) - (n + k) /\ \A i \in 1 .. Len(s) - (n + k) : h[i] = s[n + k + i]
    BY <2>2, FromIs
  <2> HIDE DEF f, g, h
  <2>5. Len(g) = Len(h)
    BY <1>1, <2>1, <2>3, <2>4
  <2>6. ASSUME NEW i \in 1 .. Len(g) PROVE g[i] = h[i]
    <3>1. i \in 1 .. Len(f) - k /\ i \in 1 .. Len(s) - (n + k) /\ k + i \in 1 .. Len(s) - n /\ n + (k + i) = n + k + i
      BY <1>1, <2>1, <2>3
    <3> QED
      BY <2>1, <2>3, <2>4, <3>1
  <2>7. g = h
    BY <2>3, <2>4, <2>5, <2>6, SeqEqual
  <2> QED
    BY <2>7 DEF f, g, h
<1> QED
  BY <1>2, <1>3, <1>4

\* What is read moves from the socket to the buffer.
LEMMA ReadIs ==
    ASSUME NEW S, NEW s \in Seq(S), NEW t \in Seq(S), NEW n \in 1 .. Len(t)
    PROVE  /\ Cat(s, SubSeq(t, 1, n)) \in Seq(S) /\ From(t, n) \in Seq(S)
           /\ Len(Cat(s, SubSeq(t, 1, n))) = Len(s) + n /\ Len(s) \in Nat
           /\ Cat(Cat(s, SubSeq(t, 1, n)), From(t, n)) = Cat(s, t)
<1>1. Len(t) \in Nat /\ Len(s) \in Nat /\ \A i \in 1 .. n : t[i] \in S
  BY LenProperties, ElementOfSeq
<1> DEFINE u == SubSeq(t, 1, n)
<1>2. u \in Seq(S) /\ Len(u) = n
  <2>1. 1 \in Int /\ n \in Int /\ 1 <= n /\ n - 1 + 1 = n
    OBVIOUS
  <2> QED
    BY <1>1, <2>1, SubSeqProperties
<1>3. From(t, n) \in Seq(S)
  BY FromIs
<1>4. Cat(u, From(t, n)) = t
  <2>1. 1 \in 1 .. Len(t) + 1 /\ n \in 1 - 1 .. Len(t) /\ Len(t) \in n .. Len(t)
    BY <1>1
  <2>2. SubSeq(t, 1, n) \o SubSeq(t, n + 1, Len(t)) = SubSeq(t, 1, Len(t))
    BY <2>1, ConcatAdjacentSubSeq
  <2> QED
    BY <2>2, SubSeqFull DEF Cat, From
<1>5. Cat(s, u) \in Seq(S) /\ Len(Cat(s, u)) = Len(s) + n
  BY <1>2, CatIs
<1> HIDE DEF u
<1>6. Cat(Cat(s, u), From(t, n)) = Cat(s, t)
  BY <1>2, <1>3, <1>4, CatFlat
<1> QED
  BY <1>1, <1>3, <1>5, <1>6 DEF u

\* What is complete in the buffer is cut off.
LEMMA CutIs ==
    ASSUME NEW S, NEW q \in Seq(S), NEW inc \in Seq(S), NEW item \in Seq(S), NEW more \in Seq(S),
           Cat(q, inc) = Cat(item, more), Len(item) <= Len(q)
    PROVE  /\ From(q, Len(item)) \in Seq(S)
           /\ Cat(From(q, Len(item)), inc) = more
           /\ \A k \in 1 .. Len(item) : q[k] = item[k]
<1> DEFINE n == Len(item)  f == From(q, n)
<1>1. n \in Nat /\ Len(q) \in Nat /\ Len(inc) \in Nat /\ Len(more) \in Nat
  BY LenProperties
<1>2. n \in 0 .. Len(q)
  BY <1>1
<1>3. f \in Seq(S) /\ Len(f) = Len(q) - n /\ \A i \in 1 .. Len(q) - n : f[i] = q[n + i]
  BY <1>2, FromIs
<1> HIDE DEF n, f
<1>4. /\ Len(Cat(q, inc)) = Len(q) + Len(inc)
      /\ \A i \in 1 .. Len(q) + Len(inc) : Cat(q, inc)[i] = IF i <= Len(q) THEN q[i] ELSE inc[i - Len(q)]
  BY CatIs
<1>5. /\ Len(Cat(q, inc)) = n + Len(more)
      /\ \A i \in 1 .. n + Len(more) : Cat(q, inc)[i] = IF i <= n THEN item[i] ELSE more[i - n]
  <2>1. /\ Len(Cat(item, more)) = Len(item) + Len(more)
        /\ \A i \in 1 .. Len(item) + Len(more) : Cat(item, more)[i] = IF i <= Len(item) THEN item[i] ELSE more[i - Len(item)]
    BY CatIs
  <2> QED
    BY <2>1 DEF n
<1>6. /\ Cat(f, inc) \in Seq(S) /\ Len(Cat(f, inc)) = Len(f) + Len(inc)
      /\ \A i \in 1 .. Len(f) + Len(inc) : Cat(f, inc)[i] = IF i <= Len(f) THEN f[i] ELSE inc[i - Len(f)]
  <2>1. f \in Seq(S)
    BY <1>3
  <2>2. Cat(f, inc) \in Seq(S) /\ Len(Cat(f, inc)) = Len(f) + Len(inc)
    BY <2>1, CatIs
  <2>3. \A i \in 1 .. Len(f) + Len(inc) : Cat(f, inc)[i] = IF i <= Len(f) THEN f[i] ELSE inc[i - Len(f)]
    BY <2>1, CatIs
  <2> QED
    BY <2>2, <2>3
<1>7. Len(Cat(f, inc)) = Len(more)
  <2>1. Len(q) + Len(inc) = n + Len(more)
    BY <1>4, <1>5
  <2>2. Len(Cat(f, inc)) = Len(f) + Len(inc) /\ Len(f) = Len(q) - n
    BY <1>3, <1>6
  <2> QED
    BY <1>1, <2>1, <2>2
<1>8. ASSUME NEW i \in 1 .. Len(more) PROVE Cat(f, inc)[i] = more[i]
  <2>1. n + i \in 1 .. n + Len(more) /\ ~(n + i <= n) /\ (n + i) - n = i
    BY <1>1
  <2>2. Cat(q, inc)[n + i] = more[i]
    BY <1>5, <2>1
  <2>3. i \in 1 .. Len(f) + Len(inc) /\ n + i \in 1 .. Len(q) + Len(inc)
    BY <1>1, <1>2, <1>6, <1>7, <1>4, <1>5
  <2>4. CASE i <= Len(f)
    <3>1. i \in 1 .. Len(q) - n /\ n + i <= Len(q)
      BY <1>1, <1>2, <1>3, <2>4
    <3> QED
      BY <1>3, <1>4, <1>6, <2>2, <2>3, <2>4, <3>1
  <2>5. CASE ~(i <= Len(f))
    <3>1. i - Len(f) = (n + i) - Len(q) /\ ~(n + i <= Len(q))
      BY <1>1, <1>2, <1>3, <2>5
    <3> QED
      BY <1>4, <1>6, <2>2, <2>3, <2>5, <3>1
  <2> QED
    BY <2>4, <2>5
<1>9. Cat(f, inc) = more
  BY <1>6, <1>7, <1>8, SeqEqual
<1>10. ASSUME NEW k \in 1 .. n PROVE q[k] = item[k]
  <2>1. k <= n /\ k <= Len(q) /\ k \in 1 .. n + Len(more) /\ k \in 1 .. Len(q) + Len(inc)
    BY <1>1, <1>2
  <2> QED
    BY <1>4, <1>5, <2>1
<1> QED
  BY <1>3, <1>9, <1>10 DEF n, f

\* What is not is the beginning of what comes.
LEMMA ShortIs ==
    ASSUME NEW S, NEW q \in Seq(S), NEW inc \in Seq(S), NEW item \in Seq(S), NEW more \in Seq(S),
           Cat(q, inc) = Cat(item, more), Len(q) < Len(item)
    PROVE  /\ \A k \in 1 .. Len(q) : q[k] = item[k]
           /\ inc # <<>>
<1>1. Len(item) \in Nat /\ Len(q) \in Nat /\ Len(inc) \in Nat /\ Len(more) \in Nat
  BY LenProperties
<1>2. /\ Len(Cat(q, inc)) = Len(q) + Len(inc)
      /\ \A i \in 1 .. Len(q) + Len(inc) : Cat(q, inc)[i] = IF i <= Len(q) THEN q[i] ELSE inc[i - Len(q)]
  BY CatIs
<1>3. /\ Len(Cat(q, inc)) = Len(item) + Len(more)
      /\ \A i \in 1 .. Len(item) + Len(more) : Cat(q, inc)[i] = IF i <= Len(item) THEN item[i] ELSE more[i - Len(item)]
  BY CatIs
<1>4. ASSUME NEW k \in 1 .. Len(q) PROVE q[k] = item[k]
  <2>1. k <= Len(q) /\ k <= Len(item) /\ k \in 1 .. Len(item) + Len(more) /\ k \in 1 .. Len(q) + Len(inc)
    BY <1>1
  <2> QED
    BY <1>2, <1>3, <2>1
<1>5. Len(inc) # 0
  BY <1>1, <1>2, <1>3
<1>6. inc # <<>>
  BY <1>5, EmptySeq
<1> QED
  BY <1>4, <1>6

----------------------------------------------------------------------------
(* The encodings of requests.                                              *)

\* A recursive function whose steps stay in a set.
LEMMA StaysIn ==
    ASSUME NEW X, NEW n \in Nat, NEW f, f[0] \in X, \A k \in 1 .. n : f[k - 1] \in X => f[k] \in X
    PROVE  \A k \in 0 .. n : f[k] \in X
<1> DEFINE P == {k \in 0 .. n : f[k] \in X}
<1>1. 0 \in P
  OBVIOUS
<1>2. ASSUME NEW k \in 1 .. n, k - 1 \in P PROVE k \in P
  BY <1>2
<1>3. \A k \in 0 .. n : k \in P
  <2> HIDE DEF P
  <2> QED
    BY <1>1, <1>2, UpTo
<1> QED
  BY <1>3

\* The tokens of the stream.
LEMMA TokensAre ==
    /\ CR \in Token /\ LF \in Token /\ Space \in Token /\ Quit \in Token
    /\ \A v \in Int : Tok("*", v) \in Token /\ Tok("$", v) \in Token
    /\ CRLF \in Seq(Token) /\ Len(CRLF) = 2 /\ CRLF[1] = CR /\ CRLF[2] = LF
    /\ CR # LF /\ CR # Space /\ LF # Space
<1>1. /\ CR \in Token /\ LF \in Token /\ Space \in Token /\ Quit \in Token
      /\ \A v \in Int : Tok("*", v) \in Token /\ Tok("$", v) \in Token
  BY DEF CR, LF, Space, Quit, Tok, Token
<1>2. CR # LF /\ CR # Space /\ LF # Space
  BY DEF CR, LF, Space, Tok
<1>3. CRLF \in Seq(Token) /\ Len(CRLF) = 2 /\ CRLF[1] = CR /\ CRLF[2] = LF
  BY <1>1 DEF CRLF
<1> QED
  BY <1>1, <1>2, <1>3

\* An argument as a client writes it: its length, then itself.
LEMMA BulkIs ==
    ASSUME NEW arg \in Seq(Token)
    PROVE  /\ Bulk(arg) \in Seq(Token)
           /\ <<Tok("$", Len(arg))>> \in Seq(Token)
           /\ Bulk(arg) = Cat(Cat(<<Tok("$", Len(arg))>>, CRLF), Cat(arg, CRLF))
<1> DEFINE t == Tok("$", Len(arg))
<1>1. t \in Token
  BY TokensAre, LenProperties
<1> HIDE DEF t
<1>2. <<t>> \in Seq(Token) /\ <<t, CR, LF>> \in Seq(Token) /\ CRLF \in Seq(Token)
  BY <1>1, TokensAre
<1>3. <<t, CR, LF>> = Cat(<<t>>, CRLF)
  <2> DEFINE b == <<t>>  u == Cat(b, CRLF)  w == <<t, CR, LF>>
  <2>1. b \in Seq(Token) /\ Len(b) = 1 /\ b[1] = t
    BY <1>2
  <2>2. w \in Seq(Token) /\ Len(w) = 3 /\ w[1] = t /\ w[2] = CR /\ w[3] = LF
    BY <1>2
  <2> HIDE DEF b, w
  <2>3. /\ u \in Seq(Token) /\ Len(u) = Len(b) + Len(CRLF)
        /\ \A i \in 1 .. Len(b) + Len(CRLF) : u[i] = IF i <= Len(b) THEN b[i] ELSE CRLF[i - Len(b)]
    BY <1>2, <2>1, CatIs
  <2> HIDE DEF u
  <2>4. Len(u) = 3 /\ u[1] = t /\ u[2] = CR /\ u[3] = LF
    BY <2>1, <2>3, TokensAre
  <2>5. \A i \in 1 .. Len(u) : u[i] = w[i]
    BY <2>2, <2>4
  <2>6. u = w
    BY <2>2, <2>3, <2>4, <2>5, SeqEqual
  <2> QED
    BY <2>6 DEF u, w, b
<1>4. Cat(Cat(<<t, CR, LF>>, arg), CRLF) = Cat(<<t, CR, LF>>, Cat(arg, CRLF))
  <2> DEFINE w == <<t, CR, LF>>
  <2> HIDE DEF w
  <2>1. w \in Seq(Token)
    BY <1>2 DEF w
  <2>2. Cat(Cat(w, arg), CRLF) = Cat(w, Cat(arg, CRLF))
    BY <2>1, <1>2, CatFlat
  <2> QED
    BY <2>2 DEF w
<1>5. Cat(Cat(<<t, CR, LF>>, arg), CRLF) \in Seq(Token)
  BY <1>2, CatIs
<1>6. Bulk(arg) = Cat(Cat(<<t, CR, LF>>, arg), CRLF)
  BY DEF Bulk, Cat, CRLF, t
<1> QED
  BY <1>2, <1>3, <1>4, <1>5, <1>6 DEF t

\* The recursive definitions have solutions.
LEMMA BulksOfIs ==
    ASSUME NEW args \in Seq(Seq(Token))
    PROVE  /\ BulksOf(args)[0] = <<>>
           /\ \A k \in 1 .. Len(args) : BulksOf(args)[k] = Bulk(args[Len(args) + 1 - k]) \o BulksOf(args)[k - 1]
<1> DEFINE n == Len(args)
           Val(f, k) == IF k = 0 THEN <<>> ELSE Bulk(args[Len(args) + 1 - k]) \o f[k - 1]
           Good(f, m) == f = [k \in 0 .. m |-> Val(f, k)]
           P == {m \in 0 .. n : \E f : Good(f, m)}
<1>1. n \in Nat
  BY LenProperties
<1>2. 0 \in P
  <2>1. Good([k \in 0 .. 0 |-> <<>>], 0)
    OBVIOUS
  <2>2. 0 \in 0 .. n
    BY <1>1
  <2> HIDE DEF Good, n
  <2> QED
    BY <2>1, <2>2
<1>3. ASSUME NEW m \in 1 .. n, m - 1 \in P PROVE m \in P
  <2>1. m \in Nat \ {0}
    BY <1>1
  <2>2. PICK f : Good(f, m - 1)
    BY <1>3
  <2> DEFINE g == [k \in 0 .. m |-> IF k = m THEN Val(f, m) ELSE f[k]]
  <2>3. ASSUME NEW k \in 0 .. m PROVE g[k] = Val(g, k)
    <3>1. CASE k = 0
      BY <2>1, <2>2, <3>1
    <3>2. CASE k # 0
      <4>1. k - 1 \in 0 .. m /\ k - 1 # m /\ g[k - 1] = f[k - 1]
        BY <2>1, <3>2
      <4>2. CASE k = m
        BY <3>2, <4>1, <4>2
      <4>3. CASE k # m
        <5>1. k \in 0 .. m - 1
          BY <2>1, <4>3
        <5>2. f[k] = Val(f, k)
          BY <2>2, <5>1
        <5> QED
          BY <3>2, <4>1, <4>3, <5>2
      <4> QED
        BY <4>2, <4>3
    <3> QED
      BY <3>1, <3>2
  <2>4. g = [k \in 0 .. m |-> g[k]]
    OBVIOUS
  <2> HIDE DEF Val, g
  <2>5. Good(g, m)
    BY <2>3, <2>4
  <2> HIDE DEF Good, n
  <2> QED
    BY <2>5
<1>4. n \in P
  <2> HIDE DEF P, n
  <2>1. \A k \in 0 .. n : k \in P
    BY <1>1, <1>2, <1>3, UpTo
  <2> QED
    BY <1>1, <2>1
<1>5. BulksOf(args) = CHOOSE f : Good(f, n)
  BY DEF BulksOf
<1>6. Good(BulksOf(args), n)
  <2> HIDE DEF Good, n
  <2> QED
    BY <1>4, <1>5
<1> DEFINE g == BulksOf(args)
<1>7. g = [k \in 0 .. n |-> Val(g, k)]
  BY <1>6
<1> HIDE DEF g, Val, n
<1>8. \A k \in 0 .. n : g[k] = Val(g, k)
  BY <1>7
<1>9. g[0] = <<>>
  <2>1. 0 \in 0 .. n
    BY <1>1
  <2>2. Val(g, 0) = <<>>
    BY Zenon DEF Val
  <2> QED
    BY <1>8, <2>1, <2>2
<1>10. ASSUME NEW k \in 1 .. n PROVE g[k] = Bulk(args[Len(args) + 1 - k]) \o g[k - 1]
  <2>1. k \in 0 .. n /\ k # 0
    BY <1>1
  <2> QED
    BY <1>8, <2>1 DEF Val
<1> QED
  BY <1>9, <1>10 DEF g, n

\* The words of a line likewise.
LEMMA InlineOfIs ==
    ASSUME NEW args \in Seq(Seq(Token))
    PROVE  /\ InlineOf(args)[0] = <<>>
           /\ \A k \in 1 .. Len(args) : InlineOf(args)[k] = InlineOf(args)[k - 1] \o (<<Space>> \o args[k] \o <<Space>>)
<1> DEFINE n == Len(args)
           Val(f, k) == IF k = 0 THEN <<>> ELSE f[k - 1] \o (<<Space>> \o args[k] \o <<Space>>)
           Good(f, m) == f = [k \in 0 .. m |-> Val(f, k)]
           P == {m \in 0 .. n : \E f : Good(f, m)}
<1>1. n \in Nat
  BY LenProperties
<1>2. 0 \in P
  <2>1. Good([k \in 0 .. 0 |-> <<>>], 0)
    OBVIOUS
  <2>2. 0 \in 0 .. n
    BY <1>1
  <2> HIDE DEF Good, n
  <2> QED
    BY <2>1, <2>2
<1>3. ASSUME NEW m \in 1 .. n, m - 1 \in P PROVE m \in P
  <2>1. m \in Nat \ {0}
    BY <1>1
  <2>2. PICK f : Good(f, m - 1)
    BY <1>3
  <2> DEFINE g == [k \in 0 .. m |-> IF k = m THEN Val(f, m) ELSE f[k]]
  <2>3. ASSUME NEW k \in 0 .. m PROVE g[k] = Val(g, k)
    <3>1. CASE k = 0
      BY <2>1, <2>2, <3>1
    <3>2. CASE k # 0
      <4>1. k - 1 \in 0 .. m /\ k - 1 # m /\ g[k - 1] = f[k - 1]
        BY <2>1, <3>2
      <4>2. CASE k = m
        BY <3>2, <4>1, <4>2
      <4>3. CASE k # m
        <5>1. k \in 0 .. m - 1
          BY <2>1, <4>3
        <5>2. f[k] = Val(f, k)
          BY <2>2, <5>1
        <5> QED
          BY <3>2, <4>1, <4>3, <5>2
      <4> QED
        BY <4>2, <4>3
    <3> QED
      BY <3>1, <3>2
  <2>4. g = [k \in 0 .. m |-> g[k]]
    OBVIOUS
  <2> HIDE DEF Val, g
  <2>5. Good(g, m)
    BY <2>3, <2>4
  <2> HIDE DEF Good, n
  <2> QED
    BY <2>5
<1>4. n \in P
  <2> HIDE DEF P, n
  <2>1. \A k \in 0 .. n : k \in P
    BY <1>1, <1>2, <1>3, UpTo
  <2> QED
    BY <1>1, <2>1
<1>5. InlineOf(args) = CHOOSE f : Good(f, n)
  BY DEF InlineOf
<1>6. Good(InlineOf(args), n)
  <2> HIDE DEF Good, n
  <2> QED
    BY <1>4, <1>5
<1> DEFINE g == InlineOf(args)
<1>7. g = [k \in 0 .. n |-> Val(g, k)]
  BY <1>6
<1> HIDE DEF g, Val, n
<1>8. \A k \in 0 .. n : g[k] = Val(g, k)
  BY <1>7
<1>9. g[0] = <<>>
  <2>1. 0 \in 0 .. n
    BY <1>1
  <2>2. Val(g, 0) = <<>>
    BY Zenon DEF Val
  <2> QED
    BY <1>8, <2>1, <2>2
<1>10. ASSUME NEW k \in 1 .. n PROVE g[k] = g[k - 1] \o (<<Space>> \o args[k] \o <<Space>>)
  <2>1. k \in 0 .. n /\ k # 0
    BY <1>1
  <2> QED
    BY <1>8, <2>1 DEF Val
<1> QED
  BY <1>9, <1>10 DEF g, n

\* The stream of requests likewise.
LEMMA StreamOfIs ==
    ASSUME NEW rs \in Seq(Request)
    PROVE  /\ Stream(rs)[0] = <<>>
           /\ \A k \in 1 .. Len(rs) : Stream(rs)[k] = Encode(rs[Len(rs) + 1 - k]) \o Stream(rs)[k - 1]
<1> DEFINE n == Len(rs)
           Val(f, k) == IF k = 0 THEN <<>> ELSE Encode(rs[Len(rs) + 1 - k]) \o f[k - 1]
           Good(f, m) == f = [k \in 0 .. m |-> Val(f, k)]
           P == {m \in 0 .. n : \E f : Good(f, m)}
<1>1. n \in Nat
  BY LenProperties
<1>2. 0 \in P
  <2>1. Good([k \in 0 .. 0 |-> <<>>], 0)
    OBVIOUS
  <2>2. 0 \in 0 .. n
    BY <1>1
  <2> HIDE DEF Good, n
  <2> QED
    BY <2>1, <2>2
<1>3. ASSUME NEW m \in 1 .. n, m - 1 \in P PROVE m \in P
  <2>1. m \in Nat \ {0}
    BY <1>1
  <2>2. PICK f : Good(f, m - 1)
    BY <1>3
  <2> DEFINE g == [k \in 0 .. m |-> IF k = m THEN Val(f, m) ELSE f[k]]
  <2>3. ASSUME NEW k \in 0 .. m PROVE g[k] = Val(g, k)
    <3>1. CASE k = 0
      BY <2>1, <2>2, <3>1
    <3>2. CASE k # 0
      <4>1. k - 1 \in 0 .. m /\ k - 1 # m /\ g[k - 1] = f[k - 1]
        BY <2>1, <3>2
      <4>2. CASE k = m
        BY <3>2, <4>1, <4>2
      <4>3. CASE k # m
        <5>1. k \in 0 .. m - 1
          BY <2>1, <4>3
        <5>2. f[k] = Val(f, k)
          BY <2>2, <5>1
        <5> QED
          BY <3>2, <4>1, <4>3, <5>2
      <4> QED
        BY <4>2, <4>3
    <3> QED
      BY <3>1, <3>2
  <2>4. g = [k \in 0 .. m |-> g[k]]
    OBVIOUS
  <2> HIDE DEF Val, g
  <2>5. Good(g, m)
    BY <2>3, <2>4
  <2> HIDE DEF Good, n
  <2> QED
    BY <2>5
<1>4. n \in P
  <2> HIDE DEF P, n
  <2>1. \A k \in 0 .. n : k \in P
    BY <1>1, <1>2, <1>3, UpTo
  <2> QED
    BY <1>1, <2>1
<1>5. Stream(rs) = CHOOSE f : Good(f, n)
  BY DEF Stream
<1>6. Good(Stream(rs), n)
  <2> HIDE DEF Good, n
  <2> QED
    BY <1>4, <1>5
<1> DEFINE g == Stream(rs)
<1>7. g = [k \in 0 .. n |-> Val(g, k)]
  BY <1>6
<1> HIDE DEF g, Val, n
<1>8. \A k \in 0 .. n : g[k] = Val(g, k)
  BY <1>7
<1>9. g[0] = <<>>
  <2>1. 0 \in 0 .. n
    BY <1>1
  <2>2. Val(g, 0) = <<>>
    BY Zenon DEF Val
  <2> QED
    BY <1>8, <2>1, <2>2
<1>10. ASSUME NEW k \in 1 .. n PROVE g[k] = Encode(rs[Len(rs) + 1 - k]) \o g[k - 1]
  <2>1. k \in 0 .. n /\ k # 0
    BY <1>1
  <2> QED
    BY <1>8, <2>1 DEF Val
<1> QED
  BY <1>9, <1>10 DEF g, n

\* The commands of the requests likewise.
LEMMA CommandsToIs ==
    ASSUME NEW rs \in Seq(Request)
    PROVE  /\ CommandsTo(rs)[0] = <<>>
           /\ \A k \in 1 .. Len(rs) :
                CommandsTo(rs)[k] = IF Malformed(rs[k]) \/ rs[k].args = <<>> THEN CommandsTo(rs)[k - 1]
                                    ELSE Append(CommandsTo(rs)[k - 1], rs[k].args)
<1> DEFINE n == Len(rs)
           Val(f, k) == IF k = 0 THEN <<>>
                        ELSE IF Malformed(rs[k]) \/ rs[k].args = <<>> THEN f[k - 1]
                        ELSE Append(f[k - 1], rs[k].args)
           Good(f, m) == f = [k \in 0 .. m |-> Val(f, k)]
           P == {m \in 0 .. n : \E f : Good(f, m)}
<1>1. n \in Nat
  BY LenProperties
<1>2. 0 \in P
  <2>1. Good([k \in 0 .. 0 |-> <<>>], 0)
    OBVIOUS
  <2>2. 0 \in 0 .. n
    BY <1>1
  <2> HIDE DEF Good, n
  <2> QED
    BY <2>1, <2>2
<1>3. ASSUME NEW m \in 1 .. n, m - 1 \in P PROVE m \in P
  <2>1. m \in Nat \ {0}
    BY <1>1
  <2>2. PICK f : Good(f, m - 1)
    BY <1>3
  <2> DEFINE g == [k \in 0 .. m |-> IF k = m THEN Val(f, m) ELSE f[k]]
  <2>3. ASSUME NEW k \in 0 .. m PROVE g[k] = Val(g, k)
    <3>1. CASE k = 0
      BY <2>1, <2>2, <3>1
    <3>2. CASE k # 0
      <4>1. k - 1 \in 0 .. m /\ k - 1 # m /\ g[k - 1] = f[k - 1]
        BY <2>1, <3>2
      <4>2. CASE k = m
        BY <3>2, <4>1, <4>2
      <4>3. CASE k # m
        <5>1. k \in 0 .. m - 1
          BY <2>1, <4>3
        <5>2. f[k] = Val(f, k)
          BY <2>2, <5>1
        <5> QED
          BY <3>2, <4>1, <4>3, <5>2
      <4> QED
        BY <4>2, <4>3
    <3> QED
      BY <3>1, <3>2
  <2>4. g = [k \in 0 .. m |-> g[k]]
    OBVIOUS
  <2> HIDE DEF Val, g
  <2>5. Good(g, m)
    BY <2>3, <2>4
  <2> HIDE DEF Good, n
  <2> QED
    BY <2>5
<1>4. n \in P
  <2> HIDE DEF P, n
  <2>1. \A k \in 0 .. n : k \in P
    BY <1>1, <1>2, <1>3, UpTo
  <2> QED
    BY <1>1, <2>1
<1>5. CommandsTo(rs) = CHOOSE f : Good(f, n)
  BY DEF CommandsTo
<1>6. Good(CommandsTo(rs), n)
  <2> HIDE DEF Good, n
  <2> QED
    BY <1>4, <1>5
<1> DEFINE g == CommandsTo(rs)
<1>7. g = [k \in 0 .. n |-> Val(g, k)]
  BY <1>6
<1> HIDE DEF g, Val, n
<1>8. \A k \in 0 .. n : g[k] = Val(g, k)
  BY <1>7
<1>9. g[0] = <<>>
  <2>1. 0 \in 0 .. n
    BY <1>1
  <2>2. Val(g, 0) = <<>>
    BY Zenon DEF Val
  <2> QED
    BY <1>8, <2>1, <2>2
<1>10. ASSUME NEW k \in 1 .. n PROVE g[k] = IF Malformed(rs[k]) \/ rs[k].args = <<>> THEN g[k - 1]
                        ELSE Append(g[k - 1], rs[k].args)
  <2>1. k \in 0 .. n /\ k # 0
    BY <1>1
  <2> QED
    BY <1>8, <2>1 DEF Val
<1> QED
  BY <1>9, <1>10 DEF g, n

\* The words that are found in a line likewise.
LEMMA WordsToIs ==
    ASSUME NEW line \in Seq(Token)
    PROVE  /\ WordsTo(line)[0] = <<>>
           /\ \A k \in 1 .. Len(line) :
                WordsTo(line)[k] =
                    IF line[k] = Space THEN WordsTo(line)[k - 1]
                    ELSE IF k = 1 \/ line[k - 1] = Space THEN Append(WordsTo(line)[k - 1], <<line[k]>>)
                    ELSE [WordsTo(line)[k - 1] EXCEPT ![Len(WordsTo(line)[k - 1])] = Append(@, line[k])]
<1> DEFINE n == Len(line)
           Val(f, k) == IF k = 0 THEN <<>>
                        ELSE IF line[k] = Space THEN f[k - 1]
                        ELSE IF k = 1 \/ line[k - 1] = Space THEN Append(f[k - 1], <<line[k]>>)
                        ELSE [f[k - 1] EXCEPT ![Len(f[k - 1])] = Append(@, line[k])]
           Good(f, m) == f = [k \in 0 .. m |-> Val(f, k)]
           P == {m \in 0 .. n : \E f : Good(f, m)}
<1>1. n \in Nat
  BY LenProperties
<1>2. 0 \in P
  <2>1. Good([k \in 0 .. 0 |-> <<>>], 0)
    OBVIOUS
  <2>2. 0 \in 0 .. n
    BY <1>1
  <2> HIDE DEF Good, n
  <2> QED
    BY <2>1, <2>2
<1>3. ASSUME NEW m \in 1 .. n, m - 1 \in P PROVE m \in P
  <2>1. m \in Nat \ {0}
    BY <1>1
  <2>2. PICK f : Good(f, m - 1)
    BY <1>3
  <2> DEFINE g == [k \in 0 .. m |-> IF k = m THEN Val(f, m) ELSE f[k]]
  <2>3. ASSUME NEW k \in 0 .. m PROVE g[k] = Val(g, k)
    <3>1. CASE k = 0
      BY <2>1, <2>2, <3>1, SMTT(60)
    <3>2. CASE k # 0
      <4>1. k - 1 \in 0 .. m /\ k - 1 # m /\ g[k - 1] = f[k - 1]
        BY <2>1, <3>2, SMTT(60)
      <4>2. CASE k = m
        BY <3>2, <4>1, <4>2
      <4>3. CASE k # m
        <5>1. k \in 0 .. m - 1
          BY <2>1, <4>3
        <5>2. f[k] = Val(f, k)
          BY <2>2, <5>1
        <5> QED
          BY <3>2, <4>1, <4>3, <5>2
      <4> QED
        BY <4>2, <4>3
    <3> QED
      BY <3>1, <3>2
  <2>4. g = [k \in 0 .. m |-> g[k]]
    OBVIOUS
  <2> HIDE DEF Val, g
  <2>5. Good(g, m)
    BY <2>3, <2>4
  <2> HIDE DEF Good, n
  <2> QED
    BY <2>5
<1>4. n \in P
  <2> HIDE DEF P, n
  <2>1. \A k \in 0 .. n : k \in P
    BY <1>1, <1>2, <1>3, UpTo
  <2> QED
    BY <1>1, <2>1
<1>5. WordsTo(line) = CHOOSE f : Good(f, n)
  BY SMTT(60) DEF WordsTo
<1>6. Good(WordsTo(line), n)
  <2> HIDE DEF Good, n
  <2> QED
    BY <1>4, <1>5
<1> DEFINE g == WordsTo(line)
<1>7. g = [k \in 0 .. n |-> Val(g, k)]
  BY <1>6
<1> HIDE DEF g, Val, n
<1>8. \A k \in 0 .. n : g[k] = Val(g, k)
  BY <1>7
<1>9. g[0] = <<>>
  <2>1. 0 \in 0 .. n
    BY <1>1
  <2>2. Val(g, 0) = <<>>
    BY Zenon DEF Val
  <2> QED
    BY <1>8, <2>1, <2>2
<1>10. ASSUME NEW k \in 1 .. n PROVE g[k] = IF line[k] = Space THEN g[k - 1]
                        ELSE IF k = 1 \/ line[k - 1] = Space THEN Append(g[k - 1], <<line[k]>>)
                        ELSE [g[k - 1] EXCEPT ![Len(g[k - 1])] = Append(@, line[k])]
  <2>1. k \in 0 .. n /\ k # 0
    BY <1>1
  <2> QED
    BY <1>8, <2>1 DEF Val
<1> QED
  BY <1>9, <1>10 DEF g, n

\* A line of one token.
LEMMA LineOfToken ==
    ASSUME NEW t \in Token
    PROVE  <<t>> \in Seq(Token) /\ (t # CR => IsLine(<<t>>)) /\ <<t, CR, LF>> = Cat(<<t>>, CRLF)
<1> DEFINE b == <<t>>  u == Cat(b, CRLF)  w == <<t, CR, LF>>
<1>1. b \in Seq(Token) /\ Len(b) = 1 /\ b[1] = t
  OBVIOUS
<1>2. w \in Seq(Token) /\ Len(w) = 3 /\ w[1] = t /\ w[2] = CR /\ w[3] = LF
  BY TokensAre
<1> HIDE DEF b, w
<1>3. /\ u \in Seq(Token) /\ Len(u) = Len(b) + Len(CRLF)
      /\ \A i \in 1 .. Len(b) + Len(CRLF) : u[i] = IF i <= Len(b) THEN b[i] ELSE CRLF[i - Len(b)]
  BY <1>1, TokensAre, CatIs
<1> HIDE DEF u
<1>4. Len(u) = 3 /\ u[1] = t /\ u[2] = CR /\ u[3] = LF
  BY <1>1, <1>3, TokensAre
<1>5. \A i \in 1 .. Len(u) : u[i] = w[i]
  BY <1>2, <1>4
<1>6. u = w
  BY <1>2, <1>3, <1>4, <1>5, SeqEqual
<1>7. t # CR => IsLine(b)
  BY <1>1 DEF IsLine
<1> QED
  BY <1>1, <1>6, <1>7 DEF u, w, b

\* The arguments of a request, written as bulks.
LEMMA BulksIs ==
    ASSUME NEW args \in Seq(Seq(Token))
    PROVE  /\ BulksOf(args)[0] = <<>>
           /\ \A k \in 0 .. Len(args) : BulksOf(args)[k] \in Seq(Token)
           /\ \A k \in 1 .. Len(args) : BulksOf(args)[k] = Cat(Bulk(args[Len(args) + 1 - k]), BulksOf(args)[k - 1])
<1> DEFINE b == BulksOf(args)
<1>1. Len(args) \in Nat /\ \A i \in 1 .. Len(args) : args[i] \in Seq(Token)
  BY LenProperties, ElementOfSeq
<1>2. /\ b[0] = <<>>
      /\ \A k \in 1 .. Len(args) : b[k] = Cat(Bulk(args[Len(args) + 1 - k]), b[k - 1])
  BY BulksOfIs DEF Cat
<1> HIDE DEF b
<1>3. ASSUME NEW k \in 1 .. Len(args), b[k - 1] \in Seq(Token) PROVE b[k] \in Seq(Token)
  <2>1. Len(args) + 1 - k \in 1 .. Len(args)
    BY <1>1
  <2>2. Bulk(args[Len(args) + 1 - k]) \in Seq(Token)
    BY <1>1, <2>1, BulkIs
  <2> QED
    BY <1>2, <1>3, <2>2, CatIs
<1>4. b[0] \in Seq(Token)
  BY <1>2
<1>5. \A k \in 0 .. Len(args) : b[k] \in Seq(Token)
  BY <1>1, <1>3, <1>4, StaysIn
<1> QED
  BY <1>2, <1>5 DEF b

\* The words of a line: where each begins, and that none ends it.
WordOnLine(w) == Cat(Cat(<<Space>>, w), <<Space>>)

\* A word between two spaces.
LEMMA WordOnLineIs ==
    ASSUME NEW w \in Seq(Token)
    PROVE  /\ WordOnLine(w) \in Seq(Token) /\ Len(WordOnLine(w)) = Len(w) + 2 /\ Len(w) \in Nat
           /\ WordOnLine(w)[1] = Space /\ WordOnLine(w)[Len(w) + 2] = Space
           /\ \A i \in 1 .. Len(w) : WordOnLine(w)[i + 1] = w[i]
<1> DEFINE s == <<Space>>
<1>1. s \in Seq(Token) /\ Len(s) = 1 /\ s[1] = Space
  BY TokensAre
<1> HIDE DEF s
<1>2. Len(w) \in Nat
  BY LenProperties
<1> DEFINE u == Cat(s, w)
<1>3. u \in Seq(Token) /\ Len(u) = Len(s) + Len(w) /\ \A i \in 1 .. Len(s) + Len(w) : u[i] = IF i <= Len(s) THEN s[i] ELSE w[i - Len(s)]
  BY <1>1, CatIs
<1> HIDE DEF u
<1> DEFINE v == Cat(u, s)
<1>4. v \in Seq(Token) /\ Len(v) = Len(u) + Len(s) /\ \A i \in 1 .. Len(u) + Len(s) : v[i] = IF i <= Len(u) THEN u[i] ELSE s[i - Len(u)]
  <2>1. u \in Seq(Token)
    BY <1>3
  <2> QED
    BY <1>1, <2>1, CatIs
<1> HIDE DEF v
<1>5. v[1] = Space /\ v[Len(w) + 2] = Space
  <2>1. u[1] = Space
    BY <1>1, <1>2, <1>3
  <2>2. v[1] = u[1]
    BY <1>1, <1>2, <1>3, <1>4
  <2>3. v[Len(w) + 2] = s[1]
    BY <1>1, <1>2, <1>3, <1>4
  <2> QED
    BY <1>1, <2>1, <2>2, <2>3
<1>6. ASSUME NEW i \in 1 .. Len(w) PROVE v[i + 1] = w[i]
  <2>1. i + 1 \in 1 .. Len(u) + Len(s) /\ i + 1 <= Len(u) /\ i + 1 \in 1 .. Len(s) + Len(w) /\ ~(i + 1 <= Len(s))
        /\ (i + 1) - Len(s) = i
    BY <1>1, <1>2, <1>3
  <2> QED
    BY <1>3, <1>4, <2>1
<1>7. Len(v) = Len(w) + 2
  BY <1>1, <1>2, <1>3, <1>4
<1>8. v = WordOnLine(w)
  BY DEF v, u, s, WordOnLine
<1> QED
  BY <1>2, <1>4, <1>5, <1>6, <1>7, <1>8

\* The words of an inline request, one by one.
LEMMA InlineIs ==
    ASSUME NEW args \in Seq(Seq(Token)), \A i \in 1 .. Len(args) : IsWord(args[i])
    PROVE  /\ InlineOf(args)[0] = <<>>
           /\ \A k \in 0 .. Len(args) : InlineOf(args)[k] \in Seq(Token) /\ IsLine(InlineOf(args)[k])
           /\ \A k \in 1 .. Len(args) : InlineOf(args)[k] = Cat(InlineOf(args)[k - 1], WordOnLine(args[k]))
<1> DEFINE f == InlineOf(args)
<1>1. Len(args) \in Nat /\ \A i \in 1 .. Len(args) : args[i] \in Seq(Token)
  BY LenProperties, ElementOfSeq
<1>2. /\ f[0] = <<>>
      /\ \A k \in 1 .. Len(args) : f[k] = Cat(f[k - 1], WordOnLine(args[k]))
  BY InlineOfIs DEF Cat, WordOnLine
<1> HIDE DEF f
<1> DEFINE X == {s \in Seq(Token) : IsLine(s)}
<1>3. ASSUME NEW k \in 1 .. Len(args), f[k - 1] \in X PROVE f[k] \in X
  <2> DEFINE s == f[k - 1]  w == args[k]  o == WordOnLine(w)  u == Cat(s, o)
  <2>1. w \in Seq(Token) /\ IsWord(w)
    BY <1>1
  <2> HIDE DEF w
  <2>2. /\ o \in Seq(Token) /\ Len(o) = Len(w) + 2 /\ Len(w) \in Nat
        /\ o[1] = Space /\ o[Len(w) + 2] = Space
        /\ \A i \in 1 .. Len(w) : o[i + 1] = w[i]
    BY <2>1, WordOnLineIs
  <2> HIDE DEF o
  <2>3. s \in Seq(Token) /\ IsLine(s)
    BY <1>3
  <2> HIDE DEF s
  <2>4. /\ u \in Seq(Token) /\ Len(u) = Len(s) + Len(o) /\ Len(s) \in Nat
        /\ \A i \in 1 .. Len(s) + Len(o) : u[i] = IF i <= Len(s) THEN s[i] ELSE o[i - Len(s)]
    BY <2>2, <2>3, CatIs
  <2> HIDE DEF u
  <2>5. ASSUME NEW i \in 1 .. Len(w) PROVE w[i] # CR
    <3>1. w[i].kind = "byte"
      BY <2>1 DEF IsWord
    <3>2. CR.kind = "CR"
      BY DEF CR, Tok
    <3> QED
      BY <3>1, <3>2
  <2>6. ASSUME NEW i \in 1 .. Len(o) PROVE o[i] # CR
    <3>1. CASE i = 1 \/ i = Len(w) + 2
      BY <2>2, <3>1, TokensAre
    <3>2. CASE i # 1 /\ i # Len(w) + 2
      <4>1. i - 1 \in 1 .. Len(w) /\ (i - 1) + 1 = i
        BY <2>2, <3>2
      <4> QED
        BY <2>2, <2>5, <4>1
    <3> QED
      BY <3>1, <3>2
  <2>7. ASSUME NEW i \in 1 .. Len(u) PROVE u[i] # CR
    <3>1. CASE i <= Len(s)
      <4>1. i \in 1 .. Len(s) /\ u[i] = s[i]
        BY <2>2, <2>4, <3>1
      <4> QED
        BY <2>3, <4>1 DEF IsLine
    <3>2. CASE ~(i <= Len(s))
      <4>1. i - Len(s) \in 1 .. Len(o) /\ u[i] = o[i - Len(s)]
        BY <2>2, <2>4, <3>2
      <4> QED
        BY <2>6, <4>1
    <3> QED
      BY <3>1, <3>2
  <2>8. u \in X
    BY <2>4, <2>7 DEF IsLine
  <2>9. f[k] = u
    BY <1>2 DEF u, o, s, w
  <2> QED
    BY <2>8, <2>9
<1>4. f[0] \in X
  BY <1>2 DEF IsLine
<1>5. \A k \in 0 .. Len(args) : f[k] \in X
  <2> HIDE DEF X
  <2> QED
    BY <1>1, <1>3, <1>4, StaysIn
<1> QED
  BY <1>2, <1>5 DEF f

\* A request is its first line, and what comes after it.
LEMMA RequestIs ==
    ASSUME NEW r \in Request, IsSendable(r)
    PROVE  /\ HeadLine(r) \in Seq(Token) /\ IsLine(HeadLine(r))
           /\ Ending(r) \in Seq(Token) /\ Arguments(r) \in Seq(Token) /\ Encode(r) \in Seq(Token)
           /\ r.type # "endless" => Encode(r) = Cat(Cat(HeadLine(r), CRLF), Arguments(r))
           /\ r.type = "endless" => Encode(r) = HeadLine(r)
           /\ r.type = "badbulk" => Ending(r) = Cat(r.line, CRLF)
           /\ r.type = "multibulk" => Ending(r) = <<>>
           /\ r.args \in Seq(Seq(Token)) /\ r.line \in Seq(Token)
           /\ r.type \in {"multibulk", "inline", "badcount", "badbulk", "endless"}
<1>1. /\ r.args \in Seq(Seq(Token)) /\ r.line \in Seq(Token)
      /\ r.type \in {"multibulk", "inline", "badcount", "badbulk", "endless"}
  BY DEF Request
<1> DEFINE n == Len(r.args)  bulks == BulksOf(r.args)[n]  words == InlineOf(r.args)[n]
<1>2. n \in Nat /\ n \in 0 .. n
  BY <1>1, LenProperties
<1>3. bulks \in Seq(Token)
  BY <1>1, <1>2, BulksIs
<1>4. r.type = "inline" => words \in Seq(Token) /\ IsLine(words)
  BY <1>1, <1>2, InlineIs DEF IsSendable
<1>5. /\ Ending(r) \in Seq(Token)
      /\ r.type = "badbulk" => Ending(r) = Cat(r.line, CRLF)
      /\ r.type # "badbulk" => Ending(r) = <<>>
  <2>1. Cat(r.line, CRLF) \in Seq(Token)
    BY <1>1, TokensAre, CatIs
  <2>2. r.type = "badbulk" => Ending(r) = Cat(r.line, CRLF)
    BY DEF Ending, Cat, CRLF
  <2>3. r.type # "badbulk" => Ending(r) = <<>> /\ <<>> \in Seq(Token)
    BY EmptySeq DEF Ending
  <2> QED
    BY <2>1, <2>2, <2>3
<1>6. Arguments(r) \in Seq(Token)
  <2>1. Cat(bulks, Ending(r)) \in Seq(Token)
    BY <1>3, <1>5, CatIs
  <2>2. <<>> \in Seq(Token)
    BY EmptySeq
  <2> QED
    BY <2>1, <2>2 DEF Arguments
<1>7. ASSUME NEW t \in Token
      PROVE  <<t>> \in Seq(Token) /\ (t # CR => IsLine(<<t>>)) /\ <<t, CR, LF>> = Cat(<<t>>, CRLF)
  BY LineOfToken
<1>8. /\ ArgCount(r) \in Int
      /\ Tok("*", ArgCount(r)) \in Token /\ Tok("*", ArgCount(r)) # CR
      /\ Tok("*", Invalid) \in Token /\ Tok("*", Invalid) # CR
  <2>1. ArgCount(r) \in Int /\ Invalid \in Int
    BY <1>2 DEF ArgCount, Invalid
  <2>2. \A v \in Int : Tok("*", v) # CR
    BY DEF Tok, CR
  <2> QED
    BY <2>1, <2>2, TokensAre
<1>9. CASE r.type \in {"multibulk", "badbulk"}
  <2> DEFINE t == Tok("*", ArgCount(r))  args == Cat(bulks, Ending(r))
  <2>1. HeadLine(r) = <<t>> /\ Arguments(r) = args
    BY <1>9 DEF HeadLine, Arguments
  <2>2. Encode(r) = Cat(<<t, CR, LF>>, args)
    BY <1>9 DEF Encode, Cat
  <2>3. t \in Token /\ t # CR
    BY <1>8
  <2> HIDE DEF t, args
  <2>4. HeadLine(r) \in Seq(Token) /\ IsLine(HeadLine(r)) /\ Encode(r) = Cat(Cat(HeadLine(r), CRLF), Arguments(r))
    BY <1>7, <2>1, <2>2, <2>3
  <2>5. Encode(r) \in Seq(Token)
    BY <1>6, <2>4, TokensAre, CatIs
  <2> QED
    BY <1>1, <1>5, <1>6, <1>9, <2>4, <2>5
<1>10. CASE r.type = "inline"
  <2>1. HeadLine(r) = words /\ Arguments(r) = <<>>
    BY <1>10 DEF HeadLine, Arguments
  <2>2. Encode(r) = Cat(words, CRLF)
    BY <1>10 DEF Encode, Cat, CRLF
  <2>3. words \in Seq(Token) /\ IsLine(words)
    BY <1>4, <1>10
  <2> HIDE DEF words
  <2>4. Cat(words, CRLF) \in Seq(Token)
    BY <2>3, TokensAre, CatIs
  <2>5. Cat(Cat(words, CRLF), <<>>) = Cat(words, CRLF)
    BY <2>4, CatFlat
  <2>6. Encode(r) = Cat(Cat(HeadLine(r), CRLF), Arguments(r))
    BY <2>1, <2>2, <2>5
  <2> QED
    BY <1>1, <1>5, <1>6, <1>10, <2>1, <2>2, <2>3, <2>4, <2>6
<1>11. CASE r.type = "badcount"
  <2> DEFINE t == Tok("*", Invalid)
  <2>1. HeadLine(r) = <<t>> /\ Arguments(r) = <<>>
    BY <1>11 DEF HeadLine, Arguments
  <2>2. Encode(r) = <<t, CR, LF>>
    BY <1>11 DEF Encode
  <2>3. t \in Token /\ t # CR
    BY <1>8
  <2> HIDE DEF t
  <2>4. HeadLine(r) \in Seq(Token) /\ IsLine(HeadLine(r)) /\ Encode(r) = Cat(HeadLine(r), CRLF)
    BY <1>7, <2>1, <2>2, <2>3
  <2>5. Encode(r) \in Seq(Token)
    BY <2>4, TokensAre, CatIs
  <2>6. Cat(Encode(r), <<>>) = Encode(r)
    BY <2>5, CatFlat
  <2> QED
    BY <1>1, <1>5, <1>6, <1>11, <2>1, <2>4, <2>5, <2>6
<1>12. CASE r.type = "endless"
  <2>1. HeadLine(r) = r.line /\ Encode(r) = r.line /\ IsLine(r.line)
    BY <1>12 DEF HeadLine, Encode, IsSendable
  <2> QED
    BY <1>1, <1>5, <1>6, <1>12, <2>1
<1> QED
  BY <1>1, <1>9, <1>10, <1>11, <1>12

Sendable(rs) == rs \in Seq(Request) /\ \A i \in 1 .. Len(rs) : IsSendable(rs[i])

\* The stream, request by request.
LEMMA StreamIs ==
    ASSUME NEW rs, Sendable(rs)
    PROVE  /\ Stream(rs)[0] = <<>>
           /\ \A k \in 0 .. Len(rs) : Stream(rs)[k] \in Seq(Token)
           /\ \A k \in 1 .. Len(rs) : Stream(rs)[k] = Cat(Encode(rs[Len(rs) + 1 - k]), Stream(rs)[k - 1])
<1> DEFINE f == Stream(rs)
<1>1. rs \in Seq(Request) /\ Len(rs) \in Nat /\ \A i \in 1 .. Len(rs) : rs[i] \in Request /\ IsSendable(rs[i])
  BY LenProperties, ElementOfSeq DEF Sendable
<1>2. /\ f[0] = <<>>
      /\ \A k \in 1 .. Len(rs) : f[k] = Cat(Encode(rs[Len(rs) + 1 - k]), f[k - 1])
  BY <1>1, StreamOfIs DEF Cat
<1> HIDE DEF f
<1>3. ASSUME NEW k \in 1 .. Len(rs), f[k - 1] \in Seq(Token) PROVE f[k] \in Seq(Token)
  <2>1. Len(rs) + 1 - k \in 1 .. Len(rs)
    BY <1>1
  <2>2. Encode(rs[Len(rs) + 1 - k]) \in Seq(Token)
    BY <1>1, <2>1, RequestIs
  <2> QED
    BY <1>2, <1>3, <2>2, CatIs
<1>4. f[0] \in Seq(Token)
  BY <1>2
<1>5. \A k \in 0 .. Len(rs) : f[k] \in Seq(Token)
  BY <1>1, <1>3, <1>4, StaysIn
<1> QED
  BY <1>2, <1>5 DEF f

Command == Seq(Seq(Token))

\* The commands of the stream, request by request.
LEMMA CommandsIs ==
    ASSUME NEW rs, Sendable(rs)
    PROVE  /\ CommandsTo(rs)[0] = <<>>
           /\ \A k \in 0 .. Len(rs) : CommandsTo(rs)[k] \in Seq(Command)
           /\ \A k \in 1 .. Len(rs) :
                /\ Malformed(rs[k]) \/ rs[k].args = <<>> => CommandsTo(rs)[k] = CommandsTo(rs)[k - 1]
                /\ ~Malformed(rs[k]) /\ rs[k].args # <<>> => CommandsTo(rs)[k] = Append(CommandsTo(rs)[k - 1], rs[k].args)
<1> DEFINE f == CommandsTo(rs)
<1>1. rs \in Seq(Request) /\ Len(rs) \in Nat /\ \A i \in 1 .. Len(rs) : rs[i] \in Request
  BY LenProperties, ElementOfSeq DEF Sendable
<1>2. f[0] = <<>>
  BY <1>1, CommandsToIs
<1>3. ASSUME NEW k \in 1 .. Len(rs)
      PROVE  /\ Malformed(rs[k]) \/ rs[k].args = <<>> => f[k] = f[k - 1]
             /\ ~Malformed(rs[k]) /\ rs[k].args # <<>> => f[k] = Append(f[k - 1], rs[k].args)
  <2>1. f[k] = IF Malformed(rs[k]) \/ rs[k].args = <<>> THEN f[k - 1] ELSE Append(f[k - 1], rs[k].args)
    BY <1>1, CommandsToIs
  <2> QED
    BY <2>1
<1> HIDE DEF f
<1>4. ASSUME NEW k \in 1 .. Len(rs), f[k - 1] \in Seq(Command) PROVE f[k] \in Seq(Command)
  <2>1. rs[k].args \in Command
    BY <1>1 DEF Request, Command
  <2>2. Append(f[k - 1], rs[k].args) \in Seq(Command)
    BY <1>4, <2>1, AppendProperties
  <2> QED
    BY <1>3, <1>4, <2>2
<1>5. f[0] \in Seq(Command)
  BY <1>2, EmptySeq
<1>6. \A k \in 0 .. Len(rs) : f[k] \in Seq(Command)
  BY <1>1, <1>4, <1>5, StaysIn
<1> QED
  BY <1>2, <1>3, <1>6 DEF f

\* The commands of fewer requests are the first of those of more.
LEMMA PrefixAppend ==
    ASSUME NEW S, NEW s \in Seq(S), NEW t \in Seq(S), NEW e \in S, IsPrefix(s, t)
    PROVE  IsPrefix(s, Append(t, e))
<1>1. Len(s) \in Nat /\ Len(t) \in Nat /\ Len(s) <= Len(t) /\ SubSeq(s, 1, Len(s)) = SubSeq(t, 1, Len(s))
  BY LenProperties DEF IsPrefix
<1> DEFINE u == Append(t, e)
<1>2. u \in Seq(S) /\ Len(u) = Len(t) + 1 /\ \A i \in 1 .. Len(t) : u[i] = t[i]
  BY AppendProperties
<1> HIDE DEF u
<1>3. SubSeq(u, 1, Len(s)) = SubSeq(t, 1, Len(s))
  <2> DEFINE a == SubSeq(u, 1, Len(s))  b == SubSeq(t, 1, Len(s))
  <2>1. \A i \in 1 .. Len(s) : u[i] \in S /\ t[i] \in S /\ u[i] = t[i]
    BY <1>1, <1>2, ElementOfSeq
  <2>2. a \in Seq(S) /\ Len(a) = Len(s) /\ \A i \in 1 .. Len(s) : a[i] = u[i]
    BY <1>1, <2>1, SubSeqProperties
  <2>3. b \in Seq(S) /\ Len(b) = Len(s) /\ \A i \in 1 .. Len(s) : b[i] = t[i]
    BY <1>1, <2>1, SubSeqProperties
  <2> HIDE DEF a, b
  <2>4. a = b
    BY <2>1, <2>2, <2>3, SeqEqual
  <2> QED
    BY <2>4 DEF a, b
<1> QED
  BY <1>1, <1>2, <1>3 DEF IsPrefix, u

\* The commands of more requests begin with those of fewer.
LEMMA CommandsPrefix ==
    ASSUME NEW rs, Sendable(rs), NEW i \in 0 .. Len(rs)
    PROVE  \A k \in i .. Len(rs) : IsPrefix(CommandsTo(rs)[i], CommandsTo(rs)[k])
<1> DEFINE f == CommandsTo(rs)
           P == {m \in 0 .. Len(rs) - i : IsPrefix(f[i], f[i + m])}
<1>1. rs \in Seq(Request) /\ Len(rs) \in Nat /\ \A k \in 1 .. Len(rs) : rs[k] \in Request
  BY LenProperties, ElementOfSeq DEF Sendable
<1>2. /\ \A k \in 0 .. Len(rs) : f[k] \in Seq(Command)
      /\ \A k \in 1 .. Len(rs) : f[k] = f[k - 1] \/ f[k] = Append(f[k - 1], rs[k].args)
  BY CommandsIs
<1> HIDE DEF f
<1>3. 0 \in P
  BY <1>1, <1>2 DEF IsPrefix
<1>4. ASSUME NEW m \in 1 .. Len(rs) - i, m - 1 \in P PROVE m \in P
  <2>1. i + m \in 1 .. Len(rs) /\ i + m - 1 = i + (m - 1) /\ i + (m - 1) \in 0 .. Len(rs)
    BY <1>1
  <2>2. IsPrefix(f[i], f[i + (m - 1)])
    BY <1>4
  <2>3. rs[i + m].args \in Command
    BY <1>1, <2>1 DEF Request, Command
  <2>4. f[i] \in Seq(Command) /\ f[i + (m - 1)] \in Seq(Command)
    BY <1>2, <2>1
  <2> DEFINE a == f[i]  b == f[i + (m - 1)]  e == rs[i + m].args
  <2>5. IsPrefix(a, Append(b, e))
    <3>1. a \in Seq(Command) /\ b \in Seq(Command) /\ e \in Command /\ IsPrefix(a, b)
      BY <2>2, <2>3, <2>4
    <3> HIDE DEF a, b, e
    <3> QED
      BY <3>1, PrefixAppend
  <2>6. IsPrefix(f[i], f[i + m])
    <3>1. f[i + m] = b \/ f[i + m] = Append(b, e)
      BY <1>2, <2>1
    <3> QED
      BY <2>2, <2>5, <3>1
  <2> QED
    BY <2>6
<1>5. \A m \in 0 .. Len(rs) - i : m \in P
  <2> HIDE DEF P
  <2>1. Len(rs) - i \in Nat
    BY <1>1
  <2> QED
    BY <1>3, <1>4, <2>1, UpTo
<1>6. ASSUME NEW k \in i .. Len(rs) PROVE IsPrefix(f[i], f[k])
  <2>1. k - i \in 0 .. Len(rs) - i /\ i + (k - i) = k
    BY <1>1
  <2> QED
    BY <1>5, <2>1
<1> QED
  BY <1>6 DEF f

\* The first of a set of positions.
LEMMA FirstIs ==
    ASSUME NEW T, T \subseteq Nat, T # {}
    PROVE  First(T) \in T /\ \A t \in T : First(T) <= t
<1>1. Min(T) \in T /\ \A t \in T : Min(T) <= t
  BY MinOfNaturals
<1>2. \E i \in T : \A j \in T : i <= j
  BY <1>1
<1> QED
  BY <1>2 DEF First

\* A position before all others of a set is the first.
LEMMA FirstOf ==
    ASSUME NEW T, T \subseteq Nat, NEW m \in T, \A t \in T : m <= t
    PROVE  First(T) = m
<1>1. First(T) \in T /\ \A t \in T : First(T) <= t
  BY FirstIs
<1>2. First(T) \in Nat /\ m \in Nat /\ First(T) <= m /\ m <= First(T)
  BY <1>1
<1> HIDE DEF First
<1> QED
  BY <1>2

\* Where a line ends that begins at p.
LEMMA LineEnd ==
    ASSUME querybuf \in Seq(Token), incoming \in Seq(Token), NEW p \in 0 .. Len(querybuf),
           NEW line \in Seq(Token), IsLine(line), NEW more \in Seq(Token),
           Cat(From(querybuf, p), incoming) = Cat(Cat(line, CRLF), more)
    PROVE  /\ Len(line) \in Nat /\ Len(querybuf) \in Nat
           /\ p + Len(line) >= Len(querybuf) => CRs(p) = {}
           /\ p + Len(line) < Len(querybuf) => CRs(p) # {} /\ First(CRs(p)) = p + Len(line) + 1
           /\ p + Len(line) + 2 <= Len(querybuf) =>
                /\ From(querybuf, p + Len(line) + 2) \in Seq(Token)
                /\ Cat(From(querybuf, p + Len(line) + 2), incoming) = more
                /\ \A k \in 1 .. Len(line) : querybuf[p + k] = line[k]
           /\ p + Len(line) + 2 > Len(querybuf) => incoming # <<>>
<1> DEFINE q == From(querybuf, p)  item == Cat(line, CRLF)
<1>1. /\ q \in Seq(Token) /\ Len(q) = Len(querybuf) - p /\ Len(querybuf) \in Nat
      /\ \A i \in 1 .. Len(querybuf) - p : q[i] = querybuf[p + i]
  BY FromIs
<1>2. /\ item \in Seq(Token) /\ Len(item) = Len(line) + Len(CRLF) /\ Len(line) \in Nat
      /\ \A i \in 1 .. Len(line) + Len(CRLF) : item[i] = IF i <= Len(line) THEN line[i] ELSE CRLF[i - Len(line)]
  BY TokensAre, CatIs
<1>3. Cat(q, incoming) = Cat(item, more)
  OBVIOUS
<1> HIDE DEF q, item
<1>4. q \in Seq(Token) /\ item \in Seq(Token)
  BY <1>1, <1>2
<1>5. /\ Len(item) = Len(line) + 2
      /\ \A i \in 1 .. Len(line) : item[i] = line[i]
      /\ item[Len(line) + 1] = CR
  BY <1>2, TokensAre
<1>6. ASSUME NEW i \in 1 .. Len(q), i \in 1 .. Len(item) PROVE q[i] = item[i]
  <2>1. CASE Len(item) <= Len(q)
    <3>1. \A k \in 1 .. Len(item) : q[k] = item[k]
      BY <1>4, <1>3, <2>1, CutIs
    <3> QED
      BY <1>6, <3>1
  <2>2. CASE Len(q) < Len(item)
    <3>1. \A k \in 1 .. Len(q) : q[k] = item[k]
      BY <1>4, <1>3, <2>2, ShortIs
    <3> QED
      BY <1>6, <3>1
  <2>3. Len(item) \in Nat /\ Len(q) \in Nat
    BY <1>1, <1>2, <1>5
  <2> QED
    BY <2>1, <2>2, <2>3
<1>7. ASSUME NEW i \in 1 .. Len(line), i \in 1 .. Len(q) PROVE querybuf[p + i] = line[i] /\ querybuf[p + i] # CR
  <2>1. q[i] = item[i] /\ item[i] = line[i] /\ q[i] = querybuf[p + i]
    BY <1>1, <1>2, <1>5, <1>6, <1>7
  <2> QED
    BY <2>1 DEF IsLine
<1>8. ASSUME NEW j \in CRs(p) PROVE p + Len(line) + 1 <= j /\ j <= Len(querybuf)
  <2>1. j \in p + 1 .. Len(querybuf) /\ querybuf[j] = CR
    BY DEF CRs
  <2>2. ASSUME j <= p + Len(line) PROVE FALSE
    <3>1. j - p \in 1 .. Len(line) /\ j - p \in 1 .. Len(q) /\ p + (j - p) = j
      BY <1>1, <1>2, <2>1, <2>2
    <3> QED
      BY <1>7, <2>1, <3>1
  <2> QED
    BY <1>1, <1>2, <2>1, <2>2
<1>9. p + Len(line) >= Len(querybuf) => CRs(p) = {}
  <2> SUFFICES ASSUME p + Len(line) >= Len(querybuf), NEW j \in CRs(p) PROVE FALSE
    OBVIOUS
  <2>1. p + Len(line) + 1 <= j /\ j <= Len(querybuf) /\ j \in Int
    BY <1>8 DEF CRs
  <2> QED
    BY <1>1, <1>2, <2>1
<1>10. ASSUME p + Len(line) < Len(querybuf) PROVE CRs(p) # {} /\ First(CRs(p)) = p + Len(line) + 1
  <2> DEFINE c == p + Len(line) + 1
  <2> DEFINE d == Len(line) + 1
  <2>1. c \in p + 1 .. Len(querybuf) /\ d \in 1 .. Len(q) /\ d \in 1 .. Len(item) /\ p + d = c
        /\ d \in 1 .. Len(querybuf) - p
    BY <1>1, <1>2, <1>5, <1>10
  <2>2. querybuf[c] = CR
    <3>1. item[d] = CR
      BY <1>5
    <3> HIDE DEF d, c
    <3>2. q[d] = item[d]
      BY <1>6, <2>1
    <3>3. q[d] = querybuf[p + d]
      BY <1>1, <2>1
    <3> QED
      BY <2>1, <3>1, <3>2, <3>3
  <2>3. c \in CRs(p)
    BY <2>1, <2>2 DEF CRs
  <2>4. CRs(p) \subseteq Nat /\ \A j \in CRs(p) : c <= j
    BY <1>8 DEF CRs
  <2> HIDE DEF c
  <2>5. First(CRs(p)) = c
    BY <2>3, <2>4, FirstOf
  <2> QED
    BY <2>3, <2>5 DEF c
<1>11. ASSUME p + Len(line) + 2 <= Len(querybuf)
       PROVE  /\ From(querybuf, p + Len(line) + 2) \in Seq(Token)
              /\ Cat(From(querybuf, p + Len(line) + 2), incoming) = more
              /\ \A k \in 1 .. Len(line) : querybuf[p + k] = line[k]
  <2>1. Len(item) <= Len(q) /\ Len(item) \in 0 .. Len(querybuf) - p /\ p + Len(item) = p + Len(line) + 2
    <3>1. Len(item) = Len(line) + 2 /\ Len(line) \in Nat
      BY <1>2, <1>5
    <3>2. Len(q) = Len(querybuf) - p /\ Len(querybuf) \in Nat
      BY <1>1
    <3> QED
      BY <1>11, <3>1, <3>2
  <2>2. From(q, Len(item)) \in Seq(Token) /\ Cat(From(q, Len(item)), incoming) = more
    BY <1>4, <1>3, <2>1, CutIs
  <2>3. From(q, Len(item)) = From(querybuf, p + Len(line) + 2)
    BY <2>1, FromTo DEF q
  <2>4. \A k \in 1 .. Len(line) : k \in 1 .. Len(q)
    BY <1>1, <1>2, <1>11
  <2> QED
    BY <1>7, <2>2, <2>3, <2>4
<1>12. ASSUME p + Len(line) + 2 > Len(querybuf) PROVE incoming # <<>>
  <2>1. Len(q) < Len(item)
    BY <1>1, <1>2, <1>5, <1>12
  <2> QED
    BY <1>4, <1>3, <2>1, ShortIs
<1> QED
  BY <1>1, <1>2, <1>9, <1>10, <1>11, <1>12

\* A line that ends with CR and LF is found when both are there.
LEMMA LineEndsWithLF ==
    ASSUME querybuf \in Seq(Token), incoming \in Seq(Token),
           NEW line \in Seq(Token), IsLine(line), NEW more \in Seq(Token),
           Cat(querybuf, incoming) = Cat(Cat(line, CRLF), more)
    PROVE  /\ Len(line) \in Nat /\ Len(querybuf) \in Nat
           /\ Len(line) + 2 > Len(querybuf) => CRLFs = {} /\ incoming # <<>>
           /\ Len(line) + 2 <= Len(querybuf) =>
                /\ CRLFs # {} /\ First(CRLFs) = Len(line) + 1
                /\ SubSeq(querybuf, 1, First(CRLFs) - 1) = line
                /\ From(querybuf, Len(line) + 2) \in Seq(Token)
                /\ Cat(From(querybuf, Len(line) + 2), incoming) = more
<1> DEFINE item == Cat(line, CRLF)
<1>1. Len(querybuf) \in Nat
  BY LenProperties
<1>2. /\ item \in Seq(Token) /\ Len(item) = Len(line) + Len(CRLF) /\ Len(line) \in Nat
      /\ \A i \in 1 .. Len(line) + Len(CRLF) : item[i] = IF i <= Len(line) THEN line[i] ELSE CRLF[i - Len(line)]
  BY TokensAre, CatIs
<1>3. Cat(querybuf, incoming) = Cat(item, more)
  OBVIOUS
<1> HIDE DEF item
<1>4. item \in Seq(Token)
  BY <1>2
<1>5. /\ Len(item) = Len(line) + 2
      /\ \A i \in 1 .. Len(line) : item[i] = line[i]
      /\ item[Len(line) + 1] = CR /\ item[Len(line) + 2] = LF
  <2>1. Len(item) = Len(line) + 2 /\ \A i \in 1 .. Len(line) : item[i] = line[i]
    BY <1>2, TokensAre
  <2>2. item[Len(line) + 1] = CRLF[1] /\ item[Len(line) + 2] = CRLF[2]
    <3> DEFINE c == Len(line) + 1  d == Len(line) + 2
    <3>1. /\ c \in 1 .. Len(line) + Len(CRLF) /\ ~(c <= Len(line)) /\ c - Len(line) = 1
          /\ d \in 1 .. Len(line) + Len(CRLF) /\ ~(d <= Len(line)) /\ d - Len(line) = 2
      BY <1>2, TokensAre
    <3> HIDE DEF c, d
    <3>2. item[c] = CRLF[1] /\ item[d] = CRLF[2]
      BY <1>2, <3>1
    <3> QED
      BY <3>2 DEF c, d
  <2> QED
    BY <2>1, <2>2, TokensAre
<1>6. ASSUME NEW i \in 1 .. Len(querybuf), i \in 1 .. Len(item) PROVE querybuf[i] = item[i]
  <2>1. CASE Len(item) <= Len(querybuf)
    <3>1. \A k \in 1 .. Len(item) : querybuf[k] = item[k]
      BY <1>4, <1>3, <2>1, CutIs
    <3> QED
      BY <1>6, <3>1
  <2>2. CASE Len(querybuf) < Len(item)
    <3>1. \A k \in 1 .. Len(querybuf) : querybuf[k] = item[k]
      BY <1>4, <1>3, <2>2, ShortIs
    <3> QED
      BY <1>6, <3>1
  <2>3. Len(item) \in Nat /\ Len(querybuf) \in Nat
    BY <1>1, <1>2, <1>5
  <2> QED
    BY <2>1, <2>2, <2>3
<1>7. ASSUME NEW j \in CRLFs PROVE j \in Nat /\ Len(line) + 1 <= j /\ j + 1 <= Len(querybuf)
  <2>1. j \in 1 .. Len(querybuf) - 1 /\ querybuf[j] = CR
    BY DEF CRLFs
  <2>2. ASSUME j <= Len(line) PROVE FALSE
    <3>1. j \in 1 .. Len(line) /\ j \in 1 .. Len(querybuf) /\ j \in 1 .. Len(item)
      BY <1>1, <1>2, <1>5, <2>1, <2>2
    <3>2. line[j] = CR
      BY <1>5, <1>6, <2>1, <3>1
    <3> QED
      BY <3>1, <3>2 DEF IsLine
  <2> QED
    BY <1>1, <1>2, <2>1, <2>2
<1>8. ASSUME Len(line) + 2 > Len(querybuf) PROVE CRLFs = {} /\ incoming # <<>>
  <2>1. CRLFs = {}
    BY <1>1, <1>2, <1>7, <1>8
  <2>2. Len(querybuf) < Len(item)
    BY <1>1, <1>2, <1>5, <1>8
  <2> QED
    BY <1>4, <1>3, <2>1, <2>2, ShortIs
<1>9. ASSUME Len(line) + 2 <= Len(querybuf)
      PROVE  /\ CRLFs # {} /\ First(CRLFs) = Len(line) + 1
             /\ SubSeq(querybuf, 1, First(CRLFs) - 1) = line
             /\ From(querybuf, Len(line) + 2) \in Seq(Token)
             /\ Cat(From(querybuf, Len(line) + 2), incoming) = more
  <2> DEFINE c == Len(line) + 1
  <2>1. /\ c \in 1 .. Len(querybuf) - 1 /\ c \in 1 .. Len(querybuf) /\ c \in 1 .. Len(item)
        /\ c + 1 \in 1 .. Len(querybuf) /\ c + 1 \in 1 .. Len(item) /\ c + 1 = Len(line) + 2
    BY <1>1, <1>2, <1>5, <1>9
  <2>2. querybuf[c] = CR /\ querybuf[c + 1] = LF
    BY <1>5, <1>6, <2>1
  <2>3. c \in CRLFs
    BY <2>1, <2>2 DEF CRLFs
  <2>4. CRLFs \subseteq Nat /\ \A j \in CRLFs : c <= j
    BY <1>7
  <2> HIDE DEF c
  <2>5. First(CRLFs) = c
    BY <2>3, <2>4, FirstOf
  <2>6. First(CRLFs) - 1 = Len(line)
    BY <1>2, <2>5 DEF c
  <2>7. SubSeq(querybuf, 1, Len(line)) = line
    <3> DEFINE s == SubSeq(querybuf, 1, Len(line))
    <3>1. \A i \in 1 .. Len(line) : querybuf[i] \in Token /\ querybuf[i] = line[i]
      <4> SUFFICES ASSUME NEW i \in 1 .. Len(line) PROVE querybuf[i] \in Token /\ querybuf[i] = line[i]
        OBVIOUS
      <4>1. i \in 1 .. Len(querybuf) /\ i \in 1 .. Len(item)
        BY <1>1, <1>2, <1>5, <1>9
      <4> QED
        BY <1>5, <1>6, <4>1, ElementOfSeq
    <3>2. s \in Seq(Token) /\ Len(s) = Len(line) /\ \A i \in 1 .. Len(line) : s[i] = querybuf[i]
      BY <1>2, <3>1, SubSeqProperties
    <3> HIDE DEF s
    <3>3. s = line
      BY <3>1, <3>2, SeqEqual
    <3> QED
      BY <3>3 DEF s
  <2>8. From(querybuf, Len(item)) \in Seq(Token) /\ Cat(From(querybuf, Len(item)), incoming) = more
    <3>1. Len(item) <= Len(querybuf)
      BY <1>5, <1>9
    <3> QED
      BY <1>4, <1>3, <3>1, CutIs
  <2> QED
    BY <1>5, <2>3, <2>5, <2>6, <2>7, <2>8 DEF c
<1> QED
  BY <1>1, <1>2, <1>8, <1>9

\* A character is put behind the last word.
LEMMA GrowLast ==
    ASSUME NEW S, NEW s \in Seq(Seq(S)), NEW w \in Seq(S), NEW e \in S
    PROVE  [Append(s, w) EXCEPT ![Len(Append(s, w))] = Append(@, e)] = Append(s, Append(w, e))
<1> DEFINE T == Seq(S)  a == Append(s, w)  x == Append(w, e)  b == Append(s, x)
<1>1. x \in T
  BY AppendProperties
<1> HIDE DEF x, T
<1>2. s \in Seq(T) /\ w \in T
  BY DEF T
<1>3. /\ a \in Seq(T) /\ Len(a) = Len(s) + 1 /\ Len(s) \in Nat
      /\ \A i \in 1 .. Len(s) : a[i] = s[i]
      /\ a[Len(s) + 1] = w
  BY <1>2, AppendProperties, LenProperties
<1>4. /\ b \in Seq(T) /\ Len(b) = Len(s) + 1
      /\ \A i \in 1 .. Len(s) : b[i] = s[i]
      /\ b[Len(s) + 1] = x
  BY <1>1, <1>2, AppendProperties
<1> HIDE DEF a, b
<1> DEFINE n == Len(a)  c == [a EXCEPT ![n] = x]
<1>5. n \in 1 .. Len(a) /\ n = Len(s) + 1
  BY <1>3
<1>6. /\ c \in Seq(T) /\ Len(c) = Len(a)
      /\ \A j \in 1 .. Len(a) : c[j] = IF j = n THEN x ELSE a[j]
  BY <1>1, <1>3, <1>5, ExceptSeq
<1> HIDE DEF n, c
<1>7. ASSUME NEW j \in 1 .. Len(c) PROVE c[j] = b[j]
  <2>1. CASE j = n
    BY <1>4, <1>5, <1>6, <1>7, <2>1
  <2>2. CASE j # n
    <3>1. j \in 1 .. Len(s) /\ j \in 1 .. Len(a)
      BY <1>3, <1>5, <1>6, <2>2
    <3> QED
      BY <1>3, <1>4, <1>6, <2>2, <3>1
  <2> QED
    BY <2>1, <2>2
<1>8. Len(c) = Len(b)
  BY <1>3, <1>4, <1>6
<1>9. c = b
  BY <1>4, <1>6, <1>7, <1>8, SeqEqual
<1>10. a[n] = w
  BY <1>3, <1>5
<1>11. [a EXCEPT ![n] = Append(@, e)] = c
  BY <1>10 DEF c, x
<1> QED
  BY <1>9, <1>11 DEF a, b, x, n

\* One word more is read from the line (sdssplitargs).
LEMMA OneWord ==
    ASSUME NEW line \in Seq(Token), NEW p \in Nat, NEW w \in Seq(Token), IsWord(w),
           p + Len(w) + 2 <= Len(line), line[p + 1] = Space, line[p + Len(w) + 2] = Space,
           \A j \in 1 .. Len(w) : line[p + 1 + j] = w[j],
           NEW s \in Seq(Seq(Token)), WordsTo(line)[p] = s
    PROVE  WordsTo(line)[p + Len(w) + 2] = Append(s, w)
<1> DEFINE g == WordsTo(line)  L == Len(w)
<1>1. L \in Nat /\ Len(line) \in Nat /\ L # 0 /\ \A j \in 1 .. L : w[j] \in Token
  BY LenProperties, ElementOfSeq, EmptySeq DEF IsWord
<1>2. p + L + 2 <= Len(line) /\ line[p + L + 2] = Space
  OBVIOUS
<1>3. ASSUME NEW k \in 1 .. Len(line)
      PROVE  /\ line[k] = Space => g[k] = g[k - 1]
             /\ line[k] # Space /\ (k = 1 \/ line[k - 1] = Space) => g[k] = Append(g[k - 1], <<line[k]>>)
             /\ line[k] # Space /\ k # 1 /\ line[k - 1] # Space
                  => g[k] = [g[k - 1] EXCEPT ![Len(g[k - 1])] = Append(@, line[k])]
  <2>1. g[k] = IF line[k] = Space THEN g[k - 1]
               ELSE IF k = 1 \/ line[k - 1] = Space THEN Append(g[k - 1], <<line[k]>>)
               ELSE [g[k - 1] EXCEPT ![Len(g[k - 1])] = Append(@, line[k])]
    BY WordsToIs
  <2> HIDE DEF g
  <2> QED
    BY <2>1
<1> HIDE DEF g
<1>4. g[p] = s
  BY DEF g
<1>5. ASSUME NEW j \in 1 .. L PROVE w[j] # Space
  <2>1. w[j].kind = "byte"
    BY DEF IsWord
  <2>2. Space.kind = "space"
    BY DEF Space, Tok
  <2> QED
    BY <2>1, <2>2
<1> HIDE DEF L
<1>6. g[p + 1] = s
  <2>1. p + 1 \in 1 .. Len(line) /\ (p + 1) - 1 = p
    BY <1>1 DEF L
  <2> QED
    BY <1>3, <1>4, <2>1
<1>7. ASSUME NEW j \in 1 .. L PROVE line[p + 1 + j] = w[j] /\ line[p + 1 + j] # Space
  BY <1>5 DEF L
<1> DEFINE P == {m \in 0 .. L - 1 : g[p + 1 + (m + 1)] = Append(s, SubSeq(w, 1, m + 1))}
<1>8. 0 \in P
  <2> DEFINE k == p + 1 + 1
  <2>1. k \in 1 .. Len(line) /\ k - 1 = p + 1 /\ 1 \in 1 .. L /\ 0 \in 0 .. L - 1
    BY <1>1 DEF L
  <2>2. line[k] = w[1] /\ line[k] # Space
    BY <1>7, <2>1
  <2> HIDE DEF k
  <2>3. g[k] = Append(s, <<w[1]>>)
    <3>1. line[k - 1] = Space
      BY <2>1
    <3>2. g[k] = Append(g[k - 1], <<line[k]>>)
      BY <1>3, <2>1, <2>2, <3>1
    <3> QED
      BY <1>6, <2>1, <2>2, <3>2
  <2>4. SubSeq(w, 1, 1) = <<w[1]>>
    <3>1. SubSeq(w, 1, 1) \in Seq(Token) /\ Len(SubSeq(w, 1, 1)) = 1 /\ SubSeq(w, 1, 1)[1] = w[1]
      BY <1>1, <2>1, SubSeqProperties DEF L
    <3> DEFINE a == SubSeq(w, 1, 1)  b == <<w[1]>>
    <3>2. b \in Seq(Token) /\ Len(b) = 1 /\ b[1] = w[1]
      BY <1>1, <2>1
    <3> HIDE DEF a, b
    <3>3. a \in Seq(Token) /\ Len(a) = 1 /\ a[1] = w[1]
      BY <3>1 DEF a
    <3>4. \A i \in 1 .. Len(a) : a[i] = b[i]
      BY <3>2, <3>3
    <3>5. a = b
      BY <3>2, <3>3, <3>4, SeqEqual
    <3> QED
      BY <3>5 DEF a, b
  <2>5. p + 1 + (0 + 1) = k /\ 0 + 1 = 1
    BY DEF k
  <2> QED
    BY <2>1, <2>3, <2>4, <2>5
<1>9. ASSUME NEW m \in 1 .. L - 1, m - 1 \in P PROVE m \in P
  <2> DEFINE k == p + 1 + (m + 1)  u == SubSeq(w, 1, m)  v == SubSeq(w, 1, m + 1)
  <2>1. /\ k \in 1 .. Len(line) /\ k - 1 = p + 1 + m /\ k # 1 /\ m \in 1 .. L /\ m + 1 \in 1 .. L
        /\ (m - 1) + 1 = m /\ m \in 0 .. L - 1
    BY <1>1, <1>2
  <2>2. line[k] = w[m + 1] /\ line[k] # Space /\ line[k - 1] # Space
    BY <1>7, <2>1
  <2>3. g[k - 1] = Append(s, u)
    BY <1>9, <2>1
  <2>4. u \in Seq(Token) /\ Append(u, w[m + 1]) = v
    <3>1. \A i \in 1 .. m + 1 : w[i] \in Token
      BY <1>1, <2>1
    <3>2. u \in Seq(Token) /\ Len(u) = m /\ \A i \in 1 .. m : u[i] = w[i]
      BY <2>1, <3>1, SubSeqProperties
    <3>3. v \in Seq(Token) /\ Len(v) = m + 1 /\ \A i \in 1 .. m + 1 : v[i] = w[i]
      BY <2>1, <3>1, SubSeqProperties
    <3> HIDE DEF u, v
    <3> DEFINE z == Append(u, w[m + 1])
    <3>4. w[m + 1] \in Token
      BY <2>1, <3>1
    <3>5. z \in Seq(Token) /\ Len(z) = m + 1 /\ (\A i \in 1 .. m : z[i] = u[i]) /\ z[m + 1] = w[m + 1]
      BY <3>2, <3>4, AppendProperties
    <3> HIDE DEF z
    <3>6. ASSUME NEW i \in 1 .. m + 1 PROVE z[i] = v[i]
      <4>1. CASE i = m + 1
        BY <3>3, <3>5, <4>1
      <4>2. CASE i # m + 1
        <5>1. i \in 1 .. m
          BY <2>1, <4>2
        <5> QED
          BY <3>2, <3>3, <3>5, <5>1
      <4> QED
        BY <4>1, <4>2
    <3>7. z = v
      BY <3>3, <3>5, <3>6, SeqEqual
    <3> QED
      BY <3>2, <3>7 DEF z
  <2> HIDE DEF k, u, v
  <2>5. g[k] = [g[k - 1] EXCEPT ![Len(g[k - 1])] = Append(@, line[k])]
    BY <1>3, <2>1, <2>2
  <2> DEFINE h == g[k - 1]  e == w[m + 1]
  <2>6. g[k] = [h EXCEPT ![Len(h)] = Append(@, e)] /\ h = Append(s, u)
    BY <2>2, <2>3, <2>5
  <2>7. e \in Token
    BY <1>1, <2>1
  <2> HIDE DEF h, e
  <2>8. [Append(s, u) EXCEPT ![Len(Append(s, u))] = Append(@, e)] = Append(s, Append(u, e))
    BY <2>4, <2>7, GrowLast
  <2>9. g[k] = Append(s, v)
    BY <2>4, <2>6, <2>8 DEF e
  <2> QED
    BY <2>1, <2>9 DEF k, v
<1>10. L - 1 \in P
  <2> HIDE DEF P
  <2>1. L - 1 \in Nat /\ L - 1 \in 0 .. L - 1
    BY <1>1
  <2>2. \A m \in 0 .. L - 1 : m \in P
    BY <1>8, <1>9, <2>1, UpTo
  <2> QED
    BY <2>1, <2>2
<1>11. g[p + 1 + L] = Append(s, w)
  <2>1. (L - 1) + 1 = L
    BY <1>1
  <2>2. SubSeq(w, 1, L) = w
    BY SubSeqFull DEF L
  <2> QED
    BY <1>10, <2>1, <2>2
<1>12. g[p + L + 2] = g[p + 1 + L]
  <2>1. p + L + 2 \in 1 .. Len(line) /\ (p + L + 2) - 1 = p + 1 + L /\ line[p + L + 2] = Space
    BY <1>1, <1>2
  <2> QED
    BY <1>3, <2>1
<1> QED
  BY <1>11, <1>12 DEF g, L

\* What was written first is the beginning of the line.
LEMMA InlineBegins ==
    ASSUME NEW args \in Seq(Seq(Token)), \A i \in 1 .. Len(args) : IsWord(args[i])
    PROVE  \A k \in 0 .. Len(args) :
             /\ Len(InlineOf(args)[k]) <= Len(InlineOf(args)[Len(args)])
             /\ \A i \in 1 .. Len(InlineOf(args)[k]) : InlineOf(args)[Len(args)][i] = InlineOf(args)[k][i]
<1> DEFINE f == InlineOf(args)  n == Len(args)  line == f[n]
           Begins(k) == Len(f[k]) <= Len(line) /\ \A i \in 1 .. Len(f[k]) : line[i] = f[k][i]
           P == {m \in 0 .. n : Begins(n - m)}
<1>1. n \in Nat /\ \A i \in 1 .. n : args[i] \in Seq(Token)
  BY LenProperties, ElementOfSeq
<1>2. /\ \A k \in 0 .. n : f[k] \in Seq(Token)
      /\ \A k \in 1 .. n : f[k] = Cat(f[k - 1], WordOnLine(args[k]))
  BY InlineIs
<1> HIDE DEF f, n
<1>3. 0 \in P
  <2>1. n - 0 = n /\ 0 \in 0 .. n /\ n \in 0 .. n
    BY <1>1
  <2>2. Len(line) \in Nat
    BY <1>2, <2>1, LenProperties
  <2>3. Begins(n)
    BY <2>2
  <2> HIDE DEF Begins
  <2> QED
    BY <2>1, <2>3
<1>4. ASSUME NEW m \in 1 .. n, m - 1 \in P PROVE m \in P
  <2> DEFINE k == n - (m - 1)
  <2>1. k \in 1 .. n /\ k - 1 = n - m /\ k - 1 \in 0 .. n /\ n \in 0 .. n /\ k \in 0 .. n /\ m \in 0 .. n
    BY <1>1
  <2>2. Begins(k)
    BY <1>4
  <2> HIDE DEF k
  <2> DEFINE s == f[k - 1]  o == WordOnLine(args[k])
  <2>3. s \in Seq(Token) /\ o \in Seq(Token) /\ line \in Seq(Token)
    BY <1>1, <1>2, <2>1, WordOnLineIs
  <2>4. f[k] = Cat(s, o)
    BY <1>2, <2>1
  <2> HIDE DEF s, o, line
  <2>5. /\ Len(f[k]) = Len(s) + Len(o) /\ Len(s) \in Nat /\ Len(o) \in Nat
        /\ \A i \in 1 .. Len(s) + Len(o) : f[k][i] = IF i <= Len(s) THEN s[i] ELSE o[i - Len(s)]
    BY <2>3, <2>4, CatIs
  <2>6. Len(line) \in Nat
    BY <2>3, LenProperties
  <2>7. Len(s) <= Len(line)
    BY <2>2, <2>5, <2>6
  <2>8. ASSUME NEW i \in 1 .. Len(s) PROVE line[i] = s[i]
    <3>1. i \in 1 .. Len(s) + Len(o) /\ i <= Len(s) /\ i \in 1 .. Len(f[k])
      BY <2>5
    <3> QED
      BY <2>2, <2>5, <3>1
  <2>9. Begins(n - m)
    BY <2>1, <2>7, <2>8 DEF s
  <2> QED
    BY <2>1, <2>9
<1>5. \A m \in 0 .. n : m \in P
  <2> HIDE DEF P
  <2> QED
    BY <1>1, <1>3, <1>4, UpTo
<1>6. ASSUME NEW k \in 0 .. n PROVE Begins(k)
  <2>1. n - k \in 0 .. n /\ n - (n - k) = k
    BY <1>1
  <2> HIDE DEF Begins
  <2> QED
    BY <1>5, <2>1
<1> QED
  BY <1>6 DEF f, n

\* The words of a line that a client wrote are the arguments.
LEMMA WordsOfInline ==
    ASSUME NEW args \in Seq(Seq(Token)), \A i \in 1 .. Len(args) : IsWord(args[i])
    PROVE  Words(InlineOf(args)[Len(args)]) = args
<1> DEFINE f == InlineOf(args)  n == Len(args)  line == f[n]  g == WordsTo(line)
           P == {k \in 0 .. n : g[Len(f[k])] = SubSeq(args, 1, k)}
<1>1. n \in Nat /\ \A i \in 1 .. n : args[i] \in Seq(Token) /\ IsWord(args[i])
  BY LenProperties, ElementOfSeq
<1>2. /\ f[0] = <<>>
      /\ \A k \in 0 .. n : f[k] \in Seq(Token)
      /\ \A k \in 1 .. n : f[k] = Cat(f[k - 1], WordOnLine(args[k]))
  BY InlineIs
<1>3. ASSUME NEW k \in 0 .. n PROVE Len(f[k]) <= Len(line) /\ \A i \in 1 .. Len(f[k]) : line[i] = f[k][i]
  BY InlineBegins
<1>4. line \in Seq(Token)
  <2>1. n \in 0 .. n
    BY <1>1
  <2> QED
    BY <1>2, <2>1
<1>5. g[0] = <<>>
  BY <1>4, WordsToIs
<1>6. 0 \in P
  <2>1. Len(f[0]) = 0 /\ SubSeq(args, 1, 0) = <<>>
    BY <1>2, SubSeqEmpty
  <2>2. 0 \in 0 .. n
    BY <1>1
  <2> HIDE DEF f, g, n
  <2>3. g[Len(f[0])] = SubSeq(args, 1, 0)
    BY <1>5, <2>1
  <2> QED
    BY <2>2, <2>3
<1>7. ASSUME NEW k \in 1 .. n, k - 1 \in P PROVE k \in P
  <2> DEFINE u == f[k - 1]  w == args[k]  o == WordOnLine(w)  p == Len(u)  s == SubSeq(args, 1, k - 1)
  <2>1. k - 1 \in 0 .. n /\ k \in 0 .. n
    BY <1>1
  <2>2. u \in Seq(Token) /\ w \in Seq(Token) /\ IsWord(w)
    BY <1>1, <1>2, <2>1
  <2>3. f[k] = Cat(u, o)
    BY <1>2
  <2>4. g[p] = s
    BY <1>7
  <2>5. Len(f[k]) <= Len(line) /\ \A i \in 1 .. Len(f[k]) : line[i] = f[k][i]
    BY <1>3, <2>1
  <2>6. Len(line) \in Nat
    BY <1>4, LenProperties
  <2> HIDE DEF f, g, line, u, w
  <2>7. /\ o \in Seq(Token) /\ Len(o) = Len(w) + 2 /\ Len(w) \in Nat
        /\ o[1] = Space /\ o[Len(w) + 2] = Space
        /\ \A i \in 1 .. Len(w) : o[i + 1] = w[i]
    BY <2>2, WordOnLineIs
  <2>8. o \in Seq(Token)
    BY <2>7
  <2> HIDE DEF o
  <2>9. /\ Len(f[k]) = p + Len(o) /\ p \in Nat
        /\ \A i \in 1 .. p + Len(o) : f[k][i] = IF i <= p THEN u[i] ELSE o[i - p]
    BY <2>2, <2>3, <2>8, CatIs
  <2> HIDE DEF p
  <2>10. ASSUME NEW j \in 1 .. Len(o) PROVE line[p + j] = o[j]
    <3> DEFINE i == p + j
    <3>1. i \in 1 .. p + Len(o) /\ ~(i <= p) /\ i - p = j
      BY <2>7, <2>9
    <3> HIDE DEF i
    <3>2. line[i] = f[k][i] /\ f[k][i] = o[i - p]
      BY <2>5, <2>9, <3>1
    <3> QED
      BY <3>1, <3>2 DEF i
  <2>11. p + Len(w) + 2 <= Len(line) /\ Len(f[k]) = p + Len(w) + 2
    BY <2>5, <2>6, <2>7, <2>9
  <2>12. line[p + 1] = Space
    <3>1. 1 \in 1 .. Len(o)
      BY <2>7
    <3> QED
      BY <2>7, <2>10, <3>1
  <2>13. line[p + Len(w) + 2] = Space
    <3>1. Len(w) + 2 \in 1 .. Len(o) /\ p + (Len(w) + 2) = p + Len(w) + 2
      BY <2>7, <2>9
    <3>2. line[p + (Len(w) + 2)] = o[Len(w) + 2]
      BY <2>10, <3>1
    <3> QED
      BY <2>7, <3>1, <3>2
  <2>14. ASSUME NEW j \in 1 .. Len(w) PROVE line[p + 1 + j] = w[j]
    <3>1. j + 1 \in 1 .. Len(o) /\ p + (j + 1) = p + 1 + j
      BY <2>7, <2>9
    <3>2. line[p + (j + 1)] = o[j + 1]
      BY <2>10, <3>1
    <3> QED
      BY <2>7, <3>1, <3>2
  <2>15. s \in Seq(Seq(Token)) /\ Append(s, w) = SubSeq(args, 1, k)
    <3> DEFINE a == Append(s, w)  b == SubSeq(args, 1, k)
    <3>1. s \in Seq(Seq(Token)) /\ Len(s) = k - 1 /\ \A i \in 1 .. k - 1 : s[i] = args[i]
      BY <1>1, SubSeqProperties
    <3>2. b \in Seq(Seq(Token)) /\ Len(b) = k /\ \A i \in 1 .. k : b[i] = args[i]
      BY <1>1, SubSeqProperties
    <3> HIDE DEF s, b
    <3>3. a \in Seq(Seq(Token)) /\ Len(a) = Len(s) + 1 /\ (\A i \in 1 .. Len(s) : a[i] = s[i]) /\ a[Len(s) + 1] = w
      BY <2>2, <3>1, AppendProperties
    <3> HIDE DEF a
    <3>4. Len(a) = k /\ a[k] = w /\ \A i \in 1 .. k - 1 : a[i] = s[i]
      BY <1>1, <3>1, <3>3
    <3>5. ASSUME NEW i \in 1 .. k PROVE a[i] = b[i]
      <4>1. CASE i = k
        BY <3>2, <3>4, <4>1 DEF w
      <4>2. CASE i # k
        <5>1. i \in 1 .. k - 1
          BY <1>1, <4>2
        <5> QED
          BY <3>1, <3>2, <3>4, <5>1
      <4> QED
        BY <4>1, <4>2
    <3>6. a = b
      BY <3>2, <3>3, <3>4, <3>5, SeqEqual
    <3> QED
      BY <3>1, <3>6 DEF a, b, s
  <2> HIDE DEF s
  <2>16. WordsTo(line)[p] = s
    BY <2>4 DEF g
  <2>17. g[p + Len(w) + 2] = Append(s, w)
    <3>1. p \in Nat /\ s \in Seq(Seq(Token))
      BY <2>9, <2>15
    <3>2. p + Len(w) + 2 <= Len(line)
      BY <2>11
    <3> QED
      BY <1>4, <2>2, <3>2, <2>12, <2>13, <2>14, <2>16, <3>1, OneWord DEF g
  <2>18. g[Len(f[k])] = SubSeq(args, 1, k)
    BY <2>11, <2>15, <2>17
  <2> QED
    BY <2>1, <2>18
<1>8. n \in P
  <2>1. \A k \in 0 .. n : k \in P
    <3> HIDE DEF P
    <3> QED
      BY <1>1, <1>6, <1>7, UpTo
  <2>2. n \in 0 .. n
    BY <1>1
  <2> HIDE DEF P
  <2> QED
    BY <2>1, <2>2
<1>9. Words(line) = g[Len(line)]
  BY DEF Words
<1> QED
  BY <1>8, <1>9, SubSeqFull

\* The next request of those that are left.
LEMMA NextRequestIs ==
    ASSUME NEW rs \in Streams, NEW i \in 1 .. Len(rs)
    PROVE  /\ Sendable(rs) /\ Len(rs) \in Nat
           /\ Len(rs) + 1 - i \in 1 .. Len(rs) /\ NextRequest(rs, i) = rs[Len(rs) + 1 - i]
           /\ NextRequest(rs, i) \in Request /\ IsSendable(NextRequest(rs, i))
           /\ Stream(rs)[i] = Cat(Encode(NextRequest(rs, i)), Stream(rs)[i - 1])
           /\ Stream(rs)[i] \in Seq(Token) /\ Stream(rs)[i - 1] \in Seq(Token)
           /\ NextRequest(rs, i).type = "endless" => i = 1 /\ Stream(rs)[i - 1] = <<>>
<1>1. Sendable(rs) /\ Len(rs) \in Nat /\ \A k \in 1 .. Len(rs) : rs[k].type = "endless" => k = Len(rs)
  BY StreamsAssumption, LenProperties DEF Sendable
<1>2. Len(rs) + 1 - i \in 1 .. Len(rs) /\ i \in 0 .. Len(rs) /\ i - 1 \in 0 .. Len(rs)
  BY <1>1
<1>3. NextRequest(rs, i) = rs[Len(rs) + 1 - i]
  BY DEF NextRequest
<1>4. rs[Len(rs) + 1 - i] \in Request /\ IsSendable(rs[Len(rs) + 1 - i])
  BY <1>1, <1>2, ElementOfSeq DEF Sendable
<1>5. /\ Stream(rs)[0] = <<>>
      /\ Stream(rs)[i] = Cat(Encode(rs[Len(rs) + 1 - i]), Stream(rs)[i - 1])
      /\ Stream(rs)[i] \in Seq(Token) /\ Stream(rs)[i - 1] \in Seq(Token)
  BY <1>1, <1>2, StreamIs
<1>6. rs[Len(rs) + 1 - i].type = "endless" => i = 1
  BY <1>1, <1>2
<1> QED
  BY <1>1, <1>2, <1>3, <1>4, <1>5, <1>6

\* What follows the first arguments of a request.
LEMMA AfterIs ==
    ASSUME NEW rs \in Streams, NEW i \in 1 .. Len(rs), NEW k \in 0 .. Len(NextRequest(rs, i).args)
    PROVE  /\ After(rs, i, k) \in Seq(Token)
           /\ Len(NextRequest(rs, i).args) \in Nat /\ NextRequest(rs, i).args \in Seq(Seq(Token))
           /\ k < Len(NextRequest(rs, i).args) =>
                /\ k + 1 \in 1 .. Len(NextRequest(rs, i).args)
                /\ NextRequest(rs, i).args[k + 1] \in Seq(Token)
                /\ LineAt(NextRequest(rs, i), k) = <<Tok("$", Len(NextRequest(rs, i).args[k + 1]))>>
                /\ Cat(Cat(NextRequest(rs, i).args[k + 1], CRLF), After(rs, i, k + 1)) \in Seq(Token)
                /\ After(rs, i, k) = Cat(Cat(LineAt(NextRequest(rs, i), k), CRLF),
                                         Cat(Cat(NextRequest(rs, i).args[k + 1], CRLF), After(rs, i, k + 1)))
           /\ k = Len(NextRequest(rs, i).args) =>
                /\ LineAt(NextRequest(rs, i), k) = NextRequest(rs, i).line
                /\ NextRequest(rs, i).type = "multibulk" => After(rs, i, k) = Stream(rs)[i - 1]
                /\ NextRequest(rs, i).type = "badbulk" =>
                     After(rs, i, k) = Cat(Cat(LineAt(NextRequest(rs, i), k), CRLF), Stream(rs)[i - 1])
<1> DEFINE r == NextRequest(rs, i)  n == Len(r.args)  b == BulksOf(r.args)  e == Ending(r)  m == Stream(rs)[i - 1]
<1>1. /\ r \in Request /\ IsSendable(r) /\ m \in Seq(Token)
  BY NextRequestIs
<1>2. /\ r.args \in Seq(Seq(Token)) /\ r.line \in Seq(Token) /\ e \in Seq(Token)
      /\ r.type = "badbulk" => e = Cat(r.line, CRLF)
      /\ r.type = "multibulk" => e = <<>>
  <2> HIDE DEF r
  <2> QED
    BY <1>1, RequestIs
<1>3. n \in Nat /\ \A j \in 1 .. n : r.args[j] \in Seq(Token)
  BY <1>2, LenProperties, ElementOfSeq
<1>4. /\ b[0] = <<>>
      /\ \A j \in 0 .. n : b[j] \in Seq(Token)
      /\ \A j \in 1 .. n : b[j] = Cat(Bulk(r.args[n + 1 - j]), b[j - 1])
  <2> HIDE DEF r
  <2> QED
    BY <1>2, BulksIs
<1>5. \A j \in 0 .. n : After(rs, i, j) = Cat(Cat(b[n - j], e), m)
  BY DEF After
<1> HIDE DEF r, b, e, m
<1>6. m \in Seq(Token) /\ e \in Seq(Token)
  BY <1>1, <1>2
<1>7. ASSUME NEW j \in 0 .. n PROVE After(rs, i, j) \in Seq(Token) /\ Cat(b[n - j], e) \in Seq(Token) /\ b[n - j] \in Seq(Token)
  <2>1. n - j \in 0 .. n
    BY <1>3
  <2>2. b[n - j] \in Seq(Token)
    BY <1>4, <2>1
  <2>3. Cat(b[n - j], e) \in Seq(Token)
    BY <1>6, <2>2, CatIs
  <2>4. Cat(Cat(b[n - j], e), m) \in Seq(Token)
    BY <1>6, <2>3, CatIs
  <2> QED
    BY <1>5, <2>2, <2>3, <2>4
<1>8. k \in 0 .. n
  BY DEF r
<1>9. ASSUME k < n
      PROVE  /\ k + 1 \in 1 .. n
             /\ r.args[k + 1] \in Seq(Token)
             /\ LineAt(r, k) = <<Tok("$", Len(r.args[k + 1]))>>
             /\ Cat(Cat(r.args[k + 1], CRLF), After(rs, i, k + 1)) \in Seq(Token)
             /\ After(rs, i, k) = Cat(Cat(LineAt(r, k), CRLF), Cat(Cat(r.args[k + 1], CRLF), After(rs, i, k + 1)))
  <2> DEFINE a == r.args[k + 1]  l == <<Tok("$", Len(a))>>  c == b[n - (k + 1)]  h == Cat(l, CRLF)  w == Cat(a, CRLF)
  <2>1. k + 1 \in 1 .. n /\ k + 1 \in 0 .. n /\ n - k \in 1 .. n /\ n + 1 - (n - k) = k + 1 /\ (n - k) - 1 = n - (k + 1)
    BY <1>3, <1>9, <1>8, SMTT(60)
  <2>2. a \in Seq(Token)
    BY <1>3, <2>1
  <2>3. LineAt(r, k) = l
    BY <1>9 DEF LineAt
  <2> HIDE DEF a
  <2>4. Bulk(a) = Cat(h, w) /\ l \in Seq(Token)
    BY <2>2, BulkIs
  <2> HIDE DEF l
  <2>5. h \in Seq(Token) /\ w \in Seq(Token)
    <3>1. h \in Seq(Token)
      BY <2>4, TokensAre, CatIs
    <3>2. w \in Seq(Token)
      BY <2>2, TokensAre, CatIs
    <3> QED
      BY <3>1, <3>2
  <2>6. b[n - k] = Cat(Bulk(a), c)
    BY <1>4, <2>1 DEF a
  <2>7. c \in Seq(Token) /\ Cat(c, e) \in Seq(Token) /\ After(rs, i, k + 1) = Cat(Cat(c, e), m)
        /\ After(rs, i, k + 1) \in Seq(Token)
    BY <1>5, <1>7, <2>1
  <2> HIDE DEF c, h, w
  <2>8. Cat(h, w) \in Seq(Token) /\ Cat(Cat(h, w), c) \in Seq(Token)
    <3>1. Cat(h, w) \in Seq(Token)
      BY <2>5, CatIs
    <3> QED
      BY <3>1, <2>7, CatIs
  <2>9. Cat(Cat(Cat(Cat(h, w), c), e), m) = Cat(h, Cat(w, Cat(Cat(c, e), m)))
    <3>1. Cat(Cat(Cat(h, w), c), e) = Cat(Cat(h, w), Cat(c, e))
      BY <1>6, <2>7, <2>8, CatFlat
    <3>2. Cat(Cat(Cat(h, w), Cat(c, e)), m) = Cat(Cat(h, w), Cat(Cat(c, e), m))
      BY <1>6, <2>7, <2>8, CatFlat
    <3>3. Cat(Cat(c, e), m) \in Seq(Token)
      BY <2>7
    <3>4. Cat(Cat(h, w), Cat(Cat(c, e), m)) = Cat(h, Cat(w, Cat(Cat(c, e), m)))
      BY <2>5, <3>3, CatFlat
    <3> QED
      BY <3>1, <3>2, <3>4
  <2>10. After(rs, i, k) = Cat(Cat(Cat(Cat(h, w), c), e), m)
    BY <1>5, <1>8, <2>4, <2>6
  <2>11. Cat(w, After(rs, i, k + 1)) \in Seq(Token)
    BY <2>5, <2>7, CatIs
  <2> QED
    BY <2>1, <2>2, <2>3, <2>7, <2>9, <2>10, <2>11 DEF a, l, h, w
<1>10. ASSUME k = n
      PROVE  /\ LineAt(r, k) = r.line
             /\ r.type = "multibulk" => After(rs, i, k) = m
             /\ r.type = "badbulk" => After(rs, i, k) = Cat(Cat(LineAt(r, k), CRLF), m)
  <2>1. LineAt(r, k) = r.line
    BY <1>10 DEF LineAt
  <2>2. n - k = 0
    BY <1>3, <1>10
  <2>3. After(rs, i, k) = Cat(Cat(<<>>, e), m)
    BY <1>4, <1>5, <1>8, <2>2
  <2>4. Cat(<<>>, e) = e /\ Cat(<<>>, m) = m
    BY <1>6, CatFlat
  <2> QED
    BY <1>2, <2>1, <2>3, <2>4
<1> QED
  BY <1>2, <1>3, <1>7, <1>9, <1>10, <1>8 DEF r, m

\* The stream begins with the first line of the next request.
LEMMA NextIs ==
    ASSUME NEW rs \in Streams, NEW i \in 1 .. Len(rs)
    PROVE  LET r == NextRequest(rs, i)
           IN  /\ HeadLine(r) \in Seq(Token) /\ IsLine(HeadLine(r)) /\ Len(HeadLine(r)) \in Nat
               /\ r.type \in {"multibulk", "badbulk"} =>
                    Stream(rs)[i] = Cat(Cat(HeadLine(r), CRLF), After(rs, i, 0)) /\ After(rs, i, 0) \in Seq(Token)
               /\ r.type \in {"badcount", "inline"} =>
                    Stream(rs)[i] = Cat(Cat(HeadLine(r), CRLF), Stream(rs)[i - 1])
               /\ r.type = "endless" => Stream(rs)[i] = HeadLine(r)
               /\ r.type = "inline" => Len(HeadLine(r)) + 2 <= INLINE_MAX + 1
<1> DEFINE r == NextRequest(rs, i)  m == Stream(rs)[i - 1]  h == Cat(HeadLine(r), CRLF)  a == Arguments(r)
<1>1. /\ r \in Request /\ IsSendable(r) /\ m \in Seq(Token)
      /\ Stream(rs)[i] = Cat(Encode(r), m)
      /\ r.type = "endless" => m = <<>>
  BY NextRequestIs
<1> HIDE DEF r, m
<1>2. /\ HeadLine(r) \in Seq(Token) /\ IsLine(HeadLine(r))
      /\ a \in Seq(Token) /\ Encode(r) \in Seq(Token)
      /\ r.type # "endless" => Encode(r) = Cat(h, a)
      /\ r.type = "endless" => Encode(r) = HeadLine(r)
      /\ r.type \in {"multibulk", "inline", "badcount", "badbulk", "endless"}
  BY <1>1, RequestIs
<1>3. Len(HeadLine(r)) \in Nat
  BY <1>2, LenProperties
<1>4. h \in Seq(Token) /\ Len(h) = Len(HeadLine(r)) + 2
  <2> DEFINE l == HeadLine(r)
  <2>1. l \in Seq(Token)
    BY <1>2
  <2>2. CRLF \in Seq(Token) /\ Len(CRLF) = 2
    BY TokensAre
  <2> HIDE DEF l
  <2>3. Cat(l, CRLF) \in Seq(Token) /\ Len(Cat(l, CRLF)) = Len(l) + Len(CRLF)
    BY <2>1, <2>2, CatIs
  <2> QED
    BY <2>2, <2>3 DEF l
<1>5. r.type # "endless" => Stream(rs)[i] = Cat(h, Cat(a, m))
  <2> HIDE DEF h, a
  <2>1. Cat(Cat(h, a), m) = Cat(h, Cat(a, m))
    BY <1>1, <1>2, <1>4, CatFlat
  <2> QED
    BY <1>1, <1>2, <2>1
<1>6. ASSUME r.type \in {"multibulk", "badbulk"} PROVE Cat(a, m) = After(rs, i, 0) /\ After(rs, i, 0) \in Seq(Token)
  <2>1. After(rs, i, 0) = Cat(Cat(BulksOf(r.args)[Len(r.args) - 0], Ending(r)), m)
    BY DEF After, r, m
  <2>2. Len(r.args) \in Nat
    BY <1>1, RequestIs, LenProperties
  <2>3. Len(r.args) - 0 = Len(r.args)
    BY <2>2
  <2>4. Cat(a, m) \in Seq(Token)
    BY <1>1, <1>2, CatIs
  <2> QED
    BY <1>6, <2>1, <2>3, <2>4 DEF Arguments
<1>7. ASSUME r.type \in {"badcount", "inline"} PROVE Cat(a, m) = m
  <2>1. a = <<>>
    BY <1>7 DEF Arguments
  <2> QED
    BY <1>1, <2>1, CatFlat
<1>8. ASSUME r.type = "endless" PROVE Stream(rs)[i] = HeadLine(r)
  <2>1. Cat(HeadLine(r), <<>>) = HeadLine(r)
    BY <1>2, CatFlat
  <2> QED
    BY <1>1, <1>2, <1>8, <2>1
<1>9. ASSUME r.type = "inline" PROVE Len(HeadLine(r)) + 2 <= INLINE_MAX + 1
  <2>1. Encode(r) = h
    <3>1. a = <<>>
      BY <1>9 DEF Arguments
    <3> HIDE DEF a, h
    <3>2. Cat(h, <<>>) = h
      BY <1>4, CatFlat
    <3> QED
      BY <1>2, <1>9, <3>1, <3>2
  <2>2. Len(Encode(r)) <= INLINE_MAX + 1
    BY <1>1, <1>9 DEF IsSendable
  <2> QED
    BY <1>4, <2>1, <2>2
<1> QED
  BY <1>2, <1>3, <1>5, <1>6, <1>7, <1>8, <1>9 DEF r, m, h

\* The requests of the client.
LEMMA RequestsAre ==
    ASSUME InputTypes
    PROVE  /\ Sendable(requests) /\ requests \in Seq(Request) /\ Len(requests) \in Nat
           /\ \A j \in 1 .. Len(requests) : requests[j] \in Request
<1>1. requests \in Streams
  BY DEF InputTypes
<1>2. Sendable(requests)
  BY <1>1, StreamsAssumption DEF Sendable
<1>3. requests \in Seq(Request)
  BY <1>2 DEF Sendable
<1> QED
  BY <1>2, <1>3, LenProperties, ElementOfSeq

\* Requests that were executed, none of which ends the connection, are a
\* prefix of those that are expected; the next one may be the last.
LEMMA ExpectedIs ==
    ASSUME InputTypes, NEW i \in 0 .. Len(requests), \A j \in 1 .. Len(requests) - i : ~Ends(requests[j])
    PROVE  /\ IsPrefix(CommandsTo(requests)[Len(requests) - i], Expected)
           /\ i = 0 => ~IsClosing /\ Expected = CommandsTo(requests)[Len(requests)]
           /\ i > 0 /\ Ends(NextRequest(requests, i)) => IsClosing /\ Expected = CommandsTo(requests)[Len(requests) + 1 - i]
<1> DEFINE n == Len(requests)  c == CommandsTo(requests)
<1>1. Sendable(requests) /\ n \in Nat
  BY RequestsAre
<1>2. Endings \subseteq Nat /\ \A t \in Endings : t \in 1 .. n /\ Ends(requests[t])
  BY <1>1 DEF Endings
<1>3. \A t \in Endings : n - i < t
  BY <1>1, <1>2
<1>4. \A k \in n - i .. n : IsPrefix(c[n - i], c[k])
  <2>1. n - i \in 0 .. n
    BY <1>1
  <2> QED
    BY <1>1, <2>1, CommandsPrefix
<1>5. IsPrefix(c[n - i], Expected)
  <2>1. CASE Endings = {}
    <3>1. n \in n - i .. n
      BY <1>1
    <3> QED
      BY <1>4, <2>1, <3>1 DEF Expected
  <2>2. CASE Endings # {}
    <3>1. First(Endings) \in Endings
      BY <1>2, <2>2, FirstIs
    <3>2. First(Endings) \in 1 .. n /\ n - i < First(Endings)
      BY <1>2, <1>3, <3>1
    <3>3. First(Endings) \in n - i .. n
      <4> HIDE DEF n
      <4> QED
        BY <1>1, <3>2
    <3> QED
      BY <1>4, <2>2, <3>3 DEF Expected
  <2> QED
    BY <2>1, <2>2
<1>6. i = 0 => ~IsClosing /\ Expected = c[n]
  <2>1. i = 0 => Endings = {}
    BY <1>1, <1>2, <1>3
  <2> QED
    BY <2>1 DEF IsClosing, Expected
<1>7. ASSUME i > 0, Ends(NextRequest(requests, i)) PROVE IsClosing /\ Expected = c[n + 1 - i]
  <2>1. n + 1 - i \in 1 .. n
    BY <1>1, <1>7
  <2>2. n + 1 - i \in Endings
    BY <1>7, <2>1 DEF Endings, NextRequest
  <2>3. \A t \in Endings : n + 1 - i <= t
    BY <1>1, <1>2, <1>3
  <2>4. First(Endings) = n + 1 - i
    BY <1>2, <2>2, <2>3, FirstOf
  <2> QED
    BY <2>2, <2>4 DEF IsClosing, Expected
<1> QED
  BY <1>5, <1>6, <1>7

\* A protocol error while the requests before it were all executed.
LEMMA ErrorCloses ==
    ASSUME InputTypes, NEW i \in 0 .. Len(requests), Served(i), wasBlocked \/ IsClosing,
           NEW rest \in Seq(Token), setProtocolError(rest), reqtype' \in {"none", "inline", "multibulk"}
    PROVE  InputInv'
<1>1. IsPrefix(executed, Expected)
  BY ExpectedIs DEF Served
<1>2. /\ querybuf' = rest /\ pos' = 0 /\ at' = "idle" /\ inAfterReply' = TRUE
      /\ UNCHANGED <<requests, incoming, multibulklen, bulklen, argv, executed, inBlocked, wasBlocked, inFreed>>
  BY DEF setProtocolError, Incomplete
<1>3. InputTypes'
  BY <1>2 DEF InputTypes
<1>4. IsClosing' = IsClosing /\ Expected' = Expected
  BY <1>2 DEF IsClosing, Expected, Endings
<1>5. InputClosed'
  BY <1>1, <1>2, <1>4 DEF InputClosed
<1> QED
  BY <1>3, <1>5 DEF InputInv

\* What does not change while a request is read.
LEMMA StillServed ==
    ASSUME NEW i \in 0 .. Len(requests), Served(i), UNCHANGED <<requests, executed, inAfterReply>>
    PROVE  Served(i)' /\ (IsClosing <=> IsClosing')
<1>1. Served(i)'
  BY DEF Served
<1>2. IsClosing <=> IsClosing'
  BY DEF IsClosing, Endings
<1> QED
  BY <1>1, <1>2

\* The first line of the next request is not complete.
LEMMA WaitsForFirst ==
    ASSUME InputTypes, NEW i \in 1 .. Len(requests), Served(i), Between(i), Bounded(i),
           at = "top", Incomplete(querybuf), UNCHANGED inAfterReply,
           reqtype' \in TypesOf(NextRequest(requests, i)), reqtype' \in {"none", "inline", "multibulk"},
           Len(querybuf) < FirstLength(NextRequest(requests, i))
    PROVE  InputInv'
<1>1. /\ querybuf' = querybuf /\ pos' = 0 /\ at' = "idle"
      /\ UNCHANGED <<requests, incoming, multibulklen, bulklen, argv, executed, inBlocked, wasBlocked, inFreed, inAfterReply>>
  BY DEF Incomplete
<1>2. InputTypes'
  BY <1>1 DEF InputTypes
<1>3. Served(i)' /\ (IsClosing <=> IsClosing')
  BY <1>1, StillServed
<1>4. Between(i)'
  BY <1>1 DEF Between, IsShort
<1>5. Bounded(i)'
  BY <1>1, <1>3 DEF Bounded, Between
<1>6. i \in 0 .. Len(requests)'
  BY <1>1
<1> QED
  BY <1>2, <1>3, <1>4, <1>5, <1>6 DEF InputInv, Reading

\* The next line or argument of a request is not complete.
LEMMA WaitsInside ==
    ASSUME InputTypes, NEW i \in 1 .. Len(requests), Served(i), Inside(i, NextRequest(requests, i), Len(argv)), Bounded(i),
           at = "bulk", multibulklen > 0, Incomplete(From(querybuf, pos)), UNCHANGED <<inAfterReply, reqtype>>,
           bulklen = None => Len(From(querybuf, pos)) < Len(LineAt(NextRequest(requests, i), Len(argv))) + 2,
           bulklen # None => Len(From(querybuf, pos)) < bulklen + 2
    PROVE  InputInv'
<1>1. /\ querybuf' = From(querybuf, pos) /\ pos' = 0 /\ at' = "idle"
      /\ UNCHANGED <<requests, incoming, multibulklen, bulklen, argv, executed, inBlocked, wasBlocked, inFreed,
                     inAfterReply, reqtype>>
  BY DEF Incomplete
<1>2. /\ querybuf \in Seq(Token) /\ pos \in 0 .. Len(querybuf) /\ Len(querybuf) \in Nat /\ pos \in Nat
      /\ bulklen \in Nat \cup {None}
  BY LenProperties DEF InputTypes, Inside
<1>3. /\ From(querybuf, pos) \in Seq(Token) /\ Len(From(querybuf, pos)) = Len(querybuf) - pos
      /\ From(From(querybuf, pos), 0) = From(querybuf, pos)
  <2>1. From(querybuf, pos) \in Seq(Token) /\ Len(From(querybuf, pos)) = Len(querybuf) - pos
    BY <1>2, FromIs
  <2>2. 0 \in 0 .. Len(From(querybuf, pos))
    BY <1>2, <2>1
  <2>3. From(From(querybuf, pos), 0) = From(querybuf, pos)
    BY <2>1, <2>2, FromTo
  <2> QED
    BY <2>1, <2>3
<1>4. InputTypes'
  BY <1>1, <1>3 DEF InputTypes
<1>5. Served(i)' /\ (IsClosing <=> IsClosing')
  BY <1>1, StillServed
<1>6. From(querybuf, pos)' = From(querybuf, pos) /\ Unread' = Unread
  <2>1. From(querybuf, pos)' = From(From(querybuf, pos), 0)
    BY <1>1 DEF From
  <2> QED
    BY <1>1, <1>3, <2>1 DEF Unread
<1>7. pos' <= Len(querybuf)'
  BY <1>1, <1>2, <1>3
<1>8. Inside(i, NextRequest(requests, i), Len(argv))'
  <2> DEFINE r == NextRequest(requests, i)
  <2>1. r' = r
    BY <1>1
  <2> HIDE DEF r
  <2>2. Inside(i, r, Len(argv))'
    BY <1>1, <1>6, <1>7, <2>1 DEF Inside, IsShort, r
  <2> QED
    BY <2>2 DEF r
<1>9. Bounded(i)'
  BY <1>1, <1>2, <1>3, <1>5, InputAssumption DEF Bounded, None
<1>10. i \in 0 .. Len(requests)'
  BY <1>1
<1> QED
  BY <1>4, <1>5, <1>8, <1>9, <1>10 DEF InputInv, Reading

\* A command is executed: one request less is left, or QUIT was the last.
LEMMA CommandDone ==
    ASSUME InputTypes, NEW i \in 1 .. Len(requests), Served(i), ~inBlocked,
           ~Malformed(NextRequest(requests, i)),
           NEW args, args = NextRequest(requests, i).args,
           NEW rest \in Seq(Token), Cat(rest, incoming) = Stream(requests)[i - 1],
           wasBlocked \/ IsClosing \/ Len(rest) <= BIG_ARG + 1 + IOBUF_LEN,
           reqtype \in {"none", "inline", "multibulk"},
           ProcessCommand(args, rest)
    PROVE  InputInv'
<1> DEFINE n == Len(requests)  r == NextRequest(requests, i)  c == CommandsTo(requests)
<1>1. requests \in Streams /\ n \in Nat /\ Sendable(requests)
  BY RequestsAre DEF InputTypes
<1>2. n + 1 - i \in 1 .. n /\ r = requests[n + 1 - i] /\ r \in Request /\ IsSendable(r)
  BY <1>1, NextRequestIs
<1>3. args \in Seq(Seq(Token))
  <2> HIDE DEF r
  <2>1. r.args \in Seq(Seq(Token))
    BY <1>2, RequestIs
  <2> QED
    BY <2>1 DEF r
<1>4. /\ args = <<>> => c[n + 1 - i] = c[n - i]
      /\ args # <<>> => c[n + 1 - i] = Append(c[n - i], args)
  <2>1. n + 1 - i - 1 = n - i
    BY <1>1
  <2>2. /\ Malformed(requests[n + 1 - i]) \/ requests[n + 1 - i].args = <<>> => c[n + 1 - i] = c[n + 1 - i - 1]
        /\ ~Malformed(requests[n + 1 - i]) /\ requests[n + 1 - i].args # <<>>
             => c[n + 1 - i] = Append(c[n + 1 - i - 1], requests[n + 1 - i].args)
    BY <1>1, <1>2, CommandsIs
  <2> QED
    BY <1>2, <2>1, <2>2
<1>5. executed' = c[n + 1 - i]
  BY <1>4 DEF ProcessCommand, Served
<1>6. /\ querybuf' = rest /\ pos' = 0 /\ at' = "top" /\ bulklen' = None /\ multibulklen' = 0
      /\ UNCHANGED <<requests, incoming, inFreed>>
  BY DEF ProcessCommand
<1>7. IsClosing' = IsClosing /\ Expected' = Expected
  BY <1>6 DEF IsClosing, Expected, Endings
<1>8. CASE args # <<>> /\ args[1] = <<Quit>>
  <2>1. argv' = args /\ inAfterReply' = TRUE /\ UNCHANGED <<reqtype, inBlocked, wasBlocked>>
    BY <1>8 DEF ProcessCommand
  <2>2. InputTypes'
    BY <1>3, <1>6, <2>1 DEF InputTypes
  <2>3. Ends(r)
    BY <1>8 DEF Ends
  <2>4. IsClosing /\ Expected = c[n + 1 - i]
    <3>1. i \in 0 .. Len(requests) /\ i > 0
      BY <1>1
    <3> QED
      BY <2>3, <3>1, ExpectedIs DEF Served
  <2>5. IsPrefix(executed', Expected)
    <3>1. c[n + 1 - i] \in Seq(Command)
      <4>1. n + 1 - i \in 0 .. n
        BY <1>2, <1>1
      <4> QED
        BY <1>1, <4>1, CommandsIs
    <3>2. n + 1 - i \in 0 .. n /\ n + 1 - i \in n + 1 - i .. n
      BY <1>1, <1>2
    <3>3. IsPrefix(c[n + 1 - i], c[n + 1 - i])
      BY <1>1, <3>2, CommandsPrefix
    <3> QED
      BY <1>5, <2>4, <3>3
  <2>6. InputClosed'
    BY <1>6, <1>7, <2>1, <2>4, <2>5 DEF InputClosed
  <2> QED
    BY <2>2, <2>6 DEF InputInv
<1>9. CASE ~(args # <<>> /\ args[1] = <<Quit>>)
  <2>1. /\ reqtype' = "none" /\ argv' = <<>>
        /\ inBlocked' \in IF args = <<>> \/ wasBlocked THEN {FALSE} ELSE BOOLEAN
        /\ wasBlocked' = (wasBlocked \/ inBlocked')
        /\ UNCHANGED inAfterReply
    BY <1>9 DEF ProcessCommand
  <2>2. inBlocked' \in BOOLEAN /\ wasBlocked' \in BOOLEAN /\ (inBlocked' => wasBlocked') /\ (wasBlocked => wasBlocked')
    BY <2>1 DEF InputTypes
  <2>3. <<>> \in Seq(Seq(Token))
    OBVIOUS
  <2>4. InputTypes'
    BY <1>6, <2>1, <2>2, <2>3 DEF InputTypes
  <2>5. n - (i - 1) = n + 1 - i /\ i - 1 \in 0 .. n
    BY <1>1
  <2>6. \A j \in 1 .. n + 1 - i : ~Ends(requests[j])
    <3>1. ~Ends(r)
      BY <1>9 DEF Ends
    <3>2. \A j \in 1 .. n + 1 - i : j = n + 1 - i \/ j \in 1 .. n - i
      BY <1>1
    <3> QED
      BY <1>2, <3>1, <3>2 DEF Served
  <2>7. Served(i - 1)'
    <3>1. ~inAfterReply'
      BY <2>1 DEF Served
    <3>2. executed' = CommandsTo(requests')[Len(requests') - (i - 1)]
      BY <1>5, <1>6, <2>5
    <3>3. \A j \in 1 .. Len(requests') - (i - 1) : ~Ends(requests'[j])
      BY <1>6, <2>5, <2>6
    <3> QED
      BY <3>1, <3>2, <3>3 DEF Served
  <2>8. Between(i - 1)'
    <3>1. Cat(querybuf, incoming)' = Stream(requests')[i - 1]
      BY <1>6 DEF Cat
    <3>2. IsShort(FirstLength(NextRequest(requests, i - 1)))'
      BY <1>6 DEF IsShort
    <3>3. (reqtype \in TypesOf(NextRequest(requests, i - 1)))'
      BY <1>6, <2>1 DEF TypesOf
    <3> QED
      BY <1>6, <2>1, <3>1, <3>2, <3>3 DEF Between
  <2>9. Bounded(i - 1)'
    BY <1>6, <1>7, <2>2 DEF Bounded
  <2>10. i - 1 \in 0 .. Len(requests)'
    BY <1>6, <2>5
  <2> QED
    BY <2>4, <2>7, <2>8, <2>9, <2>10 DEF InputInv, Reading
<1> QED
  BY <1>8, <1>9

\* The invariant holds at the beginning.
LEMMA InputBegins ==
    InInit => InputInv
<1> SUFFICES ASSUME InInit PROVE InputInv
  OBVIOUS
<1> DEFINE n == Len(requests)
<1>1. requests \in Streams
  BY DEF InInit
<1>2. Sendable(requests) /\ n \in Nat
  BY <1>1, StreamsAssumption, LenProperties DEF Sendable
<1>3. Stream(requests)[n] \in Seq(Token) /\ CommandsTo(requests)[0] = <<>>
  <2>1. n \in 0 .. n
    BY <1>2
  <2>2. Stream(requests)[n] \in Seq(Token)
    BY <1>2, <2>1, StreamIs
  <2>3. CommandsTo(requests)[0] = <<>>
    BY <1>2, CommandsIs
  <2> QED
    BY <2>2, <2>3
<1>4. InputTypes
  <2>1. <<>> \in Seq(Token) /\ <<>> \in Seq(Seq(Token))
    OBVIOUS
  <2> QED
    BY <1>1, <1>3, <2>1 DEF InInit, InputTypes
<1>5. n \in 0 .. n /\ n - n = 0
  BY <1>2
<1>6. Served(n)
  BY <1>3, <1>5 DEF Served, InInit
<1>7. Between(n)
  <2>1. Cat(<<>>, incoming) = incoming
    BY <1>4, CatFlat DEF InputTypes
  <2>2. IsShort(FirstLength(NextRequest(requests, n)))
    BY DEF IsShort, InInit
  <2>3. reqtype \in TypesOf(NextRequest(requests, n))
    BY DEF TypesOf, InInit
  <2> QED
    BY <2>1, <2>2, <2>3 DEF Between, InInit
<1>8. Bounded(n)
  <2>1. Len(querybuf) = 0
    BY DEF InInit
  <2> QED
    BY <2>1, InputAssumption DEF Bounded
<1> QED
  BY <1>4, <1>5, <1>6, <1>7, <1>8 DEF InputInv, Reading

\* The first line of a multi bulk request is one token.
LEMMA HeadLineIs ==
    ASSUME NEW r
    PROVE  /\ r.type \in {"multibulk", "badbulk"} => HeadLine(r) = <<Tok("*", ArgCount(r))>> /\ Len(HeadLine(r)) = 1
           /\ r.type = "badcount" => HeadLine(r) = <<Tok("*", Invalid)>> /\ Len(HeadLine(r)) = 1
           /\ r.type # "endless" => FirstLength(r) = Len(HeadLine(r)) + 2
           /\ r.type = "endless" => FirstLength(r) = INLINE_MAX + 1
BY DEF HeadLine, FirstLength

\* A malformed request closes the connection.
LEMMA MalformedCloses ==
    ASSUME InputTypes, NEW i \in 1 .. Len(requests), Served(i), Malformed(NextRequest(requests, i))
    PROVE  IsClosing
<1>1. i \in 0 .. Len(requests) /\ i > 0
  BY RequestsAre
<1>2. Ends(NextRequest(requests, i))
  BY DEF Ends
<1> QED
  BY <1>1, <1>2, ExpectedIs DEF Served

\* Only a request with a line after its arguments waits for more of them.
LEMMA ArgumentsLeft ==
    ASSUME InputTypes, NEW i \in 1 .. Len(requests), Inside(i, NextRequest(requests, i), Len(argv))
    PROVE  /\ Len(argv) \in 0 .. Len(NextRequest(requests, i).args)
           /\ multibulklen > 0 /\ Len(argv) = Len(NextRequest(requests, i).args) => NextRequest(requests, i).type = "badbulk"
           /\ multibulklen = 0 => NextRequest(requests, i).type = "multibulk" /\ Len(argv) = Len(NextRequest(requests, i).args)
<1> DEFINE r == NextRequest(requests, i)  k == Len(argv)
<1>1. r.args \in Seq(Seq(Token))
  <2>1. r \in Request /\ IsSendable(r)
    BY NextRequestIs DEF InputTypes
  <2> HIDE DEF r
  <2> QED
    BY <2>1, RequestIs
<1>2. k \in Nat /\ Len(r.args) \in Nat
  BY <1>1, LenProperties DEF InputTypes
<1>3. r.type \in {"multibulk", "badbulk"} /\ k <= Len(r.args) /\ multibulklen = ArgCount(r) - k
  BY DEF Inside
<1> HIDE DEF r, k
<1>4. /\ k \in 0 .. Len(r.args)
      /\ multibulklen > 0 /\ k = Len(r.args) => r.type = "badbulk"
      /\ multibulklen = 0 => r.type = "multibulk" /\ k = Len(r.args)
  BY <1>2, <1>3 DEF ArgCount
<1> QED
  BY <1>4 DEF r, k

\* A read fits in the bound: before it the next item was not complete.
LEMMA ReadBounded ==
    ASSUME InputTypes, NEW i \in 1 .. Len(requests), Reading(i),
           NEW m \in 1 .. IOBUF_LEN, readQueryFromClient(m)
    PROVE  Bounded(i)'
<1> DEFINE r == NextRequest(requests, i)  k == Len(argv)  len == Len(querybuf)
<1>1. /\ ~inFreed /\ at = "idle" /\ m <= ReadLen
      /\ at' \in {"top", "idle"}
      /\ UNCHANGED <<requests, reqtype, multibulklen, bulklen, argv, pos, executed, inBlocked, wasBlocked, inAfterReply>>
  BY DEF readQueryFromClient
<1>2. Len(querybuf') = len + m /\ len \in Nat /\ m \in Nat
  <2>1. querybuf \in Seq(Token) /\ incoming \in Seq(Token)
    BY DEF InputTypes
  <2>2. m \in 1 .. Len(incoming)
    BY <2>1, LenProperties, InputAssumption DEF readQueryFromClient
  <2>3. Len(Cat(querybuf, SubSeq(incoming, 1, m))) = len + m /\ len \in Nat
    BY <2>1, <2>2, ReadIs
  <2> QED
    BY <2>2, <2>3 DEF readQueryFromClient, Cat
<1>3. IsClosing' = IsClosing
  BY <1>1 DEF IsClosing, Endings
<1>4. SUFFICES ASSUME ~wasBlocked, ~IsClosing PROVE Bounded(i)'
  BY <1>1, <1>3 DEF Bounded
<1>5. ~inBlocked /\ Served(i) /\ (Between(i) \/ Inside(i, r, k))
  BY <1>4 DEF InputTypes, Reading
<1>6. ~Malformed(r)
  BY <1>4, <1>5, MalformedCloses
<1>7. r \in Request /\ IsSendable(r) /\ r.type \in {"multibulk", "inline", "badcount", "badbulk", "endless"}
  BY NextRequestIs DEF InputTypes, Request
<1>8. m <= IOBUF_LEN /\ IOBUF_LEN \in Nat /\ BIG_ARG \in Nat \ {0}
  BY InputAssumption
<1>9. ASSUME NEW x \in Nat, IsShort(x) PROVE len = 0 \/ len < x
  BY <1>1, <1>5, <1>9 DEF IsShort
<1>10. CASE Between(i)
  <2>1. IsShort(FirstLength(r)) /\ multibulklen = 0
    BY <1>10 DEF Between
  <2>2. Len(HeadLine(r)) \in Nat
    BY NextIs DEF InputTypes
  <2>3. FirstLength(r) = Len(HeadLine(r)) + 2
    BY <1>6, HeadLineIs DEF Malformed
  <2>4. len <= Len(HeadLine(r)) + 1
    BY <1>2, <1>9, <2>1, <2>2, <2>3
  <2>5. CASE r.type = "inline"
    <3>1. Len(querybuf') <= Len(HeadLine(r)) + 1 + IOBUF_LEN
      <4> HIDE DEF r, len
      <4> QED
        BY <1>2, <1>8, <2>2, <2>4
    <3> QED
      BY <1>1, <2>1, <2>5, <3>1 DEF Bounded
  <2>6. CASE r.type = "multibulk"
    <3>1. Len(HeadLine(r)) = 1
      BY <2>6, HeadLineIs
    <3>2. Len(querybuf') <= BIG_ARG + 1 + IOBUF_LEN
      <4> HIDE DEF r, len
      <4> QED
        BY <1>2, <1>8, <2>4, <3>1
    <3> QED
      BY <3>2 DEF Bounded
  <2> QED
    BY <1>6, <1>7, <2>5, <2>6 DEF Malformed
<1>11. CASE Inside(i, r, k)
  <2>1. pos = 0 /\ multibulklen > 0 /\ k < Len(r.args) /\ reqtype = "multibulk"
    <3>1. pos = 0 /\ multibulklen > 0 /\ reqtype = "multibulk"
      BY <1>1, <1>11 DEF Inside
    <3>2. k \in 0 .. Len(r.args) /\ k # Len(r.args)
      BY <1>6, <1>11, <3>1, ArgumentsLeft DEF Malformed
    <3>3. Len(r.args) \in Nat
      BY <1>7, RequestIs, LenProperties
    <3> HIDE DEF k, r
    <3> QED
      BY <3>1, <3>2, <3>3
  <2>2. CASE bulklen = None
    <3>1. IsShort(Len(LineAt(r, k)) + 2) /\ Len(LineAt(r, k)) = 1
      BY <1>11, <2>1, <2>2 DEF Inside, LineAt
    <3>2. len <= 2
      BY <1>2, <1>9, <3>1
    <3>3. Len(querybuf') <= BIG_ARG + 1 + IOBUF_LEN
      <4> HIDE DEF len
      <4> QED
        BY <1>2, <1>8, <3>2
    <3> QED
      BY <3>3 DEF Bounded
  <2>3. CASE bulklen # None
    <3>1. bulklen \in Nat /\ IsShort(bulklen + 2)
      BY <1>11, <2>3 DEF Inside, InputTypes
    <3>2. len <= bulklen + 1
      BY <1>2, <1>9, <3>1
    <3>3. CASE bulklen >= BIG_ARG
      <4>1. m <= bulklen + 2 - len
        <5>1. CASE bulklen + 2 - len < IOBUF_LEN
          BY <1>1, <2>1, <2>3, <3>3, <5>1 DEF ReadLen
        <5>2. CASE ~(bulklen + 2 - len < IOBUF_LEN)
          <6> HIDE DEF len
          <6> QED
            BY <1>2, <1>8, <3>1, <5>2
        <5> QED
          BY <5>1, <5>2
      <4>2. Len(querybuf') <= bulklen + 2
        <5> HIDE DEF len
        <5> QED
          BY <1>2, <3>1, <4>1
      <4> QED
        BY <1>1, <2>1, <3>3, <4>2 DEF Bounded
    <3>4. CASE ~(bulklen >= BIG_ARG)
      <4>1. Len(querybuf') <= BIG_ARG + 1 + IOBUF_LEN
        <5> HIDE DEF len
        <5> QED
          BY <1>2, <1>8, <3>1, <3>2, <3>4
      <4> QED
        BY <4>1 DEF Bounded
    <3> QED
      BY <3>3, <3>4
  <2> QED
    BY <2>2, <2>3
<1> QED
  BY <1>5, <1>10, <1>11

\* A read changes nothing of what the client has sent.
LEMMA ReadKeeps ==
    ASSUME InputInv, NEW m \in 1 .. IOBUF_LEN, readQueryFromClient(m)
    PROVE  InputInv'
<1>1. /\ ~inFreed /\ at = "idle" /\ m \in 1 .. Len(incoming)
      /\ querybuf' = Cat(querybuf, SubSeq(incoming, 1, m)) /\ incoming' = From(incoming, m)
      /\ (at' = "idle" /\ inFreed' = TRUE) \/ (at' = "top" /\ inFreed' = FALSE)
      /\ UNCHANGED <<requests, reqtype, multibulklen, bulklen, argv, pos, executed, inBlocked, wasBlocked, inAfterReply>>
  <2>1. incoming \in Seq(Token) /\ Len(incoming) \in Nat
    BY LenProperties DEF InputInv, InputTypes
  <2> QED
    BY <2>1, InputAssumption DEF readQueryFromClient, Cat, InputInv, InputTypes
<1>2. querybuf \in Seq(Token) /\ incoming \in Seq(Token) /\ InputTypes
  BY DEF InputInv, InputTypes
<1>3. /\ querybuf' \in Seq(Token) /\ incoming' \in Seq(Token)
      /\ Cat(querybuf', incoming') = Cat(querybuf, incoming)
      /\ Len(querybuf') = Len(querybuf) + m /\ Len(querybuf) \in Nat
  BY <1>1, <1>2, ReadIs
<1>4. InputTypes'
  BY <1>1, <1>2, <1>3 DEF InputTypes
<1>5. Expected' = Expected /\ IsClosing' = IsClosing
  BY <1>1 DEF Expected, IsClosing, Endings
<1>6. CASE InputClosed
  <2>1. InputClosed'
    BY <1>1, <1>5, <1>6 DEF InputClosed
  <2> QED
    BY <1>4, <2>1 DEF InputInv
<1>7. ASSUME NEW i \in 0 .. Len(requests), Reading(i) PROVE InputInv'
  <2>1. i # 0
    <3> SUFFICES ASSUME i = 0 PROVE FALSE
      OBVIOUS
    <3>1. Cat(querybuf, incoming) = <<>>
      <4>1. Between(i)
        BY <1>7 DEF Reading, Inside
      <4>2. Sendable(requests)
        BY <1>2, RequestsAre
      <4>3. Stream(requests)[0] = <<>>
        BY <4>2, StreamIs
      <4> QED
        BY <4>1, <4>3 DEF Between
    <3>2. Len(Cat(querybuf, incoming)) = Len(querybuf) + Len(incoming) /\ Len(incoming) \in Nat
      BY <1>2, CatIs
    <3>3. Len(Cat(querybuf, incoming)) = 0
      BY <3>1
    <3>4. Len(incoming) >= 1
      BY <1>1, <3>2
    <3>5. Len(querybuf) \in Nat
      BY <1>2, LenProperties
    <3> QED
      BY <3>2, <3>3, <3>4, <3>5
  <2>2. i \in 1 .. Len(requests)
    BY <1>2, <2>1, RequestsAre
  <2>3. Bounded(i)'
    BY <1>2, <1>7, <2>2, ReadBounded
  <2>4. Served(i)'
    BY <1>1, <1>7, StillServed DEF Reading
  <2>5. CASE Between(i)
    <3>1. Cat(querybuf, incoming)' = Cat(querybuf, incoming)
      BY <1>3 DEF Cat
    <3>2. Between(i)'
      BY <1>1, <2>5, <3>1 DEF Between, IsShort
    <3> QED
      BY <1>1, <1>4, <1>7, <2>3, <2>4, <3>2 DEF InputInv, Reading
  <2>6. CASE Inside(i, NextRequest(requests, i), Len(argv))
    <3>1. pos = 0 /\ at' # "bulk"
      BY <1>1, <2>6 DEF Inside
    <3>2. Unread' = Unread
      <4>1. From(querybuf, 0) = querybuf
        BY <1>2, LenProperties, FromTo
      <4>2. From(querybuf', 0) = querybuf'
        BY <1>3, LenProperties, FromTo
      <4>3. Unread' = Cat(From(querybuf', 0), incoming')
        BY <1>1, <3>1 DEF Unread, From, Cat
      <4> QED
        BY <1>3, <3>1, <4>1, <4>2, <4>3 DEF Unread
    <3>3. pos' <= Len(querybuf)'
      BY <1>1, <1>3, <3>1
    <3> DEFINE r == NextRequest(requests, i)
    <3>4. r' = r
      BY <1>1
    <3> HIDE DEF r
    <3>5. Inside(i, r, Len(argv))'
      BY <1>1, <2>6, <3>1, <3>2, <3>3, <3>4 DEF Inside, IsShort, r
    <3>6. Inside(i, NextRequest(requests, i), Len(argv))'
      BY <3>5 DEF r
    <3> QED
      BY <1>1, <1>4, <1>7, <2>3, <2>4, <3>6 DEF InputInv, Reading
  <2> QED
    BY <1>7, <2>5, <2>6 DEF Reading
<1> QED
  BY <1>6, <1>7 DEF InputInv

\* The loop ends, or begins again when the client is served: nothing is read.
LEMMA LoopKeeps ==
    ASSUME InputInv, at # "bulk", at' \in {"idle", "top"}, inBlocked' \in BOOLEAN, inBlocked' => inBlocked,
           at' = "idle" => ~(querybuf # <<>> /\ ~inBlocked' /\ ~inAfterReply),
           UNCHANGED <<requests, incoming, querybuf, reqtype, multibulklen, bulklen, argv, pos, executed, wasBlocked,
                       inAfterReply, inFreed>>
    PROVE  InputInv'
<1>1. InputTypes
  BY DEF InputInv
<1>2. InputTypes'
  BY <1>1 DEF InputTypes
<1>3. CASE InputClosed
  <2>1. InputClosed'
    BY <1>3 DEF InputClosed, Expected, IsClosing, Endings
  <2> QED
    BY <1>2, <2>1 DEF InputInv
<1>4. ASSUME NEW i \in 0 .. Len(requests), Reading(i) PROVE InputInv'
  <2>1. Served(i)' /\ (IsClosing <=> IsClosing') /\ ~inAfterReply
    BY <1>4, StillServed DEF Reading, Served
  <2>2. Bounded(i)'
    BY <1>4, <2>1 DEF Bounded, Reading
  <2>3. ASSUME NEW x PROVE IsShort(x)'
    BY <2>1 DEF IsShort
  <2>4. CASE Between(i)
    <3>1. Cat(querybuf, incoming)' = Cat(querybuf, incoming)
      BY DEF Cat
    <3>2. IsShort(FirstLength(NextRequest(requests, i)))'
      BY <2>3
    <3>3. Between(i)'
      BY <2>4, <3>1, <3>2 DEF Between
    <3> QED
      BY <1>2, <1>4, <2>1, <2>2, <3>3 DEF InputInv, Reading
  <2>5. CASE Inside(i, NextRequest(requests, i), Len(argv))
    <3>1. Unread' = Unread
      BY DEF Unread, From, Cat
    <3> DEFINE r == NextRequest(requests, i)
    <3>2. r' = r
      OBVIOUS
    <3> HIDE DEF r
    <3>3. IsShort(Len(LineAt(r, Len(argv))) + 2)' /\ IsShort(bulklen + 2)'
      BY <2>3
    <3>4. Inside(i, r, Len(argv))'
      BY <2>5, <3>1, <3>2, <3>3 DEF Inside, r
    <3>5. Inside(i, NextRequest(requests, i), Len(argv))'
      BY <3>4 DEF r
    <3> QED
      BY <1>2, <1>4, <2>1, <2>2, <3>5 DEF InputInv, Reading
  <2> QED
    BY <1>4, <2>4, <2>5 DEF Reading
<1> QED
  BY <1>3, <1>4 DEF InputInv

\* processInputBuffer returns: the client has no input, is blocked or closing.
LEMMA DoneKeeps ==
    ASSUME InputInv, InputDone
    PROVE  InputInv'
<1>1. at # "bulk" /\ at' = "idle" /\ inBlocked' = inBlocked /\ ~(querybuf # <<>> /\ ~inBlocked' /\ ~inAfterReply)
  BY DEF InputDone, MayContinue
<1>2. inBlocked' \in BOOLEAN
  BY <1>1 DEF InputInv, InputTypes
<1> QED
  BY <1>1, <1>2, LoopKeeps DEF InputDone

\* The blocked client is served, and its input is looked at again.
LEMMA UnblockedKeeps ==
    ASSUME InputInv, InputUnblocked
    PROVE  InputInv'
<1>1. at # "bulk" /\ at' = "top" /\ inBlocked' \in BOOLEAN /\ ~inBlocked'
  BY DEF InputUnblocked
<1> QED
  BY <1>1, LoopKeeps DEF InputUnblocked

\* A client whose input is processed has something to read, and a request
\* that was not executed.
LEMMA ProcessingIs ==
    ASSUME InputInv, at = "top" \/ at = "bulk", at = "top" => MayContinue
    PROVE  /\ InputTypes
           /\ \E i \in 1 .. Len(requests) : Reading(i)
<1>1. InputTypes /\ ~InputClosed
  BY DEF InputInv, InputClosed, MayContinue
<1>2. PICK i \in 0 .. Len(requests) : Reading(i)
  BY <1>1 DEF InputInv
<1>3. i # 0
  <2> SUFFICES ASSUME i = 0 PROVE FALSE
    OBVIOUS
  <2>1. Between(i)
    BY <1>2 DEF Reading, Inside
  <2>2. querybuf # <<>>
    BY <2>1 DEF Between, MayContinue
  <2>3. Stream(requests)[0] = <<>>
    BY <1>1, RequestsAre, StreamIs
  <2>4. Cat(querybuf, incoming) = <<>>
    BY <2>1, <2>3 DEF Between
  <2>5. querybuf \in Seq(Token) /\ incoming \in Seq(Token)
    BY <1>1 DEF InputTypes
  <2>6. Len(Cat(querybuf, incoming)) = Len(querybuf) + Len(incoming) /\ Len(querybuf) \in Nat /\ Len(incoming) \in Nat
    BY <2>5, CatIs
  <2>7. Len(Cat(querybuf, incoming)) = 0
    BY <2>4
  <2>8. Len(querybuf) = 0
    BY <2>6, <2>7
  <2> QED
    BY <2>2, <2>5, <2>8, EmptySeq
<1>4. i \in 1 .. Len(requests)
  BY <1>1, <1>3, RequestsAre
<1> QED
  BY <1>1, <1>2, <1>4

\* The first token of the buffer tells an inline request.
LEMMA HeadIs ==
    ASSUME InputTypes, NEW i \in 1 .. Len(requests), Between(i), querybuf # <<>>
    PROVE  /\ Head(querybuf) = querybuf[1] /\ Len(querybuf) >= 1 /\ Len(querybuf) \in Nat
           /\ NextRequest(requests, i).type \in {"multibulk", "badbulk", "badcount"} => Head(querybuf).kind = "*"
           /\ NextRequest(requests, i).type = "inline" => Head(querybuf).kind # "*"
<1> DEFINE r == NextRequest(requests, i)  h == HeadLine(r)
<1>1. querybuf \in Seq(Token) /\ incoming \in Seq(Token)
  BY DEF InputTypes
<1>2. Len(querybuf) \in Nat /\ Len(querybuf) >= 1 /\ Head(querybuf) = querybuf[1]
  BY <1>1, LenProperties, EmptySeq
<1>3. r \in Request /\ IsSendable(r) /\ h \in Seq(Token) /\ Len(h) \in Nat
  BY NextRequestIs, NextIs DEF InputTypes
<1>4. ASSUME r.type # "endless"
      PROVE  querybuf[1] = IF Len(h) >= 1 THEN h[1] ELSE CR
  <2>1. \E more \in Seq(Token) : Stream(requests)[i] = Cat(Cat(h, CRLF), more)
    <3>1. Stream(requests)[i - 1] \in Seq(Token) /\ r.type \in {"multibulk", "inline", "badcount", "badbulk", "endless"}
      BY <1>3, NextRequestIs DEF InputTypes, Request
    <3>2. r.type \in {"multibulk", "badbulk"} =>
            Stream(requests)[i] = Cat(Cat(h, CRLF), After(requests, i, 0)) /\ After(requests, i, 0) \in Seq(Token)
      BY NextIs DEF InputTypes
    <3>3. r.type \in {"badcount", "inline"} => Stream(requests)[i] = Cat(Cat(h, CRLF), Stream(requests)[i - 1])
      BY NextIs DEF InputTypes
    <3> QED
      BY <1>4, <3>1, <3>2, <3>3
  <2>2. PICK more \in Seq(Token) : Stream(requests)[i] = Cat(Cat(h, CRLF), more)
    BY <2>1
  <2> HIDE DEF h
  <2>3. CRLF \in Seq(Token) /\ Len(CRLF) = 2 /\ CRLF[1] = CR
    BY TokensAre
  <2> DEFINE b == Cat(h, CRLF)
  <2>4. b \in Seq(Token) /\ Len(b) = Len(h) + 2 /\ b[1] = IF 1 <= Len(h) THEN h[1] ELSE CR
    <3>1. b \in Seq(Token) /\ Len(b) = Len(h) + Len(CRLF)
      BY <1>3, <2>3, CatIs
    <3>2. \A j \in 1 .. Len(h) + Len(CRLF) : b[j] = IF j <= Len(h) THEN h[j] ELSE CRLF[j - Len(h)]
      BY <1>3, <2>3, CatIs
    <3>3. 1 \in 1 .. Len(h) + Len(CRLF) /\ (~(1 <= Len(h)) => 1 - Len(h) = 1)
      BY <1>3, <2>3
    <3> HIDE DEF b
    <3> QED
      BY <2>3, <3>1, <3>2, <3>3
  <2> HIDE DEF b
  <2>5. Cat(b, more)[1] = b[1]
    <3>1. Len(b) \in Nat /\ Len(more) \in Nat
      BY <2>4, LenProperties
    <3>2. \A j \in 1 .. Len(b) + Len(more) : Cat(b, more)[j] = IF j <= Len(b) THEN b[j] ELSE more[j - Len(b)]
      BY <2>4, CatIs
    <3>3. 1 \in 1 .. Len(b) + Len(more) /\ 1 <= Len(b)
      BY <1>3, <2>4, <3>1
    <3> QED
      BY <3>2, <3>3
  <2>6. Cat(querybuf, incoming)[1] = querybuf[1]
    <3>1. Len(incoming) \in Nat
      BY <1>1, LenProperties
    <3>2. \A j \in 1 .. Len(querybuf) + Len(incoming) :
            Cat(querybuf, incoming)[j] = IF j <= Len(querybuf) THEN querybuf[j] ELSE incoming[j - Len(querybuf)]
      BY <1>1, CatIs
    <3>3. 1 \in 1 .. Len(querybuf) + Len(incoming) /\ 1 <= Len(querybuf)
      BY <1>2, <3>1
    <3> QED
      BY <3>2, <3>3
  <2>7. Cat(querybuf, incoming) = Cat(b, more)
    BY <2>2 DEF Between, b
  <2> QED
    BY <2>4, <2>5, <2>6, <2>7
<1>5. ASSUME r.type \in {"multibulk", "badbulk", "badcount"} PROVE querybuf[1].kind = "*"
  <2>1. \E v : h = <<Tok("*", v)>>
    BY <1>5, HeadLineIs
  <2>2. PICK v : h = <<Tok("*", v)>>
    BY <2>1
  <2>3. Len(h) = 1 /\ h[1] = Tok("*", v)
    BY <2>2
  <2>4. querybuf[1] = h[1]
    BY <1>4, <1>5, <2>3
  <2>5. Tok("*", v).kind = "*"
    BY DEF Tok
  <2> HIDE DEF h
  <2> QED
    BY <2>3, <2>4, <2>5
<1>6. ASSUME r.type = "inline" PROVE querybuf[1].kind # "*"
  <2>1. Space.kind # "*" /\ CR.kind # "*"
    BY DEF Space, CR, Tok
  <2>2. Len(h) >= 1 => h[1] = Space
    <3> SUFFICES ASSUME Len(h) >= 1 PROVE h[1] = Space
      OBVIOUS
    <3> DEFINE a == r.args
    <3>1. h = InlineOf(a)[Len(a)]
      BY <1>6 DEF HeadLine
    <3>2. a \in Seq(Seq(Token)) /\ \A j \in 1 .. Len(a) : IsWord(a[j])
      <4>1. a \in Seq(Seq(Token))
        <5> HIDE DEF r
        <5> QED
          BY <1>3, RequestIs
      <4> QED
        BY <1>3, <1>6, <4>1 DEF IsSendable
    <3> HIDE DEF a, h
    <3>3. Len(a) \in Nat
      BY <3>2, LenProperties
    <3>4. InlineOf(a)[0] = <<>>
      BY <3>2, InlineIs
    <3>5. Len(a) # 0
      BY <3>1, <3>4
    <3>6. 1 \in 1 .. Len(a) /\ 1 \in 0 .. Len(a)
      BY <3>3, <3>5
    <3>7. a[1] \in Seq(Token)
      BY <3>2, <3>6, ElementOfSeq
    <3>8. InlineOf(a)[1] = Cat(InlineOf(a)[0], WordOnLine(a[1]))
      BY <3>2, <3>6, InlineIs
    <3>9. Cat(<<>>, WordOnLine(a[1])) = WordOnLine(a[1]) /\ WordOnLine(a[1])[1] = Space
          /\ Len(WordOnLine(a[1])) = Len(a[1]) + 2 /\ Len(a[1]) \in Nat
      <4>1. WordOnLine(a[1]) \in Seq(Token) /\ WordOnLine(a[1])[1] = Space
            /\ Len(WordOnLine(a[1])) = Len(a[1]) + 2 /\ Len(a[1]) \in Nat
        BY <3>7, WordOnLineIs
      <4>2. Cat(<<>>, WordOnLine(a[1])) = WordOnLine(a[1])
        BY <4>1, CatFlat
      <4> QED
        BY <4>1, <4>2
    <3>10. \A j \in 1 .. Len(InlineOf(a)[1]) : InlineOf(a)[Len(a)][j] = InlineOf(a)[1][j]
      BY <3>2, <3>6, InlineBegins
    <3>11. InlineOf(a)[1] = WordOnLine(a[1])
      BY <3>4, <3>8, <3>9
    <3>12. 1 \in 1 .. Len(InlineOf(a)[1])
      BY <3>9, <3>11
    <3> QED
      BY <3>1, <3>9, <3>10, <3>11, <3>12
  <2>3. querybuf[1] = IF Len(h) >= 1 THEN h[1] ELSE CR
    BY <1>4, <1>6
  <2> HIDE DEF h
  <2> QED
    BY <2>1, <2>2, <2>3
<1> QED
  BY <1>2, <1>5, <1>6

\* A line that does not end.
LEMMA NoLineEnd ==
    ASSUME querybuf \in Seq(Token), incoming \in Seq(Token), NEW line \in Seq(Token), IsLine(line),
           Cat(querybuf, incoming) = line
    PROVE  /\ CRs(0) = {} /\ CRLFs = {}
           /\ Len(querybuf) \in Nat /\ (incoming = <<>> => Len(querybuf) = Len(line))
<1>1. Len(querybuf) \in Nat /\ Len(incoming) \in Nat
  BY LenProperties
<1>2. /\ Len(line) = Len(querybuf) + Len(incoming)
      /\ \A j \in 1 .. Len(querybuf) + Len(incoming) :
           line[j] = IF j <= Len(querybuf) THEN querybuf[j] ELSE incoming[j - Len(querybuf)]
  BY CatIs
<1>3. ASSUME NEW j \in 1 .. Len(querybuf) PROVE querybuf[j] # CR
  <2>1. j \in 1 .. Len(line) /\ j <= Len(querybuf) /\ j \in 1 .. Len(querybuf) + Len(incoming)
    BY <1>1, <1>2
  <2>2. line[j] # CR
    BY <2>1 DEF IsLine
  <2>3. line[j] = querybuf[j]
    BY <1>2, <2>1
  <2> QED
    BY <2>2, <2>3
<1>4. CRs(0) = {}
  <2>1. \A j \in 0 + 1 .. Len(querybuf) : j \in 1 .. Len(querybuf)
    BY <1>1
  <2> QED
    BY <1>3, <2>1 DEF CRs
<1>5. CRLFs = {}
  <2>1. \A j \in 1 .. Len(querybuf) - 1 : j \in 1 .. Len(querybuf)
    BY <1>1
  <2> QED
    BY <1>3, <2>1 DEF CRLFs
<1> QED
  BY <1>1, <1>2, <1>4, <1>5

\* A request whose first line does not end.
LEMMA EndlessKeeps ==
    ASSUME InputTypes, NEW i \in 1 .. Len(requests), Reading(i), Between(i), at = "top",
           NextRequest(requests, i).type = "endless",
           NoNewline(querybuf), reqtype' \in {"inline", "multibulk"}
    PROVE  InputInv'
<1> DEFINE r == NextRequest(requests, i)
<1>1. Served(i) /\ Bounded(i) /\ i \in 0 .. Len(requests) /\ Len(querybuf) \in Nat /\ querybuf \in Seq(Token)
  BY RequestsAre, LenProperties DEF Reading, InputTypes
<1>2. IsClosing
  BY <1>1, MalformedCloses DEF Malformed
<1>3. CASE Len(querybuf) > INLINE_MAX
  BY <1>1, <1>2, <1>3, ErrorCloses DEF NoNewline
<1>4. CASE ~(Len(querybuf) > INLINE_MAX)
  <2>1. FirstLength(r) = INLINE_MAX + 1
    BY HeadLineIs
  <2>2. Len(querybuf) < FirstLength(r)
    BY <1>1, <1>4, <2>1, InputAssumption
  <2>3. reqtype' \in TypesOf(r)
    BY DEF TypesOf
  <2> QED
    BY <1>1, <1>4, <2>2, <2>3, WaitsForFirst DEF NoNewline
<1> QED
  BY <1>3, <1>4

\* An inline request.
LEMMA InlineKeeps ==
    ASSUME InputInv, processInlineBuffer
    PROVE  InputInv'
<1>1. at = "top" /\ MayContinue /\ ReqType = "inline"
  BY DEF processInlineBuffer
<1>2. InputTypes /\ \E i \in 1 .. Len(requests) : Reading(i)
  BY <1>1, ProcessingIs
<1>3. PICK i \in 1 .. Len(requests) : Reading(i)
  BY <1>2
<1> DEFINE r == NextRequest(requests, i)  line == HeadLine(r)  m == Stream(requests)[i - 1]
<1>4. ~inBlocked /\ querybuf # <<>> /\ reqtype # "multibulk" /\ (reqtype = "none" => Head(querybuf).kind # "*")
  BY <1>1 DEF MayContinue, ReqType
<1>5. Between(i)
  BY <1>3, <1>4 DEF Reading, Inside
<1>6. Served(i) /\ Bounded(i)
  BY <1>3 DEF Reading
<1>7. r \in Request /\ IsSendable(r) /\ r.type \in {"multibulk", "inline", "badcount", "badbulk", "endless"} /\ m \in Seq(Token)
  BY <1>2, NextRequestIs DEF InputTypes, Request
<1>8. r.type \in {"inline", "endless"}
  <2>1. reqtype \in TypesOf(r)
    BY <1>5 DEF Between
  <2>2. r.type \in {"multibulk", "badbulk", "badcount"} => Head(querybuf).kind = "*"
    BY <1>2, <1>4, <1>5, HeadIs
  <2> HIDE DEF r
  <2> QED
    BY <1>4, <1>7, <2>1, <2>2 DEF TypesOf
<1>9. querybuf \in Seq(Token) /\ incoming \in Seq(Token) /\ Cat(querybuf, incoming) = Stream(requests)[i] /\ Len(querybuf) \in Nat
  BY <1>2, <1>5, LenProperties DEF InputTypes, Between
<1>10. line \in Seq(Token) /\ IsLine(line) /\ Len(line) \in Nat
       /\ (r.type = "inline" => Cat(querybuf, incoming) = Cat(Cat(line, CRLF), m) /\ Len(line) + 2 <= INLINE_MAX + 1)
       /\ (r.type = "endless" => Cat(querybuf, incoming) = line)
  BY <1>2, <1>9, NextIs DEF InputTypes
<1>11. CASE r.type = "endless"
  <2>1. CRLFs = {}
    <3> HIDE DEF line, r
    <3> QED
      BY <1>9, <1>10, <1>11, NoLineEnd
  <2>2. NoNewline(querybuf) /\ reqtype' = "inline"
    BY <2>1 DEF processInlineBuffer
  <2> QED
    BY <1>1, <1>2, <1>3, <1>5, <1>11, <2>2, EndlessKeeps
<1>12. CASE r.type = "inline"
  <2>1. Cat(querybuf, incoming) = Cat(Cat(line, CRLF), m) /\ Len(line) + 2 <= INLINE_MAX + 1
    BY <1>10, <1>12
  <2>2. /\ Len(line) + 2 > Len(querybuf) => CRLFs = {}
        /\ Len(line) + 2 <= Len(querybuf) =>
             /\ CRLFs # {} /\ First(CRLFs) = Len(line) + 1
             /\ SubSeq(querybuf, 1, First(CRLFs) - 1) = line
             /\ From(querybuf, Len(line) + 2) \in Seq(Token)
             /\ Cat(From(querybuf, Len(line) + 2), incoming) = m
    <3> HIDE DEF line, r, m
    <3> QED
      BY <1>7, <1>9, <1>10, <2>1, LineEndsWithLF
  <2>3. FirstLength(r) = Len(line) + 2
    BY <1>12, HeadLineIs
  <2>4. CASE Len(line) + 2 > Len(querybuf)
    <3>1. NoNewline(querybuf) /\ reqtype' = "inline"
      BY <2>2, <2>4 DEF processInlineBuffer
    <3>2. ~(Len(querybuf) > INLINE_MAX) /\ Len(querybuf) < FirstLength(r)
      <4> HIDE DEF line, r
      <4> QED
        BY <1>9, <1>10, <2>1, <2>3, <2>4, InputAssumption
    <3>3. Incomplete(querybuf) /\ UNCHANGED inAfterReply
      BY <3>1, <3>2 DEF NoNewline
    <3>4. reqtype' \in TypesOf(r)
      BY <1>12, <3>1 DEF TypesOf
    <3> QED
      BY <1>1, <1>2, <1>5, <1>6, <3>1, <3>2, <3>3, <3>4, WaitsForFirst
  <2>5. CASE ~(Len(line) + 2 > Len(querybuf))
    <3> DEFINE rest == From(querybuf, Len(line) + 2)
    <3>1. Len(line) + 2 <= Len(querybuf)
      BY <1>9, <1>10, <2>5
    <3>2. First(CRLFs) + 1 = Len(line) + 2
      BY <1>10, <2>2, <3>1
    <3>3. ProcessCommand(Words(line), rest)
      BY <2>2, <3>1, <3>2 DEF processInlineBuffer
    <3>4. Words(line) = r.args
      <4> DEFINE a == r.args
      <4>1. line = InlineOf(a)[Len(a)]
        BY <1>12 DEF HeadLine
      <4>2. a \in Seq(Seq(Token))
        <5> HIDE DEF r
        <5> QED
          BY <1>7, RequestIs
      <4>3. \A j \in 1 .. Len(a) : IsWord(a[j])
        BY <1>7, <1>12 DEF IsSendable
      <4> HIDE DEF a, line
      <4>4. Words(InlineOf(a)[Len(a)]) = a
        BY <4>2, <4>3, WordsOfInline
      <4> QED
        BY <4>1, <4>4 DEF a
    <3>5. ~Malformed(r)
      BY <1>12 DEF Malformed
    <3>6. rest \in Seq(Token) /\ Cat(rest, incoming) = m
      BY <2>2, <3>1
    <3>7. wasBlocked \/ IsClosing \/ Len(rest) <= BIG_ARG + 1 + IOBUF_LEN
      <4>1. Len(rest) = Len(querybuf) - (Len(line) + 2)
        <5>1. Len(line) + 2 \in 0 .. Len(querybuf)
          BY <1>9, <1>10, <3>1
        <5> HIDE DEF line
        <5> QED
          BY <1>9, <5>1, FromIs
      <4>2. bulklen = None
        BY <1>5 DEF Between
      <4>3. \/ wasBlocked \/ IsClosing \/ Len(querybuf) <= BIG_ARG + 1 + IOBUF_LEN
            \/ Len(querybuf) <= Len(line) + 1 + IOBUF_LEN
        BY <1>6, <4>2, InputAssumption DEF Bounded, None
      <4> HIDE DEF rest, line
      <4> QED
        BY <1>9, <1>10, <4>1, <4>3, InputAssumption
    <3>8. reqtype \in {"none", "inline", "multibulk"}
      BY <1>2 DEF InputTypes
    <3> HIDE DEF rest
    <3> QED
      BY <1>2, <1>4, <1>6, <3>3, <3>4, <3>5, <3>6, <3>7, <3>8, CommandDone
  <2> QED
    BY <2>4, <2>5
<1> QED
  BY <1>8, <1>11, <1>12

\* A request that was begun by an earlier read goes on.
LEMMA ResumesKeeps ==
    ASSUME InputInv, MultibulkResumes
    PROVE  InputInv'
<1>1. /\ at = "top" /\ MayContinue /\ multibulklen > 0 /\ at' = "bulk" /\ pos' = 0
      /\ UNCHANGED <<requests, incoming, querybuf, reqtype, multibulklen, bulklen, argv, executed, inBlocked,
                     wasBlocked, inAfterReply, inFreed>>
  BY DEF MultibulkResumes
<1>2. InputTypes /\ \E i \in 1 .. Len(requests) : Reading(i)
  BY <1>1, ProcessingIs
<1>3. PICK i \in 1 .. Len(requests) : Reading(i)
  BY <1>2
<1> DEFINE r == NextRequest(requests, i)
<1>4. Inside(i, r, Len(argv)) /\ Served(i) /\ Bounded(i)
  BY <1>1, <1>3 DEF Reading, Between
<1>5. InputTypes'
  BY <1>1, <1>2 DEF InputTypes, MayContinue
<1>6. Served(i)' /\ (IsClosing <=> IsClosing')
  <2>1. i \in 0 .. Len(requests)
    BY <1>2, RequestsAre
  <2> QED
    BY <1>1, <1>4, <2>1, StillServed
<1>7. pos = 0
  BY <1>1, <1>4 DEF Inside
<1>8. Bounded(i)'
  BY <1>1, <1>4, <1>6, <1>7 DEF Bounded
<1>9. Unread' = Unread
  BY <1>1, <1>7 DEF Unread, From, Cat
<1>10. r' = r
  BY <1>1
<1>11. Inside(i, r, Len(argv))'
  <2> HIDE DEF r
  <2> QED
    BY <1>1, <1>4, <1>7, <1>9, <1>10 DEF Inside, IsShort
<1>12. i \in 0 .. Len(requests)'
  BY <1>1, <1>2, RequestsAre
<1> QED
  BY <1>5, <1>6, <1>8, <1>11, <1>12 DEF InputInv, Reading

\* A multi bulk request begins: the arguments follow the first line.
LEMMA ArgumentsBegin ==
    ASSUME InputTypes, NEW i \in 1 .. Len(requests), Reading(i), Between(i), ~inBlocked,
           NextRequest(requests, i).type \in {"multibulk", "badbulk"}, ArgCount(NextRequest(requests, i)) > 0,
           3 <= Len(querybuf), Cat(From(querybuf, 3), incoming) = After(requests, i, 0),
           multibulklen' = ArgCount(NextRequest(requests, i)), reqtype' = "multibulk", argv' = <<>>, pos' = 3, at' = "bulk",
           UNCHANGED <<requests, incoming, querybuf, bulklen, executed, inBlocked, wasBlocked, inAfterReply, inFreed>>
    PROVE  InputInv'
<1> DEFINE r == NextRequest(requests, i)
<1>1. r.args \in Seq(Seq(Token)) /\ Len(r.args) \in Nat
  <2>1. r \in Request /\ IsSendable(r)
    BY NextRequestIs DEF InputTypes
  <2> HIDE DEF r
  <2>2. r.args \in Seq(Seq(Token))
    BY <2>1, RequestIs
  <2> QED
    BY <2>2, LenProperties
<1>2. ArgCount(r) \in Nat
  BY <1>1 DEF ArgCount
<1>3. InputTypes'
  <2>1. <<>> \in Seq(Seq(Token))
    OBVIOUS
  <2> QED
    BY <1>2, <2>1 DEF InputTypes
<1>4. Served(i)' /\ (IsClosing <=> IsClosing') /\ i \in 0 .. Len(requests)'
  <2>1. i \in 0 .. Len(requests)
    BY RequestsAre
  <2> QED
    BY <2>1, StillServed DEF Reading
<1>5. bulklen = None
  BY DEF Between
<1>6. Bounded(i)'
  <2>1. wasBlocked \/ IsClosing \/ Len(querybuf) <= BIG_ARG + 1 + IOBUF_LEN
    BY <1>5, InputAssumption DEF Reading, Bounded, None
  <2> QED
    BY <1>4, <2>1 DEF Bounded
<1>7. Unread' = After(requests, i, 0)
  BY DEF Unread, From, Cat
<1>8. r' = r /\ Len(argv') = 0
  OBVIOUS
<1>9. argv' = SubSeq(r.args, 1, 0)
  <2> HIDE DEF r
  <2> QED
    BY <1>1
<1>10. Inside(i, r, 0)'
  <2>1. /\ i > 0 /\ r.type \in {"multibulk", "badbulk"} /\ reqtype' = "multibulk"
        /\ pos' <= Len(querybuf') /\ 0 <= Len(r.args)
        /\ multibulklen' = ArgCount(r) - 0
        /\ at' = "bulk" /\ bulklen' = None
    BY <1>1, <1>2, <1>5
  <2>2. IsShort(Len(LineAt(r, 0)) + 2)'
    BY DEF IsShort
  <2> HIDE DEF r
  <2> QED
    BY <1>7, <1>8, <1>9, <2>1, <2>2 DEF Inside
<1>11. Inside(i, NextRequest(requests, i), Len(argv))'
  BY <1>8, <1>10
<1> QED
  BY <1>3, <1>4, <1>6, <1>11 DEF InputInv, Reading

\* The first line of a multi bulk request.
LEMMA LengthKeeps ==
    ASSUME InputInv, MultibulkLength
    PROVE  InputInv'
<1>1. at = "top" /\ MayContinue /\ ReqType = "multibulk" /\ multibulklen = 0
  BY DEF MultibulkLength
<1>2. InputTypes /\ \E i \in 1 .. Len(requests) : Reading(i)
  BY <1>1, ProcessingIs
<1>3. PICK i \in 1 .. Len(requests) : Reading(i)
  BY <1>2
<1> DEFINE r == NextRequest(requests, i)  line == HeadLine(r)  m == Stream(requests)[i - 1]
<1>4. ~inBlocked /\ querybuf # <<>> /\ reqtype # "inline" /\ (reqtype = "none" => Head(querybuf).kind = "*")
  BY <1>1 DEF MayContinue, ReqType
<1>5. Between(i)
  BY <1>1, <1>3 DEF Reading, Inside
<1>6. Served(i) /\ Bounded(i) /\ i \in 0 .. Len(requests)
  BY <1>2, <1>3, RequestsAre DEF Reading
<1>7. r \in Request /\ IsSendable(r) /\ r.type \in {"multibulk", "inline", "badcount", "badbulk", "endless"} /\ m \in Seq(Token)
  BY <1>2, NextRequestIs DEF InputTypes, Request
<1>8. r.type # "inline"
  <2>1. reqtype \in TypesOf(r)
    BY <1>5 DEF Between
  <2>2. r.type = "inline" => Head(querybuf).kind # "*"
    BY <1>2, <1>4, <1>5, HeadIs
  <2> HIDE DEF r
  <2> QED
    BY <1>4, <1>7, <2>1, <2>2 DEF TypesOf
<1>9. querybuf \in Seq(Token) /\ incoming \in Seq(Token) /\ Cat(querybuf, incoming) = Stream(requests)[i] /\ Len(querybuf) \in Nat
  BY <1>2, <1>5, LenProperties DEF InputTypes, Between
<1>10. line \in Seq(Token) /\ IsLine(line) /\ (r.type = "endless" => Cat(querybuf, incoming) = line)
  BY <1>2, <1>9, NextIs DEF InputTypes
<1>11. CASE r.type = "endless"
  <2>1. CRs(0) = {}
    <3> HIDE DEF line, r
    <3> QED
      BY <1>9, <1>10, <1>11, NoLineEnd
  <2>2. NoNewline(querybuf) /\ reqtype' = "multibulk"
    BY <2>1 DEF MultibulkLength
  <2> QED
    BY <1>1, <1>2, <1>3, <1>5, <1>11, <2>2, EndlessKeeps
<1>12. CASE r.type # "endless"
  <2> DEFINE v == IF r.type = "badcount" THEN Invalid ELSE ArgCount(r)
             more == IF r.type = "badcount" THEN m ELSE After(requests, i, 0)
  <2>1. r.type \in {"multibulk", "badbulk", "badcount"}
    BY <1>7, <1>8, <1>12
  <2>2. line = <<Tok("*", v)>> /\ Len(line) = 1
    BY <2>1, HeadLineIs
  <2>3. more \in Seq(Token) /\ Cat(querybuf, incoming) = Cat(Cat(line, CRLF), more)
    BY <1>2, <1>7, <1>9, <2>1, NextIs DEF InputTypes
  <2>4. From(querybuf, 0) = querybuf /\ 0 \in 0 .. Len(querybuf)
    BY <1>9, FromTo
  <2>5. Len(querybuf) <= 1 => CRs(0) = {}
    <3> HIDE DEF line, more
    <3>1. 0 + Len(line) >= Len(querybuf) => CRs(0) = {}
      BY <1>9, <1>10, <2>3, <2>4, LineEnd
    <3> QED
      BY <2>2, <3>1
  <2>6. Len(querybuf) > 1 => CRs(0) # {} /\ First(CRs(0)) = 2
    <3> HIDE DEF line, more
    <3>1. 0 + Len(line) < Len(querybuf) => CRs(0) # {} /\ First(CRs(0)) = 0 + Len(line) + 1
      BY <1>9, <1>10, <2>3, <2>4, LineEnd
    <3> QED
      BY <2>2, <3>1
  <2>7. Len(querybuf) >= 3 =>
          From(querybuf, 3) \in Seq(Token) /\ Cat(From(querybuf, 3), incoming) = more /\ querybuf[1] = line[1]
    <3> HIDE DEF line, more
    <3>1. 0 + Len(line) + 2 <= Len(querybuf) =>
            /\ From(querybuf, 0 + Len(line) + 2) \in Seq(Token)
            /\ Cat(From(querybuf, 0 + Len(line) + 2), incoming) = more
            /\ \A k \in 1 .. Len(line) : querybuf[0 + k] = line[k]
      BY <1>9, <1>10, <2>3, <2>4, LineEnd
    <3>2. 0 + Len(line) + 2 = 3 /\ 1 \in 1 .. Len(line) /\ 0 + 1 = 1
      BY <2>2
    <3> SUFFICES ASSUME Len(querybuf) >= 3
                 PROVE  From(querybuf, 3) \in Seq(Token) /\ Cat(From(querybuf, 3), incoming) = more /\ querybuf[1] = line[1]
      OBVIOUS
    <3>3. 0 + Len(line) + 2 <= Len(querybuf)
      BY <3>2
    <3> DEFINE x == 0 + Len(line) + 2  y == 0 + 1
    <3>4. From(querybuf, x) \in Seq(Token) /\ Cat(From(querybuf, x), incoming) = more
      BY <3>1, <3>3
    <3>5. querybuf[y] = line[1]
      BY <3>1, <3>2, <3>3
    <3>6. x = 3 /\ y = 1
      BY <3>2
    <3> HIDE DEF x, y
    <3> QED
      BY <3>4, <3>5, <3>6
  <2>8. FirstLength(r) = 3 /\ (reqtype' = "multibulk" => reqtype' \in TypesOf(r))
    <3>1. FirstLength(r) = Len(HeadLine(r)) + 2
      BY <1>12, HeadLineIs
    <3>2. FirstLength(r) = 3
      BY <2>2, <3>1
    <3>3. reqtype' = "multibulk" => reqtype' \in TypesOf(r)
      <4> HIDE DEF r
      <4> QED
        BY <2>1 DEF TypesOf
    <3> QED
      BY <3>2, <3>3
  <2> DEFINE len == Len(querybuf)
  <2>9. len \in Nat
    BY <1>9
  <2>10. ASSUME Len(querybuf) < 3, Incomplete(querybuf), reqtype' = "multibulk", UNCHANGED inAfterReply
        PROVE  InputInv'
    BY <1>1, <1>2, <1>5, <1>6, <2>8, <2>10, WaitsForFirst
  <2>11. CASE Len(querybuf) <= 1
    <3>1. NoNewline(querybuf) /\ reqtype' = "multibulk"
      BY <2>5, <2>11 DEF MultibulkLength
    <3>2. ~(Len(querybuf) > INLINE_MAX) /\ Len(querybuf) < 3
      BY <1>9, <2>11, InputAssumption
    <3> QED
      BY <2>10, <3>1, <3>2 DEF NoNewline
  <2>12. CASE Len(querybuf) = 2
    <3>1. Incomplete(querybuf) /\ reqtype' = "multibulk" /\ UNCHANGED inAfterReply
      BY <2>6, <2>12 DEF MultibulkLength
    <3> QED
      BY <2>10, <2>12, <3>1
  <2>13. CASE Len(querybuf) >= 3
    <3>1. CRs(0) # {} /\ First(CRs(0)) = 2 /\ 2 # Len(querybuf)
      <4>1. len > 1 /\ 2 # len
        <5>1. len >= 3
          BY <2>13
        <5> HIDE DEF len
        <5> QED
          BY <2>9, <5>1
      <4> QED
        BY <2>6, <4>1
    <3>2. querybuf[1] = Tok("*", v)
      BY <2>2, <2>7, <2>13
    <3>3. IsLength("*", 0, 2) <=> v # Invalid
      BY <3>2 DEF IsLength, Tok
    <3>4. querybuf[1].v = v
      BY <3>2 DEF Tok
    <3>5. /\ v = Invalid => setProtocolError(querybuf) /\ reqtype' = "multibulk"
          /\ v # Invalid /\ v <= 0 => ProcessCommand(<<>>, From(querybuf, 3))
          /\ v # Invalid /\ ~(v <= 0) =>
               /\ multibulklen' = v /\ reqtype' = "multibulk" /\ argv' = <<>> /\ pos' = 3 /\ at' = "bulk"
               /\ UNCHANGED <<requests, incoming, querybuf, bulklen, executed, inBlocked, wasBlocked,
                              inAfterReply, inFreed>>
      <4> HIDE DEF v
      <4> QED
        BY <3>1, <3>3, <3>4, SMTT(60) DEF MultibulkLength
    <3>6. r.args \in Seq(Seq(Token)) /\ Len(r.args) \in Nat
      <4> HIDE DEF r
      <4>1. r.args \in Seq(Seq(Token))
        BY <1>7, RequestIs
      <4> QED
        BY <4>1, LenProperties
    <3>7. ArgCount(r) \in Nat /\ (ArgCount(r) = 0 => r.type # "badbulk" /\ Len(r.args) = 0 /\ r.args = <<>>)
      <4>1. ArgCount(r) \in Nat /\ (ArgCount(r) = 0 => r.type # "badbulk" /\ Len(r.args) = 0)
        BY <3>6 DEF ArgCount
      <4> QED
        BY <3>6, <4>1, EmptySeq
    <3>8. CASE r.type = "badcount"
      <4>1. setProtocolError(querybuf) /\ reqtype' = "multibulk"
        BY <3>5, <3>8
      <4>2. IsClosing
        BY <1>2, <1>6, <3>8, MalformedCloses DEF Malformed
      <4> QED
        BY <1>2, <1>6, <1>9, <4>1, <4>2, ErrorCloses
    <3>9. CASE r.type \in {"multibulk", "badbulk"} /\ ArgCount(r) = 0
      <4>1. v # Invalid /\ v <= 0 /\ r.type = "multibulk" /\ r.args = <<>> /\ Len(r.args) = 0
        BY <3>7, <3>9 DEF Invalid
      <4>2. ProcessCommand(<<>>, From(querybuf, 3))
        BY <3>5, <4>1
      <4>3. After(requests, i, 0) = m
        BY <1>2, <4>1, AfterIs DEF InputTypes
      <4>4. From(querybuf, 3) \in Seq(Token) /\ Cat(From(querybuf, 3), incoming) = m
        BY <2>7, <2>13, <3>9, <4>3
      <4>5. wasBlocked \/ IsClosing \/ Len(From(querybuf, 3)) <= BIG_ARG + 1 + IOBUF_LEN
        <5>1. bulklen = None
          BY <1>5 DEF Between
        <5>2. wasBlocked \/ IsClosing \/ Len(querybuf) <= BIG_ARG + 1 + IOBUF_LEN
          BY <1>6, <4>1, <5>1, InputAssumption DEF Bounded, None
        <5>3. 3 \in 0 .. Len(querybuf)
          BY <1>9, <2>13
        <5>4. Len(From(querybuf, 3)) = Len(querybuf) - 3
          BY <1>9, <5>3, FromIs
        <5> QED
          BY <1>9, <5>2, <5>4, InputAssumption
      <4>6. ~Malformed(r) /\ <<>> = r.args
        BY <4>1 DEF Malformed
      <4>7. reqtype \in {"none", "inline", "multibulk"}
        BY <1>2 DEF InputTypes
      <4> QED
        BY <1>2, <1>4, <1>6, <4>2, <4>4, <4>5, <4>6, <4>7, CommandDone
    <3>10. CASE r.type \in {"multibulk", "badbulk"} /\ ArgCount(r) # 0
      <4>1. v # Invalid /\ ~(v <= 0) /\ v = ArgCount(r) /\ ArgCount(r) > 0
        BY <3>7, <3>10 DEF Invalid
      <4>2. Cat(From(querybuf, 3), incoming) = After(requests, i, 0)
        BY <2>7, <2>13, <3>10
      <4>3. /\ multibulklen' = ArgCount(r) /\ reqtype' = "multibulk" /\ argv' = <<>> /\ pos' = 3 /\ at' = "bulk"
            /\ UNCHANGED <<requests, incoming, querybuf, bulklen, executed, inBlocked, wasBlocked,
                           inAfterReply, inFreed>>
        BY <3>5, <4>1
      <4>4. 3 <= Len(querybuf)
        BY <1>9, <2>13
      <4> QED
        BY <1>2, <1>3, <1>4, <1>5, <3>10, <4>1, <4>2, <4>3, <4>4, ArgumentsBegin
    <3> QED
      BY <2>1, <3>8, <3>9, <3>10
  <2>14. len <= 1 \/ len = 2 \/ len >= 3
    <3> HIDE DEF len
    <3> QED
      BY <2>9
  <2> QED
    BY <2>11, <2>12, <2>13, <2>14
<1> QED
  BY <1>11, <1>12

\* What is known of a client whose arguments are read.
LEMMA InsideIs ==
    ASSUME InputInv, at = "bulk"
    PROVE  /\ InputTypes /\ ~inBlocked
           /\ \E i \in 1 .. Len(requests) : Reading(i) /\ Inside(i, NextRequest(requests, i), Len(argv))
<1>1. InputTypes /\ \E i \in 1 .. Len(requests) : Reading(i)
  BY ProcessingIs
<1>2. PICK i \in 1 .. Len(requests) : Reading(i)
  BY <1>1
<1>3. Inside(i, NextRequest(requests, i), Len(argv))
  BY <1>2 DEF Reading, Between
<1> QED
  BY <1>1, <1>2, <1>3 DEF InputTypes

\* The position in the buffer, and what is there to be read.
LEMMA PositionIs ==
    ASSUME InputTypes, NEW i, Inside(i, NextRequest(requests, i), Len(argv))
    PROVE  /\ querybuf \in Seq(Token) /\ incoming \in Seq(Token) /\ Len(querybuf) \in Nat
           /\ pos \in 0 .. Len(querybuf) /\ pos \in Nat /\ multibulklen \in Nat
           /\ From(querybuf, pos) \in Seq(Token) /\ Len(From(querybuf, pos)) = Len(querybuf) - pos
           /\ bulklen # None => bulklen \in Nat
<1>1. querybuf \in Seq(Token) /\ incoming \in Seq(Token) /\ Len(querybuf) \in Nat /\ pos \in Nat /\ pos <= Len(querybuf)
      /\ multibulklen \in Nat /\ (bulklen # None => bulklen \in Nat)
  BY LenProperties DEF InputTypes, Inside
<1>2. pos \in 0 .. Len(querybuf)
  BY <1>1
<1> QED
  BY <1>1, <1>2, FromIs

\* All arguments were read: the command is executed.
LEMMA CompleteKeeps ==
    ASSUME InputInv, MultibulkComplete
    PROVE  InputInv'
<1>1. at = "bulk" /\ multibulklen = 0 /\ ProcessCommand(argv, From(querybuf, pos))
  BY DEF MultibulkComplete
<1>2. InputTypes /\ ~inBlocked /\ \E i \in 1 .. Len(requests) : Reading(i) /\ Inside(i, NextRequest(requests, i), Len(argv))
  BY <1>1, InsideIs
<1>3. PICK i \in 1 .. Len(requests) : Reading(i) /\ Inside(i, NextRequest(requests, i), Len(argv))
  BY <1>2
<1> DEFINE r == NextRequest(requests, i)  k == Len(argv)
<1>4. r.type = "multibulk" /\ k = Len(r.args)
  BY <1>1, <1>2, <1>3, ArgumentsLeft
<1>5. r.args \in Seq(Seq(Token)) /\ Len(r.args) \in Nat
  <2>1. r \in Request /\ IsSendable(r)
    BY <1>2, NextRequestIs DEF InputTypes
  <2> HIDE DEF r
  <2>2. r.args \in Seq(Seq(Token))
    BY <2>1, RequestIs
  <2> QED
    BY <2>2, LenProperties
<1>6. argv = r.args
  <2>1. argv = SubSeq(r.args, 1, Len(r.args))
    BY <1>3, <1>4 DEF Inside
  <2> HIDE DEF r
  <2> QED
    BY <1>5, <2>1
<1>7. bulklen = None /\ Unread = After(requests, i, k)
  <2>1. bulklen # None => k < Len(r.args)
    BY <1>3 DEF Inside
  <2>2. bulklen = None
    <3> HIDE DEF r, k
    <3> QED
      BY <1>4, <1>5, <2>1
  <2> QED
    BY <1>3, <2>2 DEF Inside
<1>8. Cat(From(querybuf, pos), incoming) = Stream(requests)[i - 1]
  <2>1. k \in 0 .. Len(r.args)
    <3> HIDE DEF r, k
    <3> QED
      BY <1>4, <1>5
  <2>2. After(requests, i, k) = Stream(requests)[i - 1]
    BY <1>2, <1>4, <2>1, AfterIs DEF InputTypes
  <2> QED
    BY <1>7, <2>2 DEF Unread
<1>9. From(querybuf, pos) \in Seq(Token) /\ Len(From(querybuf, pos)) = Len(querybuf) - pos /\ Len(querybuf) \in Nat /\ pos \in Nat
  BY <1>2, <1>3, PositionIs
<1>10. wasBlocked \/ IsClosing \/ Len(From(querybuf, pos)) <= BIG_ARG + 1 + IOBUF_LEN
  <2>1. wasBlocked \/ IsClosing \/ Len(querybuf) <= BIG_ARG + 1 + IOBUF_LEN
    BY <1>1, <1>3, <1>7, InputAssumption DEF Reading, Bounded, None
  <2> QED
    BY <1>9, <2>1, InputAssumption
<1>11. ~Malformed(r) /\ Served(i) /\ reqtype \in {"none", "inline", "multibulk"}
  BY <1>2, <1>3, <1>4 DEF Malformed, Reading, InputTypes
<1> QED
  BY <1>1, <1>2, <1>6, <1>8, <1>9, <1>10, <1>11, CommandDone

\* The first elements of a sequence and the next one.
LEMMA GrowsByOne ==
    ASSUME NEW S, NEW s \in Seq(S), NEW k \in Nat, k < Len(s)
    PROVE  /\ Append(SubSeq(s, 1, k), s[k + 1]) = SubSeq(s, 1, k + 1)
           /\ SubSeq(s, 1, k + 1) \in Seq(S) /\ Len(SubSeq(s, 1, k + 1)) = k + 1
<1>1. Len(s) \in Nat /\ \A j \in 1 .. Len(s) : s[j] \in S
  BY LenProperties, ElementOfSeq
<1>2. /\ SubSeq(s, 1, k) \in Seq(S) /\ Len(SubSeq(s, 1, k)) = k
      /\ \A j \in 1 .. k : SubSeq(s, 1, k)[j] = s[j]
  BY <1>1
<1>3. /\ SubSeq(s, 1, k + 1) \in Seq(S) /\ Len(SubSeq(s, 1, k + 1)) = k + 1
      /\ \A j \in 1 .. k + 1 : SubSeq(s, 1, k + 1)[j] = s[j]
  BY <1>1
<1> DEFINE a == Append(SubSeq(s, 1, k), s[k + 1])  t == SubSeq(s, 1, k)
<1>4. s[k + 1] \in S
  BY <1>1
<1>5. /\ a \in Seq(S) /\ Len(a) = k + 1
      /\ \A j \in 1 .. k + 1 : a[j] = IF j <= k THEN t[j] ELSE s[k + 1]
  BY <1>2, <1>4
<1>6. \A j \in 1 .. k + 1 : a[j] = SubSeq(s, 1, k + 1)[j]
  <2> HIDE DEF a
  <2> QED
    BY <1>2, <1>3, <1>5
<1> HIDE DEF a
<1>7. a = SubSeq(s, 1, k + 1)
  BY <1>3, <1>5, <1>6, SeqEqual
<1> QED
  BY <1>3, <1>7 DEF a

\* An argument is complete: it is the next one of the request.
LEMMA ArgumentRead ==
    ASSUME InputTypes, at = "bulk", bulklen # None, multibulklen > 0,
           NEW i \in 1 .. Len(requests), Reading(i), Inside(i, NextRequest(requests, i), Len(argv)),
           Len(querybuf) - pos >= bulklen + 2, BulkArgument
    PROVE  InputInv'
<1> DEFINE r == NextRequest(requests, i)  k == Len(argv)  arg == r.args[k + 1]  item == Cat(arg, CRLF)
           q == From(querybuf, pos)  more == After(requests, i, k + 1)
<1>1. /\ querybuf \in Seq(Token) /\ incoming \in Seq(Token) /\ Len(querybuf) \in Nat
      /\ pos \in 0 .. Len(querybuf) /\ pos \in Nat /\ multibulklen \in Nat
      /\ q \in Seq(Token) /\ Len(q) = Len(querybuf) - pos
      /\ bulklen \in Nat
  BY PositionIs
<1>2. k < Len(r.args) /\ bulklen = Len(arg) /\ Unread = Cat(item, more) /\ k \in 0 .. Len(r.args)
  BY ArgumentsLeft DEF Inside
<1>3. more \in Seq(Token) /\ arg \in Seq(Token) /\ Len(r.args) \in Nat /\ r.args \in Seq(Seq(Token)) /\ k + 1 \in 0 .. Len(r.args)
  <2>1. k + 1 \in 1 .. Len(r.args) /\ arg \in Seq(Token) /\ Len(r.args) \in Nat /\ r.args \in Seq(Seq(Token))
    BY <1>2, AfterIs DEF InputTypes
  <2>2. k + 1 \in 0 .. Len(r.args)
    <3> HIDE DEF r, k
    <3> QED
      BY <2>1
  <2>3. more \in Seq(Token)
    BY <2>2, AfterIs DEF InputTypes
  <2> QED
    BY <2>1, <2>2, <2>3
<1> HIDE DEF arg
<1>4. item \in Seq(Token) /\ Len(item) = bulklen + 2 /\ \A j \in 1 .. bulklen : item[j] = arg[j]
  <2>1. CRLF \in Seq(Token) /\ Len(CRLF) = 2
    BY TokensAre
  <2>2. item \in Seq(Token) /\ Len(item) = Len(arg) + Len(CRLF)
    BY <1>3, <2>1, CatIs
  <2>3. \A j \in 1 .. Len(arg) + Len(CRLF) : item[j] = IF j <= Len(arg) THEN arg[j] ELSE CRLF[j - Len(arg)]
    BY <1>3, <2>1, CatIs
  <2>4. \A j \in 1 .. bulklen : j \in 1 .. Len(arg) + Len(CRLF) /\ j <= Len(arg)
    BY <1>1, <1>2, <2>1
  <2> HIDE DEF item
  <2> QED
    BY <1>2, <2>1, <2>2, <2>3, <2>4
<1> HIDE DEF item, q, more
<1>5. Cat(q, incoming) = Cat(item, more) /\ Len(item) <= Len(q)
  BY <1>1, <1>2, <1>4 DEF Unread, q
<1>6. /\ From(q, bulklen + 2) \in Seq(Token) /\ Cat(From(q, bulklen + 2), incoming) = more
      /\ \A j \in 1 .. bulklen + 2 : q[j] = item[j]
  <2>1. /\ From(q, Len(item)) \in Seq(Token) /\ Cat(From(q, Len(item)), incoming) = more
        /\ \A j \in 1 .. Len(item) : q[j] = item[j]
    <3>1. item \in Seq(Token) /\ q \in Seq(Token) /\ more \in Seq(Token) /\ incoming \in Seq(Token)
      BY <1>1, <1>3, <1>4
    <3> QED
      BY <1>5, <3>1, CutIs
  <2> QED
    BY <1>4, <2>1
<1>7. SubSeq(querybuf, pos + 1, pos + bulklen) = arg
  <2> DEFINE s == SubSeq(querybuf, pos + 1, pos + bulklen)
  <2>1. s \in Seq(Token) /\ Len(s) = bulklen /\ \A j \in 1 .. bulklen : s[j] = querybuf[pos + j]
    BY <1>1
  <2>2. \A j \in 1 .. Len(querybuf) - pos : q[j] = querybuf[pos + j]
    BY <1>1, FromIs DEF q
  <2>3. \A j \in 1 .. bulklen : j \in 1 .. Len(querybuf) - pos /\ j \in 1 .. bulklen + 2
    BY <1>1
  <2>4. \A j \in 1 .. bulklen : s[j] = arg[j]
    BY <1>4, <1>6, <2>1, <2>2, <2>3
  <2> HIDE DEF s
  <2>5. s \in Seq(Token) /\ arg \in Seq(Token) /\ Len(s) = Len(arg) /\ \A j \in 1 .. Len(s) : s[j] = arg[j]
    BY <1>2, <1>3, <2>1, <2>4
  <2>6. s = arg
    BY <2>5, SeqEqual
  <2> QED
    BY <2>6 DEF s
<1>8. /\ argv' = Append(argv, arg) /\ bulklen' = None /\ multibulklen' = multibulklen - 1
      /\ UNCHANGED <<requests, incoming, at, executed, inBlocked, wasBlocked, inFreed, reqtype, inAfterReply>>
      /\ \/ pos = 0 /\ Len(querybuf) = bulklen + 2 /\ querybuf' = <<>> /\ pos' = 0
         \/ pos' = pos + bulklen + 2 /\ querybuf' = querybuf
           /\ ~(pos = 0 /\ bulklen >= BIG_ARG /\ Len(querybuf) = bulklen + 2)
  <2>1. ~(Len(querybuf) - pos < bulklen + 2)
    BY <1>1
  <2> QED
    BY <1>7, <2>1 DEF BulkArgument
<1>9. argv \in Seq(Seq(Token)) /\ argv' = SubSeq(r.args, 1, k + 1) /\ argv' \in Seq(Seq(Token)) /\ Len(argv') = k + 1
  <2>1. argv \in Seq(Seq(Token)) /\ argv = SubSeq(r.args, 1, k) /\ k \in Nat
    BY LenProperties DEF InputTypes, Inside
  <2>2. arg = r.args[k + 1]
    BY DEF arg
  <2> HIDE DEF r, k
  <2>3. Append(SubSeq(r.args, 1, k), r.args[k + 1]) = SubSeq(r.args, 1, k + 1)
        /\ SubSeq(r.args, 1, k + 1) \in Seq(Seq(Token)) /\ Len(SubSeq(r.args, 1, k + 1)) = k + 1
    BY <1>2, <1>3, <2>1, GrowsByOne
  <2>4. argv' = SubSeq(r.args, 1, k + 1)
    BY <1>8, <2>1, <2>2, <2>3
  <2> QED
    BY <2>1, <2>3, <2>4
<1>10. Served(i)' /\ (IsClosing <=> IsClosing') /\ i \in 0 .. Len(requests)'
  <2>1. i \in 0 .. Len(requests)
    BY RequestsAre
  <2> QED
    BY <1>8, <2>1, StillServed DEF Reading
<1>11. /\ querybuf' \in Seq(Token) /\ pos' \in Nat /\ pos' <= Len(querybuf') /\ Unread' = more
  <2>1. CASE pos = 0 /\ Len(querybuf) = bulklen + 2 /\ querybuf' = <<>> /\ pos' = 0
    <3>1. From(q, bulklen + 2) = <<>>
      <4>1. Len(q) = bulklen + 2
        BY <1>1, <2>1
      <4>2. 0 \in 0 .. Len(q)
        BY <1>1, <4>1
      <4>3. From(q, Len(q)) = <<>>
        BY <1>1, <4>2, FromTo
      <4> QED
        BY <4>1, <4>3
    <3>2. Unread' = Cat(From(<<>>, 0), incoming)
      BY <1>8, <2>1 DEF Unread, From, Cat
    <3>3. From(<<>>, 0) = <<>>
      BY DEF From
    <3> QED
      BY <1>6, <2>1, <3>1, <3>2, <3>3
  <2>2. CASE pos' = pos + bulklen + 2 /\ querybuf' = querybuf
    <3>1. bulklen + 2 \in 0 .. Len(querybuf) - pos
      BY <1>1
    <3>2. From(q, bulklen + 2) = From(querybuf, pos + (bulklen + 2))
      BY <1>1, <3>1, FromTo DEF q
    <3>3. pos + (bulklen + 2) = pos + bulklen + 2 /\ pos + bulklen + 2 \in Nat /\ pos + bulklen + 2 <= Len(querybuf)
      BY <1>1
    <3>4. Unread' = Cat(From(querybuf, pos + bulklen + 2), incoming)
      BY <1>8, <2>2 DEF Unread, From, Cat
    <3> QED
      BY <1>1, <1>6, <2>2, <3>2, <3>3, <3>4
  <2> QED
    BY <1>8, <2>1, <2>2
<1>12. multibulklen' \in Nat
  BY <1>1, <1>8
<1>13. InputTypes'
  BY <1>8, <1>9, <1>11, <1>12 DEF InputTypes
<1>14. Bounded(i)'
  <2>1. CASE pos = 0 /\ Len(querybuf) = bulklen + 2 /\ querybuf' = <<>> /\ pos' = 0
    <3>1. Len(querybuf') = 0
      BY <2>1
    <3>2. Len(querybuf') <= BIG_ARG + 1 + IOBUF_LEN
      BY <3>1, InputAssumption
    <3> QED
      BY <3>2 DEF Bounded
  <2>2. CASE pos' = pos + bulklen + 2 /\ querybuf' = querybuf
             /\ ~(pos = 0 /\ bulklen >= BIG_ARG /\ Len(querybuf) = bulklen + 2)
    <3>1. ~(bulklen >= BIG_ARG /\ pos = 0 /\ Len(querybuf) <= bulklen + 2)
      BY <1>1, <2>2
    <3>2. wasBlocked \/ IsClosing \/ Len(querybuf) <= BIG_ARG + 1 + IOBUF_LEN
      BY <3>1 DEF Bounded, Reading
    <3> QED
      BY <1>8, <1>10, <2>2, <3>2 DEF Bounded
  <2> QED
    BY <1>8, <2>1, <2>2
<1>15. PICK c \in Nat : c = k + 1
  BY <1>2, <1>3
<1>16. Inside(i, NextRequest(requests, i), c)'
  <2>1. r' = r
    BY <1>8
  <2>2. /\ i > 0 /\ r.type \in {"multibulk", "badbulk"} /\ reqtype' = "multibulk" /\ at' = "bulk"
        /\ multibulklen' = ArgCount(r) - c /\ c <= Len(r.args)
    <3>1. i > 0 /\ r.type \in {"multibulk", "badbulk"} /\ reqtype' = "multibulk" /\ at' = "bulk" /\ multibulklen = ArgCount(r) - k
      BY <1>8 DEF Inside
    <3>2. ArgCount(r) \in Nat /\ k \in Nat
      <4>1. k \in Nat
        BY <1>2
      <4> QED
        BY <1>3, <4>1 DEF ArgCount
    <3>3. k + 1 <= Len(r.args)
      BY <1>3
    <3> HIDE DEF r, k
    <3> QED
      BY <1>8, <1>15, <3>1, <3>2, <3>3
  <2>3. IsShort(Len(LineAt(r, c)) + 2)'
    BY <2>2 DEF IsShort
  <2>4. Unread' = After(requests', i, c)
    BY <1>8, <1>11, <1>15 DEF more
  <2>5. argv' = SubSeq(r.args, 1, c)
    BY <1>9, <1>15
  <2>6. pos' <= Len(querybuf') /\ bulklen' = None
    BY <1>8, <1>11
  <2> HIDE DEF r, k
  <2>7. Inside(i, r, c)'
    BY <1>8, <2>1, <2>2, <2>3, <2>4, <2>5, <2>6 DEF Inside
  <2> QED
    BY <2>7 DEF r
<1>17. Inside(i, NextRequest(requests, i), Len(argv))'
  BY <1>9, <1>15, <1>16
<1> QED
  BY <1>10, <1>13, <1>14, <1>17 DEF InputInv, Reading

\* The argument that is read, complete or not.
LEMMA ArgumentKeeps ==
    ASSUME InputInv, BulkArgument
    PROVE  InputInv'
<1>1. at = "bulk" /\ multibulklen > 0 /\ bulklen # None /\ UNCHANGED <<reqtype, inAfterReply>>
  BY DEF BulkArgument
<1>2. InputTypes /\ \E i \in 1 .. Len(requests) : Reading(i) /\ Inside(i, NextRequest(requests, i), Len(argv))
  BY <1>1, InsideIs
<1>3. PICK i \in 1 .. Len(requests) : Reading(i) /\ Inside(i, NextRequest(requests, i), Len(argv))
  BY <1>2
<1>4. /\ Len(querybuf) \in Nat /\ pos \in Nat /\ bulklen \in Nat
      /\ Len(From(querybuf, pos)) = Len(querybuf) - pos
  BY <1>1, <1>2, <1>3, PositionIs
<1>5. CASE Len(querybuf) - pos < bulklen + 2
  <2>1. Incomplete(From(querybuf, pos))
    BY <1>5 DEF BulkArgument
  <2>2. Len(From(querybuf, pos)) < bulklen + 2
    BY <1>4, <1>5
  <2>3. Served(i) /\ Bounded(i)
    BY <1>3 DEF Reading
  <2> QED
    BY <1>1, <1>2, <1>3, <2>1, <2>2, <2>3, WaitsInside
<1>6. CASE ~(Len(querybuf) - pos < bulklen + 2)
  <2>1. Len(querybuf) - pos >= bulklen + 2
    BY <1>4, <1>6
  <2> QED
    BY <1>1, <1>2, <1>3, <2>1, ArgumentRead
<1> QED
  BY <1>5, <1>6

\* The line before an argument, or after the arguments.
LEMMA LineAtIs ==
    ASSUME InputTypes, NEW i \in 1 .. Len(requests), Inside(i, NextRequest(requests, i), Len(argv)),
           multibulklen > 0, bulklen = None
    PROVE  LET r == NextRequest(requests, i)
               k == Len(argv)
               more == IF k < Len(r.args) THEN Cat(Cat(r.args[k + 1], CRLF), After(requests, i, k + 1))
                       ELSE Stream(requests)[i - 1]
           IN  /\ LineAt(r, k) \in Seq(Token) /\ IsLine(LineAt(r, k))
               /\ more \in Seq(Token) /\ Unread = Cat(Cat(LineAt(r, k), CRLF), more)
               /\ k < Len(r.args) => LineAt(r, k) = <<Tok("$", Len(r.args[k + 1]))>> /\ Len(r.args[k + 1]) \in Nat
               /\ ~(k < Len(r.args)) => /\ r.type = "badbulk" /\ LineAt(r, k) = r.line
                                        /\ Len(r.line) = 1 => r.line[1].kind # "$" \/ r.line[1].v = Invalid
<1> DEFINE r == NextRequest(requests, i)  k == Len(argv)
           more == IF k < Len(r.args) THEN Cat(Cat(r.args[k + 1], CRLF), After(requests, i, k + 1))
                   ELSE Stream(requests)[i - 1]
<1>1. k \in 0 .. Len(r.args) /\ (k = Len(r.args) => r.type = "badbulk")
  BY ArgumentsLeft
<1>2. r \in Request /\ IsSendable(r) /\ Stream(requests)[i - 1] \in Seq(Token)
  BY NextRequestIs DEF InputTypes
<1>3. r.line \in Seq(Token) /\ r.args \in Seq(Seq(Token)) /\ Len(r.args) \in Nat
  <2> HIDE DEF r
  <2>1. r.line \in Seq(Token) /\ r.args \in Seq(Seq(Token))
    BY <1>2, RequestIs
  <2> QED
    BY <2>1, LenProperties
<1>4. Unread = After(requests, i, k)
  BY DEF Inside
<1>5. CASE k < Len(r.args)
  <2>1. /\ r.args[k + 1] \in Seq(Token)
        /\ LineAt(r, k) = <<Tok("$", Len(r.args[k + 1]))>>
        /\ more \in Seq(Token)
        /\ After(requests, i, k) = Cat(Cat(LineAt(r, k), CRLF), more)
    BY <1>1, <1>5, AfterIs DEF InputTypes
  <2>2. Len(r.args[k + 1]) \in Nat
    BY <2>1, LenProperties
  <2> DEFINE t == Tok("$", Len(r.args[k + 1]))
  <2>3. t \in Token /\ t # CR
    <3> DEFINE v == Len(r.args[k + 1])
    <3>1. v \in Int
      BY <2>2
    <3> HIDE DEF v
    <3>2. Tok("$", v) \in Token
      BY <3>1, TokensAre
    <3>3. Tok("$", v) # CR
      BY DEF Tok, CR
    <3> QED
      BY <3>2, <3>3 DEF v
  <2> HIDE DEF t
  <2>4. <<t>> \in Seq(Token) /\ IsLine(<<t>>)
    BY <2>3, LineOfToken
  <2>5. LineAt(r, k) = <<t>>
    BY <2>1 DEF t
  <2> QED
    BY <1>4, <1>5, <2>1, <2>2, <2>4, <2>5
<1>6. CASE ~(k < Len(r.args))
  <2>1. k = Len(r.args) /\ r.type = "badbulk"
    <3>1. k = Len(r.args)
      <4> HIDE DEF r, k
      <4> QED
        BY <1>1, <1>3, <1>6
    <3> QED
      BY <1>1, <3>1
  <2>2. LineAt(r, k) = r.line /\ After(requests, i, k) = Cat(Cat(LineAt(r, k), CRLF), Stream(requests)[i - 1])
    BY <1>1, <2>1, AfterIs DEF InputTypes
  <2>3. IsLine(r.line) /\ (Len(r.line) = 1 => r.line[1].kind # "$" \/ r.line[1].v = Invalid)
    BY <1>2, <2>1 DEF IsSendable
  <2>4. more = Stream(requests)[i - 1]
    BY <1>6
  <2> HIDE DEF more
  <2>5. /\ LineAt(r, k) \in Seq(Token) /\ IsLine(LineAt(r, k))
        /\ more \in Seq(Token) /\ Unread = Cat(Cat(LineAt(r, k), CRLF), more)
    BY <1>2, <1>3, <1>4, <2>2, <2>3, <2>4
  <2> QED
    BY <1>6, <2>1, <2>2, <2>3, <2>5 DEF more
<1> QED
  BY <1>5, <1>6

\* The length of an argument was read: the buffer may be trimmed before it.
LEMMA ArgumentBegins ==
    ASSUME InputTypes, at = "bulk", NEW i \in 1 .. Len(requests), Reading(i),
           Inside(i, NextRequest(requests, i), Len(argv)), bulklen = None, multibulklen > 0,
           Len(argv) < Len(NextRequest(requests, i).args),
           pos + 3 <= Len(querybuf), From(querybuf, pos + 3) \in Seq(Token),
           Cat(From(querybuf, pos + 3), incoming) =
               Cat(Cat(NextRequest(requests, i).args[Len(argv) + 1], CRLF), After(requests, i, Len(argv) + 1)),
           bulklen' = Len(NextRequest(requests, i).args[Len(argv) + 1]), bulklen' \in Nat,
           \/ querybuf' = From(querybuf, pos + 3) /\ pos' = 0
           \/ querybuf' = querybuf /\ pos' = pos + 3,
           UNCHANGED <<requests, incoming, multibulklen, argv, at, executed, inBlocked, wasBlocked,
                       inAfterReply, inFreed, reqtype>>
    PROVE  InputInv'
<1> DEFINE r == NextRequest(requests, i)
<1>1. querybuf \in Seq(Token) /\ Len(querybuf) \in Nat /\ pos \in Nat /\ pos + 3 \in 0 .. Len(querybuf) /\ pos + 3 \in Nat
  BY LenProperties DEF InputTypes
<1>2. Len(From(querybuf, pos + 3)) = Len(querybuf) - (pos + 3)
  BY <1>1, FromIs
<1>3. /\ querybuf' \in Seq(Token) /\ pos' \in Nat /\ pos' <= Len(querybuf')
      /\ Len(querybuf') <= Len(querybuf) /\ Len(querybuf') \in Nat
      /\ Unread' = Cat(From(querybuf, pos + 3), incoming)
  <2>1. CASE querybuf' = From(querybuf, pos + 3) /\ pos' = 0
    <3>1. From(From(querybuf, pos + 3), 0) = From(querybuf, pos + 3)
      BY FromTo, LenProperties
    <3>2. Unread' = Cat(From(From(querybuf, pos + 3), 0), incoming)
      BY <2>1 DEF Unread, From, Cat
    <3> QED
      BY <1>1, <1>2, <2>1, <3>1, <3>2
  <2>2. CASE querybuf' = querybuf /\ pos' = pos + 3
    <3>1. Unread' = Cat(From(querybuf, pos + 3), incoming)
      BY <2>2 DEF Unread, From, Cat
    <3> QED
      BY <1>1, <2>2, <3>1
  <2> QED
    BY <2>1, <2>2
<1>4. InputTypes'
  BY <1>3 DEF InputTypes
<1>5. Served(i)' /\ (IsClosing <=> IsClosing') /\ i \in 0 .. Len(requests)'
  <2>1. i \in 0 .. Len(requests)
    BY RequestsAre
  <2> QED
    BY <2>1, StillServed DEF Reading
<1>6. Bounded(i)'
  <2>1. wasBlocked \/ IsClosing \/ Len(querybuf) <= BIG_ARG + 1 + IOBUF_LEN
    BY InputAssumption DEF Reading, Bounded, None
  <2>2. wasBlocked \/ IsClosing \/ Len(querybuf') <= BIG_ARG + 1 + IOBUF_LEN
    BY <1>1, <1>3, <2>1, InputAssumption
  <2> QED
    BY <1>5, <2>2 DEF Bounded
<1>7. r' = r /\ argv' = argv
  OBVIOUS
<1>8. bulklen' # None
  BY DEF None
<1>9. Unread' = Cat(Cat(r.args[Len(argv) + 1], CRLF), After(requests, i, Len(argv) + 1))
  BY <1>3
<1>10. IsShort(bulklen + 2)'
  BY DEF IsShort
<1>11. /\ i > 0 /\ r.type \in {"multibulk", "badbulk"} /\ reqtype = "multibulk"
       /\ Len(argv) <= Len(r.args) /\ argv = SubSeq(r.args, 1, Len(argv))
       /\ multibulklen = ArgCount(r) - Len(argv)
  BY DEF Inside
<1>12. Inside(i, NextRequest(requests, i), Len(argv))'
  <2>1. Inside(i, r, Len(argv))'
    <3>1. Len(argv) < Len(r.args) /\ bulklen' = Len(r.args[Len(argv) + 1])
      OBVIOUS
    <3> HIDE DEF r
    <3> QED
      BY <1>3, <1>7, <1>8, <1>9, <1>10, <1>11, <3>1 DEF Inside
  <2> QED
    BY <2>1
<1> QED
  BY <1>4, <1>5, <1>6, <1>12 DEF InputInv, Reading

\* The line before an argument.
LEMMA BulkKeeps ==
    ASSUME InputInv, BulkLength
    PROVE  InputInv'
<1>1. at = "bulk" /\ multibulklen > 0 /\ bulklen = None /\ UNCHANGED reqtype
  BY DEF BulkLength
<1>2. InputTypes /\ \E i \in 1 .. Len(requests) : Reading(i) /\ Inside(i, NextRequest(requests, i), Len(argv))
  BY <1>1, InsideIs
<1>3. PICK i \in 1 .. Len(requests) : Reading(i) /\ Inside(i, NextRequest(requests, i), Len(argv))
  BY <1>2
<1> DEFINE r == NextRequest(requests, i)  k == Len(argv)  line == LineAt(r, k)
           more == IF k < Len(r.args) THEN Cat(Cat(r.args[k + 1], CRLF), After(requests, i, k + 1))
                   ELSE Stream(requests)[i - 1]
           len == Len(querybuf)  l == Len(line)
<1>4. /\ line \in Seq(Token) /\ IsLine(line)
      /\ more \in Seq(Token) /\ Unread = Cat(Cat(line, CRLF), more)
      /\ k < Len(r.args) => line = <<Tok("$", Len(r.args[k + 1]))>> /\ Len(r.args[k + 1]) \in Nat
      /\ ~(k < Len(r.args)) => /\ r.type = "badbulk" /\ line = r.line
                               /\ Len(r.line) = 1 => r.line[1].kind # "$" \/ r.line[1].v = Invalid
  BY <1>1, <1>2, <1>3, LineAtIs
<1>5. /\ querybuf \in Seq(Token) /\ incoming \in Seq(Token) /\ len \in Nat
      /\ pos \in 0 .. len /\ pos \in Nat
      /\ From(querybuf, pos) \in Seq(Token) /\ Len(From(querybuf, pos)) = len - pos
  BY <1>2, <1>3, PositionIs
<1>6. /\ l \in Nat
      /\ pos + l >= len => CRs(pos) = {}
      /\ pos + l < len => CRs(pos) # {} /\ First(CRs(pos)) = pos + l + 1
      /\ pos + l + 2 <= len =>
           /\ From(querybuf, pos + l + 2) \in Seq(Token)
           /\ Cat(From(querybuf, pos + l + 2), incoming) = more
           /\ \A j \in 1 .. l : querybuf[pos + j] = line[j]
  <2>1. Cat(From(querybuf, pos), incoming) = Cat(Cat(line, CRLF), more)
    BY <1>4 DEF Unread
  <2>2. /\ line \in Seq(Token) /\ IsLine(line) /\ more \in Seq(Token) /\ querybuf \in Seq(Token) /\ incoming \in Seq(Token)
        /\ pos \in 0 .. Len(querybuf)
    BY <1>4, <1>5
  <2> HIDE DEF line, more
  <2> QED
    BY <2>1, <2>2, LineEnd
<1>7. Served(i) /\ Bounded(i) /\ i \in 0 .. Len(requests)
  BY <1>2, <1>3, RequestsAre DEF Reading
<1>8. ASSUME len < pos + l + 2, Incomplete(From(querybuf, pos)), UNCHANGED inAfterReply PROVE InputInv'
  <2>1. Len(From(querybuf, pos)) < Len(line) + 2
    <3> HIDE DEF line, len
    <3> QED
      BY <1>5, <1>6, <1>8
  <2> QED
    BY <1>1, <1>2, <1>3, <1>7, <1>8, <2>1, WaitsInside
<1>9. CASE pos + l >= len
  <2>1. NoNewline(From(querybuf, pos))
    BY <1>6, <1>9 DEF BulkLength
  <2>2. CASE len > INLINE_MAX
    <3>1. wasBlocked \/ IsClosing
      BY <1>1, <1>5, <1>7, <2>2, InputAssumption DEF Bounded, None
    <3>2. setProtocolError(From(querybuf, pos))
      BY <2>1, <2>2 DEF NoNewline
    <3>3. reqtype' \in {"none", "inline", "multibulk"}
      BY <1>1, <1>2 DEF InputTypes
    <3> QED
      BY <1>2, <1>5, <1>7, <3>1, <3>2, <3>3, ErrorCloses
  <2>3. CASE ~(len > INLINE_MAX)
    <3>1. len < pos + l + 2
      <4> HIDE DEF l, len
      <4> QED
        BY <1>5, <1>6, <1>9
    <3> QED
      BY <1>8, <2>1, <2>3, <3>1 DEF NoNewline
  <2> QED
    BY <2>2, <2>3
<1>10. CASE len = pos + l + 1
  <2>1. pos + l < len /\ len < pos + l + 2
    <3> HIDE DEF l, len
    <3> QED
      BY <1>5, <1>6, <1>10
  <2>2. Incomplete(From(querybuf, pos)) /\ UNCHANGED inAfterReply
    BY <1>6, <1>10, <2>1 DEF BulkLength
  <2> QED
    BY <1>8, <2>1, <2>2
<1>11. CASE pos + l + 2 <= len
  <2> DEFINE cr == pos + l + 1
  <2>1. pos + l < len /\ cr # len /\ cr + 1 = pos + l + 2 /\ (cr = pos + 2 <=> l = 1)
    <3> HIDE DEF l, len
    <3> QED
      BY <1>5, <1>6, <1>11
  <2>2. CRs(pos) # {} /\ First(CRs(pos)) = cr
    BY <1>6, <2>1
  <2> HIDE DEF cr
  <2>3. /\ ~IsLength("$", pos, cr) => setProtocolError(From(querybuf, pos))
        /\ IsLength("$", pos, cr) =>
             /\ bulklen' = querybuf[pos + 1].v
             /\ TrimForBigArg(From(querybuf, cr + 1), cr)
             /\ UNCHANGED <<requests, incoming, multibulklen, argv, at, executed, inBlocked, wasBlocked,
                            inAfterReply, inFreed>>
    BY <2>1, <2>2 DEF BulkLength
  <2>4. l = 1 => querybuf[pos + 1] = line[1]
    <3>1. \A j \in 1 .. l : querybuf[pos + j] = line[j]
      BY <1>6, <1>11
    <3> HIDE DEF l, line
    <3> QED
      BY <3>1
  <2>5. CASE ~(k < Len(r.args))
    <3>1. r.type = "badbulk" /\ line = r.line /\ (Len(r.line) = 1 => r.line[1].kind # "$" \/ r.line[1].v = Invalid)
      BY <1>4, <2>5
    <3>2. ~IsLength("$", pos, cr)
      <4>1. l = Len(r.line)
        BY <3>1
      <4>2. IsLength("$", pos, cr) => l = 1 /\ querybuf[pos + 1].kind = "$" /\ querybuf[pos + 1].v # Invalid
        BY <2>1 DEF IsLength
      <4>3. l = 1 => querybuf[pos + 1] = r.line[1]
        BY <2>4, <3>1
      <4> HIDE DEF l, line
      <4> QED
        BY <3>1, <4>1, <4>2, <4>3
    <3>3. IsClosing
      BY <1>2, <1>7, <3>1, MalformedCloses DEF Malformed
    <3>4. reqtype' \in {"none", "inline", "multibulk"}
      BY <1>1, <1>2 DEF InputTypes
    <3> QED
      BY <1>2, <1>5, <1>7, <2>3, <3>2, <3>3, <3>4, ErrorCloses
  <2>6. CASE k < Len(r.args)
    <3> DEFINE b == Len(r.args[k + 1])
    <3>1. line = <<Tok("$", b)>> /\ b \in Nat
      BY <1>4, <2>6
    <3>2. l = 1 /\ line[1] = Tok("$", b)
      BY <3>1
    <3>3. querybuf[pos + 1].kind = "$" /\ querybuf[pos + 1].v = b
      BY <2>4, <3>2 DEF Tok
    <3>4. cr = pos + 2 /\ cr + 1 = pos + 3
      <4> HIDE DEF l
      <4> QED
        BY <1>5, <2>1, <3>2
    <3>5. b # Invalid
      BY <3>1 DEF Invalid
    <3>6. IsLength("$", pos, cr)
      BY <3>3, <3>4, <3>5 DEF IsLength
    <3>7. /\ bulklen' = b
          /\ \/ querybuf' = From(querybuf, pos + 3) /\ pos' = 0
             \/ querybuf' = querybuf /\ pos' = pos + 3
          /\ UNCHANGED <<requests, incoming, multibulklen, argv, at, executed, inBlocked, wasBlocked,
                         inAfterReply, inFreed>>
      BY <2>3, <3>3, <3>4, <3>6 DEF TrimForBigArg
    <3>8. pos + l + 2 = pos + 3 /\ pos + 3 <= len
      <4> HIDE DEF l, len
      <4> QED
        BY <1>5, <1>11, <3>2
    <3>9. From(querybuf, pos + 3) \in Seq(Token) /\ Cat(From(querybuf, pos + 3), incoming) = more
      BY <1>6, <1>11, <3>8
    <3>10. Cat(From(querybuf, pos + 3), incoming) = Cat(Cat(r.args[k + 1], CRLF), After(requests, i, k + 1))
      BY <2>6, <3>9
    <3>11. bulklen' \in Nat
      BY <3>1, <3>7
    <3> QED
      BY <1>1, <1>2, <1>3, <2>6, <3>7, <3>8, <3>9, <3>10, <3>11, ArgumentBegins
  <2> QED
    BY <2>5, <2>6
<1>12. pos + l >= len \/ len = pos + l + 1 \/ pos + l + 2 <= len
  <2> HIDE DEF l, len
  <2> QED
    BY <1>5, <1>6
<1> QED
  BY <1>9, <1>10, <1>11, <1>12

\* Every step keeps what is known of the input.
LEMMA InputStep ==
    InputInv /\ [InNext]_inVars => InputInv'
<1> SUFFICES ASSUME InputInv, [InNext]_inVars PROVE InputInv'
  OBVIOUS
<1>1. ASSUME NEW n \in 1 .. IOBUF_LEN, readQueryFromClient(n) PROVE InputInv'
  BY <1>1, ReadKeeps
<1>2. CASE InputDone
  BY <1>2, DoneKeeps
<1>3. CASE processInlineBuffer
  BY <1>3, InlineKeeps
<1>4. CASE MultibulkLength
  BY <1>4, LengthKeeps
<1>5. CASE MultibulkResumes
  BY <1>5, ResumesKeeps
<1>6. CASE BulkLength
  BY <1>6, BulkKeeps
<1>7. CASE BulkArgument
  BY <1>7, ArgumentKeeps
<1>8. CASE MultibulkComplete
  BY <1>8, CompleteKeeps
<1>9. CASE InputUnblocked
  BY <1>9, UnblockedKeeps
<1>10. CASE UNCHANGED inVars
  <2>1. UNCHANGED <<requests, incoming, querybuf, reqtype, multibulklen, bulklen, argv, at, pos, executed, inBlocked,
                    wasBlocked, inAfterReply, inFreed>>
    BY <1>10 DEF inVars
  <2>2. InputTypes'
    BY <2>1 DEF InputInv, InputTypes
  <2>3. InputClosed => InputClosed'
    BY <2>1 DEF InputClosed, Expected, IsClosing, Endings
  <2>4. ASSUME NEW i \in 0 .. Len(requests), Reading(i) PROVE Reading(i)' /\ i \in 0 .. Len(requests)'
    <3>1. Served(i)' /\ (IsClosing <=> IsClosing')
      BY <2>1, <2>4, StillServed DEF Reading
    <3>2. Between(i) => Between(i)'
      BY <2>1 DEF Between, IsShort, Cat
    <3>3. Inside(i, NextRequest(requests, i), Len(argv)) => Inside(i, NextRequest(requests, i), Len(argv))'
      BY <2>1 DEF Inside, IsShort, Unread, From, Cat
    <3>4. Bounded(i)'
      BY <2>1, <2>4, <3>1 DEF Bounded, Reading
    <3> QED
      BY <2>1, <2>4, <3>1, <3>2, <3>3, <3>4 DEF Reading
  <2> QED
    BY <2>2, <2>3, <2>4 DEF InputInv
<1> QED
  BY <1>1, <1>2, <1>3, <1>4, <1>5, <1>6, <1>7, <1>8, <1>9, <1>10 DEF InNext

\* When the client is waited for, more of its input is on the way.
LEMMA MoreToCome ==
    ASSUME InputTypes, at = "idle", ~inBlocked, ~inFreed, NEW i \in 1 .. Len(requests), Reading(i)
    PROVE  incoming # <<>>
<1> DEFINE r == NextRequest(requests, i)  line == HeadLine(r)
<1>1. querybuf \in Seq(Token) /\ incoming \in Seq(Token) /\ Len(querybuf) \in Nat /\ Len(incoming) \in Nat
  BY LenProperties DEF InputTypes
<1>2. ASSUME NEW x, IsShort(x) PROVE querybuf = <<>> \/ Len(querybuf) < x
  BY <1>2 DEF IsShort
<1>3. ASSUME NEW s \in Seq(Token), NEW n \in Nat, n > 0, Len(s) >= n, IsShort(n), Cat(querybuf, incoming) = s
      PROVE  incoming # <<>>
  <2>1. Len(s) = Len(querybuf) + Len(incoming)
    BY <1>1, <1>3, CatIs
  <2>2. Len(querybuf) < n
    <3>1. CASE querybuf = <<>>
      <4>1. Len(querybuf) = 0
        BY <3>1
      <4> QED
        BY <1>3, <4>1
    <3> QED
      BY <1>2, <1>3, <3>1
  <2>3. Len(incoming) > 0
    BY <1>1, <1>3, <2>1, <2>2
  <2> QED
    BY <2>3
<1>4. ASSUME NEW l \in Seq(Token), NEW more \in Seq(Token), NEW s \in Seq(Token), s = Cat(Cat(l, CRLF), more)
      PROVE  Len(s) >= Len(l) + 2 /\ Len(l) \in Nat /\ Len(s) \in Nat
  <2>1. CRLF \in Seq(Token) /\ Len(CRLF) = 2
    BY TokensAre
  <2>2. Cat(l, CRLF) \in Seq(Token) /\ Len(Cat(l, CRLF)) = Len(l) + Len(CRLF) /\ Len(l) \in Nat
    BY <2>1, CatIs
  <2>3. Len(Cat(Cat(l, CRLF), more)) = Len(Cat(l, CRLF)) + Len(more) /\ Len(more) \in Nat
    BY <2>2, CatIs
  <2> HIDE <1>4
  <2>4. Len(Cat(Cat(l, CRLF), more)) >= Len(l) + 2 /\ Len(l) \in Nat /\ Len(Cat(Cat(l, CRLF), more)) \in Nat
    BY <2>1, <2>2, <2>3
  <2> QED
    BY <1>4, <2>4
<1>5. CASE Between(i)
  <2>1. Cat(querybuf, incoming) = Stream(requests)[i] /\ IsShort(FirstLength(r)) /\ Stream(requests)[i] \in Seq(Token)
        /\ Stream(requests)[i - 1] \in Seq(Token) /\ r \in Request /\ IsSendable(r)
    BY <1>5, NextRequestIs DEF Between, InputTypes
  <2>2. line \in Seq(Token) /\ Len(line) \in Nat
    BY NextIs DEF InputTypes
  <2>3. r.type \in {"multibulk", "inline", "badcount", "badbulk", "endless"}
    BY <2>1 DEF Request
  <2>4. CASE r.type = "endless"
    <3>1. FirstLength(r) = INLINE_MAX + 1 /\ Stream(requests)[i] = line
      BY <2>4, HeadLineIs, NextIs DEF InputTypes
    <3>2. line = r.line /\ Len(r.line) > INLINE_MAX
      BY <2>1, <2>4 DEF IsSendable, HeadLine
    <3>3. INLINE_MAX + 1 \in Nat /\ INLINE_MAX + 1 > 0 /\ Len(line) >= INLINE_MAX + 1
      <4>1. Len(line) > INLINE_MAX
        BY <3>2
      <4> HIDE DEF line
      <4> QED
        BY <2>2, <4>1, InputAssumption
    <3> HIDE DEF line
    <3> QED
      BY <1>3, <2>1, <2>2, <3>1, <3>3
  <2>5. CASE r.type # "endless"
    <3>1. FirstLength(r) = Len(line) + 2
      BY <2>5, HeadLineIs
    <3>2. \E more \in Seq(Token) : Stream(requests)[i] = Cat(Cat(line, CRLF), more)
      <4>1. r.type \in {"multibulk", "badbulk"} =>
              Stream(requests)[i] = Cat(Cat(line, CRLF), After(requests, i, 0)) /\ After(requests, i, 0) \in Seq(Token)
        BY NextIs DEF InputTypes
      <4>2. r.type \in {"badcount", "inline"} => Stream(requests)[i] = Cat(Cat(line, CRLF), Stream(requests)[i - 1])
        BY NextIs DEF InputTypes
      <4> QED
        BY <2>1, <2>3, <2>5, <4>1, <4>2
    <3> HIDE DEF line
    <3>3. Len(Stream(requests)[i]) >= Len(line) + 2
      BY <1>4, <2>1, <2>2, <3>2
    <3>4. Len(line) + 2 \in Nat /\ Len(line) + 2 > 0
      BY <2>2
    <3> QED
      BY <1>3, <2>1, <3>1, <3>3, <3>4
  <2> QED
    BY <2>4, <2>5
<1>6. CASE Inside(i, r, Len(argv))
  <2>1. pos = 0 /\ multibulklen > 0
    BY <1>6 DEF Inside
  <2>2. Unread = Cat(querybuf, incoming)
    <3>1. From(querybuf, 0) = querybuf
      BY <1>1, LenProperties, FromTo
    <3> QED
      BY <2>1, <3>1 DEF Unread
  <2>3. CASE bulklen = None
    <3> DEFINE l == LineAt(r, Len(argv))
    <3>1. IsShort(Len(l) + 2)
      BY <1>6, <2>3 DEF Inside
    <3>2. l \in Seq(Token) /\ \E more \in Seq(Token) : Unread = Cat(Cat(l, CRLF), more)
      BY <1>6, <2>1, <2>3, LineAtIs
    <3> HIDE DEF l
    <3>3. PICK more \in Seq(Token) : Unread = Cat(Cat(l, CRLF), more)
      BY <3>2
    <3>4. Unread \in Seq(Token)
      BY <1>1, <2>2, CatIs
    <3>5. Len(Unread) >= Len(l) + 2 /\ Len(l) \in Nat
      BY <1>4, <3>2, <3>3, <3>4
    <3>6. Len(l) + 2 \in Nat /\ Len(l) + 2 > 0
      BY <3>5
    <3> QED
      BY <1>3, <2>2, <3>1, <3>4, <3>5, <3>6
  <2>4. CASE bulklen # None
    <3> DEFINE k == Len(argv)  arg == r.args[k + 1]  more == After(requests, i, k + 1)
    <3>1. k < Len(r.args) /\ bulklen = Len(arg) /\ Unread = Cat(Cat(arg, CRLF), more) /\ IsShort(bulklen + 2)
      BY <1>6, <2>4 DEF Inside
    <3>2. k \in 0 .. Len(r.args)
      BY <1>6, ArgumentsLeft
    <3>3. arg \in Seq(Token) /\ k + 1 \in 1 .. Len(r.args) /\ Len(r.args) \in Nat
      BY <3>1, <3>2, AfterIs DEF InputTypes
    <3>4. more \in Seq(Token)
      <4>1. k + 1 \in 0 .. Len(r.args)
        <5> HIDE DEF k, r
        <5> QED
          BY <3>3
      <4> QED
        BY <4>1, AfterIs DEF InputTypes
    <3>5. Unread \in Seq(Token)
      BY <1>1, <2>2, CatIs
    <3> HIDE DEF arg, more, k
    <3>6. Len(Unread) >= Len(arg) + 2 /\ Len(arg) \in Nat
      BY <1>4, <3>1, <3>3, <3>4, <3>5
    <3>7. bulklen + 2 \in Nat /\ bulklen + 2 > 0 /\ Len(Unread) >= bulklen + 2
      BY <3>1, <3>6
    <3> QED
      BY <1>3, <2>2, <3>1, <3>5, <3>7
  <2> QED
    BY <2>3, <2>4
<1> QED
  BY <1>5, <1>6 DEF Reading

\* What is known of the input makes the commands those that were sent.
LEMMA InputInvSays ==
    InputInv => CommandsAreThoseSent
<1> SUFFICES ASSUME InputInv PROVE CommandsAreThoseSent
  OBVIOUS
<1>1. InputTypes
  BY DEF InputInv
<1>2. CASE InputClosed
  BY <1>2 DEF InputClosed, CommandsAreThoseSent
<1>3. ASSUME NEW i \in 0 .. Len(requests), Reading(i) PROVE CommandsAreThoseSent
  <2>1. Served(i) /\ ~inAfterReply /\ executed = CommandsTo(requests)[Len(requests) - i]
    BY <1>3 DEF Reading, Served
  <2>2. IsPrefix(executed, Expected)
    BY <1>1, <2>1, ExpectedIs DEF Served
  <2>3. ASSUME incoming = <<>>, at = "idle", ~inBlocked, ~inFreed
        PROVE  executed = Expected /\ querybuf = <<>> /\ ~IsClosing
    <3>1. i = 0
      <4>1. i \in 1 .. Len(requests) => FALSE
        BY <1>1, <1>3, <2>3, MoreToCome
      <4> QED
        BY <1>1, <4>1, RequestsAre
    <3>2. ~IsClosing /\ Expected = CommandsTo(requests)[Len(requests)]
      BY <1>1, <2>1, <3>1, ExpectedIs DEF Served
    <3>3. Len(requests) - i = Len(requests)
      BY <1>1, <3>1, RequestsAre
    <3>4. querybuf = <<>>
      <4>1. Between(i)
        BY <1>3, <3>1 DEF Reading, Inside
      <4>2. Stream(requests)[0] = <<>>
        BY <1>1, RequestsAre, StreamIs
      <4>3. Cat(querybuf, <<>>) = querybuf
        BY <1>1, CatFlat DEF InputTypes
      <4> QED
        BY <2>3, <3>1, <4>1, <4>2, <4>3 DEF Between
    <3> QED
      BY <2>1, <3>2, <3>3, <3>4
  <2> QED
    BY <2>1, <2>2, <2>3 DEF CommandsAreThoseSent
<1> QED
  BY <1>2, <1>3 DEF InputInv

\* However the stream of a client is cut into reads, wherever it blocks,
\* for any sizes of reads, lines and large arguments and any requests:
\* the commands given to processCommand are those that were sent, in their
\* order; nothing of a complete request stays in the buffer when all was
\* read; a client that never blocked is refused only for a malformed
\* request (readQueryFromClient, processInlineBuffer, processMultibulkBuffer).
THEOREM InputIsExecuted ==
    InInit /\ [][InNext]_inVars => []CommandsAreThoseSent
<1>1. InInit => InputInv
  BY InputBegins
<1>2. InputInv /\ [InNext]_inVars => InputInv'
  BY InputStep
<1>3. InputInv => CommandsAreThoseSent
  BY InputInvSays
<1> QED
  BY <1>1, <1>2, <1>3, PTL

=============================================================================
