------------------------------- MODULE PubSub -------------------------------
(***************************************************************************)
(* Clients and the tables of the server that refer to them: the channels   *)
(* and patterns of pubsub.c, the slaves, the monitors, the master and the  *)
(* clients that are to be closed (networking.c).  Clients come and go at   *)
(* any time; what is freed must be in no table.                            *)
(*                                                                         *)
(* A list of clients is a function that counts how often a client is in    *)
(* it: the order in which its members are served does not matter here.     *)
(***************************************************************************)
EXTENDS Integers, Sequences, FiniteSets

CONSTANTS
    Conn,        \* the connections
    Channel,     \* channels, and patterns that match each of them
    maxclients   \* server.maxclients

VARIABLES
    clients,        \* server.clients
    flags,          \* of each client: "SLAVE", "MONITOR", "MASTER", "ASAP", "AFTER_REPLY"
    channels, patterns,  \* of each client: what it subscribed to
    pubsub_channels, pubsub_patterns, \* server: how often a client is on a list
    slaves, monitors, clients_to_close,
    masterhost_set  \* server.masterhost is not NULL

subVars == <<clients, flags, channels, patterns, pubsub_channels, pubsub_patterns, slaves, monitors,
             clients_to_close, masterhost_set>>

(* The tables as one record, which freeClient transforms.                  *)
Tables == [clients |-> clients, flags |-> flags, channels |-> channels, patterns |-> patterns,
           subscribers |-> pubsub_channels, psubscribers |-> pubsub_patterns,
           slaves |-> slaves, monitors |-> monitors, closing |-> clients_to_close]
TablesBecome(t) ==
    /\ clients' = t.clients /\ flags' = t.flags
    /\ channels' = t.channels /\ patterns' = t.patterns
    /\ pubsub_channels' = t.subscribers /\ pubsub_patterns' = t.psubscribers
    /\ slaves' = t.slaves /\ monitors' = t.monitors /\ clients_to_close' = t.closing

-----------------------------------------------------------------------------
pubsubSubscribeChannel(t, c, ch) ==
    IF ch \in t.channels[c] THEN t
    ELSE [t EXCEPT !.channels[c] = @ \cup {ch}, !.subscribers[ch][c] = @ + 1]

pubsubUnsubscribeChannel(t, c, ch) ==
    IF ch \notin t.channels[c] THEN t
    ELSE [t EXCEPT !.channels[c] = @ \ {ch}, !.subscribers[ch][c] = @ - 1]

pubsubSubscribePattern(t, c, p) ==
    IF p \in t.patterns[c] THEN t
    ELSE [t EXCEPT !.patterns[c] = @ \cup {p}, !.psubscribers[p][c] = @ + 1]

pubsubUnsubscribePattern(t, c, p) ==
    IF p \notin t.patterns[c] THEN t
    ELSE [t EXCEPT !.patterns[c] = @ \ {p}, !.psubscribers[p][c] = @ - 1]

(* The entries of the clients cs.  A client leaves the lists one after the *)
(* other; what is left does not depend on the order.                       *)
Cleared(f, cs)     == [c \in Conn |-> IF c \in cs THEN {} ELSE f[c]]
Dropped(count, cs) == [c \in Conn |-> IF c \in cs THEN count[c] - 1 ELSE count[c]]
Unsubscribed(lists, of, cs) == [ch \in Channel |-> Dropped(lists[ch], {c \in cs : ch \in of[c]})]

pubsubUnsubscribeAllChannels(t, cs) ==
    [t EXCEPT !.channels = Cleared(@, cs), !.subscribers = Unsubscribed(@, t.channels, cs)]
pubsubUnsubscribeAllPatterns(t, cs) ==
    [t EXCEPT !.patterns = Cleared(@, cs), !.psubscribers = Unsubscribed(@, t.patterns, cs)]

(* A bug that takes every client with the flag from the list of slaves.    *)
UnlinkMonitorAsSlave(t, cs) ==
    LET u == pubsubUnsubscribeAllPatterns(pubsubUnsubscribeAllChannels(t, cs), cs)
        Flagged(f) == {c \in cs : f \in t.flags[c]}
    IN  [u EXCEPT !.clients = @ \ cs, !.flags = Cleared(@, cs), !.closing = Dropped(@, Flagged("ASAP")),
                  !.slaves  = Dropped(@, {c \in Flagged("SLAVE") : t.slaves[c] > 0})]

(* What freeClient does to the tables for each of the clients cs, but for  *)
(* the slaves of a server that lost its master.                            *)
Unlink(t, cs) ==
    LET u == pubsubUnsubscribeAllPatterns(pubsubUnsubscribeAllChannels(t, cs), cs)
        Flagged(f) == {c \in cs : f \in t.flags[c]}
    IN  [u EXCEPT !.clients  = @ \ cs,
                  !.slaves   = Dropped(@, Flagged("SLAVE") \ Flagged("MONITOR")),
                  !.monitors = Dropped(@, Flagged("MONITOR")),
                  !.closing  = Dropped(@, Flagged("ASAP")),
                  !.flags    = Cleared(@, cs)]

SlavesOf(t) == {c \in t.clients : t.slaves[c] > 0}
disconnectSlaves(t) == Unlink(t, SlavesOf(t))

(* A server that loses its master, and is to find it again, disconnects    *)
(* its slaves.                                                             *)
freeClients(t, cs) ==
    IF masterhost_set /\ \E c \in cs : "MASTER" \in t.flags[c] THEN Unlink(t, cs \cup SlavesOf(t)) ELSE Unlink(t, cs)
freeClient(t, c) == freeClients(t, {c})

(* freeClientAsync of each of the clients cs.                              *)
freeClientAsync(t, cs) ==
    LET new == {c \in cs : "ASAP" \notin t.flags[c]}
    IN  [t EXCEPT !.flags   = [c \in Conn |-> IF c \in new THEN @[c] \cup {"ASAP"} ELSE @[c]],
                  !.closing = [c \in Conn |-> IF c \in new THEN @[c] + 1 ELSE @[c]]]

(* The flag is cleared first: the node is deleted after the client.        *)
FreeQueued(t, cs) ==
    LET u == freeClients([t EXCEPT !.flags = [c \in Conn |-> IF c \in cs THEN @[c] \ {"ASAP"} ELSE @[c]]], cs)
    IN  [u EXCEPT !.closing = Dropped(@, cs)]

-----------------------------------------------------------------------------
MayCommand(c) == c \in clients /\ "AFTER_REPLY" \notin flags[c]

(* A client over the limit is told so and freed.                           *)
acceptCommonHandler(c) ==
    /\ c \notin clients
    /\ IF Cardinality(clients) + 1 > maxclients THEN TablesBecome(Tables)
       ELSE TablesBecome([Tables EXCEPT !.clients = @ \cup {c}])
    /\ UNCHANGED masterhost_set

(* The slave's link to its master is a client too.                         *)
MasterConnects(c) ==
    /\ c \notin clients /\ masterhost_set
    /\ \A d \in clients : "MASTER" \notin flags[d]
    /\ TablesBecome([Tables EXCEPT !.clients = @ \cup {c}, !.flags[c] = {"MASTER"}])
    /\ UNCHANGED masterhost_set

Subscriptions(c) ==
    /\ MayCommand(c) /\ "MASTER" \notin flags[c]
    /\ \E ch \in Channel :
          \/ TablesBecome(pubsubSubscribeChannel(Tables, c, ch))
          \/ TablesBecome(pubsubUnsubscribeChannel(Tables, c, ch))
          \/ TablesBecome(pubsubSubscribePattern(Tables, c, ch))
          \/ TablesBecome(pubsubUnsubscribePattern(Tables, c, ch))
          \/ TablesBecome(pubsubUnsubscribeAllChannels(Tables, {c}))
          \/ TablesBecome(pubsubUnsubscribeAllPatterns(Tables, {c}))
    /\ UNCHANGED masterhost_set

Sub(c) == channels[c] \cup patterns[c] # {}

(* A client in the context of a subscription may only change it.           *)
syncCommand(c) ==
    /\ MayCommand(c) /\ ~Sub(c) /\ flags[c] \cap {"SLAVE", "MASTER"} = {}
    /\ TablesBecome([Tables EXCEPT !.flags[c] = @ \cup {"SLAVE"}, !.slaves[c] = @ + 1])
    /\ UNCHANGED masterhost_set

monitorCommand(c) ==
    /\ MayCommand(c) /\ ~Sub(c) /\ flags[c] \cap {"SLAVE", "MASTER"} = {}
    /\ TablesBecome([Tables EXCEPT !.flags[c] = @ \cup {"SLAVE", "MONITOR"}, !.monitors[c] = @ + 1])
    /\ UNCHANGED masterhost_set

(* full: receivers whose output buffer passes its limit with the message.  *)
pubsubPublishMessage(ch) ==
    /\ \E full \in SUBSET {c \in Conn : pubsub_channels[ch][c] + pubsub_patterns[ch][c] > 0} :
          TablesBecome(freeClientAsync(Tables, full))
    /\ UNCHANGED masterhost_set

publishCommand(c) == MayCommand(c) /\ ~Sub(c) /\ \E ch \in Channel : pubsubPublishMessage(ch)

(* CLIENT KILL of another client frees it at once; of itself, when the     *)
(* reply was sent.                                                         *)
clientKill(c, victim) ==
    /\ MayCommand(c) /\ ~Sub(c) /\ victim \in clients
    /\ TablesBecome(IF c = victim THEN [Tables EXCEPT !.flags[c] = @ \cup {"AFTER_REPLY"}] ELSE freeClient(Tables, victim))
    /\ UNCHANGED masterhost_set

(* The peer closed the connection, or the last reply of a client that is   *)
(* to be closed was sent.                                                  *)
ConnectionCloses(c) ==
    /\ c \in clients
    /\ TablesBecome(freeClient(Tables, c))
    /\ UNCHANGED masterhost_set

(* maxidletime passed.                                                     *)
IdleTimeout(c) ==
    /\ c \in clients
    /\ flags[c] \cap {"SLAVE", "MASTER"} = {} /\ ~Sub(c)
    /\ TablesBecome(freeClient(Tables, c))
    /\ UNCHANGED masterhost_set

freeClientsInAsyncFreeQueue ==
    /\ \E c \in Conn : clients_to_close[c] > 0
    /\ TablesBecome(FreeQueued(Tables, {c \in Conn : clients_to_close[c] > 0}))
    /\ UNCHANGED masterhost_set

(* SLAVEOF, by any client: the old master is freed and, for a new master,  *)
(* the slaves are disconnected.                                            *)
slaveofCommand ==
    /\ \E toMaster \in BOOLEAN :
          LET masters == {c \in clients : "MASTER" \in flags[c]}
              t == Unlink(Tables, masters)
          IN  /\ masterhost_set' = toMaster
              /\ TablesBecome(IF toMaster THEN disconnectSlaves(t) ELSE t)

NoOne == [c \in Conn |-> 0]
SubInit ==
    /\ clients = {} /\ flags = [c \in Conn |-> {}]
    /\ channels = [c \in Conn |-> {}] /\ patterns = [c \in Conn |-> {}]
    /\ pubsub_channels = [ch \in Channel |-> NoOne] /\ pubsub_patterns = [ch \in Channel |-> NoOne]
    /\ slaves = NoOne /\ monitors = NoOne /\ clients_to_close = NoOne
    /\ masterhost_set = FALSE

SubNext ==
    \/ \E c \in Conn : \/ acceptCommonHandler(c) \/ MasterConnects(c) \/ Subscriptions(c) \/ syncCommand(c)
                       \/ monitorCommand(c) \/ publishCommand(c) \/ ConnectionCloses(c) \/ IdleTimeout(c)
                       \/ \E victim \in Conn : clientKill(c, victim)
    \/ freeClientsInAsyncFreeQueue \/ slaveofCommand

-----------------------------------------------------------------------------
(* The entries of a client are those of its flags and subscriptions.       *)
OneIf(b) == IF b THEN 1 ELSE 0
AgreeOn(t, c) ==
    /\ \A ch \in Channel : /\ t.subscribers[ch][c] = OneIf(ch \in t.channels[c])
                           /\ t.psubscribers[ch][c] = OneIf(ch \in t.patterns[c])
    /\ t.slaves[c] = OneIf("SLAVE" \in t.flags[c] /\ "MONITOR" \notin t.flags[c])
    /\ t.monitors[c] = OneIf("MONITOR" \in t.flags[c])
    /\ t.closing[c] = OneIf("ASAP" \in t.flags[c])
    /\ c \notin t.clients => t.flags[c] = {} /\ t.channels[c] \cup t.patterns[c] = {}

(* Whatever the order in which clients subscribe, become slaves, monitors  *)
(* or the master, overflow, are killed, time out and are freed: every      *)
(* table of the server has exactly the clients that exist and ask for it,  *)
(* once each, so that a message, a command for the monitors or the slaves  *)
(* and the queue of clients to close never reach one that was freed.       *)
TablesAgree == \A c \in Conn : AgreeOn(Tables, c)

=============================================================================
