------------------------------ MODULE RouteInfo -----------------------------
(***************************************************************************)
(* The routes that a name server keeps (RouteInfoManager), the brokers     *)
(* that register with it again and again, and the three ways a broker      *)
(* leaves them: it unregisters, its channel is closed, or the scan finds   *)
(* that it has not registered for two minutes.                             *)
(*                                                                         *)
(* Requests are handled by a pool of threads and may be handled late and   *)
(* in any order; channel events by one thread, in order; the scan runs on  *)
(* a timer and walks through brokerLiveTable without holding the lock.     *)
(*                                                                         *)
(* There is one cluster, and of a broker's topics the model keeps one that *)
(* every registration carries, known by the DataVersion it came with: the  *)
(* name server merges a registration topic by topic, and a topic that is   *)
(* missing from it stays.  A broker keeps its address.  Left out: filter   *)
(* servers, deleting topics and wiping permissions by an administrator.    *)
(*                                                                         *)
(* Bounds: MaxVersion topic changes of a broker, MaxChannels connections   *)
(* of a broker, MaxChanges failures, MaxRequests requests of a broker      *)
(* under way.                                                              *)
(***************************************************************************)
EXTENDS Integers, Sequences, FiniteSets

CONSTANTS Brokers,     \* brokers, named by their address
          Masters,     \* those with brokerId 0
          Names, Name, \* broker names, and the name of each broker
          NoBroker,    \* not a broker
          MaxVersion, MaxChannels, MaxChanges, MaxRequests \* bounds

ASSUME RouteAssumption ==
    /\ Masters \subseteq Brokers /\ Name \in [Brokers -> Names]
    /\ \A b, c \in Masters : Name[b] = Name[c] => b = c
    /\ NoBroker \notin Brokers
    /\ MaxVersion \in Nat \ {0} /\ MaxChannels \in Nat \ {0}
    /\ MaxChanges \in Nat /\ MaxRequests \in Nat \ {0}

VARIABLES
    alive, version, connection, \* of each broker
    open,            \* channels that are open
    requests,        \* requests the name server has read
    events,          \* channel events, in order
    brokerAddrTable, \* the addresses in it
    clusterAddrTable, \* names in the cluster
    topicQueueTable, \* per name, the version of its topics, 0 when absent
    brokerLiveTable, \* per address: version, channel, and whether it is old
    housekeeper,     \* the thread of the channel events
    scan,            \* the thread of scanNotActiveBroker
    changes          \* counter for the bound

brokerVars == <<alive, version, connection>>
netVars == <<open, requests, events>>
tableVars == <<brokerAddrTable, clusterAddrTable, topicQueueTable, brokerLiveTable>>
threadVars == <<housekeeper, scan>>
vars == <<brokerVars, netVars, tableVars, threadVars, changes>>

Versions == 1 .. MaxVersion
Channels == Brokers \X (1 .. MaxChannels)
Requests == [type : {"register", "unregister"}, broker : Brokers, version : Versions,
             channel : Channels]

Channel(b) == <<b, connection[b]>>
Live == DOMAIN brokerLiveTable
Without(f, x) == [y \in DOMAIN f \ {x} |-> f[y]]
With(f, x, v) == [y \in DOMAIN f \cup {x} |-> IF y = x THEN v ELSE f[y]]

Idle == [pc |-> "idle", broker |-> NoBroker]
NoScan == [pc |-> "idle", broker |-> NoBroker, todo |-> {}, modified |-> FALSE]

Init ==
    /\ alive = [b \in Brokers |-> TRUE]
    /\ version = [b \in Brokers |-> 1]
    /\ connection = [b \in Brokers |-> 1]
    /\ open = { Channel(b) : b \in Brokers }
    /\ requests = {} /\ events = << >>
    /\ brokerAddrTable = {} /\ clusterAddrTable = {}
    /\ topicQueueTable = [n \in Names |-> 0]
    /\ brokerLiveTable = [b \in {} |-> 0]
    /\ housekeeper = Idle /\ scan = NoScan /\ changes = 0

-----------------------------------------------------------------------------
(* The brokers and their connections.                                      *)

Request(type, b) ==
    [type |-> type, broker |-> b, version |-> version[b], channel |-> Channel(b)]

\* The broker gives up waiting for an answer before it sends again.
MaySend(b) == Cardinality({ r \in requests : r.broker = b }) < MaxRequests

\* A failure or a change from outside.
Change == changes < MaxChanges /\ changes' = changes + 1

\* registerBrokerAll, every 30 seconds.
SendRegister(b) ==
    /\ alive[b] /\ Channel(b) \in open
    /\ Request("register", b) \notin requests /\ MaySend(b)
    /\ requests' = requests \cup {Request("register", b)}
    /\ UNCHANGED <<brokerVars, open, events, tableVars, threadVars, changes>>

\* A topic is created or changed: DataVersion.nextVersion.  The name server looks
\* at the topics of masters only.
ChangeTopics(b) ==
    /\ b \in Masters /\ alive[b] /\ version[b] < MaxVersion
    /\ version' = [version EXCEPT ![b] = @ + 1]
    /\ UNCHANGED <<alive, connection, netVars, tableVars, threadVars, changes>>

\* unregisterBrokerAll; what was sent before may still be under way.
Shutdown(b) ==
    /\ alive[b] /\ Channel(b) \in open /\ MaySend(b)
    /\ Change
    /\ alive' = [alive EXCEPT ![b] = FALSE]
    /\ requests' = requests \cup {Request("unregister", b)}
    /\ UNCHANGED <<version, connection, open, events, tableVars, threadVars>>

Crash(b) ==
    /\ alive[b] /\ Change
    /\ alive' = [alive EXCEPT ![b] = FALSE]
    /\ UNCHANGED <<version, connection, netVars, tableVars, threadVars>>

Restart(b) ==
    /\ ~alive[b] /\ connection[b] < MaxChannels
    /\ alive' = [alive EXCEPT ![b] = TRUE]
    /\ connection' = [connection EXCEPT ![b] = @ + 1]
    /\ open' = open \cup {<<b, connection[b] + 1>>}
    /\ UNCHANGED <<version, requests, events, tableVars, threadVars, changes>>

Close(ch) ==
    IF ch \in open THEN open' = open \ {ch} /\ events' = Append(events, ch)
                   ELSE UNCHANGED <<open, events>>

\* A channel breaks, ...
Break(b) ==
    /\ alive[b] /\ Channel(b) \in open /\ connection[b] < MaxChannels
    /\ Change
    /\ Close(Channel(b))
    /\ UNCHANGED <<brokerVars, requests, tableVars, threadVars>>

\* ... the broker connects again, ...
Reconnect(b) ==
    /\ alive[b] /\ Channel(b) \notin open /\ connection[b] < MaxChannels
    /\ connection' = [connection EXCEPT ![b] = @ + 1]
    /\ open' = open \cup {<<b, connection[b] + 1>>}
    /\ UNCHANGED <<alive, version, requests, events, tableVars, threadVars, changes>>

\* ... and one that is not in use any more is closed, or found idle.
CloseUnused(ch) ==
    /\ ch \in open /\ (~alive[ch[1]] \/ Channel(ch[1]) # ch)
    /\ Close(ch)
    /\ UNCHANGED <<brokerVars, requests, tableVars, threadVars, changes>>

-----------------------------------------------------------------------------
(* The request threads; each method holds the write lock.                  *)

\* A structural change of the live table while the scan is under way.
Modified(yes) == [scan EXCEPT !.modified = @ \/ (yes /\ scan.pc # "idle")]

\* Mutant of TopicsChanged: a broker that comes back is not noticed.
TopicsChangedOnly(r) ==
    r.broker \in Live /\ brokerLiveTable[r.broker].version # r.version

\* isBrokerTopicConfigChanged || registerFirst
TopicsChanged(r) ==
    \/ r.broker \notin brokerAddrTable
    \/ r.broker \notin Live
    \/ brokerLiveTable[r.broker].version # r.version

\* createAndUpdateQueueData for the topic that is modelled: its queue data of
\* this name is replaced, that of other names is left alone.
CreateAndUpdateQueueData(name, data) == [topicQueueTable EXCEPT ![name] = data]

RegisterBroker(r) ==
    LET b == r.broker
        n == Name[b]
    IN
    /\ r \in requests /\ r.type = "register"
    /\ requests' = requests \ {r}
    /\ clusterAddrTable' = clusterAddrTable \cup {n}
    /\ brokerAddrTable' = brokerAddrTable \cup {b}
    /\ topicQueueTable' = IF b \in Masters /\ TopicsChanged(r)
                          THEN CreateAndUpdateQueueData(n, r.version)
                          ELSE topicQueueTable
    /\ brokerLiveTable' = With(brokerLiveTable, b,
          [version |-> r.version, channel |-> r.channel, old |-> FALSE])
    /\ scan' = Modified(b \notin Live)
    /\ UNCHANGED <<brokerVars, open, events, housekeeper, changes>>

\* Mutant of RemoveBroker: the name stays.
RemoveBrokerAddress(b) ==
    /\ brokerLiveTable' = Without(brokerLiveTable, b)
    /\ brokerAddrTable' = brokerAddrTable \ {b}
    /\ UNCHANGED <<clusterAddrTable, topicQueueTable>>

\* A broker goes, and with the last of its name the name, and its topics.
RemoveBroker(b) ==
    LET rest == brokerAddrTable \ {b}
        last == b \in brokerAddrTable /\ \A c \in rest : Name[c] # Name[b]
    IN
    /\ brokerLiveTable' = Without(brokerLiveTable, b)
    /\ brokerAddrTable' = rest
    /\ IF last
         THEN /\ clusterAddrTable' = clusterAddrTable \ {Name[b]}
              /\ topicQueueTable' = [topicQueueTable EXCEPT ![Name[b]] = 0]
         ELSE UNCHANGED <<clusterAddrTable, topicQueueTable>>

UnregisterBroker(r) ==
    /\ r \in requests /\ r.type = "unregister"
    /\ requests' = requests \ {r}
    /\ RemoveBroker(r.broker)
    /\ scan' = Modified(r.broker \in Live)
    /\ UNCHANGED <<brokerVars, open, events, housekeeper, changes>>

-----------------------------------------------------------------------------
(* onChannelDestroy for a channel event: the broker is looked up under the *)
(* read lock and removed under the write lock.  A channel that no entry    *)
(* has stands for nothing (its remote address is no broker's address).     *)

OnChannel(ch) == { b \in Live : brokerLiveTable[b].channel = ch }

LookUp ==
    /\ housekeeper = Idle /\ events # << >>
    /\ events' = Tail(events)
    /\ housekeeper' = IF OnChannel(Head(events)) = {} THEN Idle
                      ELSE [pc |-> "remove",
                            broker |-> CHOOSE b \in OnChannel(Head(events)) : TRUE]
    /\ UNCHANGED <<brokerVars, open, requests, tableVars, scan, changes>>

\* By now the broker may have registered again, with another channel.
RemoveFound ==
    LET b == housekeeper.broker
    IN
    /\ housekeeper.pc = "remove"
    /\ housekeeper' = Idle
    /\ RemoveBroker(b)
    /\ scan' = Modified(b \in Live)
    /\ UNCHANGED <<brokerVars, netVars, changes>>

-----------------------------------------------------------------------------
(* scanNotActiveBroker                                                     *)

\* Two minutes without a registration, which a broker that runs lets pass only
\* when something is wrong.
Elapse(b) ==
    /\ b \in Live /\ ~brokerLiveTable[b].old
    /\ IF alive[b] THEN Change /\ connection[b] < MaxChannels ELSE UNCHANGED changes
    /\ brokerLiveTable' = [brokerLiveTable EXCEPT ![b].old = TRUE]
    /\ UNCHANGED <<brokerVars, netVars, brokerAddrTable, clusterAddrTable,
                   topicQueueTable, threadVars>>

ScanStart ==
    /\ scan = NoScan /\ Live # {}
    /\ scan' = [NoScan EXCEPT !.pc = "next", !.todo = Live]
    /\ UNCHANGED <<brokerVars, netVars, tableVars, housekeeper, changes>>

\* The entry is young ...
ScanYoung(b) ==
    /\ scan.pc = "next" /\ ~scan.modified /\ b \in scan.todo
    /\ ~brokerLiveTable[b].old
    /\ scan' = IF scan.todo = {b} THEN NoScan ELSE [scan EXCEPT !.todo = @ \ {b}]
    /\ UNCHANGED <<brokerVars, netVars, tableVars, housekeeper, changes>>

\* Mutant of ScanOld: only the live table is cleaned.
ScanOldOnly(b) ==
    /\ scan.pc = "next" /\ ~scan.modified /\ b \in scan.todo
    /\ brokerLiveTable[b].old
    /\ Close(brokerLiveTable[b].channel)
    /\ brokerLiveTable' = Without(brokerLiveTable, b)
    /\ scan' = IF scan.todo = {b} THEN NoScan ELSE [scan EXCEPT !.todo = @ \ {b}]
    /\ UNCHANGED <<brokerVars, requests, brokerAddrTable, clusterAddrTable,
                   topicQueueTable, housekeeper, changes>>

\* ... or old: the channel is closed, the entry removed through the iterator,
\* ...
ScanOld(b) ==
    /\ scan.pc = "next" /\ ~scan.modified /\ b \in scan.todo
    /\ brokerLiveTable[b].old
    /\ Close(brokerLiveTable[b].channel)
    /\ brokerLiveTable' = Without(brokerLiveTable, b)
    /\ scan' = [scan EXCEPT !.pc = "remove", !.broker = b, !.todo = @ \ {b}]
    /\ UNCHANGED <<brokerVars, requests, brokerAddrTable, clusterAddrTable,
                   topicQueueTable, housekeeper, changes>>

\* ... and the broker removed by onChannelDestroy, which finds it by its address.
ScanRemove ==
    LET b == scan.broker
    IN
    /\ scan.pc = "remove"
    /\ RemoveBroker(b)
    /\ scan' = IF scan.todo = {} THEN NoScan
               ELSE [scan EXCEPT !.pc = "next", !.broker = NoBroker,
                                 !.modified = @ \/ b \in Live]
    /\ UNCHANGED <<brokerVars, netVars, housekeeper, changes>>

\* The iterator finds that the table was changed and throws; nobody catches the
\* exception and the timer runs the task no more.
ScanThrows ==
    /\ scan.pc = "next" /\ scan.modified
    /\ scan' = [NoScan EXCEPT !.pc = "dead"]
    /\ UNCHANGED <<brokerVars, netVars, tableVars, housekeeper, changes>>

-----------------------------------------------------------------------------
ScanStep ==
    ScanStart \/ (\E b \in Brokers : ScanYoung(b) \/ ScanOld(b)) \/ ScanRemove \/ ScanThrows

HandleRequest(b) ==
    \E r \in requests : r.broker = b /\ (RegisterBroker(r) \/ UnregisterBroker(r))

Next ==
    \/ \E b \in Brokers :
          \/ SendRegister(b) \/ ChangeTopics(b) \/ Shutdown(b) \/ Crash(b) \/ Restart(b)
          \/ Break(b) \/ Reconnect(b) \/ Elapse(b) \/ HandleRequest(b)
    \/ \E ch \in Channels : CloseUnused(ch)
    \/ LookUp \/ RemoveFound
    \/ ScanStep

Spec == Init /\ [][Next]_vars

\* Brokers that run connect and register, threads and timers go on, requests
\* are handled, and a channel nobody uses is closed in the end.
FairSpec ==
    /\ Spec
    /\ \A b \in Brokers :
          /\ WF_vars(SendRegister(b)) /\ WF_vars(Reconnect(b))
          /\ WF_vars(~alive[b] /\ Elapse(b))
          /\ WF_vars(HandleRequest(b))
    /\ WF_vars(LookUp \/ RemoveFound)
    /\ WF_vars(\E ch \in Channels : CloseUnused(ch))
    /\ WF_vars(ScanStep)

-----------------------------------------------------------------------------
(* Properties                                                              *)

Entry(b) == [version : Versions, channel : {b} \X (1 .. MaxChannels), old : BOOLEAN]
ScanState ==
    [pc : {"idle", "next", "remove", "dead"}, broker : Brokers \cup {NoBroker},
     todo : SUBSET Brokers, modified : BOOLEAN]

TypeOK ==
    /\ alive \in [Brokers -> BOOLEAN] /\ version \in [Brokers -> Versions]
    /\ connection \in [Brokers -> 1 .. MaxChannels]
    /\ open \subseteq Channels /\ requests \subseteq Requests
    /\ events \in Seq(Channels)
    /\ brokerAddrTable \subseteq Brokers /\ clusterAddrTable \subseteq Names
    /\ topicQueueTable \in [Names -> 0 .. MaxVersion]
    /\ Live \subseteq Brokers
    /\ \A b \in Live : brokerLiveTable[b] \in Entry(b)
    /\ housekeeper \in [pc : {"idle", "remove"}, broker : Brokers \cup {NoBroker}]
    /\ scan \in ScanState
    /\ changes \in 0 .. MaxChanges

\* pickupTopicRouteData: the addresses a client is given.
Route == { b \in brokerAddrTable : topicQueueTable[Name[b]] # 0 }

Named(n) == \E b \in brokerAddrTable : Name[b] = n

\* The tables agree: the cluster has the names that have an address, topics
\* belong to such names, and an entry of the live table to an address.
TablesAgree ==
    /\ TypeOK
    /\ \A n \in Names : n \in clusterAddrTable <=> Named(n)
    /\ \A n \in Names : topicQueueTable[n] # 0 => Named(n)
    /\ Live \subseteq brokerAddrTable

\* What the routes say of a topic of a registered master is what its last
\* registration said, although most registrations leave the topics alone: the
\* version remembered in one table never vouches for topics that are gone from
\* the other.  A topic that later registrations lack is not covered: it stays.
RouteCurrent ==
    \A b \in Masters \cap Live :
       topicQueueTable[Name[b]] = brokerLiveTable[b].version

\* The inductive invariant of the proofs.  The scan reads brokerLiveTable without
\* the lock: what it still has to visit is there as long as the iterator has not
\* been invalidated, and the threads on their way to remove a broker have one.
ScanInv ==
    /\ scan.pc \in {"idle", "dead"} => scan.todo = {}
    /\ ~scan.modified => scan.todo \subseteq Live
    /\ scan.pc = "remove" => scan.broker \in Brokers
    /\ housekeeper.pc = "remove" => housekeeper.broker \in Brokers

\* A registration names a channel of the broker that sent it.
OwnChannels == \A r \in requests : r.channel \in {r.broker} \X (1 .. MaxChannels)

RouteInv == TablesAgree /\ RouteCurrent /\ ScanInv /\ OwnChannels

\* A master that stays up is in the routes with its topics in the end and stays
\* there, whatever late requests and events do.
UpIsRouted == \A b \in Masters :
    <>[]alive[b] => <>[](b \in Route /\ topicQueueTable[Name[b]] = version[b])

\* A broker that is gone leaves the routes in the end, unless it comes back or
\* the scan has died.
GoneIsRemoved == \A b \in Brokers :
    ~alive[b] ~> (alive[b] \/ b \notin Route \/ scan.pc = "dead")

\* "The channel of a broker expires after two minutes": a broker that is gone
\* leaves the routes in the end, unless it comes back.
GoneExpires == \A b \in Brokers : ~alive[b] ~> (alive[b] \/ b \notin Route)

=============================================================================
