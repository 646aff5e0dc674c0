--------------------------- MODULE RouteInfoProofs ---------------------------
(***************************************************************************)
(* Proofs about RouteInfo, for every set of brokers, every assignment of   *)
(* names with at most one master for a name, and every bound.              *)
(***************************************************************************)
EXTENDS RouteInfo, SequenceTheorems, TLAPS

(* What the helpers on the tables do.                                      *)

LEMMA WithoutDef ==
  ASSUME NEW f, NEW x
  PROVE  /\ DOMAIN Without(f, x) = DOMAIN f \ {x}
         /\ \A y \in DOMAIN f \ {x} : Without(f, x)[y] = f[y]
  BY DEF Without

\* A channel that closes keeps the types of the network.
LEMMA CloseType ==
  ASSUME TypeOK, NEW ch \in Channels, Close(ch)
  PROVE  open' \subseteq Channels /\ events' \in Seq(Channels)
  <1>1. CASE ch \in open
    <2>1. open' = open \ {ch} /\ events' = Append(events, ch)
      BY <1>1 DEF Close
    <2> QED
      BY <2>1, AppendProperties DEF TypeOK
  <1>2. CASE ch \notin open
    BY <1>2 DEF Close, TypeOK
  <1> QED
    BY <1>1, <1>2

\* A change of the table that is no structural one, or that the scan is told of,
\* keeps what is known of the scan.
LEMMA ModifiedInv ==
  ASSUME TypeOK, ScanInv, NEW yes \in BOOLEAN, scan' = Modified(yes),
         ~yes => Live \subseteq Live'
  PROVE  /\ scan' \in ScanState
         /\ scan'.pc = scan.pc /\ scan'.broker = scan.broker /\ scan'.todo = scan.todo
         /\ ~scan'.modified => scan'.todo \subseteq Live'
  <1>1. scan \in ScanState
    BY DEF TypeOK, ScanState
  <1>2. /\ scan' \in ScanState
        /\ scan'.pc = scan.pc /\ scan'.broker = scan.broker /\ scan'.todo = scan.todo
        /\ scan'.modified = (scan.modified \/ (yes /\ scan.pc # "idle"))
    BY <1>1 DEF Modified, ScanState
  <1>3. ~scan'.modified => scan'.todo \subseteq Live'
    BY <1>2 DEF ScanInv
  <1> QED
    BY <1>2, <1>3

-----------------------------------------------------------------------------
(* A broker is removed, by whichever thread: the tables go on agreeing.    *)

\* The tables as RemoveBroker leaves them.
TablesOK ==
    /\ brokerAddrTable \subseteq Brokers /\ clusterAddrTable \subseteq Names
    /\ topicQueueTable \in [Names -> 0 .. MaxVersion]
    /\ Live \subseteq Brokers
    /\ \A b \in Live : brokerLiveTable[b] \in Entry(b)
    /\ \A n \in Names : n \in clusterAddrTable <=> Named(n)
    /\ \A n \in Names : topicQueueTable[n] # 0 => Named(n)
    /\ Live \subseteq brokerAddrTable
    /\ RouteCurrent

LEMMA RouteInvTables == RouteInv => TablesOK
  BY DEF RouteInv, TablesAgree, TypeOK, TablesOK, Entry

LEMMA RemoveTables ==
  ASSUME RouteInv, NEW b \in Brokers, RemoveBroker(b)
  PROVE  TablesOK' /\ Live' = Live \ {b}
  <1> USE RouteAssumption
  <1>0. TablesOK
    BY RouteInvTables
  <1>1. /\ Live' = Live \ {b}
        /\ \A c \in Live \ {b} : brokerLiveTable'[c] = brokerLiveTable[c]
    BY WithoutDef DEF RemoveBroker, Live
  <1>2. brokerAddrTable' = brokerAddrTable \ {b}
    BY DEF RemoveBroker
  <1> DEFINE last == b \in brokerAddrTable /\ \A c \in brokerAddrTable \ {b} : Name[c] # Name[b]
  <1>3. CASE last
    <2>1. /\ clusterAddrTable' = clusterAddrTable \ {Name[b]}
          /\ topicQueueTable' = [topicQueueTable EXCEPT ![Name[b]] = 0]
      BY <1>3 DEF RemoveBroker
    <2>2. \A n \in Names : n # Name[b] => (Named(n)' <=> Named(n))
      BY <1>2 DEF Named
    <2>3. ~Named(Name[b])'
      BY <1>2, <1>3 DEF Named
    <2>4. Name[b] \in Names
      OBVIOUS
    <2>5. /\ topicQueueTable' \in [Names -> 0 .. MaxVersion]
          /\ topicQueueTable'[Name[b]] = 0
          /\ \A n \in Names : n # Name[b] => topicQueueTable'[n] = topicQueueTable[n]
      BY <1>0, <2>1, <2>4 DEF TablesOK
    <2>6. RouteCurrent'
      <3> SUFFICES ASSUME NEW m \in Masters, m \in Live'
                   PROVE  topicQueueTable'[Name[m]] = brokerLiveTable'[m].version
        BY DEF RouteCurrent
      <3>1. m \in brokerAddrTable \ {b}
        BY <1>0, <1>1 DEF TablesOK
      <3>2. Name[m] # Name[b] /\ Name[m] \in Names
        BY <1>3, <3>1
      <3> QED
        BY <1>0, <1>1, <2>5, <3>2 DEF TablesOK, RouteCurrent
    <2>7. \A n \in Names : n \in clusterAddrTable' <=> Named(n)'
      BY <1>0, <2>1, <2>2, <2>3 DEF TablesOK
    <2>8. \A n \in Names : topicQueueTable'[n] # 0 => Named(n)'
      BY <1>0, <2>5, <2>2 DEF TablesOK
    <2>9. (Live \subseteq brokerAddrTable)' /\ (Live \subseteq Brokers)'
          /\ (\A c \in Live : brokerLiveTable[c] \in Entry(c))'
      BY <1>0, <1>1, <1>2 DEF TablesOK, Entry
    <2> QED
      BY <1>0, <1>1, <1>2, <2>1, <2>5, <2>6, <2>7, <2>8, <2>9 DEF TablesOK
  <1>4. CASE ~last
    <2>1. clusterAddrTable' = clusterAddrTable /\ topicQueueTable' = topicQueueTable
      BY <1>4 DEF RemoveBroker
    <2>2. \A n \in Names : Named(n)' <=> Named(n)
      BY <1>2, <1>4 DEF Named
    <2>3. RouteCurrent'
      BY <1>0, <1>1, <2>1 DEF TablesOK, RouteCurrent
    <2>4. (Live \subseteq brokerAddrTable)' /\ (Live \subseteq Brokers)'
          /\ (\A c \in Live : brokerLiveTable[c] \in Entry(c))'
      BY <1>0, <1>1, <1>2 DEF TablesOK, Entry
    <2> QED
      BY <1>0, <1>1, <1>2, <2>1, <2>2, <2>3, <2>4 DEF TablesOK
  <1> QED
    BY <1>1, <1>3, <1>4

\* A broker registers: its topics are taken over unless they are there already.
LEMMA RegisterTables ==
  ASSUME RouteInv, NEW r \in requests, RegisterBroker(r)
  PROVE  TablesOK' /\ Live' = Live \cup {r.broker}
  <1> USE RouteAssumption
  <1> DEFINE b == r.broker
             n == Name[b]
             entry == [version |-> r.version, channel |-> r.channel, old |-> FALSE]
  <1>0. TablesOK
    BY RouteInvTables
  <1>1. b \in Brokers /\ n \in Names /\ r.version \in Versions /\ r.channel \in Channels
    BY DEF RouteInv, TablesAgree, TypeOK, Requests
  <1>2. entry \in Entry(b)
    BY <1>1 DEF Entry, RouteInv, OwnChannels
  <1>3. /\ Live' = Live \cup {b}
        /\ brokerLiveTable'[b] = entry
        /\ \A c \in Live \ {b} : brokerLiveTable'[c] = brokerLiveTable[c]
    <2>1. brokerLiveTable' = With(brokerLiveTable, b, entry)
      BY DEF RegisterBroker, CreateAndUpdateQueueData
    <2>2. /\ DOMAIN With(brokerLiveTable, b, entry) = Live \cup {b}
          /\ With(brokerLiveTable, b, entry)[b] = entry
          /\ \A c \in Live \ {b} : With(brokerLiveTable, b, entry)[c] = brokerLiveTable[c]
      <3> HIDE DEF entry, b
      <3> QED
        BY DEF With, Live
    <2>3. Live' = DOMAIN brokerLiveTable'
      BY DEF Live
    <2> QED
      BY <2>1, <2>2, <2>3
  <1>4. /\ clusterAddrTable' = clusterAddrTable \cup {n}
        /\ brokerAddrTable' = brokerAddrTable \cup {b}
    BY DEF RegisterBroker, CreateAndUpdateQueueData
  <1>5. \A k \in Names : Named(k)' <=> Named(k) \/ k = n
    BY <1>4 DEF Named
  <1>6. /\ topicQueueTable' \in [Names -> 0 .. MaxVersion]
        /\ \A k \in Names : k # n => topicQueueTable'[k] = topicQueueTable[k]
        /\ b \notin Masters => topicQueueTable' = topicQueueTable
    BY <1>0, <1>1 DEF RegisterBroker, CreateAndUpdateQueueData, TablesOK, Versions
  <1>7. b \in Masters => topicQueueTable'[n] = r.version
    <2> SUFFICES ASSUME b \in Masters
                 PROVE  topicQueueTable'[n] = r.version
      OBVIOUS
    <2>1. CASE TopicsChanged(r)
      BY <1>0, <1>1, <2>1 DEF RegisterBroker, CreateAndUpdateQueueData, TablesOK
    \* The version remembered is the one of the topics in the other table.
    <2>2. CASE ~TopicsChanged(r)
      <3>1. b \in Live /\ brokerLiveTable[b].version = r.version
        BY <2>2 DEF TopicsChanged
      <3>2. topicQueueTable[n] = brokerLiveTable[b].version
        BY <1>0, <3>1 DEF TablesOK, RouteCurrent
      <3> QED
        BY <2>2, <3>1, <3>2 DEF RegisterBroker, CreateAndUpdateQueueData
    <2> QED
      BY <2>1, <2>2
  <1>8. RouteCurrent'
    <2> SUFFICES ASSUME NEW m \in Masters, m \in Live'
                 PROVE  topicQueueTable'[Name[m]] = brokerLiveTable'[m].version
      BY DEF RouteCurrent
    <2>1. CASE m = b
      BY <1>3, <1>7, <2>1
    <2>2. CASE m # b
      <3>1. m \in Live /\ brokerLiveTable'[m] = brokerLiveTable[m]
        BY <1>3, <2>2
      <3>2. topicQueueTable[Name[m]] = brokerLiveTable[m].version
        BY <1>0, <3>1 DEF TablesOK, RouteCurrent
      <3>3. Name[m] \in Names /\ (b \in Masters => Name[m] # n)
        BY <2>2
      <3> QED
        BY <1>6, <3>1, <3>2, <3>3
    <2> QED
      BY <2>1, <2>2
  <1>9. (\A c \in Live : brokerLiveTable[c] \in Entry(c))'
    <2> SUFFICES ASSUME NEW c \in Live' PROVE brokerLiveTable'[c] \in Entry(c)
      BY DEF Entry
    <2>1. CASE c = b
      BY <1>2, <1>3, <2>1
    <2>2. CASE c # b
      BY <1>0, <1>3, <2>2 DEF TablesOK
    <2> QED
      BY <2>1, <2>2
  <1>10. (Live \subseteq brokerAddrTable)' /\ (Live \subseteq Brokers)'
    BY <1>0, <1>1, <1>3, <1>4 DEF TablesOK
  <1>11. /\ \A k \in Names : k \in clusterAddrTable' <=> Named(k)'
         /\ \A k \in Names : topicQueueTable'[k] # 0 => Named(k)'
    BY <1>0, <1>4, <1>5, <1>6 DEF TablesOK
  <1> QED
    BY <1>0, <1>1, <1>3, <1>4, <1>6, <1>8, <1>9, <1>10, <1>11 DEF TablesOK

-----------------------------------------------------------------------------
(* The invariant is inductive.                                             *)

\* What is left of RouteInv when the tables are put aside.
RestOK ==
    /\ alive \in [Brokers -> BOOLEAN] /\ version \in [Brokers -> Versions]
    /\ connection \in [Brokers -> 1 .. MaxChannels]
    /\ open \subseteq Channels /\ requests \subseteq Requests
    /\ events \in Seq(Channels)
    /\ housekeeper \in [pc : {"idle", "remove"}, broker : Brokers \cup {NoBroker}]
    /\ scan \in ScanState
    /\ changes \in 0 .. MaxChanges
    /\ ScanInv
    /\ OwnChannels

LEMMA RouteInvParts == RouteInv <=> TablesOK /\ RestOK
  BY DEF RouteInv, TablesOK, RestOK, TablesAgree, TypeOK

LEMMA InitRoute == Init => RouteInv
  <1> SUFFICES ASSUME Init PROVE RouteInv
    OBVIOUS
  <1> USE RouteAssumption DEF Init
  <1>1. Live = {}
    BY DEF Live
  <1>2. TablesOK
    BY <1>1 DEF TablesOK, RouteCurrent, Named
  <1>3. open \subseteq Channels
    BY DEF Channels, Channel
  <1>4. RestOK
    BY <1>3 DEF RestOK, ScanInv, OwnChannels, Idle, NoScan, ScanState, Versions
  <1> QED
    BY <1>2, <1>4, RouteInvParts

\* A step that leaves the tables alone.
LEMMA TablesUnchanged ==
  ASSUME TablesOK, UNCHANGED tableVars
  PROVE  TablesOK' /\ Live' = Live
  BY DEF TablesOK, tableVars, Live, RouteCurrent, Named, Entry

LEMMA RequestType ==
  ASSUME RestOK, NEW b \in Brokers, NEW t \in {"register", "unregister"}
  PROVE  /\ Request(t, b) \in Requests
         /\ Request(t, b).channel \in {b} \X (1 .. MaxChannels)
         /\ Request(t, b).broker = b
  BY DEF RestOK, Request, Requests, Channel, Channels

LEMMA NextRoute == RouteInv /\ [Next]_vars => RouteInv'
  <1> SUFFICES ASSUME RouteInv, [Next]_vars PROVE RouteInv'
    OBVIOUS
  <1> USE RouteAssumption
  <1>0. TablesOK /\ RestOK /\ TypeOK /\ ScanInv
    BY RouteInvParts DEF RouteInv, TablesAgree
  <1>p. TablesOK' /\ RestOK' => RouteInv'
    BY RouteInvParts, PTL
  <1>u. ASSUME UNCHANGED tableVars PROVE TablesOK' /\ Live' = Live
    BY <1>0, <1>u, TablesUnchanged
  <1>1. ASSUME NEW b \in Brokers, SendRegister(b) PROVE RouteInv'
    <2>1. UNCHANGED tableVars
      BY <1>1 DEF SendRegister
    <2>2. requests' = requests \cup {Request("register", b)}
      BY <1>1 DEF SendRegister
    <2>3. requests' \subseteq Requests /\ OwnChannels'
      BY <1>0, <2>2, RequestType DEF RestOK, OwnChannels
    <2>4. RestOK'
      BY <1>0, <1>1, <1>u, <2>1, <2>3
         DEF SendRegister, RestOK, ScanInv, brokerVars, threadVars
    <2> QED
      BY <1>u, <2>1, <2>4, <1>p
  <1>2. ASSUME NEW b \in Brokers, ChangeTopics(b) PROVE RouteInv'
    <2>1. UNCHANGED tableVars
      BY <1>2 DEF ChangeTopics
    <2>2. version' \in [Brokers -> Versions]
      BY <1>0, <1>2 DEF ChangeTopics, RestOK, Versions
    <2>4. RestOK'
      BY <1>0, <1>2, <1>u, <2>1, <2>2
         DEF ChangeTopics, RestOK, ScanInv, OwnChannels, netVars, threadVars
    <2> QED
      BY <1>u, <2>1, <2>4, <1>p
  <1>3. ASSUME NEW b \in Brokers, Shutdown(b) PROVE RouteInv'
    <2>1. UNCHANGED tableVars
      BY <1>3 DEF Shutdown
    <2>2. requests' = requests \cup {Request("unregister", b)}
      BY <1>3 DEF Shutdown
    <2>3. requests' \subseteq Requests /\ OwnChannels'
      BY <1>0, <2>2, RequestType DEF RestOK, OwnChannels
    <2>4. RestOK'
      BY <1>0, <1>3, <1>u, <2>1, <2>3 DEF Shutdown, Change, RestOK, ScanInv, threadVars
    <2> QED
      BY <1>u, <2>1, <2>4, <1>p
  <1>4. ASSUME NEW b \in Brokers, Crash(b) PROVE RouteInv'
    <2>1. UNCHANGED tableVars
      BY <1>4 DEF Crash
    <2>4. RestOK'
      BY <1>0, <1>4, <1>u, <2>1
         DEF Crash, Change, RestOK, ScanInv, OwnChannels, netVars, threadVars
    <2> QED
      BY <1>u, <2>1, <2>4, <1>p
  <1>5. ASSUME NEW b \in Brokers, Restart(b) \/ Reconnect(b) PROVE RouteInv'
    <2>1. UNCHANGED tableVars
      BY <1>5 DEF Restart, Reconnect
    <2>2. <<b, connection[b] + 1>> \in Channels
      BY <1>0, <1>5 DEF Restart, Reconnect, RestOK, Channels
    <2>3. /\ alive' \in [Brokers -> BOOLEAN] /\ connection' \in [Brokers -> 1 .. MaxChannels]
          /\ open' \subseteq Channels
      <3>1. connection[b] + 1 \in 1 .. MaxChannels
        BY <1>0, <1>5 DEF Restart, Reconnect, RestOK
      <3>2. CASE Restart(b)
        BY <1>0, <2>2, <3>1, <3>2 DEF Restart, RestOK
      <3>3. CASE Reconnect(b)
        BY <1>0, <2>2, <3>1, <3>3 DEF Reconnect, RestOK
      <3> QED
        BY <1>5, <3>2, <3>3
    <2>4. RestOK'
      BY <1>0, <1>5, <1>u, <2>1, <2>3
         DEF Restart, Reconnect, RestOK, ScanInv, OwnChannels, threadVars
    <2> QED
      BY <1>u, <2>1, <2>4, <1>p
  <1>6. ASSUME NEW b \in Brokers, Break(b) PROVE RouteInv'
    <2>1. UNCHANGED tableVars
      BY <1>6 DEF Break
    <2>2. Channel(b) \in Channels
      BY <1>0 DEF Channel, RestOK, Channels
    <2>3. open' \subseteq Channels /\ events' \in Seq(Channels)
      BY <1>0, <1>6, <2>2, CloseType DEF Break
    <2>4. RestOK'
      BY <1>0, <1>6, <1>u, <2>1, <2>3
         DEF Break, Change, RestOK, ScanInv, OwnChannels, brokerVars, threadVars
    <2> QED
      BY <1>u, <2>1, <2>4, <1>p
  <1>7. ASSUME NEW ch \in Channels, CloseUnused(ch) PROVE RouteInv'
    <2>1. UNCHANGED tableVars
      BY <1>7 DEF CloseUnused
    <2>3. open' \subseteq Channels /\ events' \in Seq(Channels)
      BY <1>0, <1>7, CloseType DEF CloseUnused
    <2>4. RestOK'
      BY <1>0, <1>7, <1>u, <2>1, <2>3
         DEF CloseUnused, RestOK, ScanInv, OwnChannels, brokerVars, threadVars
    <2> QED
      BY <1>u, <2>1, <2>4, <1>p
  <1>8. ASSUME NEW b \in Brokers, Elapse(b) PROVE RouteInv'
    <2>0. b \in Live /\ brokerLiveTable' = [brokerLiveTable EXCEPT ![b].old = TRUE]
      BY <1>8 DEF Elapse
    <2>1. /\ Live' = Live
          /\ \A c \in Live \ {b} : brokerLiveTable'[c] = brokerLiveTable[c]
          /\ brokerLiveTable'[b] = [brokerLiveTable[b] EXCEPT !.old = TRUE]
      BY <2>0 DEF Live
    <2>2. /\ brokerLiveTable'[b] \in Entry(b)
          /\ brokerLiveTable'[b].version = brokerLiveTable[b].version
      <3>1. ASSUME NEW e \in Entry(b)
            PROVE  [e EXCEPT !.old = TRUE] \in Entry(b)
                   /\ [e EXCEPT !.old = TRUE].version = e.version
        BY DEF Entry
      <3> QED
        BY <1>0, <2>0, <2>1, <3>1 DEF TablesOK
    <2>3. (\A c \in Live : brokerLiveTable[c] \in Entry(c))'
      BY <1>0, <2>1, <2>2 DEF TablesOK, Entry
    <2>4. RouteCurrent'
      BY <1>0, <1>8, <2>1, <2>2 DEF TablesOK, RouteCurrent, Elapse
    <2>5. TablesOK'
      BY <1>0, <1>8, <2>1, <2>3, <2>4 DEF TablesOK, Named, Elapse
    <2>6. changes' \in 0 .. MaxChanges
      BY <1>0, <1>8 DEF Elapse, Change, RestOK
    <2>7. RestOK'
      BY <1>0, <1>8, <2>1, <2>6
         DEF Elapse, RestOK, ScanInv, OwnChannels, brokerVars, netVars, threadVars
    <2> QED
      BY <2>5, <2>7, <1>p
  <1>9. ASSUME NEW r \in requests, RegisterBroker(r) PROVE RouteInv'
    <2>1. TablesOK' /\ Live' = Live \cup {r.broker}
      BY <1>9, RegisterTables
    <2>2. scan' = Modified(r.broker \notin Live)
      BY <1>9 DEF RegisterBroker, CreateAndUpdateQueueData
    <2>3. /\ scan' \in ScanState
          /\ scan'.pc = scan.pc /\ scan'.broker = scan.broker /\ scan'.todo = scan.todo
          /\ ~scan'.modified => scan'.todo \subseteq Live'
      BY <1>0, <2>1, <2>2, ModifiedInv
    <2>4. RestOK'
      BY <1>0, <1>9, <2>3 DEF RegisterBroker, CreateAndUpdateQueueData, RestOK, ScanInv,
                              OwnChannels, brokerVars
    <2> QED
      BY <2>1, <2>4, <1>p
  <1>10. ASSUME NEW r \in requests, UnregisterBroker(r) PROVE RouteInv'
    <2>0. r.broker \in Brokers
      BY <1>0 DEF RestOK, Requests
    <2>1. TablesOK' /\ Live' = Live \ {r.broker}
      BY <1>10, <2>0, RemoveTables DEF UnregisterBroker
    <2>2. scan' = Modified(r.broker \in Live)
      BY <1>10 DEF UnregisterBroker
    <2>3. /\ scan' \in ScanState
          /\ scan'.pc = scan.pc /\ scan'.broker = scan.broker /\ scan'.todo = scan.todo
          /\ ~scan'.modified => scan'.todo \subseteq Live'
      <3>1. ~(r.broker \in Live) => Live \subseteq Live'
        BY <2>1
      <3>2. (r.broker \in Live) \in BOOLEAN
        OBVIOUS
      <3> QED
        BY <1>0, <2>2, <3>1, <3>2, ModifiedInv
    <2>4. RestOK'
      BY <1>0, <1>10, <2>3 DEF UnregisterBroker, RestOK, ScanInv, OwnChannels, brokerVars
    <2> QED
      BY <2>1, <2>4, <1>p
  <1>11. CASE LookUp
    <2>1. UNCHANGED tableVars
      BY <1>11 DEF LookUp
    <2>2. events' \in Seq(Channels)
      <3>1. events \in Seq(Channels) /\ events # << >> /\ events' = Tail(events)
        BY <1>0, <1>11 DEF LookUp, RestOK
      <3> QED
        BY <3>1, HeadTailProperties
    <2>3. /\ housekeeper' \in [pc : {"idle", "remove"}, broker : Brokers \cup {NoBroker}]
          /\ housekeeper'.pc = "remove" => housekeeper'.broker \in Brokers
      <3>1. CASE OnChannel(Head(events)) = {}
        BY <1>11, <3>1 DEF LookUp, Idle
      <3>2. CASE OnChannel(Head(events)) # {}
        <4> DEFINE b == CHOOSE b \in OnChannel(Head(events)) : TRUE
        <4>1. b \in OnChannel(Head(events))
          BY <3>2
        <4>2. b \in Brokers
          BY <1>0, <4>1 DEF OnChannel, TablesOK
        <4>3. housekeeper' = [pc |-> "remove", broker |-> b]
          BY <1>11, <3>2 DEF LookUp
        <4> QED
          BY <4>2, <4>3
      <3> QED
        BY <3>1, <3>2
    <2>4. RestOK'
      BY <1>0, <1>11, <1>u, <2>1, <2>2, <2>3 DEF LookUp, RestOK, ScanInv, OwnChannels, brokerVars
    <2> QED
      BY <1>u, <2>1, <2>4, <1>p
  <1>12. CASE RemoveFound
    <2> DEFINE b == housekeeper.broker
    <2>0. b \in Brokers
      BY <1>0, <1>12 DEF RemoveFound, ScanInv
    <2>1. TablesOK' /\ Live' = Live \ {b}
      BY <1>12, <2>0, RemoveTables DEF RemoveFound
    <2>2. scan' = Modified(b \in Live)
      BY <1>12 DEF RemoveFound
    <2>3. /\ scan' \in ScanState
          /\ scan'.pc = scan.pc /\ scan'.broker = scan.broker /\ scan'.todo = scan.todo
          /\ ~scan'.modified => scan'.todo \subseteq Live'
      <3>1. ~(b \in Live) => Live \subseteq Live'
        BY <2>1
      <3>2. (b \in Live) \in BOOLEAN
        OBVIOUS
      <3> QED
        BY <1>0, <2>2, <3>1, <3>2, ModifiedInv
    <2>4. RestOK'
      BY <1>0, <1>12, <2>3
         DEF RemoveFound, RestOK, ScanInv, OwnChannels, Idle, brokerVars, netVars
    <2> QED
      BY <2>1, <2>4, <1>p
  <1>13. CASE ScanStart
    <2>1. UNCHANGED tableVars
      BY <1>13 DEF ScanStart
    <2>2. scan' \in ScanState /\ scan'.pc = "next" /\ scan'.todo = Live
      BY <1>0, <1>13 DEF ScanStart, NoScan, ScanState, TablesOK
    <2>4. RestOK'
      BY <1>0, <1>13, <1>u, <2>1, <2>2
         DEF ScanStart, RestOK, ScanInv, OwnChannels, brokerVars, netVars
    <2> QED
      BY <1>u, <2>1, <2>4, <1>p
  <1>14. ASSUME NEW b \in Brokers, ScanYoung(b) PROVE RouteInv'
    <2>1. UNCHANGED tableVars
      BY <1>14 DEF ScanYoung
    <2>2. /\ scan' \in ScanState /\ scan'.pc # "remove"
          /\ scan'.pc \in {"idle", "dead"} => scan'.todo = {}
          /\ ~scan'.modified => scan'.todo \subseteq Live
      BY <1>0, <1>14 DEF ScanYoung, NoScan, ScanState, RestOK, ScanInv
    <2>4. RestOK'
      BY <1>0, <1>14, <1>u, <2>1, <2>2
         DEF ScanYoung, RestOK, ScanInv, OwnChannels, brokerVars, netVars
    <2> QED
      BY <1>u, <2>1, <2>4, <1>p
  <1>15. ASSUME NEW b \in Brokers, ScanOld(b) PROVE RouteInv'
    <2>1. b \in Live
      BY <1>0, <1>15 DEF ScanOld, ScanInv
    <2>2. /\ Live' = Live \ {b}
          /\ \A c \in Live \ {b} : brokerLiveTable'[c] = brokerLiveTable[c]
      <3>1. brokerLiveTable' = Without(brokerLiveTable, b)
        BY <1>15 DEF ScanOld
      <3> QED
        BY <3>1, WithoutDef DEF Live
    <2>3. TablesOK'
      <3>1. RouteCurrent'
        BY <1>0, <1>15, <2>2 DEF TablesOK, RouteCurrent, ScanOld
      <3>2. (\A c \in Live : brokerLiveTable[c] \in Entry(c))'
        BY <1>0, <2>2 DEF TablesOK, Entry
      <3> QED
        BY <1>0, <1>15, <2>2, <3>1, <3>2 DEF TablesOK, Named, ScanOld
    <2>4. brokerLiveTable[b].channel \in Channels
      BY <1>0, <2>1 DEF TablesOK, Entry, Channels
    <2>5. open' \subseteq Channels /\ events' \in Seq(Channels)
      BY <1>0, <1>15, <2>4, CloseType DEF ScanOld
    <2>6. /\ scan' \in ScanState /\ scan'.pc = "remove" /\ scan'.broker = b
          /\ scan'.todo = scan.todo \ {b} /\ scan'.modified = scan.modified
      BY <1>0, <1>15 DEF ScanOld, ScanState, RestOK
    <2>7. RestOK'
      BY <1>0, <1>15, <2>2, <2>5, <2>6
         DEF ScanOld, RestOK, ScanInv, OwnChannels, brokerVars
    <2> QED
      BY <2>3, <2>7, <1>p
  <1>16. CASE ScanRemove
    <2> DEFINE b == scan.broker
    <2>0. b \in Brokers
      BY <1>0, <1>16 DEF ScanRemove, ScanInv
    <2>1. TablesOK' /\ Live' = Live \ {b}
      BY <1>16, <2>0, RemoveTables DEF ScanRemove
    <2>2. /\ scan' \in ScanState /\ scan'.pc # "remove"
          /\ scan'.pc \in {"idle", "dead"} => scan'.todo = {}
          /\ ~scan'.modified => scan'.todo \subseteq Live'
      <3>1. CASE scan.todo = {}
        BY <1>16, <3>1 DEF ScanRemove, NoScan, ScanState
      <3>2. CASE scan.todo # {}
        <4>1. scan' = [scan EXCEPT !.pc = "next", !.broker = NoBroker,
                                   !.modified = @ \/ b \in Live]
          BY <1>16, <3>2 DEF ScanRemove
        <4>2. /\ scan' \in ScanState /\ scan'.pc = "next" /\ scan'.todo = scan.todo
              /\ scan'.modified = (scan.modified \/ b \in Live)
          BY <1>0, <4>1 DEF ScanState, RestOK
        <4> QED
          BY <1>0, <2>1, <4>2 DEF ScanInv
      <3> QED
        BY <3>1, <3>2
    <2>4. RestOK'
      BY <1>0, <1>16, <2>2
         DEF ScanRemove, RestOK, ScanInv, OwnChannels, brokerVars, netVars
    <2> QED
      BY <2>1, <2>4, <1>p
  <1>17. CASE ScanThrows
    <2>1. UNCHANGED tableVars
      BY <1>17 DEF ScanThrows
    <2>2. scan' \in ScanState /\ scan'.pc = "dead" /\ scan'.todo = {}
      BY <1>17 DEF ScanThrows, NoScan, ScanState
    <2>4. RestOK'
      BY <1>0, <1>17, <1>u, <2>1, <2>2
         DEF ScanThrows, RestOK, ScanInv, OwnChannels, brokerVars, netVars
    <2> QED
      BY <1>u, <2>1, <2>4, <1>p
  <1>18. CASE UNCHANGED vars
    <2>1. UNCHANGED tableVars
      BY <1>18 DEF vars
    <2>4. RestOK'
      BY <1>0, <1>18, <1>u, <2>1
         DEF vars, RestOK, ScanInv, OwnChannels, brokerVars, netVars, threadVars
    <2> QED
      BY <1>u, <2>1, <2>4, <1>p
  <1> QED
    BY <1>1, <1>2, <1>3, <1>4, <1>5, <1>6, <1>7, <1>8, <1>9, <1>10, <1>11, <1>12, <1>13,
       <1>14, <1>15, <1>16, <1>17, <1>18
       DEF Next, ScanStep, HandleRequest

\* The invariant of the name server's tables and of the threads that work on
\* them holds for any number of brokers, names, requests and failures.
THEOREM RoutesInductive == Spec => []RouteInv
<1>1. QED
  BY InitRoute, NextRoute, PTL DEF Spec

\* The four tables of RouteInfoManager agree whenever no write lock is held,
\* although the threads that remove a broker decide in one critical section
\* and act in the next.
THEOREM Tables == Spec => []TablesAgree
<1>1. RouteInv => TablesAgree
  BY DEF RouteInv
<1>2. QED
  BY <1>1, RoutesInductive, PTL

\* The topics of a registered master are those of its last registration.
THEOREM Routes == Spec => []RouteCurrent
<1>1. RouteInv => RouteCurrent
  BY DEF RouteInv
<1>2. QED
  BY <1>1, RoutesInductive, PTL

=============================================================================
