------------------------- MODULE PeerManager_proofs -------------------------
(***************************************************************************)
(* Theorems about PeerManager, for any number of hosts and connections.    *)
(*                                                                         *)
(* The channel of notices is seen through Said only: which notices are in  *)
(* it, and that a connection is announced at most once.                    *)
(***************************************************************************)
EXTENDS PeerManager, FiniteSetTheorems, TLAPS

Types == {"Connected", "InternalErr"}

\* A notice of this type about connection c is in the channel.
Said(type, c) ==
    \E i \in DOMAIN infoCh : infoCh[i].type = type /\ infoCh[i].conn = c

\* The channel announces c at most once.
SaidOnce(c) ==
    \A i, j \in DOMAIN infoCh :
        /\ infoCh[i].type = "Connected" /\ infoCh[i].conn = c
        /\ infoCh[j].type = "Connected" /\ infoCh[j].conn = c
        => i = j

-----------------------------------------------------------------------------
(* The channel.                                                             *)

\* The step leaves the notices as they are.
SameNotices ==
    \A type \in Types, c \in Conns :
        (Said(type, c)' <=> Said(type, c)) /\ (SaidOnce(c) => SaidOnce(c)')

\* The step sends one notice.
SaysToo(t, d) ==
    \A type \in Types, c \in Conns :
        /\ Said(type, c)' <=> (Said(type, c) \/ (type = t /\ c = d))
        /\ SaidOnce(c) /\ ~(t = "Connected" /\ c = d /\ Said(t, d)) => SaidOnce(c)'

\* The step takes one notice.
Takes(t, d) ==
    /\ Said(t, d)
    /\ \A type \in Types, c \in Conns :
          /\ Said(type, c)' => Said(type, c)
          /\ Said(type, c) => Said(type, c)' \/ (type = t /\ c = d)
          /\ SaidOnce(c) => SaidOnce(c)'
    /\ t = "Connected" /\ SaidOnce(d) => ~Said(t, d)'

\* A step that leaves the channel alone leaves the notices alone.
LEMMA ChannelUnchanged ==
    ASSUME UNCHANGED infoCh
    PROVE  SameNotices
  BY DEF SameNotices, Said, SaidOnce

\* What a send adds to the channel.
LEMMA ChannelAppend ==
    ASSUME TypeOK, NEW t \in Types, NEW d \in Conns,
           infoCh' = Append(infoCh, Notice(t, d))
    PROVE  SaysToo(t, d)
<1> DEFINE n == Len(infoCh)
<1>1. /\ n \in Nat /\ DOMAIN infoCh = 1..n
      /\ DOMAIN infoCh' = 1..(n+1)
      /\ \A i \in 1..n : infoCh'[i] = infoCh[i]
      /\ infoCh'[n+1] = Notice(t, d)
  BY DEF TypeOK
<1>2. Notice(t, d).type = t /\ Notice(t, d).conn = d
  BY DEF Notice
<1> HIDE DEF n
<1> SUFFICES ASSUME NEW type \in Types, NEW c \in Conns
             PROVE  /\ Said(type, c)' <=> (Said(type, c) \/ (type = t /\ c = d))
                    /\ SaidOnce(c) /\ ~(t = "Connected" /\ c = d /\ Said(t, d))
                          => SaidOnce(c)'
  BY DEF SaysToo
<1>3. Said(type, c)' <=> (Said(type, c) \/ (type = t /\ c = d))
  <2>1. CASE Said(type, c)'
    <3>1. PICK i \in 1..(n+1) : infoCh'[i].type = type /\ infoCh'[i].conn = c
      BY <1>1, <2>1 DEF Said
    <3>2. CASE i = n+1
      BY <1>1, <1>2, <3>1, <3>2, <2>1
    <3>3. CASE i \in 1..n
      BY <1>1, <3>1, <3>3, <2>1 DEF Said
    <3> QED BY <1>1, <3>2, <3>3
  <2>2. CASE Said(type, c)
    <3>1. PICK i \in 1..n : infoCh[i].type = type /\ infoCh[i].conn = c
      BY <1>1, <2>2 DEF Said
    <3>2. i \in DOMAIN infoCh' /\ infoCh'[i] = infoCh[i]
      BY <1>1
    <3> QED BY <2>2, <3>1, <3>2 DEF Said
  <2>3. CASE type = t /\ c = d
    <3>1. n+1 \in DOMAIN infoCh'
      BY <1>1
    <3> QED BY <1>1, <1>2, <2>3, <3>1 DEF Said
  <2> QED BY <2>1, <2>2, <2>3
<1>4. ASSUME SaidOnce(c), ~(t = "Connected" /\ c = d /\ Said(t, d))
      PROVE  SaidOnce(c)'
  <2> SUFFICES ASSUME NEW i \in 1..(n+1), NEW j \in 1..(n+1),
                      infoCh'[i].type = "Connected", infoCh'[i].conn = c,
                      infoCh'[j].type = "Connected", infoCh'[j].conn = c
               PROVE  i = j
    BY <1>1 DEF SaidOnce
  <2>1. CASE i \in 1..n /\ j \in 1..n
    BY <1>1, <1>4, <2>1 DEF SaidOnce
  <2>2. CASE i = n+1 /\ j \in 1..n
    BY <1>1, <1>2, <1>4, <2>2 DEF Said
  <2>3. CASE j = n+1 /\ i \in 1..n
    BY <1>1, <1>2, <1>4, <2>3 DEF Said
  <2> QED BY <1>1, <2>1, <2>2, <2>3
<1> QED BY <1>3, <1>4

\* What a receive takes from the channel.
LEMMA ChannelTail ==
    ASSUME TypeOK, NEW t, NEW d,
           infoCh # <<>>, t = Head(infoCh).type, d = Head(infoCh).conn,
           infoCh' = Tail(infoCh)
    PROVE  t \in Types /\ d \in Conns /\ Takes(t, d)
<1> DEFINE n == Len(infoCh)
<1>1. /\ n \in Nat \ {0} /\ DOMAIN infoCh = 1..n
      /\ DOMAIN infoCh' = 1..(n-1)
      /\ \A i \in 1..(n-1) : infoCh'[i] = infoCh[i+1]
      /\ infoCh[1].type = t /\ infoCh[1].conn = d
  BY DEF TypeOK
<1>2. t \in Types /\ d \in Conns
  <2> DEFINE N == [type : Types, conn : Conns]
  <2>1. infoCh \in Seq(N)
    BY DEF TypeOK, Types
  <2>2. infoCh[1] \in N
    <3> HIDE DEF N
    <3> QED BY <1>1, <2>1
  <2> QED BY <1>1, <2>2
<1> HIDE DEF n
<1>3. ASSUME NEW type \in Types, NEW c \in Conns
      PROVE  /\ Said(type, c)' => Said(type, c)
             /\ Said(type, c) => Said(type, c)' \/ (type = t /\ c = d)
             /\ SaidOnce(c) => SaidOnce(c)'
  <2>1. ASSUME Said(type, c)' PROVE Said(type, c)
    <3>1. PICK i \in 1..(n-1) : infoCh'[i].type = type /\ infoCh'[i].conn = c
      BY <1>1, <2>1 DEF Said
    <3>2. i+1 \in DOMAIN infoCh /\ infoCh'[i] = infoCh[i+1]
      BY <1>1
    <3> QED BY <3>1, <3>2 DEF Said
  <2>2. ASSUME Said(type, c), ~(type = t /\ c = d) PROVE Said(type, c)'
    <3>1. PICK i \in 1..n : infoCh[i].type = type /\ infoCh[i].conn = c
      BY <1>1, <2>2 DEF Said
    <3>2. i # 1
      BY <1>1, <2>2, <3>1
    <3>3. i-1 \in DOMAIN infoCh' /\ infoCh'[i-1] = infoCh[i]
      BY <1>1, <3>2
    <3> QED BY <3>1, <3>3 DEF Said
  <2>3. ASSUME SaidOnce(c) PROVE SaidOnce(c)'
    <3> SUFFICES ASSUME NEW i \in 1..(n-1), NEW j \in 1..(n-1),
                        infoCh'[i].type = "Connected", infoCh'[i].conn = c,
                        infoCh'[j].type = "Connected", infoCh'[j].conn = c
                 PROVE  i = j
      BY <1>1 DEF SaidOnce
    <3>1. i+1 \in DOMAIN infoCh /\ j+1 \in DOMAIN infoCh
      BY <1>1
    <3>2. i+1 = j+1
      BY <1>1, <2>3, <3>1 DEF SaidOnce
    <3> QED BY <1>1, <3>2
  <2> QED BY <2>1, <2>2, <2>3
<1>4. ASSUME t = "Connected", SaidOnce(d) PROVE ~Said(t, d)'
  <2> SUFFICES ASSUME NEW i \in 1..(n-1), infoCh'[i].type = t, infoCh'[i].conn = d
               PROVE  FALSE
    BY <1>1 DEF Said
  <2>1. i+1 \in DOMAIN infoCh /\ 1 \in DOMAIN infoCh /\ infoCh[i+1] = infoCh'[i]
    BY <1>1
  <2>2. i+1 = 1
    BY <1>1, <1>4, <2>1 DEF SaidOnce
  <2> QED BY <1>1, <2>2
<1>5. Said(t, d)
  BY <1>1 DEF Said
<1> QED BY <1>2, <1>3, <1>4, <1>5 DEF Takes

-----------------------------------------------------------------------------
(* Types.                                                                   *)

Conn == [pc : Steps, failed : BOOLEAN, closed : BOOLEAN]

\* Sending and receiving keep the type of the channel.
LEMMA ChannelType ==
    ASSUME TypeOK
    PROVE  /\ \A t \in Types, d \in Conns :
                 Len(infoCh) < InfoCap =>
                    /\ Append(infoCh, Notice(t, d)) \in Seq([type : Types, conn : Conns])
                    /\ Len(Append(infoCh, Notice(t, d))) <= InfoCap
           /\ infoCh # <<>> =>
                    /\ Tail(infoCh) \in Seq([type : Types, conn : Conns])
                    /\ Len(Tail(infoCh)) <= InfoCap
<1> DEFINE N == [type : Types, conn : Conns]
<1>1. infoCh \in Seq(N) /\ Len(infoCh) <= InfoCap /\ InfoCap \in Nat
  BY PeerManagerAssumption DEF TypeOK, Types
<1>2. \A t \in Types, d \in Conns : Notice(t, d) \in N
  BY DEF Notice
<1> HIDE DEF N
<1>3. \A t \in Types, d \in Conns :
        Len(infoCh) < InfoCap =>
            /\ Append(infoCh, Notice(t, d)) \in Seq(N)
            /\ Len(Append(infoCh, Notice(t, d))) <= InfoCap
  BY <1>1, <1>2
<1>4. infoCh # <<>> => Tail(infoCh) \in Seq(N) /\ Len(Tail(infoCh)) <= InfoCap
  BY <1>1
<1> QED BY <1>3, <1>4 DEF N

\* Disconnect keeps the types.
LEMMA DisconnectType ==
    ASSUME TypeOK, NEW c \in Conns, Disconnect(c)
    PROVE  /\ active' \in [Hosts -> Conns \cup {Nothing}]
           /\ conn' \in [Conns -> Conn]
           /\ evicted' \subseteq Conns /\ early' \subseteq Conns
<1>1. HostOf[c] \in Hosts /\ Holder(c) \in Conns \cup {Nothing}
  BY PeerManagerAssumption DEF TypeOK, Holder
<1>2. active' \in [Hosts -> Conns \cup {Nothing}]
  BY <1>1 DEF TypeOK, Disconnect
<1>3. conn' \in [Conns -> Conn]
  BY DEF TypeOK, Disconnect, Conn
<1>4. evicted' \subseteq Conns /\ early' \subseteq Conns
  BY <1>1 DEF TypeOK, Disconnect
<1> QED BY <1>2, <1>3, <1>4

\* End keeps the type of the connections.
LEMMA EndType ==
    ASSUME TypeOK, NEW c \in Conns, End(c)
    PROVE  conn' \in [Conns -> Conn]
  BY DEF TypeOK, End, Conn, Steps

\* Every step keeps the types.
LEMMA TypeStep ==
    ASSUME TypeOK, [Next]_vars
    PROVE  TypeOK'
<1> USE PeerManagerAssumption
<1>1. ASSUME NEW c \in Outgoing, SpawnOutgoing(c) \/ Connect(c)
      PROVE  TypeOK'
  <2>1. c \in Conns /\ HostOf[c] \in Hosts
    BY DEF Conns
  <2>2. New(c) /\ spawned' = spawned \cup {HostOf[c]} /\ UNCHANGED <<active, infoCh, net>>
    BY <1>1 DEF SpawnOutgoing, Connect
  <2> QED BY <2>1, <2>2 DEF TypeOK, New, Steps, history
<1>2. ASSUME NEW c \in Incoming, Accept(c)
      PROVE  TypeOK'
  <2>1. c \in Conns
    BY DEF Conns
  <2> QED BY <1>2, <2>1 DEF TypeOK, Accept, New, Steps, history
<1>3. ASSUME NEW c \in Conns, Goroutine(c)
      PROVE  TypeOK'
  <2>1. CASE Established(c)
    BY <2>1, ChannelType DEF TypeOK, Established, Steps, Types, history
  <2>2. CASE NotEstablished(c)
    BY <2>2, EndType DEF TypeOK, NotEstablished, End, Conn, history
  <2>3. CASE Fail(c)
    BY <2>3 DEF TypeOK, Fail, Steps, history
  <2>4. CASE ReportError(c)
    BY <2>4, ChannelType DEF TypeOK, ReportError, Steps, Types, history
  <2>5. CASE HandleEnds(c)
    BY <2>5, EndType DEF TypeOK, HandleEnds, End, Conn, history
  <2>6. CASE RemoveSpawned(c)
    BY <2>6 DEF TypeOK, RemoveSpawned, Steps, history
  <2> QED BY <1>3, <2>1, <2>2, <2>3, <2>4, <2>5, <2>6 DEF Goroutine
<1>4. CASE HandleConnected
  <2>1. Head(infoCh).conn \in Conns
    BY <1>4, ChannelTail DEF HandleConnected
  <2>2. /\ infoCh' \in Seq([type : Types, conn : Conns]) /\ Len(infoCh') <= InfoCap
        /\ UNCHANGED <<spawned, early>>
    BY <1>4, ChannelType DEF HandleConnected
  <2>3. CASE Refuse(Head(infoCh).conn) /\ UNCHANGED net
    <3> DEFINE c == Head(infoCh).conn
    <3>1. /\ conn' = [conn EXCEPT ![c].closed = TRUE] /\ evicted' = evicted \ {c}
          /\ UNCHANGED <<active, net>>
      BY <2>3 DEF Refuse, Close
    <3> HIDE DEF c
    <3> QED BY <2>2, <3>1 DEF TypeOK, Types
  <2>4. CASE /\ net' = [pc |-> "count", conn |-> Head(infoCh).conn]
             /\ UNCHANGED <<conn, active, evicted>>
    BY <2>1, <2>2, <2>4 DEF TypeOK, Types
  <2> QED BY <1>4, <2>3, <2>4 DEF HandleConnected
<1>5. CASE CountDirections
  <2>1. net \in [pc : {"count"}, conn : Conns]
    BY <1>5 DEF TypeOK, CountDirections, Waiting
  <2>2. net' \in [pc : {"count", "add"}, conn : Conns] \cup {Waiting}
    BY <1>5, <2>1 DEF CountDirections
  <2>3. conn' \in [Conns -> Conn] /\ evicted' \subseteq Conns
    <3> DEFINE d == net.conn
    <3>1. \/ UNCHANGED <<conn, evicted>>
          \/ conn' = [conn EXCEPT ![d].closed = TRUE] /\ evicted' = evicted \ {d}
      BY <1>5 DEF CountDirections, Close
    <3>2. conn \in [Conns -> Conn] /\ evicted \subseteq Conns /\ d \in Conns
      BY <2>1 DEF TypeOK, Conn
    <3> HIDE DEF d
    <3>3. [conn EXCEPT ![d].closed = TRUE] \in [Conns -> Conn]
      BY <3>2 DEF Conn
    <3> QED BY <3>1, <3>2, <3>3
  <2> QED BY <1>5, <2>2, <2>3 DEF TypeOK, CountDirections, Conn
<1>6. CASE AddConnected
  <2>1. net.conn \in Conns /\ HostOf[net.conn] \in Hosts
    BY <1>6 DEF TypeOK, AddConnected, Waiting
  <2> QED BY <1>6, <2>1 DEF TypeOK, AddConnected, Steps
<1>7. CASE HandleInternalErr
  <2>1. Head(infoCh).conn \in Conns
    BY <1>7, ChannelTail DEF HandleInternalErr
  <2> QED BY <1>7, <2>1, ChannelType, DisconnectType
          DEF TypeOK, HandleInternalErr, Types, Conn
<1>8. ASSUME NEW c \in Conns, RestrictPeer(c)
      PROVE  TypeOK'
  BY <1>8, DisconnectType DEF TypeOK, RestrictPeer, Conn
<1>9. CASE UNCHANGED vars
  BY <1>9 DEF TypeOK, vars, history
<1> QED BY <1>1, <1>2, <1>3, <1>4, <1>5, <1>6, <1>7, <1>8, <1>9
        DEF Next, NetworkGoroutine

\* All variables keep their types and the channel of notices its capacity.
THEOREM TypeCorrect == Spec => []TypeOK
<1>1. Init => TypeOK
  BY PeerManagerAssumption
     DEF Init, TypeOK, NoConn, Waiting, Steps
<1>2. TypeOK /\ [Next]_vars => TypeOK'
  BY TypeStep
<1> QED BY <1>1, <1>2, PTL DEF Spec

-----------------------------------------------------------------------------
(* Addresses that are being dialled.                                        *)

\* Goroutines only advance: no connection becomes free.
Busy == \A c \in Outgoing : conn[c].pc # "free" => conn'[c].pc # "free"

\* Only its own goroutine frees an outgoing connection.
LEMMA BusyUnlessRemoved ==
    ASSUME TypeOK, Next, \A c \in Conns : ~RemoveSpawned(c)
    PROVE  Busy
<1> USE PeerManagerAssumption DEF Conns
<1>1. ASSUME NEW c \in Outgoing, SpawnOutgoing(c) \/ Connect(c) PROVE Busy
  BY <1>1 DEF TypeOK, Busy, SpawnOutgoing, Connect, New
<1>2. ASSUME NEW c \in Incoming, Accept(c) PROVE Busy
  BY <1>2 DEF TypeOK, Busy, Accept, New
<1>3. ASSUME NEW c \in Conns, Goroutine(c) PROVE Busy
  BY <1>3 DEF TypeOK, Busy, Goroutine, Established, NotEstablished, Fail, ReportError,
              HandleEnds, End
<1>4. CASE HandleConnected
  BY <1>4 DEF TypeOK, Busy, HandleConnected, Refuse, Close
<1>5. CASE CountDirections
  BY <1>5 DEF TypeOK, Busy, CountDirections, Close
<1>6. CASE AddConnected
  BY <1>6 DEF Busy, AddConnected
<1>7. CASE HandleInternalErr
  BY <1>7 DEF TypeOK, Busy, HandleInternalErr, Disconnect
<1>8. ASSUME NEW c \in Conns, RestrictPeer(c) PROVE Busy
  BY <1>8 DEF TypeOK, Busy, RestrictPeer, Disconnect
<1> QED BY <1>1, <1>2, <1>3, <1>4, <1>5, <1>6, <1>7, <1>8 DEF Next, NetworkGoroutine

\* Every address in spawned has a goroutine that will remove it, whichever goroutine
\* or registration removes entries of the same address before.
THEOREM EverySpawnedHasOwner == Spec => []SpawnedHasOwner
<1>1. Init => SpawnedHasOwner
  BY DEF Init, SpawnedHasOwner
<1>2. ASSUME TypeOK, SpawnedHasOwner, [Next]_vars
      PROVE  SpawnedHasOwner'
  <2> USE PeerManagerAssumption
  <2>1. CASE UNCHANGED vars
    BY <1>2, <2>1 DEF SpawnedHasOwner, vars
  <2>2. ASSUME NEW c \in Conns, RemoveSpawned(c)
        PROVE  SpawnedHasOwner'
    BY <1>2, <2>2 DEF TypeOK, SpawnedHasOwner, RemoveSpawned, Conns
  <2>3. ASSUME NEW c \in Outgoing, SpawnOutgoing(c) \/ Connect(c), Busy
        PROVE  SpawnedHasOwner'
    <3>1. spawned' = spawned \cup {HostOf[c]} /\ conn'[c].pc # "free"
      BY <1>2, <2>3 DEF TypeOK, SpawnOutgoing, Connect, New, Conns
    <3> QED BY <1>2, <2>3, <3>1 DEF SpawnedHasOwner, Busy
  <2>4. ASSUME Next, \A c \in Outgoing : ~(SpawnOutgoing(c) \/ Connect(c))
        PROVE  spawned' \subseteq spawned
    BY <2>4 DEF Next, Accept, Goroutine, Established, NotEstablished, Fail, ReportError,
                HandleEnds, End, RemoveSpawned, NetworkGoroutine, HandleConnected,
                CountDirections, AddConnected, HandleInternalErr, RestrictPeer
  <2>5. ASSUME spawned' \subseteq spawned, Busy
        PROVE  SpawnedHasOwner'
    BY <1>2, <2>5 DEF SpawnedHasOwner, Busy
  <2> QED BY <1>2, <2>1, <2>2, <2>3, <2>4, <2>5, BusyUnlessRemoved
<1> QED BY <1>1, <1>2, TypeCorrect, PTL DEF Spec

-----------------------------------------------------------------------------
(* Registered and open connections.                                         *)

\* A connection is announced at most once, and only after it was dialled: before
\* that, and once it is registered, no announcement of it is on its way.
Announced(c) == net.conn = c \/ Said("Connected", c)

AnnouncedOnce ==
    \A c \in Conns :
        /\ SaidOnce(c)
        /\ net.conn = c => ~Said("Connected", c)
        /\ conn[c].pc = "dialing" => ~Announced(c)
        /\ active[HostOf[c]] = c => ~Announced(c) /\ conn[c].pc # "dialing"

\* What is registered for a host is a connection of it.
Hosted == \A h \in Hosts : active[h] # Nothing => HostOf[active[h]] = h

\* While NewConnection looks at a connection, nobody registers its host.
Vacant == net # Waiting => active[HostOf[net.conn]] = Nothing

\* Where the goroutine of an open connection is, and that the manager will hear of
\* an error that Handle has reported.
OpenSteps ==
    \A c \in Conns : ~conn[c].closed =>
        /\ conn[c].pc \in {"dialing", "handling", "reported"}
        /\ conn[c].pc = "reported" => Said("InternalErr", c)

\* The registered connections are open, but for the early ones.
HoldersAreOpen ==
    \A c \in Conns : active[HostOf[c]] = c /\ c \notin early => ~conn[c].closed

\* The open connections that the manager has been told of are registered, but for the
\* evicted ones.
OpenAreHolders ==
    \A c \in Conns :
        /\ conn[c].pc \in {"handling", "reported"} /\ ~conn[c].closed
        /\ ~Announced(c) /\ c \notin evicted
        => active[HostOf[c]] = c

\* The inductive invariant.
Registry ==
    AnnouncedOnce /\ Hosted /\ Vacant /\ OpenSteps /\ HoldersAreOpen /\ OpenAreHolders

\* The facts about constants and types that every step uses.
LEMMA Typed ==
    ASSUME TypeOK
    PROVE  /\ \A c \in Conns : HostOf[c] \in Hosts /\ c # Nothing
           /\ conn \in [Conns -> Conn]
           /\ active \in [Hosts -> Conns \cup {Nothing}]
           /\ net # Waiting => net.conn \in Conns /\ net.pc \in {"count", "add"}
           /\ net = Waiting => net.conn = Nothing /\ net.pc = "recv"
  BY PeerManagerAssumption DEF TypeOK, Conn, Waiting

\* Steps of the goroutine of connection c that leave notices, registration and the
\* network goroutine alone.
LEMMA GoroutineStep ==
    ASSUME TypeOK, Registry, NEW c \in Conns,
           NotEstablished(c) \/ Fail(c) \/ HandleEnds(c) \/ RemoveSpawned(c)
    PROVE  Registry'
<1>1. SameNotices /\ UNCHANGED <<active, net, evicted, early>>
  BY ChannelUnchanged DEF NotEstablished, Fail, HandleEnds, End, RemoveSpawned, history
<1>2. /\ conn' \in [Conns -> Conn]
      /\ \A x \in Conns : x # c => conn'[x] = conn[x]
      /\ \/ conn[c].closed /\ conn'[c].closed /\ conn'[c].pc # "dialing"
         \/ conn[c].pc = "dialing" /\ conn'[c].closed /\ conn'[c].pc # "dialing"
         \/ conn'[c].closed = conn[c].closed /\ conn'[c].pc = conn[c].pc
  <2>1. CASE NotEstablished(c)
    BY <2>1, EndType, Typed DEF NotEstablished, End
  <2>2. CASE Fail(c)
    BY <2>2, Typed DEF Fail, Conn
  <2>3. CASE HandleEnds(c)
    BY <2>3, EndType, Typed DEF HandleEnds, End
  <2>4. CASE RemoveSpawned(c)
    BY <2>4, Typed DEF RemoveSpawned, Conn, Steps, Registry, OpenSteps
  <2> QED BY <2>1, <2>2, <2>3, <2>4
<1>3. AnnouncedOnce'
  BY <1>1, <1>2, Typed DEF Registry, AnnouncedOnce, Announced, SameNotices, Types
<1>4. Hosted' /\ Vacant'
  BY <1>1 DEF Registry, Hosted, Vacant
<1>5. OpenSteps'
  BY <1>1, <1>2 DEF Registry, OpenSteps, SameNotices, Types
<1>6. HoldersAreOpen'
  BY <1>1, <1>2 DEF Registry, HoldersAreOpen, AnnouncedOnce
<1>7. OpenAreHolders'
  BY <1>1, <1>2 DEF Registry, OpenAreHolders, Announced, SameNotices, Types
<1> QED BY <1>3, <1>4, <1>5, <1>6, <1>7 DEF Registry

\* A new connection is unknown to everybody.
LEMMA NewStep ==
    ASSUME TypeOK, Registry, NEW c \in Conns, New(c), UNCHANGED <<active, infoCh, net>>
    PROVE  Registry'
<1>1. SameNotices /\ UNCHANGED <<active, net, evicted, early>>
  BY ChannelUnchanged DEF New, history
<1>2. ~Announced(c) /\ active[HostOf[c]] # c
  BY Typed DEF New, Unused, Notices, Announced, Said
<1>3. /\ \A x \in Conns : x # c => conn'[x] = conn[x]
      /\ conn'[c].pc = "dialing" /\ ~conn'[c].closed
  BY Typed DEF New
<1>4. AnnouncedOnce'
  BY <1>1, <1>2, <1>3 DEF Registry, AnnouncedOnce, Announced, SameNotices, Types
<1>5. Hosted' /\ Vacant'
  BY <1>1 DEF Registry, Hosted, Vacant
<1>6. OpenSteps'
  BY <1>1, <1>3 DEF Registry, OpenSteps, SameNotices, Types
<1>7. HoldersAreOpen'
  BY <1>1, <1>3 DEF Registry, HoldersAreOpen
<1>8. OpenAreHolders'
  BY <1>1, <1>3 DEF Registry, OpenAreHolders, Announced, SameNotices, Types
<1> QED BY <1>4, <1>5, <1>6, <1>7, <1>8 DEF Registry

\* Handle announces the connection, or reports its error.
LEMMA SayStep ==
    ASSUME TypeOK, Registry, NEW c \in Conns, Established(c) \/ ReportError(c)
    PROVE  Registry'
<1>1. UNCHANGED <<active, net, evicted, early>>
  BY DEF Established, ReportError, history
<1>2. /\ \A x \in Conns : x # c => conn'[x] = conn[x]
      /\ conn'[c].closed = conn[c].closed
      /\ \/ /\ SaysToo("Connected", c)
            /\ conn[c].pc = "dialing" /\ conn'[c].pc = "handling"
         \/ /\ SaysToo("InternalErr", c)
            /\ conn[c].pc = "handling" /\ conn'[c].pc = "reported"
  BY Typed, ChannelAppend DEF Established, ReportError, Types, Conn
<1>3. AnnouncedOnce'
  BY <1>1, <1>2 DEF Registry, AnnouncedOnce, Announced, SaysToo, Types
<1>4. Hosted' /\ Vacant'
  BY <1>1 DEF Registry, Hosted, Vacant
<1>5. OpenSteps'
  BY <1>1, <1>2 DEF Registry, OpenSteps, SaysToo, Types
<1>6. HoldersAreOpen'
  BY <1>1, <1>2 DEF Registry, HoldersAreOpen
<1>7. OpenAreHolders'
  BY <1>1, <1>2 DEF Registry, OpenAreHolders, AnnouncedOnce, Announced, SaysToo, Types
<1> QED BY <1>3, <1>4, <1>5, <1>6, <1>7 DEF Registry

\* NewConnection refuses the connection or goes on with it.
LEMMA HandleConnectedStep ==
    ASSUME TypeOK, Registry, HandleConnected
    PROVE  Registry'
<1>1. PICK c \in Conns : c = Head(infoCh).conn /\ Takes("Connected", c)
  <2>1. \E t, d : t = Head(infoCh).type /\ d = Head(infoCh).conn
    OBVIOUS
  <2>2. PICK t, d : t = Head(infoCh).type /\ d = Head(infoCh).conn
    BY <2>1
  <2>3. t \in Types /\ d \in Conns /\ Takes(t, d)
    BY <2>2, ChannelTail DEF HandleConnected
  <2> QED BY <2>2, <2>3 DEF HandleConnected
<1>2. UNCHANGED <<active, early>> /\ net = Waiting /\ net.conn = Nothing
  BY DEF HandleConnected, Refuse, Waiting
<1>3. CASE Refuse(c) /\ UNCHANGED net
  <2>1. /\ \A x \in Conns : x # c => conn'[x] = conn[x]
        /\ conn'[c].closed /\ conn'[c].pc = conn[c].pc
        /\ evicted' = evicted \ {c}
    BY <1>3, Typed DEF Refuse, Close, Conn
  <2>2. AnnouncedOnce'
    BY <1>1, <1>2, <1>3, <2>1 DEF Registry, AnnouncedOnce, Announced, Takes, Types
  <2>3. Hosted' /\ Vacant'
    BY <1>2, <1>3 DEF Registry, Hosted, Vacant
  <2>4. OpenSteps'
    BY <1>1, <2>1 DEF Registry, OpenSteps, Takes, Types
  <2>5. HoldersAreOpen'
    BY <1>1, <1>2, <2>1 DEF Registry, HoldersAreOpen, AnnouncedOnce, Announced, Takes
  <2>6. OpenAreHolders'
    BY <1>1, <1>2, <1>3, <2>1 DEF Registry, OpenAreHolders, Announced, Takes, Types
  <2> QED BY <2>2, <2>3, <2>4, <2>5, <2>6 DEF Registry
<1>4. CASE /\ active[HostOf[c]] = Nothing
           /\ net' = [pc |-> "count", conn |-> c]
           /\ UNCHANGED <<conn, active, evicted>>
  <2>1. net'.conn = c
    BY <1>4
  <2>2. AnnouncedOnce'
    <3>1. ~Said("Connected", c)' /\ conn[c].pc # "dialing" /\ active[HostOf[c]] # c
      BY <1>1, <1>4, Typed DEF Registry, AnnouncedOnce, Announced, Takes
    <3> QED BY <1>1, <1>2, <1>4, <2>1, <3>1, Typed
            DEF Registry, AnnouncedOnce, Announced, Takes, Types
  <2>3. Hosted' /\ Vacant'
    BY <1>4, <2>1 DEF Registry, Hosted, Vacant
  <2>4. OpenSteps'
    BY <1>1, <1>4 DEF Registry, OpenSteps, Takes, Types
  <2>5. HoldersAreOpen'
    BY <1>2, <1>4 DEF Registry, HoldersAreOpen
  <2>6. OpenAreHolders'
    BY <1>1, <1>2, <1>4, <2>1, Typed DEF Registry, OpenAreHolders, Announced, Takes, Types
  <2> QED BY <2>2, <2>3, <2>4, <2>5, <2>6 DEF Registry
<1> QED BY <1>1, <1>3, <1>4 DEF HandleConnected

\* NewConnection closes the connection when there is no room.
LEMMA CountStep ==
    ASSUME TypeOK, Registry, CountDirections
    PROVE  Registry'
<1>1. PICK c \in Conns : c = net.conn
  BY Typed DEF CountDirections
<1>2. SameNotices /\ UNCHANGED <<active, early>> /\ net # Waiting
  BY ChannelUnchanged DEF CountDirections, Waiting
<1>3. CASE net' = [net EXCEPT !.pc = "add"] /\ UNCHANGED <<conn, evicted>>
  <2>1. net'.conn = c
    <3>1. net \in [pc : {"count", "add"}, conn : Conns]
      BY <1>2 DEF TypeOK
    <3> QED BY <1>1, <1>3, <3>1
  <2>2. AnnouncedOnce'
    BY <1>1, <1>2, <1>3, <2>1 DEF Registry, AnnouncedOnce, Announced, SameNotices, Types
  <2>3. Hosted' /\ Vacant'
    BY <1>1, <1>2, <2>1 DEF Registry, Hosted, Vacant
  <2>4. OpenSteps' /\ HoldersAreOpen'
    BY <1>2, <1>3 DEF Registry, OpenSteps, HoldersAreOpen, SameNotices, Types
  <2>5. OpenAreHolders'
    BY <1>1, <1>2, <1>3, <2>1 DEF Registry, OpenAreHolders, Announced, SameNotices, Types
  <2> QED BY <2>2, <2>3, <2>4, <2>5 DEF Registry
<1>4. CASE net' = Waiting /\ Close(net.conn)
  <2>1. /\ \A x \in Conns : x # c => conn'[x] = conn[x]
        /\ conn'[c].closed /\ conn'[c].pc = conn[c].pc
        /\ evicted' = evicted \ {c}
    BY <1>1, <1>4, Typed DEF Close, Conn
  <2>2. net'.conn = Nothing
    BY <1>4 DEF Waiting
  <2>3. AnnouncedOnce'
    BY <1>1, <1>2, <2>1, <2>2, Typed DEF Registry, AnnouncedOnce, Announced, SameNotices, Types
  <2>4. Hosted' /\ Vacant'
    BY <1>2, <1>4 DEF Registry, Hosted, Vacant
  <2>5. OpenSteps'
    BY <1>2, <2>1 DEF Registry, OpenSteps, SameNotices, Types
  <2>6. HoldersAreOpen'
    BY <1>1, <1>2, <2>1 DEF Registry, HoldersAreOpen, AnnouncedOnce, Announced
  <2>7. OpenAreHolders'
    BY <1>1, <1>2, <2>1, <2>2 DEF Registry, OpenAreHolders, Announced, SameNotices, Types
  <2> QED BY <2>3, <2>4, <2>5, <2>6, <2>7 DEF Registry
<1> QED BY <1>3, <1>4 DEF CountDirections

\* NewConnection registers the connection.
LEMMA AddStep ==
    ASSUME TypeOK, Registry, AddConnected
    PROVE  Registry'
<1>1. PICK c \in Conns : c = net.conn
  BY Typed DEF AddConnected
<1>2. SameNotices /\ UNCHANGED <<conn, evicted>> /\ net # Waiting /\ net' = Waiting
  BY ChannelUnchanged DEF AddConnected, Waiting
<1>3. active[HostOf[c]] = Nothing
  BY <1>1, <1>2 DEF Registry, Vacant
<1>4. /\ active'[HostOf[c]] = c
      /\ \A h \in Hosts : h # HostOf[c] => active'[h] = active[h]
      /\ early' = IF conn[c].closed THEN early \cup {c} ELSE early
  BY <1>1, <1>3, Typed DEF AddConnected
<1>5. net'.conn = Nothing
  BY <1>2 DEF Waiting
<1>6. AnnouncedOnce'
  BY <1>1, <1>2, <1>4, <1>5, Typed DEF Registry, AnnouncedOnce, Announced, SameNotices, Types
<1>7. Hosted' /\ Vacant'
  BY <1>2, <1>4 DEF Registry, Hosted, Vacant
<1>8. OpenSteps'
  BY <1>2 DEF Registry, OpenSteps, SameNotices, Types
<1>9. HoldersAreOpen'
  BY <1>2, <1>4, Typed DEF Registry, HoldersAreOpen
<1>10. OpenAreHolders'
  BY <1>1, <1>2, <1>3, <1>4, <1>5, Typed
     DEF Registry, OpenAreHolders, Announced, SameNotices, Types
<1> QED BY <1>6, <1>7, <1>8, <1>9, <1>10 DEF Registry

\* Disconnect, called for a notice of an error or by the event loop.
LEMMA DisconnectStep ==
    ASSUME TypeOK, Registry, NEW c \in Conns, Disconnect(c), UNCHANGED net,
           SameNotices \/ Takes("InternalErr", c)
    PROVE  Registry'
<1>1. /\ active'[HostOf[c]] = Nothing
      /\ \A h \in Hosts : h # HostOf[c] => active'[h] = active[h]
      /\ \A x \in Conns : x # c => conn'[x] = conn[x]
      /\ conn'[c].closed /\ conn'[c].pc = conn[c].pc
  BY Typed DEF Disconnect, Conn
<1>2. \A x \in Conns :
        /\ Said("Connected", x)' <=> Said("Connected", x)
        /\ SaidOnce(x) => SaidOnce(x)'
        /\ x # c => (Said("InternalErr", x)' <=> Said("InternalErr", x))
  BY DEF SameNotices, Takes, Types
<1>3. AnnouncedOnce'
  BY <1>1, <1>2, Typed DEF Registry, AnnouncedOnce, Announced
<1>4. Hosted' /\ Vacant'
  <2>1. Hosted'
    BY <1>1, Typed DEF Registry, Hosted
  <2>2. Vacant'
    BY <1>1, Typed DEF Registry, Vacant
  <2> QED BY <2>1, <2>2
<1>5. OpenSteps'
  BY <1>1, <1>2 DEF Registry, OpenSteps
<1>6. HoldersAreOpen'
  BY <1>1, Typed DEF Registry, Hosted, HoldersAreOpen, Disconnect, Holder
<1>7. OpenAreHolders'
  BY <1>1, <1>2, Typed
     DEF Registry, Hosted, OpenAreHolders, Announced, Disconnect, Holder
<1> QED BY <1>3, <1>4, <1>5, <1>6, <1>7 DEF Registry

LEMMA RegistryStep ==
    ASSUME TypeOK, Registry, [Next]_vars
    PROVE  Registry'
<1>1. ASSUME NEW c \in Outgoing, SpawnOutgoing(c) \/ Connect(c) PROVE Registry'
  BY <1>1, NewStep DEF SpawnOutgoing, Connect, Conns
<1>2. ASSUME NEW c \in Incoming, Accept(c) PROVE Registry'
  BY <1>2, NewStep DEF Accept, Conns
<1>3. ASSUME NEW c \in Conns, Goroutine(c) PROVE Registry'
  BY <1>3, GoroutineStep, SayStep DEF Goroutine
<1>4. CASE NetworkGoroutine
  <2>1. CASE HandleInternalErr
    <3>1. PICK t, d : t = Head(infoCh).type /\ d = Head(infoCh).conn
      OBVIOUS
    <3>2. d \in Conns /\ Takes("InternalErr", d)
      BY <2>1, <3>1, ChannelTail DEF HandleInternalErr
    <3> QED BY <2>1, <3>1, <3>2, DisconnectStep DEF HandleInternalErr
  <2> QED BY <1>4, <2>1, HandleConnectedStep, CountStep, AddStep DEF NetworkGoroutine
<1>5. ASSUME NEW c \in Conns, RestrictPeer(c) PROVE Registry'
  BY <1>5, ChannelUnchanged, DisconnectStep DEF RestrictPeer
<1>6. CASE UNCHANGED vars
  <2>1. SameNotices /\ UNCHANGED <<conn, active, net, evicted, early>>
    BY <1>6, ChannelUnchanged DEF vars, history
  <2> QED BY <2>1 DEF Registry, AnnouncedOnce, Announced, Hosted, Vacant, OpenSteps,
                      HoldersAreOpen, OpenAreHolders, SameNotices, Types
<1> QED BY <1>1, <1>2, <1>3, <1>4, <1>5, <1>6 DEF Next

LEMMA RegistryHolds == Spec => []Registry
<1>1. Init => Registry
  BY PeerManagerAssumption
     DEF Init, NoConn, Waiting, Conns, Registry, AnnouncedOnce, Announced, Said, SaidOnce,
         Hosted, Vacant, OpenSteps, HoldersAreOpen, OpenAreHolders
<1>2. TypeOK /\ Registry /\ [Next]_vars => Registry'
  BY RegistryStep
<1> QED BY <1>1, <1>2, TypeCorrect, PTL DEF Spec

\* Registered peers are open connections of their hosts and errors of them are on
\* their way to the manager, but for connections closed before they were registered.
THEOREM RegisteredAreOpen == Spec => []RegisteredIsOpen
<1>1. TypeOK /\ Registry => RegisteredIsOpen
  BY Typed DEF RegisteredIsOpen, Registry, AnnouncedOnce, Hosted, OpenSteps,
               HoldersAreOpen, Said, Notices
<1> QED BY <1>1, TypeCorrect, RegistryHolds, PTL

\* Open connections that the manager has been told of are registered, but for the
\* ones that word about another connection of their host unregistered.
THEOREM OpenAreRegistered == Spec => []OpenIsRegistered
<1>1. Registry => OpenIsRegistered
  BY DEF OpenIsRegistered, Registry, OpenAreHolders, Announced, Pending, Said, Notices
<1> QED BY <1>1, RegistryHolds, PTL

-----------------------------------------------------------------------------
(* Limits.                                                                  *)

Direction(c) == IF c \in Incoming THEN Incoming ELSE Outgoing

\* The room that CountDirections found is still there when AddConnected uses it.
LimitsInv ==
    /\ ConnectionLimits
    /\ net.pc = "add" => Cardinality(Registered(Direction(net.conn))) < LimitConnections

\* Registering fewer hosts, or one more, changes the count by no more than that.
LEMMA Counts ==
    ASSUME NEW A, NEW B, NEW h, B \subseteq Hosts, IsFiniteSet(Hosts)
    PROVE  /\ Cardinality(B) \in Nat
           /\ A \subseteq B => Cardinality(A) \in Nat /\ Cardinality(A) <= Cardinality(B)
           /\ A \subseteq B \cup {h} =>
                 Cardinality(A) \in Nat /\ Cardinality(A) <= Cardinality(B) + 1
<1>1. IsFiniteSet(B) /\ Cardinality(B) \in Nat
  BY FS_Subset, FS_CardinalityType
<1>2. IsFiniteSet(B \cup {h}) /\ Cardinality(B \cup {h}) \in Nat
      /\ Cardinality(B \cup {h}) <= Cardinality(B) + 1
  <2>1. /\ IsFiniteSet(B \cup {h})
        /\ Cardinality(B \cup {h}) = IF h \in B THEN Cardinality(B) ELSE Cardinality(B) + 1
    BY <1>1, FS_AddElement
  <2> QED BY <1>1, <2>1
<1>3. A \subseteq B => Cardinality(A) \in Nat /\ Cardinality(A) <= Cardinality(B)
  BY <1>1, FS_Subset, FS_CardinalityType
<1>4. A \subseteq B \cup {h} => Cardinality(A) \in Nat /\ Cardinality(A) <= Cardinality(B \cup {h})
  BY <1>2, FS_Subset, FS_CardinalityType
<1> QED BY <1>1, <1>2, <1>3, <1>4

\* No direction has more registered peers than the limit although the count and the
\* registration are two steps.
THEOREM LimitsHold == Spec => []ConnectionLimits
<1> USE PeerManagerAssumption
<1>1. Init => LimitsInv
  <2> SUFFICES ASSUME Init PROVE LimitsInv
    OBVIOUS
  <2>1. Registered(Outgoing) = {} /\ Registered(Incoming) = {} /\ net.pc # "add"
    BY DEF Init, Registered, Waiting, Conns
  <2> QED BY <2>1, FS_EmptySet DEF LimitsInv, ConnectionLimits
<1>2. ASSUME TypeOK, Registry, LimitsInv, [Next]_vars
      PROVE  LimitsInv'
  <2>1. \A S : Registered(S) \subseteq Hosts /\ Cardinality(Registered(S)) \in Nat
    BY Counts DEF Registered
  <2>2. ASSUME \A S \in SUBSET Conns : Registered(S)' \subseteq Registered(S),
               \/ net'.pc # "add"
               \/ net' = net
               \/ net'.conn = net.conn /\ HasRoom(net.conn)
        PROVE  LimitsInv'
    <3>1. \A S \in SUBSET Conns :
            /\ Cardinality(Registered(S)') \in Nat
            /\ Cardinality(Registered(S)') <= Cardinality(Registered(S))
      BY <2>1, <2>2, Counts
    <3>2. ConnectionLimits'
      BY <1>2, <2>1, <3>1 DEF LimitsInv, ConnectionLimits, Conns
    <3>3. ASSUME net'.pc = "add"
          PROVE  Cardinality(Registered(Direction(net.conn)))' < LimitConnections
      <4>1. PICK c : c = net.conn
        OBVIOUS
      <4>2. Cardinality(Registered(Direction(c))) < LimitConnections /\ net'.conn = c
        BY <1>2, <2>2, <3>3, <4>1 DEF LimitsInv, HasRoom, Direction
      <4>3. Cardinality(Registered(Direction(c))') < LimitConnections
        BY <2>1, <3>1, <4>2 DEF Direction, Conns
      <4> QED BY <4>2, <4>3
    <3> QED BY <3>2, <3>3 DEF LimitsInv
  <2>3. CASE AddConnected
    <3>1. PICK c \in Conns : c = net.conn
      BY <1>2, <2>3, Typed DEF AddConnected
    <3>2. net' = Waiting /\ net # Waiting
      BY <2>3 DEF AddConnected, Waiting
    <3>3. active' = [active EXCEPT ![HostOf[c]] = c]
      BY <1>2, <2>3, <3>1, <3>2 DEF AddConnected, Registry, Vacant
    <3>4. /\ Registered(Direction(c))' \subseteq Registered(Direction(c)) \cup {HostOf[c]}
          /\ \A S : c \notin S => Registered(S)' \subseteq Registered(S)
      BY <1>2, <3>3, Typed DEF Registered, Direction
    <3>5. Cardinality(Registered(Direction(c))) < LimitConnections
      BY <1>2, <2>3, <3>1 DEF AddConnected, LimitsInv
    <3>6. ASSUME NEW S \in {Outgoing, Incoming}
          PROVE  Cardinality(Registered(S)') <= LimitConnections
      <4>1. CASE S = Direction(c)
        <5>1. /\ Cardinality(Registered(S)') \in Nat
              /\ Cardinality(Registered(S)') <= Cardinality(Registered(S)) + 1
          BY <2>1, <3>4, <4>1, Counts
        <5> QED BY <2>1, <3>5, <4>1, <5>1
      <4>2. CASE S # Direction(c)
        <5>1. c \notin S
          BY <4>2 DEF Direction, Conns
        <5>2. Cardinality(Registered(S)') \in Nat
              /\ Cardinality(Registered(S)') <= Cardinality(Registered(S))
          BY <2>1, <3>4, <5>1, Counts
        <5> QED BY <1>2, <2>1, <5>2 DEF LimitsInv, ConnectionLimits
      <4> QED BY <4>1, <4>2
    <3>7. net'.pc # "add"
      BY <3>2 DEF Waiting
    <3> QED BY <3>6, <3>7 DEF LimitsInv, ConnectionLimits
  <2>4. CASE UNCHANGED <<active, net>>
    BY <2>2, <2>4 DEF Registered
  <2>5. ASSUME NEW c \in Conns, Disconnect(c), UNCHANGED net PROVE LimitsInv'
    <3>1. \A S \in SUBSET Conns : Registered(S)' \subseteq Registered(S)
      <4>1. active' = [active EXCEPT ![HostOf[c]] = Nothing]
        BY <2>5 DEF Disconnect
      <4>2. /\ active \in [Hosts -> Conns \cup {Nothing}]
            /\ HostOf[c] \in Hosts /\ Nothing \notin Conns
        BY <1>2, Typed
      <4>3. \A h \in Hosts : active'[h] = active[h] \/ active'[h] = Nothing
        BY <4>1, <4>2
      <4> QED BY <4>2, <4>3 DEF Registered
    <3> QED BY <2>2, <2>5, <3>1
  <2>6. CASE HandleConnected
    <3>1. \A S \in SUBSET Conns : Registered(S)' \subseteq Registered(S)
      BY <2>6 DEF HandleConnected, Refuse, Registered
    <3>2. net' = net \/ net'.pc = "count"
      BY <2>6 DEF HandleConnected
    <3> QED BY <2>2, <3>1, <3>2
  <2>7. CASE CountDirections
    <3>1. \A S \in SUBSET Conns : Registered(S)' \subseteq Registered(S)
      BY <2>7 DEF CountDirections, Registered
    <3>2. net \in [pc : {"count", "add"}, conn : Conns]
      BY <1>2, <2>7 DEF TypeOK, CountDirections, Waiting
    <3>3. net'.pc # "add" \/ (net'.conn = net.conn /\ HasRoom(net.conn))
      BY <2>7, <3>2 DEF CountDirections, Waiting
    <3> QED BY <2>2, <3>1, <3>3
  <2>8. CASE HandleInternalErr
    <3>1. Head(infoCh).conn \in Conns
      BY <1>2, <2>8, ChannelTail DEF HandleInternalErr
    <3> QED BY <2>5, <2>8, <3>1 DEF HandleInternalErr
  <2>9. ASSUME NEW c \in Conns, RestrictPeer(c) PROVE LimitsInv'
    BY <2>5, <2>9 DEF RestrictPeer
  <2>10. ASSUME NEW c \in Conns, Goroutine(c) PROVE UNCHANGED <<active, net>>
    BY <2>10 DEF Goroutine, Established, NotEstablished, Fail, ReportError, HandleEnds, End,
                 RemoveSpawned
  <2> QED BY <1>2, <2>3, <2>4, <2>6, <2>7, <2>8, <2>9, <2>10
          DEF Next, NetworkGoroutine, SpawnOutgoing, Connect, Accept, vars
<1> QED BY <1>1, <1>2, TypeCorrect, RegistryHolds, PTL DEF Spec, LimitsInv
=============================================================================
