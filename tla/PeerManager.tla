---------------------------- MODULE PeerManager ----------------------------
(***************************************************************************)
(* The peer manager (pkg/node/peers), the goroutines of the connections    *)
(* (pkg/p2p) and the parts of the network goroutine and of the event loop  *)
(* that register, close and restrict connections.                          *)
(*                                                                         *)
(* A connection is an object; the manager knows peers by an ID made of IP  *)
(* and nonce.  An incoming and an outgoing connection, or two outgoing     *)
(* ones, of the same host have one ID, and what is said about the one can  *)
(* arrive when the other is registered.                                    *)
(*                                                                         *)
(* A host has one address.  Whether it is suspended or black-listed, which *)
(* depends on time, is left open; which peer is the best one to            *)
(* synchronize with is left to module Network.                             *)
(***************************************************************************)
EXTENDS Naturals, Sequences, FiniteSets

CONSTANTS
    Hosts,             \* remote nodes, each with its IP, nonce and address
    Declares,          \* the ones that declare their address in the handshake
    Outgoing,          \* bound: outgoing connections that exist at a time
    Incoming,          \* bound: incoming connections that exist at a time
    HostOf,            \* the host of each of them
    LimitConnections,  \* limitConnections
    InfoCap,           \* capacity of Parent.InfoCh
    Nothing            \* nil

Conns == Outgoing \cup Incoming

ASSUME PeerManagerAssumption ==
    /\ IsFiniteSet(Hosts) /\ Declares \subseteq Hosts
    /\ Outgoing \cap Incoming = {}
    /\ HostOf \in [Conns -> Hosts]
    /\ LimitConnections \in Nat /\ InfoCap \in Nat \ {0}
    /\ Nothing \notin Hosts \cup Conns

VARIABLES
    conn,       \* the connections: where the goroutine is, error in ErrCh, closed by the node
    spawned,    \* PeerManagerImpl.spawned
    active,     \* PeerManagerImpl.active
    infoCh,     \* Parent.InfoCh
    net,        \* where the network goroutine is in NewConnection, and with which connection
    evicted,    \* history: open, and unregistered by word about another connection
    early       \* history: registered after the event loop had closed them

history == <<evicted, early>>
vars == <<conn, spawned, active, infoCh, net, history>>

Notice(type, c) == [type |-> type, conn |-> c]
Steps == {"free", "dialing", "handling", "reported", "ending"}
NoConn == [pc |-> "free", failed |-> FALSE, closed |-> TRUE]
Waiting == [pc |-> "recv", conn |-> Nothing]

Notices(c) == {i \in DOMAIN infoCh : infoCh[i].conn = c}
Registered(S) == {h \in Hosts : active[h] \in S}

Init ==
    /\ conn = [c \in Conns |-> NoConn]
    /\ spawned = {}
    /\ active = [h \in Hosts |-> Nothing]
    /\ infoCh = <<>>
    /\ net = Waiting
    /\ evicted = {} /\ early = {}

-----------------------------------------------------------------------------
(* The goroutine of a connection.                                           *)

\* The slot of the model is free for a new object: nobody knows the old one any more.
Unused(c) ==
    /\ conn[c].pc = "free"
    /\ Notices(c) = {} /\ net.conn # c
    /\ \A h \in Hosts : active[h] # c

New(c) ==
    /\ Unused(c)
    /\ conn' = [conn EXCEPT ![c] = [pc |-> "dialing", failed |-> FALSE, closed |-> FALSE]]
    /\ UNCHANGED history

\* Addresses with an active connection, as far as the manager can tell.
ActiveAddresses == Registered(Outgoing) \cup (Registered(Incoming) \cap Declares)

\* SpawnOutgoingConnections, for one of the known addresses that is not suspended.
SpawnOutgoing(c) ==
    /\ Cardinality(Registered(Conns)) <= LimitConnections * 2
    /\ Cardinality(Registered(Outgoing)) <= LimitConnections
    /\ HostOf[c] \notin ActiveAddresses \cup spawned
    /\ New(c)
    /\ spawned' = spawned \cup {HostOf[c]}
    /\ UNCHANGED <<active, infoCh, net>>

\* Connect, by order of the API: neither limits nor suspensions count.
Connect(c) ==
    /\ HostOf[c] \notin ActiveAddresses \cup spawned
    /\ New(c)
    /\ spawned' = spawned \cup {HostOf[c]}
    /\ UNCHANGED <<active, infoCh, net>>

\* serveIncomingPeers accepts a connection.
Accept(c) ==
    /\ New(c)
    /\ UNCHANGED <<spawned, active, infoCh, net>>

\* The handshake is done and Handle announces the connection.
Established(c) ==
    /\ conn[c].pc = "dialing"
    /\ Len(infoCh) < InfoCap
    /\ conn' = [conn EXCEPT ![c].pc = "handling"]
    /\ infoCh' = Append(infoCh, Notice("Connected", c))
    /\ UNCHANGED <<spawned, active, net, history>>

\* The connection is closed; the goroutine of an outgoing one has yet to clean up.
End(c) ==
    /\ conn' = [conn EXCEPT ![c] = [pc |-> IF c \in Outgoing THEN "ending" ELSE "free",
                                    failed |-> FALSE, closed |-> TRUE]]
    /\ UNCHANGED <<spawned, active, infoCh, net, history>>

\* Dialling or the handshake fails.
NotEstablished(c) ==
    /\ conn[c].pc = "dialing"
    /\ End(c)

\* Reading, writing or parsing fails, or ToCh overflows: an error is in ErrCh.
Fail(c) ==
    /\ conn[c].pc = "handling" /\ ~conn[c].failed
    /\ conn' = [conn EXCEPT ![c].failed = TRUE]
    /\ UNCHANGED <<spawned, active, infoCh, net, history>>

\* Handle reports the first error to the parent and waits to be closed.
ReportError(c) ==
    /\ conn[c].pc = "handling" /\ conn[c].failed
    /\ Len(infoCh) < InfoCap
    /\ conn' = [conn EXCEPT ![c].pc = "reported"]
    /\ infoCh' = Append(infoCh, Notice("InternalErr", c))
    /\ UNCHANGED <<spawned, active, net, history>>

\* Handle ends when the context of the closed peer is done, maybe before it has seen
\* an error.
HandleEnds(c) ==
    /\ conn[c].pc \in {"handling", "reported"} /\ conn[c].closed
    /\ End(c)

\* Mutant of RemoveSpawned: the address is kept, as if it was removed on success only.
RemoveSpawned_Kept(c) ==
    /\ conn[c].pc = "ending"
    /\ conn' = [conn EXCEPT ![c].pc = "free"]
    /\ UNCHANGED <<spawned, active, infoCh, net, history>>

\* removeSpawned, deferred by the goroutine of an outgoing connection.
RemoveSpawned(c) ==
    /\ conn[c].pc = "ending"
    /\ conn' = [conn EXCEPT ![c].pc = "free"]
    /\ spawned' = spawned \ {HostOf[c]}
    /\ UNCHANGED <<active, infoCh, net, history>>

-----------------------------------------------------------------------------
(* Operations of the manager.                                               *)

Close(c) ==
    /\ conn' = [conn EXCEPT ![c].closed = TRUE]
    /\ evicted' = evicted \ {c}

\* The connection that is registered for the host of c.
Holder(c) == active[HostOf[c]]

\* Disconnect removes by ID and closes the connection it is called for.
Disconnect(c) ==
    /\ active' = [active EXCEPT ![HostOf[c]] = Nothing]
    /\ conn' = [conn EXCEPT ![c].closed = TRUE]
    /\ evicted' = (evicted \cup {x \in {Holder(c)} \ {Nothing} : ~conn[x].closed}) \ {c}
    /\ early' = early \ {Holder(c)}

-----------------------------------------------------------------------------
(* The network goroutine.                                                   *)

\* Mutant of Refuse: a connection that is refused stays open.
Refuse_LeftOpen(c) == UNCHANGED <<conn, active, evicted>>

\* NewConnection closes a connection whose peer is connected, suspended, black-listed or
\* of a wrong version or network; the last ones are restricted as well.
Refuse(c) ==
    /\ Close(c)
    /\ UNCHANGED active

\* handleConnected and the first checks of NewConnection.
HandleConnected ==
    /\ net = Waiting
    /\ infoCh # <<>> /\ Head(infoCh).type = "Connected"
    /\ infoCh' = Tail(infoCh)
    /\ LET c == Head(infoCh).conn IN
          \/ Refuse(c) /\ UNCHANGED net
          \/ /\ active[HostOf[c]] = Nothing
             /\ net' = [pc |-> "count", conn |-> c]
             /\ UNCHANGED <<conn, active, evicted>>
    /\ UNCHANGED <<spawned, early>>

\* Mutant of HasRoom: one connection too many.
HasRoom_OneMore(c) ==
    Cardinality(Registered(IF c \in Incoming THEN Incoming ELSE Outgoing)) <= LimitConnections

\* The limit for the direction of the connection is not reached.
HasRoom(c) ==
    Cardinality(Registered(IF c \in Incoming THEN Incoming ELSE Outgoing)) < LimitConnections

\* NewConnection: countDirections.
CountDirections ==
    /\ net.pc = "count"
    /\ \/ HasRoom(net.conn) /\ net' = [net EXCEPT !.pc = "add"] /\ UNCHANGED <<conn, evicted>>
       \/ ~HasRoom(net.conn) /\ net' = Waiting /\ Close(net.conn)
    /\ UNCHANGED <<spawned, active, infoCh, early>>

\* NewConnection: addConnected.  activePeers.add keeps a peer that is already there.
AddConnected ==
    /\ net.pc = "add"
    /\ net' = Waiting
    /\ LET c == net.conn  h == HostOf[net.conn] IN
          /\ active' = [active EXCEPT ![h] = IF @ = Nothing THEN c ELSE @]
          /\ spawned' = IF c \in Outgoing THEN spawned \ {h} ELSE spawned
          /\ early' = IF conn[c].closed THEN early \cup {c} ELSE early
    /\ UNCHANGED <<conn, infoCh, evicted>>

\* Mutant of HandleInternalErr: every notice is passed over.
HandleInternalErr_Dropped ==
    /\ net = Waiting
    /\ infoCh # <<>> /\ Head(infoCh).type = "InternalErr"
    /\ infoCh' = Tail(infoCh)
    /\ UNCHANGED <<conn, spawned, active, net, history>>

\* handleInternalErr.  No notice carries ErrPeerAlreadyConnected, the error that it
\* would pass over.
HandleInternalErr ==
    /\ net = Waiting
    /\ infoCh # <<>> /\ Head(infoCh).type = "InternalErr"
    /\ infoCh' = Tail(infoCh)
    /\ Disconnect(Head(infoCh).conn)
    /\ UNCHANGED <<spawned, net>>

-----------------------------------------------------------------------------
(* The event loop and others.                                               *)

\* The connection c is announced and NewConnection not through with it.
Pending(c) ==
    net.conn = c \/ \E i \in Notices(c) : infoCh[i].type = "Connected"

\* Suspend (blocks of the peer are invalid) and AddToBlackList (a transaction is), for
\* a peer whose message was read; it may have been closed since.
RestrictPeer(c) ==
    /\ conn[c].closed \/ conn[c].pc \in {"handling", "reported"}
    /\ Disconnect(c)
    /\ UNCHANGED <<spawned, infoCh, net>>

-----------------------------------------------------------------------------

Goroutine(c) ==
    \/ Established(c) \/ NotEstablished(c)
    \/ Fail(c) \/ ReportError(c) \/ HandleEnds(c) \/ RemoveSpawned(c)

NetworkGoroutine ==
    HandleConnected \/ CountDirections \/ AddConnected \/ HandleInternalErr

Next ==
    \/ \E c \in Outgoing : SpawnOutgoing(c) \/ Connect(c)
    \/ \E c \in Incoming : Accept(c)
    \/ \E c \in Conns : Goroutine(c)
    \/ NetworkGoroutine
    \/ \E c \in Conns : RestrictPeer(c)

Spec == Init /\ [][Next]_vars

-----------------------------------------------------------------------------
(* Properties.                                                              *)

\* Types of the variables.
TypeOK ==
    /\ conn \in [Conns -> [pc : Steps, failed : BOOLEAN, closed : BOOLEAN]]
    /\ spawned \subseteq Hosts
    /\ active \in [Hosts -> Conns \cup {Nothing}]
    /\ infoCh \in Seq([type : {"Connected", "InternalErr"}, conn : Conns])
    /\ Len(infoCh) <= InfoCap
    /\ net \in [pc : {"count", "add"}, conn : Conns] \cup {Waiting}
    /\ evicted \subseteq Conns /\ early \subseteq Conns

\* The limits hold although NewConnection counts under one lock and registers under
\* another: only the network goroutine registers.
ConnectionLimits ==
    /\ Cardinality(Registered(Outgoing)) <= LimitConnections
    /\ Cardinality(Registered(Incoming)) <= LimitConnections

\* An address in spawned has a goroutine that will remove it, so no address stays
\* undialled; entries are removed by NewConnection, by their goroutine and by
\* goroutines of earlier connections to the address.
SpawnedHasOwner ==
    \A h \in spawned : \E c \in Outgoing : HostOf[c] = h /\ conn[c].pc # "free"

\* A registered peer is of its host and open, and an error of its connection is on its
\* way to the manager once Handle has taken note of it.  The exception: the event loop
\* closed the connection before the network goroutine registered it, and nothing but
\* another error of that host ever removes the entry.
RegisteredIsOpen ==
    \A h \in Hosts, c \in Conns :
        active[h] = c /\ c \notin early =>
            /\ HostOf[c] = h /\ ~conn[c].closed
            /\ \/ conn[c].pc = "handling"
               \/ conn[c].pc = "reported" /\ \E i \in Notices(c) : infoCh[i].type = "InternalErr"

\* An open connection is registered once its notice has been handled.  The exception:
\* word about another connection of the same host unregistered it.
OpenIsRegistered ==
    \A c \in Conns :
        /\ conn[c].pc \in {"handling", "reported"} /\ ~conn[c].closed /\ ~Pending(c)
        /\ c \notin evicted
        => active[HostOf[c]] = c
=============================================================================
