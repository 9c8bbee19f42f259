------------------------------ MODULE Network ------------------------------
(***************************************************************************)
(* The network goroutine (pkg/node/network): it consumes connection and    *)
(* error notices of the peers, keeps the peer manager's set of active      *)
(* peers up to date and tells the node's state machine, through a bounded  *)
(* channel, to start or stop mining and to stop or change a                *)
(* synchronization.                                                        *)
(*                                                                         *)
(* SyncPeer is the one variable that this goroutine shares with the state  *)
(* machine: the state machine writes it, this goroutine reads it between   *)
(* two sends, so what it sends may be out of date when it is received.     *)
(***************************************************************************)
EXTENDS Naturals, Sequences, FiniteSets

CONSTANTS
    Peers,          \* peers of the node
    NoPeer,         \* nil
    MinPeersMining, \* services.MinPeersMining
    NetCap          \* capacity of networkInfoCh (defaultChannelSize in the code)

ASSUME NetworkAssumption ==
    /\ NoPeer \notin Peers
    /\ MinPeersMining \in Nat
    /\ NetCap \in Nat \ {0}

VARIABLES
    connected,  \* PeerManagerImpl.active
    syncPeer,   \* SyncPeer.peer
    netPc,      \* where the network goroutine is
    netPeer,    \* the peer of the notice it handles
    netCh       \* networkInfoCh

netVars == <<connected, syncPeer, netPc, netPeer, netCh>>

\* network.InfoMessage: only ChangeSyncPeer names a peer.
Notice(type, p) == [type |-> type, peer |-> p]
Notices ==
    {Notice(t, NoPeer) : t \in {"StartMining", "StopMining", "StopSync"}}
        \cup {Notice("ChangeSyncPeer", p) : p \in Peers}

NetSteps == {"recv", "startMining", "switchPeer", "stopMining", "stopSync"}

NetInit ==
    /\ connected = {}
    /\ syncPeer = NoPeer
    /\ netPc = "recv"
    /\ netPeer = NoPeer
    /\ netCh = <<>>

\* networkInfoCh <- m: blocks while the channel is full.
Send(m) ==
    /\ Len(netCh) < NetCap
    /\ netCh' = Append(netCh, m)

\* handleConnected: NewConnection registers the peer.  A refused connection
\* changes nothing.
HandleConnected(p) ==
    /\ netPc = "recv"
    /\ p \notin connected
    /\ connected' = connected \cup {p}
    /\ netPc' = "startMining"
    /\ UNCHANGED <<syncPeer, netPeer, netCh>>

\* handleConnected: StartMining when the count has just reached the minimum.
StartMiningNotice ==
    /\ netPc = "startMining"
    /\ netPc' = "switchPeer"
    /\ \/ Cardinality(connected) = MinPeersMining /\ Send(Notice("StartMining", NoPeer))
       \/ Cardinality(connected) # MinPeersMining /\ UNCHANGED netCh
    /\ UNCHANGED <<connected, syncPeer, netPeer>>

\* What CheckPeerWithMaxScore and CheckPeerInLargestScoreGroup may answer: an
\* active peer other than the current one; which one depends on the scores.
BetterPeers == connected \ {syncPeer}

\* switchToNewPeerIfRequired: ask the peer manager for a better peer than the
\* current one; with no current peer the answer may still be a peer.
SwitchToNewPeerIfRequired ==
    /\ netPc = "switchPeer"
    /\ netPc' = "recv"
    /\ \/ \E p \in BetterPeers : Send(Notice("ChangeSyncPeer", p))
       \/ UNCHANGED netCh
    /\ UNCHANGED <<connected, syncPeer, netPeer>>

\* handleInternalErr: a connection broke.  The notice may be late: of a connection
\* that the node closed itself, or one that never became active.
HandleInternalErr(p) ==
    /\ netPc = "recv"
    /\ connected' = connected \ {p}
    /\ netPc' = "stopMining"
    /\ netPeer' = p
    /\ UNCHANGED <<syncPeer, netCh>>

\* handleInternalErr: StopMining whenever there are too few peers.
StopMiningNotice ==
    /\ netPc = "stopMining"
    /\ netPc' = "stopSync"
    /\ \/ Cardinality(connected) < MinPeersMining /\ Send(Notice("StopMining", NoPeer))
       \/ Cardinality(connected) >= MinPeersMining /\ UNCHANGED netCh
    /\ UNCHANGED <<connected, syncPeer, netPeer>>

\* handleInternalErr: StopSync if the peer is the one the node now syncs with.
StopSyncNotice ==
    /\ netPc = "stopSync"
    /\ netPc' = "recv"
    /\ netPeer' = NoPeer
    /\ \/ netPeer = syncPeer /\ Send(Notice("StopSync", NoPeer))
       \/ netPeer # syncPeer /\ UNCHANGED netCh
    /\ UNCHANGED <<connected, syncPeer>>

\* The goroutine goes on with the notice it handles.
NetworkStep ==
    StartMiningNotice \/ SwitchToNewPeerIfRequired \/ StopMiningNotice \/ StopSyncNotice

NetworkNext ==
    \/ \E p \in Peers : HandleConnected(p) \/ HandleInternalErr(p)
    \/ NetworkStep

NetworkTypeOK ==
    /\ connected \subseteq Peers
    /\ syncPeer \in Peers \cup {NoPeer}
    /\ netPc \in NetSteps
    /\ netPeer \in Peers \cup {NoPeer}
    /\ netCh \in Seq(Notices)
    /\ Len(netCh) <= NetCap
=============================================================================
