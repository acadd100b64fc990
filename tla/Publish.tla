------------------------------ MODULE Publish ------------------------------
(***************************************************************************)
(* Publishing transactions and the connections it depends on:              *)
(* src/Modules/core/BRPeerManager.c, with the part of BRPeer.c that decides *)
(* when a peer's thread calls its handlers.                                 *)
(*                                                                          *)
(* Every handler of the manager runs under its lock: one step.  What is     *)
(* done after the unlock is a step of its own: the publish callbacks, the   *)
(* reconnect of a thread that ends, the second half of                      *)
(* BRPeerManagerConnect (around syncStarted) and of BRPeerManagerPublishTx  *)
(* (around networkIsReachable).                                             *)
(*                                                                          *)
(* Block heights are abstracted to behind (the chain is below the height    *)
(* the download peer reported), times to whether a disconnect is scheduled, *)
(* the stored peers to any choice BRPeerManagerConnect may make among them. *)
(* Transactions do not spend each other.                                    *)
(*                                                                          *)
(* An assumption about the network, not a guard of the code: a transaction  *)
(* is signed here and published once, so as long as its callback is pending *)
(* nobody has it.  A peer that announces it was told of its hash by this    *)
(* node (HasTx); one that sends it, or a block with it, has it from a peer  *)
(* that this node sent it to, so it is in the wallet (RelayedTx,            *)
(* RelayedBlock).  Without that _PeerManagerUpdateTx could drop an entry    *)
(* together with its callback (439-449).                                    *)
(*                                                                          *)
(* Relay counts, requests for unrelayed transactions with what the wallet   *)
(* drops after them, updates of the bloom filter and an unreachable network *)
(* are not modelled, except that PublishTx may find the network unreachable. *)
(***************************************************************************)
EXTENDS Naturals, FiniteSets

CONSTANTS Peer,         \* addresses of nodes
          Tx,           \* signed transactions the app publishes, each once
          None,         \* the null pointer
          MaxConnectFailures,  \* MAX_CONNECT_FAILURES
          MaxConnectCount,     \* manager->maxConnectCount
          MaxThreads    \* bound: calls of BRPeerManagerConnect under way at once

ASSUME PublishAssumption ==
    /\ MaxConnectFailures \in Nat \ {0}
    /\ MaxConnectCount \in Nat \ {0}
    /\ MaxThreads \in Nat \ {0}
    /\ None \notin Peer

VARIABLES
    \* peers
    status,   \* see PeerStatus
    timed,    \* peers with a disconnectTime
    inv,      \* [Peer -> transactions announced to it whose callback is pending]
    load,     \* [Peer -> "no", "filter" or "mempool" (callback waits), "done"]
    \* manager
    downloadPeer, syncing, behind, failures,
    reconnect,  \* threads that will call BRPeerManagerConnect
    midConnect, \* threads inside it, calling syncStarted
    \* transactions
    pub,      \* [Tx -> place in publishedTx, see PubState]
    owner,    \* [Tx -> who frees the BRTransaction passed to PublishTx]
    inWallet, \* transactions the wallet has registered
    due,      \* [Tx -> callbacks taken from the list and not called yet]
    calls     \* [Tx -> callbacks called]

peerVars == <<status, timed, inv, load>>
mgrVars  == <<downloadPeer, syncing, behind, failures>>
thrVars  == <<reconnect, midConnect>>
txVars   == <<pub, owner, inWallet, due, calls>>
vars     == <<peerVars, mgrVars, thrVars, txVars>>

\* "none": not in connectedPeers.  "closed": the peer's own thread has closed the
\* socket and reads no more, BRPeerConnectStatus is still connected.  "ended":
\* disconnected, but _peerDisconnected has not removed it yet.
PeerStatus == {"none", "connecting", "connected", "closed", "ended"}

\* "asking": PublishTx is between its two locks.  "pending": listed with a
\* callback.  "listed": listed with callback NULL.  "gone": not listed any more,
\* "confirmed": and in a block.
PubState == {"new", "asking", "pending", "listed", "gone", "confirmed"}

Reading == {p \in Peer : status[p] = "connected"}
Connected == {p \in Peer : status[p] \in {"connected", "closed"}}
ConnectedPeers == {p \in Peer : status[p] # "none"}
Pending == {t \in Tx : pub[t] = "pending"}
Listed  == {t \in Tx : pub[t] \in {"pending", "listed"}}

-----------------------------------------------------------------------------
(* Parts of handlers.                                                       *)

\* _PeerManagerPublishPendingTx to the peers of P.
Announce(P) == inv' = [p \in Peer |-> IF p \in P THEN Pending' ELSE inv[p] \cap Pending']

\* The disconnect times it leaves if those of T were scheduled before.
Timed(T, P) == IF Pending' = {} THEN T ELSE T \cup P

\* _PeerManagerSyncStopped: the timeout stays while a callback is pending.
SyncStopped ==
    /\ syncing' = FALSE
    /\ timed' = IF Pending = {} THEN timed \ {downloadPeer} ELSE timed

\* _PeerManagerLoadMempools for the connected peers C when dl is the download peer:
\* the others get the filter first, and so does dl if the false positive rate is high.
FilterFirst(C, dl, high) == IF high THEN C ELSE C \ {dl}

LoadMempools(C, dl, high) ==
    load' = [p \in Peer |->
        CASE p \in FilterFirst(C, dl, high) /\ load[p] = "no" -> "filter"
          [] p \in C \ FilterFirst(C, dl, high) /\ load[p] # "done" -> "mempool"
          [] OTHER -> load[p]]

\* The loop over publishedTx of _peerRequestedTx, _peerHasTx and _peerRelayedTx
\* takes t's callback; it is called after the unlock.
TakeCallback(t) ==
    due' = IF pub[t] = "pending" THEN [due EXCEPT ![t] = @ + 1] ELSE due

\* mutant: the callback is taken and stays in the list
WithoutCallback_Kept(t) == pub[t]

WithoutCallback(t) == IF pub[t] = "pending" THEN "listed" ELSE pub[t]

\* mutant: other pending callbacks are not looked at
CancelTimeout_Always(p, t) ==
    IF ~syncing \/ p # downloadPeer THEN timed \ {p} ELSE timed

\* "cancel tx publish timeout if no publish callbacks are pending, and syncing is
\* done or this is not downloadPeer"
CancelTimeout(p, t) ==
    IF Pending \subseteq {t} /\ (~syncing \/ p # downloadPeer) THEN timed \ {p} ELSE timed

-----------------------------------------------------------------------------
Init ==
    /\ status = [p \in Peer |-> "none"]
    /\ timed = {}
    /\ inv = [p \in Peer |-> {}]
    /\ load = [p \in Peer |-> "no"]
    /\ downloadPeer = None
    /\ syncing = FALSE
    /\ behind \in BOOLEAN
    /\ failures = 0
    /\ reconnect = 0
    /\ midConnect = 0
    /\ pub = [t \in Tx |-> "new"]
    /\ owner = [t \in Tx |-> "app"]
    /\ inWallet = {}
    /\ due = [t \in Tx |-> 0]
    /\ calls = [t \in Tx |-> 0]

(* BRPeerManagerConnect, called by the app or by a thread that ends.        *)

\* The loop that fills connectedPeers with stored peers that are not in it yet.
ConnectPeers ==
    \E S \in SUBSET (Peer \ ConnectedPeers) :
        /\ Cardinality(S \cup ConnectedPeers) <= MaxConnectCount \/ S = {}
        /\ status' = [p \in Peer |-> IF p \in S THEN "connecting" ELSE status[p]]
        /\ IF S \cup ConnectedPeers = {}
             THEN syncing' = FALSE /\ UNCHANGED timed
             ELSE timed' = timed \cup S /\ UNCHANGED syncing
        /\ UNCHANGED <<inv, load, downloadPeer, behind, txVars>>

\* The first lock.  n is 1 for a thread that reconnects, 0 for the app.
Connect(n) ==
    /\ n <= reconnect
    /\ reconnect' = reconnect - n
    /\ failures' = IF failures >= MaxConnectFailures THEN 0 ELSE failures
    /\ LET starts == (downloadPeer = None \/ behind) /\ ~syncing
       IN  \/ \* the lock is released for syncStarted, or to wait for DNS answers
              /\ starts \/ Cardinality(ConnectedPeers) < MaxConnectCount
              /\ reconnect' + midConnect < MaxThreads
              /\ midConnect' = midConnect + 1
              /\ syncing' = (syncing \/ starts)
              /\ UNCHANGED <<peerVars, downloadPeer, behind, txVars>>
           \/ ~starts /\ ConnectPeers /\ UNCHANGED midConnect

\* The second lock, after syncStarted or _PeerManagerFindPeers; if it is released
\* again, the thread stays where it is.
ConnectRelocked ==
    /\ midConnect > 0
    /\ midConnect' = midConnect - 1
    /\ ConnectPeers
    /\ UNCHANGED <<failures, reconnect>>

\* mutant: the failures are added to
Disconnect_Adds ==
    /\ ConnectedPeers # {}
    /\ failures' = failures + MaxConnectFailures
    /\ UNCHANGED <<peerVars, downloadPeer, syncing, behind, thrVars, txVars>>

\* BRPeerManagerDisconnect up to its waiting loop, which only reads.
Disconnect ==
    /\ ConnectedPeers # {}
    /\ failures' = MaxConnectFailures
    /\ UNCHANGED <<peerVars, downloadPeer, syncing, behind, thrVars, txVars>>

-----------------------------------------------------------------------------
(* BRPeerManagerPublishTx.                                                  *)

\* The last part: list t, announce it to the connected peers except the download
\* peer, unless that is the only one.
AddAndAnnounce(t) ==
    LET others == Connected \ {downloadPeer}
        to == IF Cardinality(Connected) = 1 THEN Connected ELSE others
    IN  /\ pub' = [pub EXCEPT ![t] = "pending"]
        /\ owner' = [owner EXCEPT ![t] = "list"]
        /\ Announce(to)
        /\ timed' = Timed(timed, to)
        /\ UNCHANGED <<status, load, mgrVars, thrVars>>
        /\ UNCHANGED <<inWallet, due, calls>>

PublishTx(t) ==
    /\ pub[t] = "new"
    /\ IF downloadPeer # None
         THEN AddAndAnnounce(t)
         ELSE /\ \/ /\ failures < MaxConnectFailures
                    /\ pub' = [pub EXCEPT ![t] = "asking"]
                    /\ UNCHANGED <<owner, due>>
                 \/ \* no more attempts, or the network is not reachable
                    /\ pub' = [pub EXCEPT ![t] = "gone"]
                    /\ owner' = [owner EXCEPT ![t] = "freed"]
                    /\ due' = [due EXCEPT ![t] = @ + 1]
              /\ UNCHANGED <<peerVars, mgrVars, thrVars>>
              /\ UNCHANGED <<inWallet, calls>>

PublishTxRelocked(t) == pub[t] = "asking" /\ AddAndAnnounce(t)

\* callback(info, error), called without the lock.
CallCallback(t) ==
    /\ due[t] > 0
    /\ due' = [due EXCEPT ![t] = @ - 1]
    /\ calls' = [calls EXCEPT ![t] = @ + 1]
    /\ UNCHANGED <<peerVars, mgrVars, thrVars, pub, owner, inWallet>>

-----------------------------------------------------------------------------
(* A peer's thread: handshake.  _PeerDidConnect clears the connect timeout  *)
(* and sets the status, _peerConnected follows; they are one step here.     *)

Handshake(p, st) ==
    /\ status[p] = "connecting"
    /\ status' = [status EXCEPT ![p] = st]
    /\ UNCHANGED <<thrVars, txVars>>

\* Unsupported services, too old a version, or too far behind.
ConnectedMisfit(p) ==
    /\ Handshake(p, "closed")
    /\ timed' = timed \ {p}
    /\ UNCHANGED <<inv, load, mgrVars>>

\* The download peer stays; p gets the filter only if the chain has reached its height.
ConnectedOther(p) ==
    /\ Handshake(p, "connected")
    /\ downloadPeer # None
    /\ \/ /\ failures' = 0
          /\ Announce({p})
          /\ timed' = Timed(timed \ {p}, {p})
          /\ load' = [load EXCEPT ![p] = "filter"]
       \/ /\ timed' = timed \ {p}
          /\ UNCHANGED <<failures, inv, load>>
    /\ UNCHANGED <<downloadPeer, syncing, behind>>

\* The best of the connected peers becomes the download peer.  One that replaces
\* another reported a height above the chain's.
ConnectedDownload(p) ==
    \E q \in Connected \cup {p}, b \in BOOLEAN, high \in BOOLEAN :
        LET all == Connected \cup {p}
            to  == IF b THEN {q} ELSE all
        IN  /\ Handshake(p, "connected")
            /\ downloadPeer # None => b /\ q # downloadPeer
            /\ downloadPeer' = q
            /\ behind' = b
            /\ Announce(to)
            /\ timed' = Timed(timed \ {p}, to) \cup (IF b THEN {q} ELSE {})
            /\ failures' = IF b THEN failures ELSE 0
            /\ IF b THEN UNCHANGED load ELSE LoadMempools(all, q, high)
            /\ UNCHANGED syncing

-----------------------------------------------------------------------------
(* A peer's thread: what it relays after the handshake.  BRPeerDisconnect   *)
(* by another thread closes the socket; this thread may still be handling a *)
(* message, and ends when it notices, as it may for a reason of its own.    *)

\* _peerRequestedTx: p asks for t.  A valid t is registered and sent.  For one that
\* is not listed any more only the timeout is cancelled, as in HasTx.
RequestedTx(p, t) ==
    /\ p \in Reading
    /\ t \in inv[p] \cup (Listed \cap inWallet)
    /\ TakeCallback(t)
    /\ timed' = CancelTimeout(p, t)
    /\ \/ \* t is valid
          /\ pub' = [pub EXCEPT ![t] = WithoutCallback(t)]
          /\ owner' = [owner EXCEPT ![t] = IF t \in inWallet THEN @ ELSE "wallet"]
          /\ inWallet' = inWallet \cup {t}
       \/ \* EINVAL; t is still sent if the wallet has it
          /\ pub' = [pub EXCEPT ![t] = "gone"]
          /\ owner' = [owner EXCEPT ![t] = IF t \in inWallet THEN @ ELSE "freed"]
          /\ UNCHANGED inWallet
    /\ Announce({})
    /\ UNCHANGED <<status, load, mgrVars, thrVars, calls>>

\* What _peerHasTx and _peerRelayedTx have in common.  The sync timeout is
\* rescheduled for a transaction of the wallet.
HeardOf(p, t) ==
    /\ p \in Reading
    /\ TakeCallback(t)
    /\ timed' = CancelTimeout(p, t) \cup
                (IF syncing /\ p = downloadPeer /\ t \in inWallet' THEN {p} ELSE {})
    /\ Announce({})
    /\ UNCHANGED <<status, load, mgrVars, thrVars, calls>>

\* _peerHasTx: p announces t; the pointer of the list is registered.
HasTx(p, t) ==
    /\ t \in inv[p] \/ pub[t] \in {"listed", "gone", "confirmed"}
    /\ pub' = [pub EXCEPT ![t] = WithoutCallback(t)]
    /\ IF t \in Listed \ inWallet
         THEN /\ inWallet' = inWallet \cup {t}
              /\ owner' = [owner EXCEPT ![t] = "wallet"]
         ELSE UNCHANGED <<inWallet, owner>>
    /\ HeardOf(p, t)

\* _peerRelayedTx: p sends t, which is on the network by now; the wallet registers that copy of it, and lists its
\* own if t is valid, unconfirmed and not listed.
RelayedTx(p, t) ==
    /\ t \in inWallet
    /\ UNCHANGED inWallet
    /\ \/ /\ pub' = [pub EXCEPT ![t] = WithoutCallback(t)]
          /\ UNCHANGED owner
       \/ /\ pub[t] = "gone"
          /\ pub' = [pub EXCEPT ![t] = "listed"]
          /\ owner' = [owner EXCEPT ![t] = "wallet"]
    /\ HeardOf(p, t)

\* _PeerManagerUpdateTx for a confirmed t.
Confirmed(t) ==
    /\ pub' = [pub EXCEPT ![t] = "confirmed"]
    /\ owner' = [owner EXCEPT ![t] =
                    IF t \in Listed /\ t \notin inWallet THEN "freed" ELSE @]
    /\ UNCHANGED <<inWallet, due, calls>>

\* _peerRelayedBlock, for a block that extends the chain, with the t it confirms: one
\* that is on the network.
RelayedBlock(p) ==
    /\ p \in Reading
    /\ UNCHANGED txVars \/ \E t \in Tx : t \in inWallet /\ pub[t] # "confirmed" /\ Confirmed(t)
    /\ \/ \* still below the height of the download peer, or far above it
          /\ IF behind /\ p = downloadPeer
               THEN failures' = 0 /\ timed' = timed \cup {p}
               ELSE UNCHANGED <<failures, timed>>
          /\ UNCHANGED <<behind, inv, load>>
       \/ \* chain download is complete
          /\ behind
          /\ behind' = FALSE
          /\ \E high \in BOOLEAN :
                LET first == FilterFirst(Connected, downloadPeer, high)
                IN  /\ Announce(first)
                    /\ timed' = Timed(timed, first)
                    /\ LoadMempools(Connected, downloadPeer, high)
          /\ UNCHANGED failures
    /\ UNCHANGED <<status, downloadPeer, syncing, thrVars>>

\* _loadBloomFilterDone, success: the mempool is requested, if it was not before.
LoadBloomFilterDone(p) ==
    /\ p \in Reading
    /\ load[p] = "filter"
    /\ load' = [load EXCEPT ![p] = "mempool"]
    /\ UNCHANGED <<status, timed, inv, mgrVars, thrVars, txVars>>

\* _mempoolDone, success: the sync is finished.
MempoolDone(p) ==
    /\ p \in Reading
    /\ load[p] = "mempool"
    /\ load' = [load EXCEPT ![p] = "done"]
    /\ IF syncing THEN SyncStopped ELSE UNCHANGED <<syncing, timed>>
    /\ UNCHANGED <<status, inv, downloadPeer, behind, failures>>
    /\ UNCHANGED <<thrVars, txVars>>

-----------------------------------------------------------------------------
(* A peer's thread: its end.                                                *)

\* The callbacks that wait for a pong are told of the failure:
\* _loadBloomFilterDone stops the sync if p is the download peer.
ThreadEnds(p) ==
    /\ status[p] \in {"connecting", "connected", "closed"}
    /\ status' = [status EXCEPT ![p] = "ended"]
    /\ IF load[p] = "filter" /\ p = downloadPeer
         THEN SyncStopped ELSE UNCHANGED <<syncing, timed>>
    /\ UNCHANGED <<inv, load, downloadPeer, behind, failures>>
    /\ UNCHANGED <<thrVars, txVars>>

\* A timeout is taken for that of the publication, except a sync timeout while
\* other peers are left.
PublishTimeout(p, error) ==
    /\ error = "ETIMEDOUT"
    /\ p # downloadPeer \/ ~syncing \/ ConnectedPeers = {p}

\* connectFailureCount after p's end.  Above MAX_CONNECT_FAILURES its value makes
\* no difference any more.
FailuresAfter(p, error) ==
    LET n == IF error = "none" THEN failures ELSE failures + 1
        max == IF p = downloadPeer THEN MaxConnectFailures ELSE MaxConnectFailures + 1
    IN  IF n > max THEN max ELSE n

\* mutant: the entry stays in publishedTx
CancelPending_Kept ==
    /\ owner' = [t \in Tx |-> IF t \in Pending THEN "freed" ELSE owner[t]]
    /\ due' = [t \in Tx |-> IF t \in Pending THEN due[t] + 1 ELSE due[t]]
    /\ UNCHANGED pub

\* Cancels every pending callback and frees its transaction.
CancelPending ==
    /\ pub' = [t \in Tx |-> IF t \in Pending THEN "gone" ELSE pub[t]]
    /\ owner' = [t \in Tx |-> IF t \in Pending THEN "freed" ELSE owner[t]]
    /\ due' = [t \in Tx |-> IF t \in Pending THEN due[t] + 1 ELSE due[t]]

\* mutant: only an idle download peer is forgotten
DownloadPeerAfter_Idle(p) ==
    IF p = downloadPeer /\ ~syncing THEN None ELSE downloadPeer

DownloadPeerAfter(p) == IF p = downloadPeer THEN None ELSE downloadPeer

\* _peerDisconnected up to the unlock.
PeerDisconnected(p, error) ==
    LET dl == DownloadPeerAfter(p)
        giveUp == dl = None /\ failures' = MaxConnectFailures
    IN  /\ status[p] = "ended"
        /\ failures' = FailuresAfter(p, error)
        /\ downloadPeer' = dl
        /\ syncing' = (syncing /\ ~giveUp)
        /\ IF giveUp \/ PublishTimeout(p, error) THEN CancelPending
                                                 ELSE UNCHANGED <<pub, owner, due>>
        /\ IF failures' < MaxConnectFailures
             THEN reconnect + midConnect < MaxThreads /\ reconnect' = reconnect + 1
             ELSE UNCHANGED reconnect
        /\ status' = [status EXCEPT ![p] = "none"]
        /\ timed' = timed \ {p}
        /\ inv' = [q \in Peer |-> IF q = p THEN {} ELSE inv[q] \cap Pending']
        /\ load' = [load EXCEPT ![p] = "no"]
        /\ UNCHANGED <<behind, midConnect, inWallet, calls>>

\* "none": no error, or EPROTO, which is not counted as a failure.
ErrorCode == {"none", "ETIMEDOUT", "other"}

-----------------------------------------------------------------------------
PeerStep(p) ==
    \/ ConnectedMisfit(p)
    \/ ConnectedOther(p)
    \/ ConnectedDownload(p)
    \/ \E t \in Tx : \/ RequestedTx(p, t)
                     \/ HasTx(p, t)
                     \/ RelayedTx(p, t)
    \/ RelayedBlock(p)
    \/ LoadBloomFilterDone(p)
    \/ MempoolDone(p)
    \/ ThreadEnds(p)
    \/ \E error \in ErrorCode : PeerDisconnected(p, error)

Next ==
    \/ Connect(0)
    \/ Connect(1)
    \/ ConnectRelocked
    \/ Disconnect
    \/ \E t \in Tx : PublishTx(t) \/ PublishTxRelocked(t) \/ CallCallback(t)
    \/ \E p \in Peer : PeerStep(p)

Spec == Init /\ [][Next]_vars

-----------------------------------------------------------------------------
(* Properties.                                                              *)

\* Every variable keeps to the values the code gives it.
TypeOK ==
    /\ status \in [Peer -> PeerStatus]
    /\ timed \subseteq Peer
    /\ inv \in [Peer -> SUBSET Tx]
    /\ load \in [Peer -> {"no", "filter", "mempool", "done"}]
    /\ downloadPeer \in Peer \cup {None}
    /\ syncing \in BOOLEAN
    /\ behind \in BOOLEAN
    /\ failures \in 0 .. MaxConnectFailures + 1
    /\ reconnect \in 0 .. MaxThreads
    /\ midConnect \in 0 .. MaxThreads
    /\ pub \in [Tx -> PubState]
    /\ owner \in [Tx -> {"app", "list", "wallet", "freed"}]
    /\ inWallet \subseteq Tx
    /\ due \in [Tx -> Nat]
    /\ calls \in [Tx -> Nat]

\* Where the callback of t is: with PublishTx or in the list, taken, or called.
Stage(t) ==
    CASE calls[t] = 0 /\ (pub[t] \in {"asking", "pending"} \/ due[t] = 1) -> "waiting"
      [] calls[t] = 1 /\ due[t] = 0 /\ pub[t] \notin {"asking", "pending"} -> "called"
      [] calls[t] = 0 /\ due[t] = 0 /\ pub[t] = "new" -> "idle"
      [] OTHER -> "broken"

Promise == INSTANCE PublishPromise WITH stage <- [t \in Tx |-> Stage(t)]

\* However requests, timeouts, failures and confirmations of several peers
\* interleave, the callback given to BRPeerManagerPublishTx is held by exactly one
\* of PublishTx, the list and a thread about to call it, until it is called once.
CalledOnce == Promise!PSpec

\* _peerDisconnected frees the transactions whose callbacks it cancels without
\* asking the wallet: one with a pending callback is never the wallet's, and has
\* not been freed.
PendingIsListsOwn == \A t \in Pending : owner[t] = "list" /\ t \notin inWallet

\* A peer that was told of a transaction whose callback is still pending has a
\* disconnect scheduled: no silent peer can hold the callback up for ever.
AnnouncedIsTimed ==
    \A p \in Connected : inv[p] \cap Pending # {} => p \in timed

\* manager->downloadPeer, used by handlers of every peer's thread, never points to
\* a peer that _peerDisconnected has freed, also when the peer it belonged to was
\* replaced or ends while others connect.
DownloadPeerLive == downloadPeer # None => downloadPeer \in ConnectedPeers
=============================================================================
