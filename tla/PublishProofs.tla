--------------------------- MODULE PublishProofs ----------------------------
(***************************************************************************)
(* Proofs about Publish for every set of peers and of transactions.        *)
(*                                                                         *)
(* The properties hold because of where a transaction is: as long as its   *)
(* callback waits, no thread has taken it and the wallet has not seen the  *)
(* transaction; afterwards exactly one thread has taken or called it.      *)
(* Peers know of pending transactions only, and only after the handshake.  *)
(***************************************************************************)
EXTENDS Publish, TLAPS

\* where t is decides who holds its callback and who owns it
TxInv ==
  \A t \in Tx :
    /\ pub[t] \in {"new", "asking", "pending"} =>
         due[t] = 0 /\ calls[t] = 0 /\ t \notin inWallet
    /\ pub[t] \in {"listed", "gone", "confirmed"} => due[t] + calls[t] = 1
    /\ pub[t] = "pending" => owner[t] = "list"

\* a peer is told of pending transactions only, after its handshake
InvInv ==
  \A p \in Peer : /\ inv[p] \subseteq Pending
                  /\ status[p] \in {"none", "connecting"} => inv[p] = {}

\* the inductive invariant
IInv == TypeOK /\ TxInv /\ InvInv /\ AnnouncedIsTimed /\ DownloadPeerLive

-----------------------------------------------------------------------------
(* Types *)

LEMMA ConnectTypes ==
  ASSUME PublishAssumption, TypeOK
  PROVE  /\ Connect(0) => TypeOK'
         /\ Connect(1) => TypeOK'
         /\ ConnectRelocked => TypeOK'
         /\ Disconnect => TypeOK'
<1>1. ASSUME ConnectPeers
      PROVE  /\ status' \in [Peer -> PeerStatus] /\ timed' \subseteq Peer
             /\ syncing' \in BOOLEAN /\ inv' = inv /\ load' = load
             /\ downloadPeer' = downloadPeer /\ behind' = behind /\ UNCHANGED txVars
  BY <1>1 DEF ConnectPeers, TypeOK, PeerStatus, txVars
<1>2. ASSUME NEW n \in {0, 1}, Connect(n)
      PROVE  TypeOK'
  <2>1. reconnect' \in 0 .. MaxThreads /\ failures' \in 0 .. MaxConnectFailures + 1
    BY <1>2 DEF Connect, TypeOK, PublishAssumption
  <2>2. CASE midConnect' = midConnect + 1 /\ reconnect' + midConnect < MaxThreads
             /\ UNCHANGED <<peerVars, downloadPeer, behind, txVars>> /\ syncing' \in BOOLEAN
    <3>1. midConnect' \in 0 .. MaxThreads
      <4>1. MaxThreads \in Nat /\ midConnect \in Nat /\ reconnect' \in Nat
        BY <2>1 DEF TypeOK, PublishAssumption
      <4>2. midConnect' = midConnect + 1 /\ reconnect' + midConnect < MaxThreads
        BY <2>2
      <4>3. midConnect + 1 \in 0 .. MaxThreads
        <5>1. \A a, b, c \in Nat : a + b < c => b + 1 \in 0 .. c
          OBVIOUS
        <5>2. QED
          BY <4>1, <4>2, <5>1
      <4>4. QED
        BY <4>2, <4>3
    <3>2. QED
      BY <2>1, <2>2, <3>1 DEF TypeOK, peerVars, txVars
  <2>3. CASE ConnectPeers /\ UNCHANGED midConnect
    BY <1>1, <2>1, <2>3 DEF TypeOK, txVars
  <2>4. QED
    BY <1>2, <2>2, <2>3 DEF Connect, TypeOK
<1>3. ConnectRelocked => TypeOK'
  BY <1>1 DEF ConnectRelocked, TypeOK, txVars, PublishAssumption
<1>4. Disconnect => TypeOK'
  BY DEF Disconnect, TypeOK, peerVars, thrVars, txVars, PublishAssumption
<1>5. QED
  BY <1>2, <1>3, <1>4

LEMMA PublishTypes ==
  ASSUME PublishAssumption, TypeOK, NEW t \in Tx
  PROVE  /\ PublishTx(t) => TypeOK'
         /\ PublishTxRelocked(t) => TypeOK'
         /\ CallCallback(t) => TypeOK'
<1>1. AddAndAnnounce(t) => TypeOK'
  BY DEF AddAndAnnounce, Announce, Timed, Connected, Pending, TypeOK, PubState,
         mgrVars, thrVars
<1>2. PublishTx(t) => TypeOK'
  BY <1>1 DEF PublishTx, TypeOK, PubState, peerVars, mgrVars, thrVars
<1>3. PublishTxRelocked(t) => TypeOK'
  BY <1>1 DEF PublishTxRelocked
<1>4. CallCallback(t) => TypeOK'
  BY DEF CallCallback, TypeOK, peerVars, mgrVars, thrVars
<1>5. QED
  BY <1>2, <1>3, <1>4

LEMMA LoadMempoolsType ==
  ASSUME TypeOK, NEW C, NEW dl, NEW high, LoadMempools(C, dl, high)
  PROVE  load' \in [Peer -> {"no", "filter", "mempool", "done"}]
  BY DEF LoadMempools, TypeOK

LEMMA HandshakeTypes ==
  ASSUME PublishAssumption, TypeOK, NEW p \in Peer
  PROVE  /\ ConnectedMisfit(p) => TypeOK'
         /\ ConnectedOther(p) => TypeOK'
         /\ ConnectedDownload(p) => TypeOK'
<1>1. ConnectedMisfit(p) => TypeOK'
  BY DEF ConnectedMisfit, Handshake, TypeOK, PeerStatus, mgrVars, thrVars, txVars
<1>2. ConnectedOther(p) => TypeOK'
  BY DEF ConnectedOther, Handshake, Announce, Timed, Pending, TypeOK, PeerStatus,
         thrVars, txVars, PublishAssumption
<1>3. ConnectedDownload(p) => TypeOK'
  <2> SUFFICES ASSUME ConnectedDownload(p) PROVE TypeOK'
    OBVIOUS
  <2>1. load' \in [Peer -> {"no", "filter", "mempool", "done"}]
    BY LoadMempoolsType DEF ConnectedDownload, TypeOK
  <2>2. Connected \subseteq Peer
    BY DEF Connected
  <2>3. timed' \subseteq Peer /\ inv' \in [Peer -> SUBSET Tx] /\ downloadPeer' \in Peer
    BY <2>2 DEF ConnectedDownload, Announce, Timed, Pending, TypeOK
  <2>4. failures' \in 0 .. MaxConnectFailures + 1 /\ behind' \in BOOLEAN
    BY DEF ConnectedDownload, TypeOK, PublishAssumption
  <2>5. QED
    BY <2>1, <2>3, <2>4 DEF ConnectedDownload, Handshake, TypeOK, PeerStatus, thrVars, txVars
<1>4. QED
  BY <1>1, <1>2, <1>3

LEMMA RelayTypes ==
  ASSUME PublishAssumption, TypeOK, NEW p \in Peer, NEW t \in Tx
  PROVE  /\ RequestedTx(p, t) => TypeOK'
         /\ HasTx(p, t) => TypeOK'
         /\ RelayedTx(p, t) => TypeOK'
<1>1. ASSUME TakeCallback(t) PROVE due' \in [Tx -> Nat]
  BY <1>1 DEF TakeCallback, TypeOK
<1>2. CancelTimeout(p, t) \subseteq Peer
  BY DEF CancelTimeout, TypeOK
<1>3. WithoutCallback(t) \in PubState
  BY DEF WithoutCallback, TypeOK, PubState
<1>4. Pending' \subseteq Tx
  BY DEF Pending
<1>5. ASSUME Announce({}) PROVE inv' \in [Peer -> SUBSET Tx]
  BY <1>4, <1>5 DEF Announce
<1>6. RequestedTx(p, t) => TypeOK'
  BY <1>1, <1>2, <1>3, <1>5 DEF RequestedTx, TypeOK, PubState, mgrVars, thrVars
<1>7. ASSUME HeardOf(p, t), pub' \in [Tx -> PubState], inWallet' \subseteq Tx,
             owner' \in [Tx -> {"app", "list", "wallet", "freed"}]
      PROVE  TypeOK'
  BY <1>1, <1>2, <1>5, <1>7 DEF HeardOf, TypeOK, mgrVars, thrVars
<1>8. HasTx(p, t) => TypeOK'
  BY <1>3, <1>7 DEF HasTx, TypeOK
<1>9. RelayedTx(p, t) => TypeOK'
  BY <1>3, <1>7 DEF RelayedTx, TypeOK, PubState
<1>10. QED
  BY <1>6, <1>8, <1>9

LEMMA BlockTypes ==
  ASSUME PublishAssumption, TypeOK, NEW p \in Peer
  PROVE  /\ RelayedBlock(p) => TypeOK'
         /\ LoadBloomFilterDone(p) => TypeOK'
         /\ MempoolDone(p) => TypeOK'
<1>1. ASSUME RelayedBlock(p) PROVE TypeOK'
  <2>1. /\ pub' \in [Tx -> PubState] /\ inWallet' \subseteq Tx
        /\ owner' \in [Tx -> {"app", "list", "wallet", "freed"}]
        /\ due' \in [Tx -> Nat] /\ calls' \in [Tx -> Nat]
    BY <1>1 DEF RelayedBlock, Confirmed, TypeOK, PubState, txVars
  <2>2. Pending' \subseteq Tx
    BY DEF Pending
  <2>3. \A high \in BOOLEAN : FilterFirst(Connected, downloadPeer, high) \subseteq Peer
    BY DEF FilterFirst, Connected
  <2>4. timed' \subseteq Peer /\ inv' \in [Peer -> SUBSET Tx]
    BY <1>1, <2>2, <2>3 DEF RelayedBlock, Announce, Timed, TypeOK
  <2>5. load' \in [Peer -> {"no", "filter", "mempool", "done"}]
    BY <1>1, LoadMempoolsType DEF RelayedBlock, TypeOK
  <2>6. failures' \in 0 .. MaxConnectFailures + 1
    BY <1>1 DEF RelayedBlock, TypeOK, PublishAssumption
  <2>7. behind' \in BOOLEAN
    BY <1>1 DEF RelayedBlock, TypeOK
  <2>8. QED
    BY <1>1, <2>1, <2>4, <2>5, <2>6, <2>7 DEF RelayedBlock, TypeOK, thrVars
<1>2. LoadBloomFilterDone(p) => TypeOK'
  BY DEF LoadBloomFilterDone, TypeOK, mgrVars, thrVars, txVars
<1>3. MempoolDone(p) => TypeOK'
  BY DEF MempoolDone, SyncStopped, TypeOK, thrVars, txVars
<1>4. QED
  BY <1>1, <1>2, <1>3

LEMMA EndTypes ==
  ASSUME PublishAssumption, TypeOK, NEW p \in Peer, NEW error \in ErrorCode
  PROVE  /\ ThreadEnds(p) => TypeOK'
         /\ PeerDisconnected(p, error) => TypeOK'
<1>1. ThreadEnds(p) => TypeOK'
  BY DEF ThreadEnds, SyncStopped, TypeOK, PeerStatus, thrVars, txVars
<1>2. ASSUME PeerDisconnected(p, error) PROVE TypeOK'
  <2>1. failures' \in 0 .. MaxConnectFailures + 1
    BY <1>2 DEF PeerDisconnected, FailuresAfter, TypeOK, PublishAssumption
  <2>2. reconnect' \in 0 .. MaxThreads
    BY <1>2 DEF PeerDisconnected, TypeOK, PublishAssumption
  <2>3. /\ pub' \in [Tx -> PubState] /\ due' \in [Tx -> Nat]
        /\ owner' \in [Tx -> {"app", "list", "wallet", "freed"}]
    BY <1>2 DEF PeerDisconnected, CancelPending, TypeOK, PubState
  <2>4. inv' \in [Peer -> SUBSET Tx]
    BY <1>2 DEF PeerDisconnected, TypeOK
  <2>5. downloadPeer' \in Peer \cup {None} /\ syncing' \in BOOLEAN
    BY <1>2 DEF PeerDisconnected, DownloadPeerAfter, TypeOK
  <2>6. QED
    BY <1>2, <2>1, <2>2, <2>3, <2>4, <2>5 DEF PeerDisconnected, TypeOK, PeerStatus
<1>3. QED
  BY <1>1, <1>2

\* every step keeps the types
LEMMA NextTypes ==
  ASSUME PublishAssumption, TypeOK, [Next]_vars
  PROVE  TypeOK'
<1>1. CASE UNCHANGED vars
  BY <1>1 DEF vars, peerVars, mgrVars, thrVars, txVars, TypeOK
<1>2. CASE Next
  <2>1. ASSUME NEW p \in Peer, PeerStep(p) PROVE TypeOK'
    BY <2>1, HandshakeTypes, RelayTypes, BlockTypes, EndTypes DEF PeerStep, ErrorCode
  <2>2. QED
    BY <1>2, <2>1, ConnectTypes, PublishTypes DEF Next
<1>3. QED
  BY <1>1, <1>2

-----------------------------------------------------------------------------
(* Who holds the callback and who owns the transaction *)

\* the loop over publishedTx takes a callback out of the list
LEMMA TakeKeepsTx ==
  ASSUME TypeOK, TxInv, NEW t \in Tx, TakeCallback(t), calls' = calls,
         pub' = [pub EXCEPT ![t] = WithoutCallback(t)],
         inWallet' \in {inWallet, inWallet \cup {t}},
         pub[t] \notin {"new", "asking"},
         \A s \in Tx \ {t} : owner'[s] = owner[s]
  PROVE  TxInv'
  BY DEF TakeCallback, WithoutCallback, TypeOK, PubState, TxInv

LEMMA AddKeepsTx ==
  ASSUME TypeOK, TxInv, NEW t \in Tx, AddAndAnnounce(t), pub[t] \in {"new", "asking"}
  PROVE  TxInv'
  BY DEF AddAndAnnounce, TypeOK, TxInv

\* no step breaks TxInv; inv is needed to know that a peer asks for pending ones only
LEMMA NextTx ==
  ASSUME TypeOK, TxInv, InvInv, [Next]_vars
  PROVE  TxInv'
<1>0. ASSUME UNCHANGED txVars PROVE TxInv'
  BY <1>0 DEF txVars, TxInv
<1>1. CASE UNCHANGED vars
  BY <1>0, <1>1 DEF vars
<1>2. ASSUME NEW n \in {0, 1}, Connect(n) PROVE TxInv'
  BY <1>0, <1>2 DEF Connect, ConnectPeers
<1>3. CASE ConnectRelocked
  BY <1>0, <1>3 DEF ConnectRelocked, ConnectPeers
<1>4. CASE Disconnect
  BY <1>0, <1>4 DEF Disconnect
<1>5. ASSUME NEW t \in Tx, PublishTx(t) PROVE TxInv'
  BY <1>5, AddKeepsTx DEF PublishTx, TypeOK, TxInv
<1>6. ASSUME NEW t \in Tx, PublishTxRelocked(t) PROVE TxInv'
  BY <1>6, AddKeepsTx DEF PublishTxRelocked
<1>7. ASSUME NEW t \in Tx, CallCallback(t) PROVE TxInv'
  BY <1>7 DEF CallCallback, TypeOK, PubState, TxInv
<1>8. ASSUME NEW p \in Peer, PeerStep(p) PROVE TxInv'
  <2>1. ASSUME ConnectedMisfit(p) \/ ConnectedOther(p) \/ ConnectedDownload(p)
        PROVE  TxInv'
    BY <1>0, <2>1 DEF ConnectedMisfit, ConnectedOther, ConnectedDownload, Handshake
  <2>2. ASSUME NEW t \in Tx, RequestedTx(p, t) PROVE TxInv'
    <3>1. pub[t] \notin {"new", "asking"}
      BY <2>2 DEF RequestedTx, InvInv, Pending, Listed
    <3>2. CASE pub' = [pub EXCEPT ![t] = WithoutCallback(t)] /\ inWallet' = inWallet \cup {t}
                 /\ owner' = [owner EXCEPT ![t] = IF t \in inWallet THEN @ ELSE "wallet"]
      BY <2>2, <3>1, <3>2, TakeKeepsTx DEF RequestedTx, TypeOK
    <3>3. CASE pub' = [pub EXCEPT ![t] = "gone"] /\ inWallet' = inWallet
                 /\ owner' = [owner EXCEPT ![t] = IF t \in inWallet THEN @ ELSE "freed"]
      BY <2>2, <3>1, <3>3 DEF RequestedTx, TakeCallback, TypeOK, PubState, TxInv
    <3>4. QED
      BY <2>2, <3>2, <3>3 DEF RequestedTx
  <2>3. ASSUME NEW t \in Tx, HasTx(p, t) PROVE TxInv'
    <3>1. pub[t] \notin {"new", "asking"}
      BY <2>3 DEF HasTx, InvInv, Pending
    <3>2. QED
      BY <2>3, <3>1, TakeKeepsTx DEF HasTx, HeardOf, TypeOK
  <2>4. ASSUME NEW t \in Tx, RelayedTx(p, t) PROVE TxInv'
    <3>1. pub[t] \notin {"new", "asking", "pending"}
      BY <2>4 DEF RelayedTx, TxInv
    <3>2. CASE pub' = [pub EXCEPT ![t] = WithoutCallback(t)] /\ owner' = owner
      BY <2>4, <3>1, <3>2, TakeKeepsTx DEF RelayedTx, HeardOf, TypeOK
    <3>3. CASE pub[t] = "gone" /\ pub' = [pub EXCEPT ![t] = "listed"]
                 /\ owner' = [owner EXCEPT ![t] = "wallet"]
      BY <2>4, <3>1, <3>3 DEF RelayedTx, HeardOf, TakeCallback, TypeOK, TxInv
    <3>4. QED
      BY <2>4, <3>2, <3>3 DEF RelayedTx
  <2>5. ASSUME RelayedBlock(p) PROVE TxInv'
    <3>1. ASSUME NEW t \in Tx, t \in inWallet, Confirmed(t) PROVE TxInv'
      BY <3>1 DEF Confirmed, TypeOK, PubState, TxInv
    <3>2. QED
      BY <1>0, <2>5, <3>1 DEF RelayedBlock
  <2>6. ASSUME LoadBloomFilterDone(p) \/ MempoolDone(p) \/ ThreadEnds(p)
        PROVE  TxInv'
    BY <1>0, <2>6 DEF LoadBloomFilterDone, MempoolDone, ThreadEnds
  <2>7. ASSUME NEW error \in ErrorCode, PeerDisconnected(p, error) PROVE TxInv'
    <3>1. CASE UNCHANGED <<pub, owner, due>>
      BY <2>7, <3>1 DEF PeerDisconnected, TxInv
    <3>2. CASE CancelPending
      BY <2>7, <3>2 DEF PeerDisconnected, CancelPending, Pending, TypeOK, TxInv
    <3>3. QED
      BY <2>7, <3>1, <3>2 DEF PeerDisconnected
  <2>8. QED
    BY <1>8, <2>1, <2>2, <2>3, <2>4, <2>5, <2>6, <2>7 DEF PeerStep
<1>9. QED
  BY <1>1, <1>2, <1>3, <1>4, <1>5, <1>6, <1>7, <1>8 DEF Next

-----------------------------------------------------------------------------
(* What peers were told, and their disconnect times *)

\* what inv becomes when the peers of P are told of the pending transactions
LEMMA AnnounceInv ==
  ASSUME TypeOK, NEW P, Announce(P), NEW p \in Peer
  PROVE  /\ inv'[p] \subseteq Pending'
         /\ p \notin P => inv'[p] \subseteq inv[p]
  BY DEF Announce

\* the peers of P get a disconnect time with the announcement
LEMMA AnnouncedGetTimed ==
  ASSUME TypeOK, InvInv, AnnouncedIsTimed, NEW P, Announce(P), NEW T,
         Pending \subseteq Pending', Timed(T, P) \subseteq timed',
         \A p \in Connected' : inv[p] # {} => p \in Connected /\ p \in T
  PROVE  AnnouncedIsTimed'
<1> SUFFICES ASSUME NEW p \in Connected', inv'[p] \cap Pending' # {}
             PROVE  p \in timed'
  BY DEF AnnouncedIsTimed
<1>1. p \in Peer /\ Pending' # {}
  BY DEF Connected
<1>2. T \cup P \subseteq timed'
  BY <1>1 DEF Timed
<1>3. CASE p \in P
  BY <1>2, <1>3
<1>4. CASE p \notin P
  BY <1>1, <1>2, <1>4, AnnounceInv
<1>5. QED
  BY <1>3, <1>4

\* nothing is announced and nobody gets a disconnect time cancelled that is needed
LEMMA StillTimed ==
  ASSUME TypeOK, InvInv, AnnouncedIsTimed,
         \A p \in Peer : inv'[p] \subseteq inv[p] \cap Pending',
         \A p \in Connected' : inv'[p] # {} => p \in Connected /\ (p \in timed => p \in timed')
  PROVE  AnnouncedIsTimed'
<1> SUFFICES ASSUME NEW p \in Connected', inv'[p] \cap Pending' # {}
             PROVE  p \in timed'
  BY DEF AnnouncedIsTimed
<1>1. p \in Peer
  BY DEF Connected
<1>2. p \in Connected /\ inv[p] # {} /\ inv[p] \subseteq Pending
  BY <1>1 DEF InvInv
<1>3. QED
  BY <1>1, <1>2 DEF AnnouncedIsTimed

\* the peer-side part of the inductive invariant
PeerInv == InvInv /\ AnnouncedIsTimed /\ DownloadPeerLive

LEMMA ConnectPeersInv ==
  ASSUME TypeOK, PeerInv, ConnectPeers
  PROVE  PeerInv'
<1>1. Pending' = Pending /\ inv' = inv /\ timed \subseteq timed'
  BY DEF ConnectPeers, Pending, txVars
<1>2. PICK S \in SUBSET (Peer \ ConnectedPeers) :
         status' = [p \in Peer |-> IF p \in S THEN "connecting" ELSE status[p]]
  BY DEF ConnectPeers
<1>3. Connected' = Connected /\ ConnectedPeers \subseteq ConnectedPeers'
  BY <1>2 DEF Connected, ConnectedPeers, TypeOK
<1>4. InvInv'
  BY <1>1, <1>2 DEF InvInv, PeerInv, ConnectedPeers, TypeOK
<1>5. AnnouncedIsTimed'
  BY <1>1, <1>3, StillTimed DEF PeerInv, InvInv
<1>6. DownloadPeerLive'
  BY <1>3 DEF DownloadPeerLive, PeerInv, ConnectPeers
<1>7. QED
  BY <1>4, <1>5, <1>6 DEF PeerInv

LEMMA AddKeepsPeers ==
  ASSUME TypeOK, TxInv, PeerInv, NEW t \in Tx, AddAndAnnounce(t)
  PROVE  PeerInv'
<1>1. PICK to : Announce(to) /\ timed' = Timed(timed, to) /\ to \subseteq Connected
  BY DEF AddAndAnnounce
<1>2. Pending \subseteq Pending' /\ Connected' = Connected /\ ConnectedPeers' = ConnectedPeers
  BY DEF AddAndAnnounce, Pending, Connected, ConnectedPeers, TypeOK
<1>3. InvInv'
  BY <1>1, AnnounceInv DEF InvInv, PeerInv, AddAndAnnounce, Connected
<1>4. AnnouncedIsTimed'
  <2>1. \A p \in Connected' : inv[p] # {} => p \in Connected /\ p \in timed
    BY <1>2 DEF PeerInv, InvInv, AnnouncedIsTimed, Connected
  <2>2. QED
    BY <1>1, <1>2, <2>1, AnnouncedGetTimed DEF PeerInv
<1>5. DownloadPeerLive'
  BY <1>2 DEF DownloadPeerLive, PeerInv, AddAndAnnounce, mgrVars
<1>6. QED
  BY <1>3, <1>4, <1>5 DEF PeerInv

LEMMA HandshakeKeepsPeers ==
  ASSUME TypeOK, PeerInv, NEW p \in Peer,
         ConnectedMisfit(p) \/ ConnectedOther(p) \/ ConnectedDownload(p)
  PROVE  PeerInv'
<1>1. /\ status[p] = "connecting" /\ inv[p] = {} /\ Pending' = Pending
      /\ \E st \in {"closed", "connected"} : status' = [status EXCEPT ![p] = st]
  BY DEF ConnectedMisfit, ConnectedOther, ConnectedDownload, Handshake, txVars, Pending,
         PeerInv, InvInv
<1>2. Connected' = Connected \cup {p} /\ ConnectedPeers' = ConnectedPeers
  BY <1>1 DEF Connected, ConnectedPeers, TypeOK
<1>3. \A q \in Connected' : inv[q] # {} => q \in Connected /\ q \in timed \ {p}
  BY <1>1, <1>2 DEF PeerInv, InvInv, AnnouncedIsTimed, Connected
<1>4. CASE inv' = inv /\ timed' = timed \ {p} /\ downloadPeer' = downloadPeer
  <2>1. InvInv'
    BY <1>1, <1>4 DEF InvInv, PeerInv, TypeOK
  <2>2. AnnouncedIsTimed'
    BY <1>2, <1>3, <1>4 DEF AnnouncedIsTimed
  <2>3. QED
    BY <1>2, <1>4, <2>1, <2>2 DEF PeerInv, DownloadPeerLive
<1>5. ASSUME NEW to, to \subseteq Connected', Announce(to), Timed(timed \ {p}, to) \subseteq timed',
             downloadPeer' = downloadPeer \/ downloadPeer' \in Connected'
      PROVE  PeerInv'
  <2>1. InvInv'
    BY <1>1, <1>2, <1>5, AnnounceInv DEF InvInv, PeerInv, TypeOK, Connected
  <2>2. AnnouncedIsTimed'
    BY <1>1, <1>3, <1>5, AnnouncedGetTimed DEF PeerInv
  <2>3. DownloadPeerLive'
    BY <1>2, <1>5 DEF PeerInv, DownloadPeerLive, Connected, ConnectedPeers
  <2>4. QED
    BY <2>1, <2>2, <2>3 DEF PeerInv
<1>6. CASE ConnectedMisfit(p)
  BY <1>4, <1>6 DEF ConnectedMisfit, mgrVars
<1>7. CASE ConnectedOther(p)
  BY <1>2, <1>4, <1>5, <1>7 DEF ConnectedOther
<1>8. CASE ConnectedDownload(p)
  <2>1. PICK q \in Connected \cup {p}, b \in BOOLEAN :
          /\ downloadPeer' = q
          /\ Announce(IF b THEN {q} ELSE Connected \cup {p})
          /\ timed' = Timed(timed \ {p}, IF b THEN {q} ELSE Connected \cup {p})
                        \cup (IF b THEN {q} ELSE {})
    BY <1>8 DEF ConnectedDownload
  <2>2. QED
    BY <1>2, <1>5, <2>1
<1>9. QED
  BY <1>6, <1>7, <1>8

LEMMA RelayKeepsPeers ==
  ASSUME TypeOK, TxInv, PeerInv, NEW p \in Peer, NEW t \in Tx,
         RequestedTx(p, t) \/ HasTx(p, t) \/ RelayedTx(p, t)
  PROVE  PeerInv'
<1>1. /\ Announce({}) /\ UNCHANGED <<status, mgrVars>>
      /\ CancelTimeout(p, t) \subseteq timed'
  BY DEF RequestedTx, HasTx, RelayedTx, HeardOf
<1>2. \A s \in Tx : s \in Pending' => s \in Pending /\ s # t
  BY DEF RequestedTx, HasTx, RelayedTx, HeardOf, WithoutCallback, Pending, TypeOK
<1>3. \A q \in Peer : inv'[q] \subseteq inv[q] \cap Pending'
  BY <1>1, AnnounceInv
<1>4. InvInv'
  BY <1>1, <1>3 DEF InvInv, PeerInv
<1>5. \A q \in Peer : q \in timed /\ Pending' # {} => q \in timed'
  BY <1>1, <1>2 DEF CancelTimeout, Pending
<1>6. Connected' = Connected /\ ConnectedPeers' = ConnectedPeers /\ downloadPeer' = downloadPeer
  BY <1>1 DEF Connected, ConnectedPeers, mgrVars
<1>7. AnnouncedIsTimed'
  BY <1>3, <1>5, <1>6, StillTimed DEF PeerInv, Connected
<1>8. QED
  BY <1>4, <1>6, <1>7 DEF PeerInv, DownloadPeerLive

LEMMA BlockKeepsPeers ==
  ASSUME TypeOK, TxInv, PeerInv, NEW p \in Peer, RelayedBlock(p)
  PROVE  PeerInv'
<1>1. Pending' = Pending
  <2>1. ASSUME NEW t \in Tx, t \in inWallet, Confirmed(t) PROVE Pending' = Pending
    BY <2>1 DEF Confirmed, TxInv, Pending, TypeOK
  <2>2. QED
    BY <2>1 DEF RelayedBlock, txVars, Pending
<1>2. /\ Connected' = Connected /\ ConnectedPeers' = ConnectedPeers
      /\ status' = status /\ downloadPeer' = downloadPeer
  BY DEF RelayedBlock, Connected, ConnectedPeers
<1>3. \A q \in Connected : inv[q] # {} => q \in timed
  BY DEF PeerInv, InvInv, AnnouncedIsTimed, Connected
<1>4. CASE inv' = inv /\ timed \subseteq timed'
  BY <1>1, <1>2, <1>4 DEF PeerInv, InvInv, AnnouncedIsTimed, DownloadPeerLive
<1>5. ASSUME NEW high, LET first == FilterFirst(Connected, downloadPeer, high)
                       IN  Announce(first) /\ timed' = Timed(timed, first)
      PROVE  PeerInv'
  <2>1. FilterFirst(Connected, downloadPeer, high) \subseteq Connected
    BY DEF FilterFirst
  <2>2. InvInv'
    BY <1>2, <1>5, <2>1, AnnounceInv DEF PeerInv, InvInv, Connected
  <2>3. AnnouncedIsTimed'
    BY <1>1, <1>2, <1>3, <1>5, AnnouncedGetTimed DEF PeerInv
  <2>4. QED
    BY <1>2, <2>2, <2>3 DEF PeerInv, DownloadPeerLive
<1>6. QED
  BY <1>4, <1>5 DEF RelayedBlock

LEMMA EndKeepsPeers ==
  ASSUME PublishAssumption, TypeOK, PeerInv, NEW p \in Peer
  PROVE  /\ MempoolDone(p) => PeerInv'
         /\ ThreadEnds(p) => PeerInv'
         /\ \A error \in ErrorCode : PeerDisconnected(p, error) => PeerInv'
<1>1. ASSUME SyncStopped \/ timed' = timed, inv' = inv, UNCHANGED txVars,
             downloadPeer' = downloadPeer,
             status' = status \/ status' = [status EXCEPT ![p] = "ended"]
      PROVE  PeerInv'
  <2>1. Pending' = Pending
    BY <1>1 DEF Pending, txVars
  <2>2. Connected' \subseteq Connected
    BY <1>1 DEF Connected, TypeOK
  <2>3. \A q \in Peer : status[q] # "none" => status'[q] # "none"
    BY <1>1 DEF TypeOK
  <2>4. InvInv'
    BY <1>1, <2>1 DEF PeerInv, InvInv, TypeOK
  <2>5. Pending # {} => timed' = timed
    BY <1>1 DEF SyncStopped
  <2>6. AnnouncedIsTimed'
    BY <1>1, <2>1, <2>2, <2>5 DEF PeerInv, AnnouncedIsTimed
  <2>7. DownloadPeerLive'
    BY <1>1, <2>3 DEF PeerInv, DownloadPeerLive, ConnectedPeers
  <2>8. QED
    BY <2>4, <2>6, <2>7 DEF PeerInv
<1>2. MempoolDone(p) => PeerInv'
  BY <1>1 DEF MempoolDone
<1>3. ThreadEnds(p) => PeerInv'
  BY <1>1 DEF ThreadEnds
<1>4. ASSUME NEW error \in ErrorCode, PeerDisconnected(p, error) PROVE PeerInv'
  <2>1. /\ status[p] = "ended" /\ status' = [status EXCEPT ![p] = "none"]
        /\ inv' = [q \in Peer |-> IF q = p THEN {} ELSE inv[q] \cap Pending']
        /\ timed' = timed \ {p}
    BY <1>4 DEF PeerDisconnected
  <2>2. Connected' = Connected /\ p \notin Connected
    BY <2>1 DEF Connected, TypeOK
  <2>3. InvInv'
    BY <2>1 DEF PeerInv, InvInv, TypeOK
  <2>4. AnnouncedIsTimed'
    BY <2>1, <2>2, StillTimed DEF PeerInv
  <2>5. DownloadPeerLive'
    BY <1>4, <2>1 DEF PeerInv, DownloadPeerLive, ConnectedPeers, PeerDisconnected,
                      DownloadPeerAfter, TypeOK
  <2>6. QED
    BY <2>3, <2>4, <2>5 DEF PeerInv
<1>5. QED
  BY <1>2, <1>3, <1>4

LEMMA NextPeers ==
  ASSUME PublishAssumption, TypeOK, TxInv, PeerInv, [Next]_vars
  PROVE  PeerInv'
<1>0. ASSUME UNCHANGED <<status, timed, inv, downloadPeer, pub>> PROVE PeerInv'
  BY <1>0 DEF PeerInv, InvInv, AnnouncedIsTimed, DownloadPeerLive, Connected,
              ConnectedPeers, Pending
<1>1. CASE UNCHANGED vars
  BY <1>0, <1>1 DEF vars, peerVars, mgrVars, txVars
<1>2. ASSUME NEW n \in {0, 1}, Connect(n) PROVE PeerInv'
  BY <1>0, <1>2, ConnectPeersInv DEF Connect, peerVars, txVars
<1>3. CASE ConnectRelocked
  BY <1>3, ConnectPeersInv DEF ConnectRelocked
<1>4. CASE Disconnect
  BY <1>0, <1>4 DEF Disconnect, peerVars, txVars
<1>5. ASSUME NEW t \in Tx, PublishTx(t) \/ PublishTxRelocked(t) \/ CallCallback(t)
      PROVE  PeerInv'
  <2>1. ASSUME UNCHANGED <<status, timed, inv, downloadPeer>>, pub[t] = "new",
               pub' = [pub EXCEPT ![t] = "asking"] \/ pub' = [pub EXCEPT ![t] = "gone"]
        PROVE  PeerInv'
    <3>1. Pending' = Pending
      BY <2>1 DEF Pending, TypeOK
    <3>2. QED
      BY <2>1, <3>1 DEF PeerInv, InvInv, AnnouncedIsTimed, DownloadPeerLive, Connected,
                        ConnectedPeers
  <2>2. CASE PublishTx(t)
    BY <2>1, <2>2, AddKeepsPeers DEF PublishTx, peerVars, mgrVars
  <2>3. CASE PublishTxRelocked(t)
    BY <2>3, AddKeepsPeers DEF PublishTxRelocked
  <2>4. CASE CallCallback(t)
    BY <1>0, <2>4 DEF CallCallback, peerVars, mgrVars
  <2>5. QED
    BY <1>5, <2>2, <2>3, <2>4
<1>6. ASSUME NEW p \in Peer, PeerStep(p) PROVE PeerInv'
  <2>1. CASE LoadBloomFilterDone(p)
    BY <1>0, <2>1 DEF LoadBloomFilterDone, mgrVars, txVars
  <2>2. QED
    BY <1>6, <2>1, HandshakeKeepsPeers, RelayKeepsPeers, BlockKeepsPeers, EndKeepsPeers
       DEF PeerStep
<1>7. QED
  BY <1>1, <1>2, <1>3, <1>4, <1>5, <1>6 DEF Next

-----------------------------------------------------------------------------
(* Theorems *)

LEMMA InitIInv == Init => IInv
<1> SUFFICES ASSUME Init PROVE IInv
  OBVIOUS
<1>1. TypeOK
  <2>1. 0 \in 0 .. MaxConnectFailures + 1 /\ 0 \in 0 .. MaxThreads
    BY PublishAssumption DEF PublishAssumption
  <2>2. syncing \in BOOLEAN /\ behind \in BOOLEAN
    BY DEF Init
  <2>3. QED
    BY <2>1, <2>2 DEF Init, TypeOK, PeerStatus, PubState
<1>2. TxInv
  BY DEF Init, TxInv
<1>3. InvInv /\ AnnouncedIsTimed /\ DownloadPeerLive
  BY DEF Init, InvInv, AnnouncedIsTimed, DownloadPeerLive, Connected
<1>4. QED
  BY <1>1, <1>2, <1>3 DEF IInv

\* The inductive invariant: the place of a transaction says who holds its callback
\* and who owns it, and peers were told of pending transactions only.
THEOREM Invariance == Spec => []IInv
<1>1. IInv /\ [Next]_vars => IInv'
  BY PublishAssumption, NextTypes, NextTx, NextPeers DEF IInv, PeerInv
<1>2. QED
  BY <1>1, InitIInv, PTL DEF Spec

\* Types: in particular connectFailureCount exceeds MAX_CONNECT_FAILURES by at most
\* one, whatever interleaving of disconnects and failures leads there.
THEOREM TypeCorrect == Spec => []TypeOK
<1>1. IInv => TypeOK
  BY DEF IInv
<1>2. QED
  BY <1>1, Invariance, PTL

\* A transaction whose callback _peerDisconnected may cancel, and which it then
\* frees, belongs to the list and not to the wallet.
THEOREM FreesOnlyItsOwn == Spec => []PendingIsListsOwn
<1>1. IInv => PendingIsListsOwn
  BY DEF IInv, TxInv, PendingIsListsOwn, Pending
<1>2. QED
  BY <1>1, Invariance, PTL

\* Every connected peer that was told of a transaction still pending has a
\* disconnect time.
THEOREM AnnouncedPeersAreTimed == Spec => []AnnouncedIsTimed
<1>1. IInv => AnnouncedIsTimed
  BY DEF IInv
<1>2. QED
  BY <1>1, Invariance, PTL

\* downloadPeer never points to a peer that was freed.
THEOREM DownloadPeerNeverDangles == Spec => []DownloadPeerLive
<1>1. IInv => DownloadPeerLive
  BY DEF IInv
<1>2. QED
  BY <1>1, Invariance, PTL

-----------------------------------------------------------------------------
(* Refinement of PublishPromise *)

\* by the invariant the stage of a transaction is never "broken"
SeenStage(t) == IF pub[t] = "new" THEN "idle"
                ELSE IF calls[t] = 0 THEN "waiting" ELSE "called"

LEMMA StageIs == IInv => \A t \in Tx : Stage(t) = SeenStage(t)
<1> SUFFICES ASSUME IInv, NEW t \in Tx PROVE Stage(t) = SeenStage(t)
  OBVIOUS
<1> USE DEF IInv, SeenStage
<1>1. due[t] \in Nat /\ calls[t] \in Nat
  BY DEF TypeOK
<1>2. pub[t] \in {"new", "asking", "pending", "listed", "gone", "confirmed"}
  BY DEF TypeOK, PubState
<1>3. CASE pub[t] \in {"new", "asking", "pending"}
  BY <1>3 DEF TxInv, Stage
<1>4. CASE pub[t] \in {"listed", "gone", "confirmed"}
  <2>1. (calls[t] = 0 /\ due[t] = 1) \/ (calls[t] = 1 /\ due[t] = 0)
    BY <1>1, <1>4 DEF TxInv
  <2>2. QED
    BY <1>4, <2>1 DEF Stage
<1>5. QED
  BY <1>2, <1>3, <1>4

\* what a step does, seen from outside: nothing, ask for one callback, or call one
Silent == calls' = calls /\ \A t \in Tx : pub[t] = "new" <=> pub'[t] = "new"

Asks(t) == /\ calls' = calls /\ pub[t] = "new" /\ pub'[t] # "new"
           /\ \A s \in Tx \ {t} : pub'[s] = pub[s]

Calls(t) == due[t] > 0 /\ pub' = pub /\ calls' = [calls EXCEPT ![t] = @ + 1]

LEMMA NextFromOutside ==
  ASSUME IInv, [Next]_vars
  PROVE  Silent \/ \E t \in Tx : Asks(t) \/ Calls(t)
<1> USE DEF IInv
<1>0. ASSUME calls' = calls, pub' = pub PROVE Silent
  BY <1>0 DEF Silent
<1>1. ASSUME NEW t \in Tx, calls' = calls, pub[t] # "new", NEW v, v # "new",
             pub' = [pub EXCEPT ![t] = v]
      PROVE  Silent
  BY <1>1 DEF Silent, TypeOK
<1>2. CASE UNCHANGED vars
  BY <1>0, <1>2 DEF vars, txVars
<1>3. CASE Connect(0) \/ Connect(1) \/ ConnectRelocked \/ Disconnect
  BY <1>0, <1>3 DEF Connect, ConnectRelocked, ConnectPeers, Disconnect, txVars
<1>4. ASSUME NEW t \in Tx, PublishTx(t) PROVE Asks(t)
  BY <1>4 DEF PublishTx, AddAndAnnounce, Asks, TypeOK
<1>5. ASSUME NEW t \in Tx, PublishTxRelocked(t) PROVE Silent
  BY <1>1, <1>5 DEF PublishTxRelocked, AddAndAnnounce
<1>6. ASSUME NEW t \in Tx, CallCallback(t) PROVE Calls(t)
  BY <1>6 DEF CallCallback, Calls
<1>7. ASSUME NEW p \in Peer, PeerStep(p) PROVE Silent
  <2>1. CASE \/ ConnectedMisfit(p) \/ ConnectedOther(p) \/ ConnectedDownload(p)
             \/ LoadBloomFilterDone(p) \/ MempoolDone(p) \/ ThreadEnds(p)
    BY <1>0, <2>1 DEF ConnectedMisfit, ConnectedOther, ConnectedDownload, Handshake,
                      LoadBloomFilterDone, MempoolDone, ThreadEnds, txVars
  <2>2. ASSUME NEW t \in Tx, RequestedTx(p, t) \/ HasTx(p, t) \/ RelayedTx(p, t)
        PROVE  Silent
    <3>1. pub[t] # "new"
      BY <2>2 DEF RequestedTx, HasTx, RelayedTx, InvInv, TxInv, Pending, Listed
    <3>2. WithoutCallback(t) # "new"
      BY <3>1 DEF WithoutCallback
    <3>3. calls' = calls
      BY <2>2 DEF RequestedTx, HasTx, RelayedTx, HeardOf
    <3>4. \E v \in {WithoutCallback(t), "gone", "listed"} : pub' = [pub EXCEPT ![t] = v]
      BY <2>2 DEF RequestedTx, HasTx, RelayedTx
    <3>5. QED
      BY <1>1, <3>1, <3>2, <3>3, <3>4
  <2>3. CASE RelayedBlock(p)
    <3>1. ASSUME NEW t \in Tx, t \in inWallet, Confirmed(t) PROVE Silent
      BY <1>1, <3>1 DEF Confirmed, TxInv
    <3>2. QED
      BY <1>0, <2>3, <3>1 DEF RelayedBlock, txVars
  <2>4. ASSUME NEW error \in ErrorCode, PeerDisconnected(p, error) PROVE Silent
    <3>1. calls' = calls /\ (pub' = pub \/ CancelPending)
      BY <2>4 DEF PeerDisconnected
    <3>2. CASE CancelPending
      BY <3>1, <3>2 DEF CancelPending, Pending, Silent, TypeOK
    <3>3. QED
      BY <1>0, <3>1, <3>2
  <2>5. QED
    BY <1>7, <2>1, <2>2, <2>3, <2>4 DEF PeerStep
<1>8. QED
  BY <1>2, <1>3, <1>4, <1>5, <1>6, <1>7 DEF Next

\* However peers' threads, the app's calls and failures interleave, the callback of a
\* publication is asked for, held in one place and called at most once: Publish
\* implements PublishPromise.
THEOREM CallbackComesOnce == Spec => CalledOnce
<1>1. Init => Promise!PInit
  <2> SUFFICES ASSUME Init PROVE \A t \in Tx : Stage(t) = "idle"
    BY DEF Promise!PInit
  <2>1. \A t \in Tx : Stage(t) = SeenStage(t)
    BY InitIInv, StageIs
  <2>2. QED
    BY <2>1 DEF Init, SeenStage
<1>. DEFINE Seen == \A t \in Tx : Stage(t) = SeenStage(t)
<1>a. IInv => Seen
  BY StageIs
<1>b. (IInv => Seen)'
  BY <1>a, PTL
<1>2. ASSUME IInv, IInv', [Next]_vars
      PROVE  [Promise!PNext]_([t \in Tx |-> Stage(t)])
  <2> DEFINE S(t) == SeenStage(t)
             stage == [t \in Tx |-> Stage(t)]
  <2>1. Seen /\ Seen'
    BY <1>2, <1>a, <1>b
  <2>2. stage = [t \in Tx |-> S(t)] /\ stage' = [t \in Tx |-> S(t)']
    BY <2>1
  <2>3. CASE Silent
    <3>1. \A t \in Tx : S(t)' = S(t)
      BY <2>3 DEF Silent, SeenStage
    <3>2. QED
      BY <2>2, <3>1
  <2>4. ASSUME NEW t \in Tx, Asks(t) PROVE Promise!Asked(t)
    <3>1. S(t) = "idle" /\ S(t)' = "waiting"
      BY <1>2, <2>4 DEF Asks, IInv, TxInv, SeenStage
    <3>2. \A s \in Tx \ {t} : S(s)' = S(s)
      BY <2>4 DEF Asks, SeenStage
    <3>3. QED
      BY <2>2, <3>1, <3>2 DEF Promise!Asked, Promise!Advance
  <2>5. ASSUME NEW t \in Tx, Calls(t) PROVE Promise!Answered(t)
    <3>1. calls[t] = 0 /\ calls'[t] = 1 /\ pub[t] # "new"
      BY <1>2, <2>5 DEF Calls, IInv, TxInv, TypeOK, PubState
    <3>2. S(t) = "waiting" /\ S(t)' = "called"
      BY <2>5, <3>1 DEF Calls, SeenStage
    <3>3. \A s \in Tx \ {t} : S(s)' = S(s)
      BY <1>2, <2>5 DEF Calls, IInv, TypeOK, SeenStage
    <3>4. QED
      BY <2>2, <3>2, <3>3 DEF Promise!Answered, Promise!Advance
  <2>6. QED
    BY <1>2, <2>3, <2>4, <2>5, NextFromOutside DEF Promise!PNext
<1>3. QED
  BY <1>1, <1>2, Invariance, PTL DEF Spec, CalledOnce, Promise!PSpec
=============================================================================
