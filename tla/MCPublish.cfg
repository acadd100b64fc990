CONSTANTS
    Peer = {p1, p2}
    Tx = {t1, t2}
    None = None
    MaxConnectFailures = 1
    MaxConnectCount = 2
    MaxThreads = 1
SYMMETRY Symmetry
SPECIFICATION Spec
INVARIANTS
    TypeOK
    PendingIsListsOwn
    AnnouncedIsTimed
    DownloadPeerLive
PROPERTIES
    CalledOnce
