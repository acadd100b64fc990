------------------------------ MODULE KVStore ------------------------------
(***************************************************************************)
(* The replicated key-value store of                                        *)
(* src/ravenwallet/src/Platform/BRReplicatedKVStore.swift, on several       *)
(* devices that share one remote store.  The remote is external: it is      *)
(* modelled from the protocol BRRemoteKVStoreAdaptor, from its client in    *)
(* BRAPIClient+KV.swift and from the adaptor of the repository's tests.     *)
(*                                                                          *)
(* Every database transaction (txn) and every handling of a request by the  *)
(* remote is one step; between two of them other devices, the app and the   *)
(* network act.  Of a key's rows only the newest is ever read by a sync, so *)
(* local[d][k] is that row.  Key names are left out; of encryption and SQLite *)
(* only the errors are modelled.                                            *)
(***************************************************************************)
EXTENDS Naturals, FiniteSets

CONSTANTS Device,     \* installations that use the same remote store
          Key,        \* keys
          MaxWrites,  \* bound: set() and del() calls of the app, in all
          MaxFaults,  \* bound: lost requests or answers, errors and restarts, in all
          MaxOverlaps \* bound: syncs started while another device syncs, in all

ASSUME KVAssumption ==
    /\ Key # {}
    /\ MaxWrites \in Nat /\ MaxFaults \in Nat /\ MaxOverlaps \in Nat

VARIABLES
    local,    \* [Device -> [Key -> newest row of kvstore]]
    remote,   \* [Key -> the remote's object]
    running,  \* [Device -> syncRunning]
    single,   \* [Device -> the running sync was started by syncKey]
    job,      \* [Device -> [Key -> how far _syncKey has got]]
    late,     \* requests still under way though nobody waits for the answer
    clock,    \* milliseconds; the devices' and the remote's clocks agree
    writes, faults, overlaps   \* counters for the bounds

vars == <<local, remote, running, single, job, late, clock, writes, faults, overlaps>>

-----------------------------------------------------------------------------
(* Rows and remote objects.  Version 0: there is none.                      *)

\* The n-th write of the app writes the value n, so that no two are alike; 0 is
\* the empty value of a key that does not exist.
NoValue == 0
Value == 1 .. MaxWrites

NoRow == [ver |-> 0, rver |-> 0, val |-> NoValue, time |-> 0, del |-> FALSE]

NoObject == [ver |-> 0, val |-> NoValue, time |-> 0, del |-> FALSE]

\* Date().  A stamp behind a round trip to the remote comes later than those
\* before it; the app writes in the millisecond of the last stamp, which a later
\* one differs from only in that it leaves out the tie.
AppNow == clock
SyncNow == clock + 1

\* The rows the three INSERTs add: _set, _del and setRemoteVersion.
SetRow(row, v, t) == [ver |-> row.ver + 1, rver |-> 0, val |-> v, time |-> t, del |-> FALSE]

DelRow(row, t) == [row EXCEPT !.ver = @ + 1, !.rver = 0, !.time = t, !.del = TRUE]

MarkRow(row, rv, t) == [row EXCEPT !.ver = @ + 1, !.rver = rv, !.time = t]

\* A txn on device d inserts a row for k at time t.
Insert(d, k, row, t) == local' = [local EXCEPT ![d][k] = row] /\ clock' = t

\* What the remote makes of a put or a del: optimistic locking on the version.
Accepts(k, req) ==
    IF remote[k].ver = 0 THEN req.op = "put" /\ req.ver = 1
    ELSE req.ver = remote[k].ver

Applied(k, req, t) ==
    [ver |-> remote[k].ver + 1, time |-> t, del |-> req.op = "del",
     val |-> IF req.op = "del" THEN remote[k].val ELSE req.val]

-----------------------------------------------------------------------------
Init ==
    /\ local = [d \in Device |-> [k \in Key |-> NoRow]]
    /\ remote = [k \in Key |-> NoObject]
    /\ running = [d \in Device |-> FALSE]
    /\ single = [d \in Device |-> FALSE]
    /\ job = [d \in Device |-> [k \in Key |-> [st |-> "none"]]]
    /\ late = {}
    /\ clock = 1
    /\ writes = 0
    /\ faults = 0
    /\ overlaps = 0

(* The app: set() and del() with the version it read.  With any other       *)
(* version they throw conflict and change nothing.                          *)

Set(d, k) ==
    /\ writes < MaxWrites
    /\ writes' = writes + 1
    /\ Insert(d, k, SetRow(local[d][k], writes', AppNow), AppNow)
    /\ UNCHANGED <<remote, running, single, job, late, faults, overlaps>>

Del(d, k) ==
    /\ writes < MaxWrites
    /\ local[d][k].ver > 0
    /\ writes' = writes + 1
    /\ Insert(d, k, DelRow(local[d][k], AppNow), AppNow)
    /\ UNCHANGED <<remote, running, single, job, late, faults, overlaps>>

-----------------------------------------------------------------------------
(* Starting a sync.                                                         *)

Goto(d, k, j) == job' = [job EXCEPT ![d][k] = j] /\ UNCHANGED <<running, single>>

\* mutant: syncRunning is not reset
Finish_StillRunning(d, k) == Goto(d, k, [st |-> "none"])

\* completionHandler: the last key that is done ends the sync.
Finish(d, k) ==
    /\ job' = [job EXCEPT ![d][k] = [st |-> "none"]]
    /\ running' = [running EXCEPT ![d] = \E o \in Key \ {k} : job[d][o].st # "none"]
    /\ single' = [single EXCEPT ![d] = FALSE]

\* What the remote says of a key: its version, time and error.
Info(ver, time, err) == [st |-> "info", ver |-> ver, time |-> time, err |-> err]

RemoteInfo(k) ==
    Info(remote[k].ver, remote[k].time, IF remote[k].del THEN "tombstone" ELSE "nil")

HasJob(d) == \E k \in Key : job[d][k].st # "none"

\* How many syncs may overlap is bounded: see Converges.
Overlap(d) ==
    LET busy == {o \in Device \ {d} : HasJob(o)}
    IN  overlaps' = overlaps + Cardinality(busy) /\ overlaps' <= MaxOverlaps

\* syncAllKeys: refused while a sync runs.
SyncAllKeys(d) ==
    /\ ~running[d]
    /\ Overlap(d)
    /\ running' = [running EXCEPT ![d] = TRUE]
    /\ job' = [job EXCEPT ![d] = [k \in Key |-> [st |-> "keys"]]]
    /\ UNCHANGED <<local, remote, single, late, clock, writes, faults>>

\* mutant: only the remote's keys are synced
KeysAnswered_RemoteOnly(d) ==
    /\ \E k \in Key : job[d][k].st = "keys"
    /\ LET known == {k \in Key : remote[k].ver > 0}
       IN  /\ job' = [job EXCEPT ![d] =
                        [k \in Key |-> IF k \in known THEN RemoteInfo(k) ELSE [st |-> "none"]]]
           /\ running' = [running EXCEPT ![d] = known # {}]
    /\ UNCHANGED <<local, remote, single, late, clock, writes, faults, overlaps>>

\* remote.keys is answered: one job per key that the remote or the device has;
\* a key only the device has gets version 0, time 0 and no error.
KeysAnswered(d) ==
    /\ \E k \in Key : job[d][k].st = "keys"
    /\ LET known == {k \in Key : remote[k].ver > 0 \/ local[d][k].ver > 0}
       IN  /\ job' = [job EXCEPT ![d] =
                        [k \in Key |-> IF k \in known THEN RemoteInfo(k) ELSE [st |-> "none"]]]
           /\ running' = [running EXCEPT ![d] = known # {}]
    /\ UNCHANGED <<local, remote, single, late, clock, writes, faults, overlaps>>

\* syncKey: asks for the version of one key.
SyncKey(d, k) ==
    /\ ~running[d]
    /\ Overlap(d)
    /\ running' = [running EXCEPT ![d] = TRUE]
    /\ single' = [single EXCEPT ![d] = TRUE]
    /\ job' = [job EXCEPT ![d][k] = [st |-> "ver"]]
    /\ UNCHANGED <<local, remote, late, clock, writes, faults>>

\* remote.ver is answered.  For a key the remote does not have, the answer has
\* no version and no date (unknown), or says notFound with the date of now.
VerAnswered(d, k) ==
    /\ job[d][k].st = "ver"
    /\ IF remote[k].ver > 0 THEN Goto(d, k, RemoteInfo(k))
       ELSE \/ Goto(d, k, Info(0, 0, "unknown"))
            \/ Goto(d, k, Info(0, clock, "notFound"))
    /\ UNCHANGED <<local, remote, late, clock, writes, faults, overlaps>>

-----------------------------------------------------------------------------
(* _syncKey.                                                                *)

\* The first txn reads the remote version recorded with the newest row.  If it
\* is the remote's version, there is nothing to do.
ReadRecorded(d, k) ==
    LET j == job[d][k]
        recorded == local[d][k].rver
    IN  /\ j.st = "info"
        /\ IF j.err # "notFound" /\ j.ver > 0 /\ recorded = j.ver
           THEN Finish(d, k)
           ELSE Goto(d, k, [st |-> "recorded", ver |-> j.ver, time |-> j.time, err |-> j.err,
                            rver |-> recorded])
        /\ UNCHANGED <<local, remote, late, clock, writes, faults, overlaps>>

Request(op, row, v) == [st |-> op, lver |-> row.ver, op |-> op, ver |-> v, val |-> row.val]

\* The second txn reads the newest row; the later of the two times wins, and the
\* device's at a tie.
Decide(d, k) ==
    LET j == job[d][k]
        row == local[d][k]
        useRemoteVer == IF j.ver = 0 \/ j.ver < j.rver THEN 1 ELSE j.ver
    IN  /\ j.st = "recorded"
        /\ CASE j.err = "unknown" -> Finish(d, k)
             [] j.err # "unknown" /\ row.del /\ j.err = "tombstone" ->
                  Goto(d, k, [st |-> "mark", lver |-> row.ver, rver |-> j.ver])
             [] j.err # "unknown" /\ ~(row.del /\ j.err = "tombstone") /\ row.time >= j.time ->
                  Goto(d, k, IF row.del THEN Request("del", row, j.ver)
                             ELSE Request("put", row, useRemoteVer))
             [] OTHER ->
                  Goto(d, k, IF j.err = "tombstone"
                             THEN [st |-> "drop", lver |-> row.ver, rver |-> j.ver]
                             ELSE Request("get", row, j.ver))
        /\ UNCHANGED <<local, remote, late, clock, writes, faults, overlaps>>

\* The remote handles the put or del of a job.  "ack": the answer is under way.
RemoteWrites(d, k) ==
    LET j == job[d][k]
    IN  /\ j.st \in {"put", "del"}
        /\ IF Accepts(k, j)
           THEN /\ remote' = [remote EXCEPT ![k] = Applied(k, j, SyncNow)]
                /\ clock' = SyncNow
                /\ Goto(d, k, [st |-> "ack", lver |-> j.lver, rver |-> remote[k].ver + 1])
           ELSE Finish(d, k) /\ UNCHANGED <<remote, clock>>
        /\ UNCHANGED <<local, late, writes, faults, overlaps>>

\* The remote handles a get of one version.  Version 0 fetches the newest by the
\* protocol's comment, and is a conflict for the tests' adaptor.
RemoteReads(d, k) ==
    LET j == job[d][k]
        fetched == [st |-> "store", lver |-> j.lver, rver |-> remote[k].ver,
                    val |-> remote[k].val, time |-> remote[k].time]
    IN  /\ j.st = "get"
        /\ \/ remote[k].ver > 0 /\ ~remote[k].del /\ j.ver \in {0, remote[k].ver}
              /\ Goto(d, k, fetched)
           \/ (j.ver = 0 \/ j.ver # remote[k].ver \/ remote[k].del) /\ Finish(d, k)
        /\ UNCHANGED <<local, remote, late, clock, writes, faults, overlaps>>

\* A txn of a job on the row it decided for: if the app has written since, the
\* versions differ, the txn throws conflict and the job ends.
Locked(d, k) == local[d][k].ver = job[d][k].lver

\* mutant: the row's version is not compared
Store_NoLock(d, k) ==
    LET j == job[d][k]
    IN  /\ j.st = "store"
        /\ Insert(d, k, SetRow(local[d][k], j.val, SyncNow), SyncNow)
        /\ Goto(d, k, [st |-> "mark", lver |-> local[d][k].ver + 1, rver |-> j.rver])
        /\ UNCHANGED <<remote, late, writes, faults, overlaps>>

\* The fetched value becomes a row; its remote version is recorded by a later txn.
Store(d, k) ==
    LET j == job[d][k]
    IN  /\ j.st = "store"
        /\ IF Locked(d, k)
           THEN /\ Insert(d, k, SetRow(local[d][k], j.val, SyncNow), SyncNow)
                /\ Goto(d, k, [st |-> "mark", lver |-> j.lver + 1, rver |-> j.rver])
           ELSE Finish(d, k) /\ UNCHANGED <<local, clock>>
        /\ UNCHANGED <<remote, late, writes, faults, overlaps>>

\* The fetched value cannot be decrypted: the row is deleted, and the job ends.
StoreMalformed(d, k) ==
    LET j == job[d][k]
    IN  /\ faults < MaxFaults
        /\ faults' = faults + 1
        /\ j.st = "store"
        /\ IF j.lver > 0 /\ Locked(d, k)
           THEN Insert(d, k, DelRow(local[d][k], SyncNow), SyncNow)
           ELSE UNCHANGED <<local, clock>>
        /\ Finish(d, k)
        /\ UNCHANGED <<remote, late, writes, overlaps>>

\* The remote's object is deleted, the row is older: _del, which does nothing for
\* a key the device does not have.
Drop(d, k) ==
    LET j == job[d][k]
    IN  /\ j.st = "drop"
        /\ IF j.lver > 0 /\ Locked(d, k)
           THEN /\ Insert(d, k, DelRow(local[d][k], SyncNow), SyncNow)
                /\ Goto(d, k, [st |-> "mark", lver |-> j.lver + 1, rver |-> j.rver])
           ELSE Finish(d, k) /\ UNCHANGED <<local, clock>>
        /\ UNCHANGED <<remote, late, writes, faults, overlaps>>

\* mutants: the row's version is not compared; a conflict is tried again
Mark_NoLock(d, k) ==
    LET j == job[d][k]
    IN  /\ j.st \in {"ack", "mark"}
        /\ Insert(d, k, MarkRow(local[d][k], j.rver, SyncNow), SyncNow)
        /\ Finish(d, k)
        /\ UNCHANGED <<remote, late, writes, faults, overlaps>>

Mark_Retries(d, k) ==
    LET j == job[d][k]
    IN  /\ j.st \in {"ack", "mark"}
        /\ j.lver > 0 /\ Locked(d, k)
        /\ Insert(d, k, MarkRow(local[d][k], j.rver, SyncNow), SyncNow)
        /\ Finish(d, k)
        /\ UNCHANGED <<remote, late, writes, faults, overlaps>>

\* setRemoteVersion, the last txn of a job.
Mark(d, k) ==
    LET j == job[d][k]
    IN  /\ j.st \in {"ack", "mark"}
        /\ IF j.lver > 0 /\ Locked(d, k)
           THEN Insert(d, k, MarkRow(local[d][k], j.rver, SyncNow), SyncNow)
           ELSE UNCHANGED <<local, clock>>
        /\ Finish(d, k)
        /\ UNCHANGED <<remote, late, writes, faults, overlaps>>

-----------------------------------------------------------------------------
(* Faults.                                                                  *)

\* The requests of device d that the remote may still receive.
UnderWay(d, K) ==
    {[key |-> k, op |-> job[d][k].op, ver |-> job[d][k].ver, val |-> job[d][k].val] :
        k \in {x \in K : job[d][x].st \in {"put", "del"}}}

\* A request or its answer is lost, or the client gives up: an error.
Unanswered(d, k) ==
    /\ faults < MaxFaults
    /\ faults' = faults + 1
    /\ job[d][k].st \in {"keys", "ver", "put", "del", "get", "ack"}
    /\ \E S \in SUBSET UnderWay(d, {k}) : late' = late \cup S
    /\ IF job[d][k].st = "keys"
       THEN /\ job' = [job EXCEPT ![d] = [o \in Key |-> [st |-> "none"]]]
            /\ running' = [running EXCEPT ![d] = FALSE]
            /\ UNCHANGED single
       ELSE Finish(d, k)
    /\ UNCHANGED <<local, remote, clock, writes, overlaps>>

\* A txn, or the decryption of the row, throws.  The later txns are in blocks that
\* catch it and complete with an error; the two reads are not, so _syncKey throws:
\* syncAllKeys counts a failure, syncKey drops it, and nothing completes its sync.
Throw(d, k) ==
    /\ faults < MaxFaults
    /\ faults' = faults + 1
    /\ job[d][k].st \in {"info", "recorded", "store", "drop", "ack", "mark"}
    /\ IF single[d] /\ job[d][k].st \in {"info", "recorded"}
       THEN Goto(d, k, [st |-> "none"])
       ELSE Finish(d, k)
    /\ UNCHANGED <<local, remote, late, clock, writes, overlaps>>

\* A request nobody waits for reaches the remote.
LateArrives(m) ==
    /\ late' = late \ {m}
    /\ IF Accepts(m.key, m)
       THEN /\ remote' = [remote EXCEPT ![m.key] = Applied(m.key, m, SyncNow)]
            /\ clock' = SyncNow
       ELSE UNCHANGED <<remote, clock>>
    /\ UNCHANGED <<local, running, single, job, writes, faults, overlaps>>

\* The app is killed and started again: the rows survive, the sync does not.
Restart(d) ==
    /\ faults < MaxFaults
    /\ running[d]
    /\ faults' = faults + 1
    /\ \E S \in SUBSET UnderWay(d, Key) : late' = late \cup S
    /\ job' = [job EXCEPT ![d] = [k \in Key |-> [st |-> "none"]]]
    /\ running' = [running EXCEPT ![d] = FALSE]
    /\ single' = [single EXCEPT ![d] = FALSE]
    /\ UNCHANGED <<local, remote, clock, writes, overlaps>>

-----------------------------------------------------------------------------
JobStep(d, k) ==
    \/ VerAnswered(d, k) \/ ReadRecorded(d, k) \/ Decide(d, k)
    \/ RemoteWrites(d, k) \/ RemoteReads(d, k)
    \/ Store(d, k) \/ Drop(d, k) \/ Mark(d, k)

Next ==
    \/ \E d \in Device, k \in Key :
          \/ Set(d, k)
          \/ Del(d, k)
          \/ SyncKey(d, k)
          \/ JobStep(d, k)
          \/ StoreMalformed(d, k)
          \/ Unanswered(d, k)
          \/ Throw(d, k)
    \/ \E d \in Device : SyncAllKeys(d) \/ KeysAnswered(d) \/ Restart(d)
    \/ \E m \in late : LateArrives(m)

Spec == Init /\ [][Next]_vars

\* The store's user goes on calling syncAllKeys, and now and then it finds no sync
\* running; a running sync goes on, and a request under way arrives in the end.
Fairness ==
    /\ \A d \in Device : SF_vars(SyncAllKeys(d)) /\ WF_vars(KeysAnswered(d))
    /\ \A d \in Device, k \in Key : WF_vars(JobStep(d, k))
    /\ WF_vars(\E m \in late : LateArrives(m))

FairSpec == Spec /\ Fairness

-----------------------------------------------------------------------------
(* Properties.                                                              *)

AnyValue == Value \cup {NoValue}

Row == [ver : Nat, rver : Nat, val : AnyValue, time : Nat, del : BOOLEAN]

Object == [ver : Nat, val : AnyValue, time : Nat, del : BOOLEAN]

\* A job, by what it waits for and what it has to remember until then.
Errors == {"nil", "tombstone", "unknown", "notFound"}

WaitJob     == [st : {"none", "keys", "ver"}]
InfoJob     == [st : {"info"}, ver : Nat, time : Nat, err : Errors]
RecordedJob == [st : {"recorded"}, ver : Nat, time : Nat, err : Errors, rver : Nat]
RequestJob  == [st : {"put", "del", "get"}, lver : Nat, op : {"put", "del", "get"},
                ver : Nat, val : AnyValue]
StoreJob    == [st : {"store"}, lver : Nat, rver : Nat, val : AnyValue, time : Nat]
MarkJob     == [st : {"ack", "mark", "drop"}, lver : Nat, rver : Nat]

Job == WaitJob \cup InfoJob \cup RecordedJob \cup RequestJob \cup StoreJob \cup MarkJob

Late == [key : Key, op : {"put", "del"}, ver : Nat, val : AnyValue]

\* Rows, objects, jobs and requests have their types, and no stamp is ahead of the
\* clock.  A sync of syncAllKeys runs exactly while a key has a job; one of syncKey
\* may run without (see SyncEnds).
TypeOK ==
    /\ local \in [Device -> [Key -> Row]]
    /\ remote \in [Key -> Object]
    /\ running \in [Device -> BOOLEAN] /\ single \in [Device -> BOOLEAN]
    /\ job \in [Device -> [Key -> Job]]
    /\ late \subseteq Late
    /\ clock \in Nat
    /\ writes \in 0 .. MaxWrites
    /\ \A d \in Device, k \in Key : local[d][k].time <= clock
    /\ \A k \in Key : remote[k].time <= clock
    /\ \A d \in Device : running[d] <=> HasJob(d) \/ single[d]

\* What get() gives for a row, or an object: nothing once it is deleted.
Live(x) == IF x.del THEN NoValue ELSE x.val

\* The shortcut of _syncKey is sound (BRReplicatedKVStore.swift:577-583): a row that
\* records the remote's present version holds what the remote holds, whatever
\* was written, lost or restarted between the request and the record of it.
SyncedMeansSame ==
    \A d \in Device, k \in Key :
        remote[k].ver > 0 /\ local[d][k].rver = remote[k].ver =>
            Live(local[d][k]) = Live(remote[k])

\* A sync replaces or deletes the value of a row only for an object the remote stamped
\* later than the row: what the app wrote while the object was being fetched is kept
\* (BRReplicatedKVStore.swift:256-260, 681-687).
OverwritesOnlyOlder ==
    [][\A d \in Device, k \in Key :
          Live(local'[d][k]) # Live(local[d][k]) /\ writes' = writes =>
              local[d][k].time <= remote[k].time]_vars

\* A sync of syncAllKeys ends, whatever is lost or thrown on the way
\* (BRReplicatedKVStore.swift:509-531): each key leaves the group once, and then
\* syncRunning is cleared.
AllKeysSyncEnds == \A d \in Device : running[d] /\ ~single[d] ~> ~running[d]

\* Once the app stops writing and the network stops failing, every device ends up
\* with what the remote has (BRReplicatedKVStore.swift:458-463).  This rests on a
\* user who goes on calling syncAllKeys and finds no sync running again and again
\* (Fairness, and the premise: after a throw in syncKey every call is refused), and
\* on finitely many syncs that overlap another device's (MaxOverlaps): two devices
\* that always sync at once can overwrite each other for ever, the case the comment
\* at 563-565 gives up ("concurrency will be so low").
Converges ==
    (\A d \in Device : []<>~running[d]) =>
        <>[](\A d \in Device, k \in Key : Live(local[d][k]) = Live(remote[k]))

-----------------------------------------------------------------------------
(* What comments in the code say, and the code does not keep                *)

\* "immediately after successfully saving locally, replicate to server" and "only
\* one sync can run at a time" (BRReplicatedKVStore.swift:238-239, 103): a sync is
\* refused while another one runs, which ends; so every sync ends.
SyncEnds == \A d \in Device : running[d] ~> ~running[d]
=============================================================================
