--------------------------- MODULE KVStoreProofs ---------------------------
(***************************************************************************)
(* Proofs about KVStore, for any number of devices and keys and any bounds. *)
(***************************************************************************)
EXTENDS KVStore, TLAPS

-----------------------------------------------------------------------------
(* The inductive invariant                                                  *)

\* What a row, the remote's object for the key and the job of the device on the
\* key know of each other.  A version names one state of its row or object, as
\* each change takes the next one; so what a job read still holds when it acts,
\* provided that the versions it remembers are still the present ones.
RowKnows(row, obj) ==
    /\ row.rver <= obj.ver
    /\ obj.ver > 0 /\ row.rver = obj.ver => Live(row) = Live(obj)

AnswerKnows(obj, j) ==
    /\ j.ver <= obj.ver
    /\ j.err = "tombstone" /\ j.ver = obj.ver => obj.del
    /\ j.time <= obj.time \/ (j.err = "notFound" /\ obj.ver = 0)
    /\ j.err = "notFound" => j.ver = 0

RequestKnows(row, j) ==
    /\ j.op = j.st
    /\ j.lver <= row.ver
    /\ j.lver = row.ver => row.val = j.val /\ (row.del <=> j.op = "del")

GetKnows(row, obj, j) ==
    /\ j.lver <= row.ver
    /\ j.lver = row.ver /\ obj.ver > 0 => row.time <= obj.time

StoreKnows(row, obj, j) ==
    /\ j.lver <= row.ver
    /\ j.rver <= obj.ver
    /\ j.lver = row.ver => row.time <= obj.time
    /\ j.rver = obj.ver => ~obj.del /\ obj.val = j.val

DropKnows(row, obj, j) ==
    /\ j.lver <= row.ver
    /\ j.rver <= obj.ver
    /\ j.lver = row.ver => row.time <= obj.time
    /\ j.rver = obj.ver => obj.del

MarkKnows(row, obj, j) ==
    /\ j.lver <= row.ver
    /\ j.rver <= obj.ver
    /\ j.lver = row.ver /\ j.rver = obj.ver => Live(row) = Live(obj)

JobKnows(row, obj, j) ==
    /\ j.st \in {"info", "recorded"} => AnswerKnows(obj, j)
    /\ j.st \in {"put", "del"} => RequestKnows(row, j)
    /\ j.st = "get" => GetKnows(row, obj, j)
    /\ j.st = "store" => StoreKnows(row, obj, j)
    /\ j.st = "drop" => DropKnows(row, obj, j)
    /\ j.st \in {"ack", "mark"} => MarkKnows(row, obj, j)

RowsKnow == \A d \in Device, k \in Key : RowKnows(local[d][k], remote[k])

JobsKnow == \A d \in Device, k \in Key : JobKnows(local[d][k], remote[k], job[d][k])

RequestsMatch ==
    \A d \in Device, k \in Key : job[d][k].st \in {"put", "del"} => job[d][k].op = job[d][k].st

\* The remote's answers are not dated ahead of the clock: an object that is created
\* after the answer notFound is newer than the row that was older than the answer.
AnswersPast ==
    \A d \in Device, k \in Key :
        job[d][k].st \in {"info", "recorded"} => job[d][k].time <= clock

\* Only syncAllKeys asks for the list of keys.
KeysForAll == \A d \in Device, k \in Key : job[d][k].st = "keys" => ~single[d]

IInv == TypeOK /\ RowsKnow /\ JobsKnow /\ AnswersPast /\ KeysForAll

-----------------------------------------------------------------------------
(* Types                                                                    *)

\* the state of a job says what it remembers
LEMMA JobFields ==
  ASSUME NEW j \in Job
  PROVE  /\ j.st = "info" => j \in InfoJob
         /\ j.st = "recorded" => j \in RecordedJob
         /\ j.st \in {"put", "del", "get"} => j \in RequestJob
         /\ j.st = "store" => j \in StoreJob
         /\ j.st \in {"ack", "mark", "drop"} => j \in MarkJob
  BY DEF Job, WaitJob, InfoJob, RecordedJob, RequestJob, StoreJob, MarkJob

\* the jobs that Goto and SyncAllKeys name are jobs
LEMMA NewJobs ==
  /\ \A st \in {"none", "keys", "ver"} : [st |-> st] \in Job
  /\ \A v, t \in Nat, e \in Errors : Info(v, t, e) \in Job
  /\ \A v, t, r \in Nat, e \in Errors :
        [st |-> "recorded", ver |-> v, time |-> t, err |-> e, rver |-> r] \in Job
  /\ \A op \in {"put", "del", "get"}, row \in Row, v \in Nat : Request(op, row, v) \in Job
  /\ \A l, r, t \in Nat, v \in AnyValue :
        [st |-> "store", lver |-> l, rver |-> r, val |-> v, time |-> t] \in Job
  /\ \A st \in {"ack", "mark", "drop"}, l, r \in Nat : [st |-> st, lver |-> l, rver |-> r] \in Job
  BY DEF Job, WaitJob, InfoJob, RecordedJob, RequestJob, StoreJob, MarkJob, Info, Request, Row

\* the rows the INSERTs add are rows of the next version
LEMMA NewRows ==
  ASSUME NEW row \in Row, NEW v \in AnyValue, NEW rv \in Nat, NEW t \in Nat
  PROVE  /\ SetRow(row, v, t) \in Row /\ SetRow(row, v, t).ver = row.ver + 1
         /\ DelRow(row, t) \in Row /\ DelRow(row, t).ver = row.ver + 1
         /\ MarkRow(row, rv, t) \in Row /\ MarkRow(row, rv, t).ver = row.ver + 1
<1>1. row \in Row /\ row.ver \in Nat /\ row.ver + 1 \in Nat
  BY DEF Row
<1>2. SetRow(row, v, t) \in Row /\ SetRow(row, v, t).ver = row.ver + 1
  BY <1>1 DEF Row, SetRow
<1>3. DelRow(row, t) \in Row /\ DelRow(row, t).ver = row.ver + 1
  BY <1>1 DEF Row, DelRow
<1>4. MarkRow(row, rv, t) \in Row /\ MarkRow(row, rv, t).ver = row.ver + 1
  BY <1>1 DEF Row, MarkRow
<1>5. QED
  BY <1>2, <1>3, <1>4

LEMMA NewObject ==
  ASSUME NEW k \in Key, remote[k] \in Object, NEW req, req.val \in AnyValue, NEW t \in Nat
  PROVE  /\ Applied(k, req, t) \in Object
         /\ Applied(k, req, t).ver = remote[k].ver + 1
         /\ Applied(k, req, t).time = t
  BY DEF Object, Applied

\* the clock only moves forward, and with it what it bounds
LEMMA InsertType ==
  ASSUME TypeOK, NEW d \in Device, NEW k \in Key, NEW row \in Row, NEW t \in Nat,
         Insert(d, k, row, t), row.time = t, t \in {AppNow, SyncNow}
  PROVE  /\ local' \in [Device -> [Key -> Row]]
         /\ clock' \in Nat /\ clock <= clock'
         /\ \A e \in Device, o \in Key : local'[e][o].time <= clock'
<1>1. clock' = t /\ clock <= t /\ local' = [local EXCEPT ![d][k] = row]
  BY DEF Insert, AppNow, SyncNow, TypeOK
<1>2. local' \in [Device -> [Key -> Row]]
  BY <1>1 DEF TypeOK
<1>3. ASSUME NEW e \in Device, NEW o \in Key PROVE local'[e][o].time <= clock'
  <2>1. local[e][o].time \in Nat /\ local[e][o].time <= clock /\ clock \in Nat
    BY DEF TypeOK, Row
  <2>2. local'[e][o] = row \/ local'[e][o] = local[e][o]
    BY <1>1 DEF TypeOK
  <2>3. QED
    BY <1>1, <2>1, <2>2
<1>4. QED
  BY <1>1, <1>2, <1>3

\* the parts of TypeOK that a step can leave alone together
RowsType    == /\ local \in [Device -> [Key -> Row]]
               /\ \A d \in Device, k \in Key : local[d][k].time <= clock
ObjectsType == /\ remote \in [Key -> Object]
               /\ \A k \in Key : remote[k].time <= clock
JobsType    == /\ running \in [Device -> BOOLEAN] /\ single \in [Device -> BOOLEAN]
               /\ job \in [Device -> [Key -> Job]]
               /\ \A d \in Device : running[d] <=> HasJob(d) \/ single[d]
RestType    == late \subseteq Late /\ clock \in Nat /\ writes \in 0 .. MaxWrites

LEMMA TypeParts == TypeOK <=> RowsType /\ ObjectsType /\ JobsType /\ RestType
  BY DEF TypeOK, RowsType, ObjectsType, JobsType, RestType

LEMMA GotoType ==
  ASSUME TypeOK, NEW d \in Device, NEW k \in Key, NEW j \in Job,
         job[d][k].st # "none", j.st # "none", Goto(d, k, j)
  PROVE  JobsType'
<1>1. /\ job' \in [Device -> [Key -> Job]]
      /\ running' \in [Device -> BOOLEAN] /\ single' \in [Device -> BOOLEAN]
  BY DEF Goto, TypeOK
<1>2. \A e \in Device : (\E o \in Key : job'[e][o].st # "none") <=> HasJob(e)
  BY DEF Goto, TypeOK, HasJob
<1>3. \A e \in Device : running'[e] <=> (\E o \in Key : job'[e][o].st # "none") \/ single'[e]
  BY <1>2 DEF Goto, TypeOK
<1>4. QED
  BY <1>1, <1>3 DEF JobsType, HasJob

LEMMA FinishType ==
  ASSUME TypeOK, NEW d \in Device, NEW k \in Key, Finish(d, k)
  PROVE  JobsType'
<1>1. [st |-> "none"] \in Job
  BY NewJobs
<1>2. /\ job' \in [Device -> [Key -> Job]]
      /\ running' \in [Device -> BOOLEAN] /\ single' \in [Device -> BOOLEAN]
  BY <1>1 DEF Finish, TypeOK
<1>3. ASSUME NEW e \in Device
      PROVE  running'[e] <=> (\E o \in Key : job'[e][o].st # "none") \/ single'[e]
  <2>1. CASE e = d
    <3>1. \A o \in Key : job'[e][o] = IF o = k THEN [st |-> "none"] ELSE job[d][o]
      BY <2>1 DEF Finish, TypeOK
    <3>2. running'[e] <=> \E o \in Key \ {k} : job[d][o].st # "none"
      BY <2>1 DEF Finish, TypeOK
    <3>3. single'[e] = FALSE
      BY <2>1 DEF Finish, TypeOK
    <3>4. QED
      BY <3>1, <3>2, <3>3
  <2>2. CASE e # d
    BY <2>2 DEF Finish, TypeOK, HasJob
  <2>3. QED
    BY <2>1, <2>2
<1>4. QED
  BY <1>2, <1>3 DEF JobsType, HasJob

LEMMA RowsKept ==
  ASSUME TypeOK, UNCHANGED local, clock' \in Nat, clock <= clock' PROVE RowsType'
<1>1. \A d \in Device, k \in Key : local[d][k].time \in Nat /\ clock \in Nat
  BY DEF TypeOK, Row
<1>2. QED
  BY <1>1 DEF TypeOK, RowsType

LEMMA ObjectsKept ==
  ASSUME TypeOK, UNCHANGED remote, clock' \in Nat, clock <= clock' PROVE ObjectsType'
<1>1. \A k \in Key : remote[k].time \in Nat /\ clock \in Nat
  BY DEF TypeOK, Object
<1>2. QED
  BY <1>1 DEF TypeOK, ObjectsType

LEMMA AppTypes ==
  ASSUME TypeOK, NEW d \in Device, NEW k \in Key, Set(d, k) \/ Del(d, k)
  PROVE  TypeOK'
<1>1. writes + 1 \in Value /\ writes + 1 \in 0 .. MaxWrites /\ clock \in Nat
  BY KVAssumption DEF Set, Del, TypeOK, Value
<1>2. local[d][k] \in Row
  BY DEF TypeOK
<1>3. PICK row \in Row : Insert(d, k, row, AppNow) /\ row.time = AppNow
  <2>1. SetRow(local[d][k], writes + 1, AppNow) \in Row /\ DelRow(local[d][k], AppNow) \in Row
    BY <1>1, <1>2, NewRows DEF AppNow, AnyValue
  <2>2. /\ SetRow(local[d][k], writes + 1, AppNow).time = AppNow
        /\ DelRow(local[d][k], AppNow).time = AppNow
    BY <1>2 DEF SetRow, DelRow, Row
  <2>3. QED
    BY <2>1, <2>2 DEF Set, Del
<1>4. RowsType' /\ clock' \in Nat /\ clock <= clock'
  BY <1>1, <1>3, InsertType DEF AppNow, RowsType
<1>5. ObjectsType'
  BY <1>4, ObjectsKept DEF Set, Del
<1>6. JobsType'
  BY DEF Set, Del, TypeOK, JobsType, HasJob
<1>7. RestType'
  BY <1>1, <1>4 DEF Set, Del, TypeOK, RestType
<1>8. QED
  BY <1>4, <1>5, <1>6, <1>7, TypeParts, PTL

LEMMA JobOnlyTypes ==
  ASSUME TypeOK, JobsType', UNCHANGED <<local, remote, late, clock, writes>>
  PROVE  TypeOK'
  BY DEF TypeOK, JobsType

LEMMA StartTypes ==
  ASSUME TypeOK, KeysForAll, NEW d \in Device,
         \/ SyncAllKeys(d) \/ KeysAnswered(d)
         \/ \E k \in Key : SyncKey(d, k) \/ VerAnswered(d, k)
  PROVE  TypeOK'
<1>1. CASE SyncAllKeys(d)
  <2>1. [st |-> "keys"] \in Job
    BY NewJobs
  <2>2. JobsType'
    BY <1>1, <2>1, KVAssumption DEF SyncAllKeys, TypeOK, JobsType, HasJob
  <2>3. QED
    BY <1>1, <2>2, JobOnlyTypes DEF SyncAllKeys
<1>2. \A k \in Key : RemoteInfo(k) \in Job /\ RemoteInfo(k).st = "info"
  BY NewJobs DEF TypeOK, Object, RemoteInfo, Info, Errors
<1>3. CASE KeysAnswered(d)
  <2>1. PICK known \in SUBSET Key :
          /\ job' = [job EXCEPT ![d] =
                       [k \in Key |-> IF k \in known THEN RemoteInfo(k) ELSE [st |-> "none"]]]
          /\ running' = [running EXCEPT ![d] = known # {} \/ single[d]]
          /\ UNCHANGED single
    BY <1>3 DEF KeysAnswered, KeysForAll
  <2>2. [st |-> "none"] \in Job
    BY NewJobs
  <2>3. job' \in [Device -> [Key -> Job]] /\ running' \in [Device -> BOOLEAN]
    BY <1>2, <2>1, <2>2 DEF TypeOK
  <2>4. ASSUME NEW e \in Device
        PROVE  running'[e] <=> (\E k \in Key : job'[e][k].st # "none") \/ single'[e]
    <3>1. CASE e = d
      <4>1. \A k \in Key : job'[e][k].st # "none" <=> k \in known
        BY <1>2, <2>1, <3>1 DEF TypeOK
      <4>2. running'[e] <=> known # {} \/ single[d]
        BY <2>1, <3>1 DEF TypeOK
      <4>3. QED
        BY <2>1, <3>1, <4>1, <4>2
    <3>2. CASE e # d
      BY <2>1, <3>2 DEF TypeOK, HasJob
    <3>3. QED
      BY <3>1, <3>2
  <2>5. single' \in [Device -> BOOLEAN]
    BY <2>1 DEF TypeOK
  <2>6. QED
    BY <1>3, <2>3, <2>4, <2>5, JobOnlyTypes DEF KeysAnswered, JobsType, HasJob
<1>4. ASSUME NEW k \in Key, SyncKey(d, k) PROVE TypeOK'
  <2>1. [st |-> "ver"] \in Job
    BY NewJobs
  <2>2. JobsType'
    BY <1>4, <2>1 DEF SyncKey, TypeOK, JobsType, HasJob
  <2>3. QED
    BY <1>4, <2>2, JobOnlyTypes DEF SyncKey
<1>5. ASSUME NEW k \in Key, VerAnswered(d, k) PROVE TypeOK'
  <2>1. PICK j \in Job : Goto(d, k, j) /\ j.st = "info"
    <3>1. \A e \in Errors, t \in {0, clock} : Info(0, t, e) \in Job /\ Info(0, t, e).st = "info"
      BY NewJobs DEF TypeOK, Info
    <3>2. QED
      BY <1>2, <1>5, <3>1 DEF VerAnswered, Errors
  <2>2. JobsType'
    BY <1>5, <2>1, GotoType DEF VerAnswered
  <2>3. QED
    BY <1>5, <2>2, JobOnlyTypes DEF VerAnswered
<1>6. QED
  BY <1>1, <1>3, <1>4, <1>5

\* what Decide may go on with
Decisions(row, j) ==
    {Request("del", row, j.ver), Request("get", row, j.ver)}
        \cup {Request("put", row, v) : v \in {1, j.ver}}
        \cup {[st |-> st, lver |-> row.ver, rver |-> j.ver] : st \in {"mark", "drop"}}

LEMMA DecideGoes ==
  ASSUME NEW d \in Device, NEW k \in Key, Decide(d, k)
  PROVE  Finish(d, k) \/ \E j \in Decisions(local[d][k], job[d][k]) : Goto(d, k, j)
  BY DEF Decide, Decisions

LEMMA ReadTypes ==
  ASSUME TypeOK, NEW d \in Device, NEW k \in Key,
         ReadRecorded(d, k) \/ Decide(d, k) \/ RemoteReads(d, k)
  PROVE  TypeOK'
<1>1. local[d][k] \in Row /\ local[d][k].ver \in Nat /\ local[d][k].rver \in Nat
  BY DEF TypeOK, Row
<1>2. job[d][k] \in Job /\ remote[k] \in Object
  BY DEF TypeOK
<1>3. job[d][k].st # "none"
  BY DEF ReadRecorded, Decide, RemoteReads
<1>4. Finish(d, k) \/ \E j \in Job : j.st # "none" /\ Goto(d, k, j)
  <2>1. CASE ReadRecorded(d, k)
    <3>1. job[d][k] \in InfoJob
      BY <1>2, <2>1, JobFields DEF ReadRecorded
    <3>2. [st |-> "recorded", ver |-> job[d][k].ver, time |-> job[d][k].time,
           err |-> job[d][k].err, rver |-> local[d][k].rver] \in Job
      BY <1>1, <3>1, NewJobs DEF InfoJob
    <3>3. QED
      BY <2>1, <3>2 DEF ReadRecorded
  <2>2. CASE Decide(d, k)
    <3>1. job[d][k] \in RecordedJob
      BY <1>2, <2>2, JobFields DEF Decide
    <3>2. job[d][k].ver \in Nat
      BY <3>1 DEF RecordedJob
    <3>3. \A j \in Decisions(local[d][k], job[d][k]) : j \in Job /\ j.st # "none"
      BY <1>1, <3>2, NewJobs DEF Decisions, Request
    <3>4. QED
      BY <2>2, <3>3, DecideGoes
  <2>3. CASE RemoteReads(d, k)
    <3>1. job[d][k] \in RequestJob
      BY <1>2, <2>3, JobFields DEF RemoteReads
    <3>2. [st |-> "store", lver |-> job[d][k].lver, rver |-> remote[k].ver,
           val |-> remote[k].val, time |-> remote[k].time] \in Job
      BY <1>2, <3>1, NewJobs DEF RequestJob, Object
    <3>3. QED
      BY <2>3, <3>2 DEF RemoteReads
  <2>4. QED
    BY <2>1, <2>2, <2>3
<1>5. JobsType'
  BY <1>3, <1>4, GotoType, FinishType
<1>6. QED
  BY <1>5, JobOnlyTypes DEF ReadRecorded, Decide, RemoteReads

LEMMA AppliedType ==
  ASSUME TypeOK, NEW k \in Key, NEW req, req.val \in AnyValue,
         remote' = [remote EXCEPT ![k] = Applied(k, req, SyncNow)], clock' = SyncNow
  PROVE  ObjectsType' /\ clock' \in Nat /\ clock <= clock'
<1>1. clock \in Nat /\ clock' = clock + 1
  BY DEF TypeOK, SyncNow
<1>2. /\ Applied(k, req, SyncNow) \in Object
      /\ Applied(k, req, SyncNow).time = clock'
  BY <1>1, NewObject DEF TypeOK, SyncNow
<1>3. ASSUME NEW o \in Key PROVE remote'[o].time <= clock'
  <2>1. remote[o].time \in Nat /\ remote[o].time <= clock
    BY DEF TypeOK, Object
  <2>2. remote'[o].time \in {remote[o].time, clock'}
    BY <1>2 DEF TypeOK
  <2>3. QED
    BY <1>1, <2>1, <2>2
<1>4. remote' \in [Key -> Object]
  BY <1>2 DEF TypeOK
<1>5. QED
  BY <1>1, <1>3, <1>4 DEF ObjectsType

LEMMA WriteTypes ==
  ASSUME TypeOK, NEW d \in Device, NEW k \in Key, RemoteWrites(d, k)
  PROVE  TypeOK'
<1>1. job[d][k] \in RequestJob
  BY JobFields DEF RemoteWrites, TypeOK
<1>2. CASE Accepts(k, job[d][k])
  <2>1. ObjectsType' /\ clock' \in Nat /\ clock <= clock'
    BY <1>1, <1>2, AppliedType DEF RemoteWrites, RequestJob
  <2>2. [st |-> "ack", lver |-> job[d][k].lver, rver |-> remote[k].ver + 1] \in Job
    <3>1. job[d][k].lver \in Nat /\ remote[k].ver + 1 \in Nat
      BY <1>1 DEF RequestJob, TypeOK, Object
    <3>2. QED
      BY <3>1, NewJobs
  <2>3. JobsType'
    BY <1>2, <2>2, GotoType DEF RemoteWrites
  <2>4. RowsType'
    BY <2>1, RowsKept DEF RemoteWrites
  <2>5. RestType'
    BY <2>1 DEF RemoteWrites, TypeOK, RestType
  <2>6. QED
    BY <2>1, <2>3, <2>4, <2>5, TypeParts, PTL
<1>3. CASE ~Accepts(k, job[d][k])
  <2>1. JobsType'
    BY <1>3, FinishType DEF RemoteWrites
  <2>2. QED
    BY <1>3, <2>1, JobOnlyTypes DEF RemoteWrites
<1>4. QED
  BY <1>2, <1>3

LEMMA RowTypes ==
  ASSUME TypeOK, NEW d \in Device, NEW k \in Key,
         Store(d, k) \/ StoreMalformed(d, k) \/ Drop(d, k) \/ Mark(d, k)
  PROVE  TypeOK'
<1>1. clock \in Nat /\ SyncNow \in Nat /\ local[d][k] \in Row /\ job[d][k] \in Job
  BY DEF TypeOK, SyncNow
<1>2. job[d][k].st # "none"
  BY DEF Store, StoreMalformed, Drop, Mark
<1>3. \/ job[d][k] \in StoreJob /\ (Store(d, k) \/ StoreMalformed(d, k))
      \/ job[d][k] \in MarkJob /\ (Drop(d, k) \/ Mark(d, k))
  BY <1>1, JobFields DEF Store, StoreMalformed, Drop, Mark
<1>4. job[d][k].lver + 1 \in Nat /\ job[d][k].rver \in Nat
  BY <1>3 DEF StoreJob, MarkJob
<1>5. JobsType'
  <2>1. [st |-> "mark", lver |-> job[d][k].lver + 1, rver |-> job[d][k].rver] \in Job
    BY <1>4, NewJobs
  <2>2. \/ Finish(d, k)
        \/ Goto(d, k, [st |-> "mark", lver |-> job[d][k].lver + 1, rver |-> job[d][k].rver])
    BY DEF Store, StoreMalformed, Drop, Mark
  <2>3. QED
    BY <1>2, <2>1, <2>2, GotoType, FinishType
<1>6. CASE UNCHANGED <<local, clock>>
  BY <1>5, <1>6, JobOnlyTypes DEF Store, StoreMalformed, Drop, Mark
<1>7. CASE ~UNCHANGED <<local, clock>>
  <2>1. PICK row \in Row : Insert(d, k, row, SyncNow) /\ row.time = SyncNow
    <3>1. CASE Store(d, k)
      <4>1. SetRow(local[d][k], job[d][k].val, SyncNow) \in Row
        <5>1. CASE job[d][k] \in StoreJob
          BY <1>1, <5>1, NewRows DEF StoreJob
        <5>2. QED
          BY <1>1, <3>1, <5>1, JobFields DEF Store
      <4>2. SetRow(local[d][k], job[d][k].val, SyncNow).time = SyncNow
        BY DEF SetRow
      <4>3. QED
        BY <1>7, <3>1, <4>1, <4>2 DEF Store
    <3>2. CASE StoreMalformed(d, k) \/ Drop(d, k) \/ Mark(d, k)
      <4>1. /\ DelRow(local[d][k], SyncNow) \in Row
            /\ MarkRow(local[d][k], job[d][k].rver, SyncNow) \in Row
        BY <1>1, <1>4, NewRows DEF AnyValue
      <4>2. /\ DelRow(local[d][k], SyncNow).time = SyncNow
            /\ MarkRow(local[d][k], job[d][k].rver, SyncNow).time = SyncNow
        BY <1>1 DEF DelRow, MarkRow, Row
      <4>3. QED
        BY <1>7, <3>2, <4>1, <4>2 DEF StoreMalformed, Drop, Mark
    <3>3. QED
      BY <3>1, <3>2
  <2>2. RowsType' /\ clock' \in Nat /\ clock <= clock'
    BY <1>1, <2>1, InsertType DEF RowsType
  <2>3. ObjectsType'
    BY <2>2, ObjectsKept DEF Store, StoreMalformed, Drop, Mark
  <2>4. RestType'
    BY <2>2 DEF Store, StoreMalformed, Drop, Mark, TypeOK, RestType
  <2>5. QED
    BY <1>5, <2>2, <2>3, <2>4, TypeParts, PTL
<1>8. QED
  BY <1>6, <1>7

LEMMA UnderWayType ==
  ASSUME TypeOK, NEW d \in Device, NEW K \in SUBSET Key, RequestsMatch
  PROVE  UnderWay(d, K) \subseteq Late
<1>1. ASSUME NEW k \in K, job[d][k].st \in {"put", "del"}
      PROVE  [key |-> k, op |-> job[d][k].op, ver |-> job[d][k].ver, val |-> job[d][k].val] \in Late
  <2>1. job[d][k] \in RequestJob /\ job[d][k].op \in {"put", "del"}
    BY <1>1, JobFields DEF TypeOK, RequestsMatch
  <2>2. QED
    BY <2>1 DEF RequestJob, Late
<1>2. QED
  BY <1>1 DEF UnderWay

LEMMA FaultTypes ==
  ASSUME TypeOK, RequestsMatch, KeysForAll, NEW d \in Device,
         Restart(d) \/ \E k \in Key : Unanswered(d, k) \/ Throw(d, k)
  PROVE  TypeOK'
<1>1. late' \subseteq Late
  BY UnderWayType DEF Restart, Unanswered, Throw, TypeOK
<1>2. [st |-> "none"] \in Job
  BY NewJobs
<1>3. \/ \E k \in Key : Finish(d, k)
      \/ \E k \in Key : single[d] /\ Goto(d, k, [st |-> "none"])
      \/ /\ job' = [job EXCEPT ![d] = [k \in Key |-> [st |-> "none"]]]
         /\ running' = [running EXCEPT ![d] = FALSE]
         /\ single' = [single EXCEPT ![d] = FALSE]
  BY DEF Restart, Unanswered, Throw, KeysForAll, TypeOK
<1>4. JobsType'
  <2>1. CASE \E k \in Key : Finish(d, k)
    BY <2>1, FinishType
  <2>2. ASSUME NEW k \in Key, single[d], Goto(d, k, [st |-> "none"]) PROVE JobsType'
    <3>1. /\ job' \in [Device -> [Key -> Job]]
          /\ running' \in [Device -> BOOLEAN] /\ single' \in [Device -> BOOLEAN]
      BY <1>2, <2>2 DEF Goto, TypeOK
    <3>2. \A e \in Device : running'[e] <=> (\E o \in Key : job'[e][o].st # "none") \/ single'[e]
      BY <2>2 DEF Goto, TypeOK, HasJob
    <3>3. QED
      BY <3>1, <3>2 DEF JobsType, HasJob
  <2>3. CASE /\ job' = [job EXCEPT ![d] = [k \in Key |-> [st |-> "none"]]]
             /\ running' = [running EXCEPT ![d] = FALSE]
             /\ single' = [single EXCEPT ![d] = FALSE]
    BY <1>2, <2>3 DEF TypeOK, JobsType, HasJob
  <2>4. QED
    BY <1>3, <2>1, <2>2, <2>3
<1>5. UNCHANGED <<local, remote, clock, writes>>
  BY DEF Restart, Unanswered, Throw
<1>6. QED
  BY <1>1, <1>4, <1>5 DEF TypeOK, JobsType

LEMMA LateTypes ==
  ASSUME TypeOK, NEW m \in late, LateArrives(m)
  PROVE  TypeOK'
<1>1. m.key \in Key /\ m.val \in AnyValue
  BY DEF TypeOK, Late
<1>2. JobsType'
  BY DEF LateArrives, TypeOK, JobsType, HasJob
<1>3. ObjectsType' /\ clock' \in Nat /\ clock <= clock'
  <2>1. CASE Accepts(m.key, m)
    BY <1>1, <2>1, AppliedType DEF LateArrives
  <2>2. CASE ~Accepts(m.key, m)
    BY <2>2 DEF LateArrives, TypeOK, ObjectsType
  <2>3. QED
    BY <2>1, <2>2
<1>4. RowsType'
  BY <1>3, RowsKept DEF LateArrives
<1>5. RestType'
  BY <1>3 DEF LateArrives, TypeOK, RestType
<1>6. QED
  BY <1>2, <1>3, <1>4, <1>5, TypeParts, PTL

LEMMA NextTypes ==
  ASSUME IInv, [Next]_vars PROVE TypeOK'
<1>1. RequestsMatch
  BY DEF IInv, JobsKnow, JobKnows, RequestKnows, RequestsMatch
<1>2. CASE UNCHANGED vars
  BY <1>2 DEF vars, IInv, TypeOK, HasJob
<1>3. ASSUME NEW d \in Device, NEW k \in Key, JobStep(d, k) PROVE TypeOK'
  BY <1>3, StartTypes, ReadTypes, WriteTypes, RowTypes DEF JobStep, IInv
<1>4. QED
  BY <1>1, <1>2, <1>3, AppTypes, StartTypes, RowTypes, FaultTypes, LateTypes DEF Next, IInv

-----------------------------------------------------------------------------
(* What rows and jobs know                                                  *)

\* The object moves to its next version: nobody has recorded that one yet.
LEMMA ObjectMoves ==
  ASSUME NEW row \in Row, NEW obj \in Object, NEW new \in Object, NEW j \in Job,
         new.ver = obj.ver + 1, obj.time <= new.time, row.time <= new.time,
         j.st \in {"info", "recorded"} => j.time <= new.time
  PROVE  /\ RowKnows(row, obj) => RowKnows(row, new)
         /\ JobKnows(row, obj, j) => JobKnows(row, new, j)
<1>1. /\ row.rver \in Nat /\ row.time \in Nat /\ obj.ver \in Nat /\ new.ver \in Nat
      /\ obj.time \in Nat /\ new.time \in Nat
  BY DEF Row, Object
<1>2. RowKnows(row, obj) => RowKnows(row, new)
  BY <1>1 DEF RowKnows
<1>3. ASSUME JobKnows(row, obj, j) PROVE JobKnows(row, new, j)
  <2>1. ASSUME j.st \in {"info", "recorded"} PROVE AnswerKnows(new, j)
    <3>1. j.ver \in Nat /\ j.time \in Nat /\ AnswerKnows(obj, j)
      BY <1>3, <2>1, JobFields DEF InfoJob, RecordedJob, JobKnows
    <3>2. j.time <= new.time
      BY <2>1
    <3>3. j.ver <= new.ver /\ j.ver # new.ver
      BY <1>1, <3>1 DEF AnswerKnows
    <3>4. QED
      BY <3>1, <3>2, <3>3 DEF AnswerKnows
  <2>2. ASSUME j.st = "get" PROVE GetKnows(row, new, j)
    BY <1>1, <1>3, <2>2 DEF JobKnows, GetKnows
  <2>3. ASSUME j.st = "store" PROVE StoreKnows(row, new, j)
    <3>1. j.rver \in Nat
      BY <2>3, JobFields DEF StoreJob
    <3>2. QED
      BY <1>1, <1>3, <2>3, <3>1 DEF JobKnows, StoreKnows
  <2>4. ASSUME j.st \in {"ack", "mark", "drop"} PROVE j.rver \in Nat
    BY <2>4, JobFields DEF MarkJob
  <2>5. ASSUME j.st = "drop" PROVE DropKnows(row, new, j)
    BY <1>1, <1>3, <2>4, <2>5 DEF JobKnows, DropKnows
  <2>6. ASSUME j.st \in {"ack", "mark"} PROVE MarkKnows(row, new, j)
    BY <1>1, <1>3, <2>4, <2>6 DEF JobKnows, MarkKnows
  <2>7. QED
    BY <1>3, <2>1, <2>2, <2>3, <2>5, <2>6 DEF JobKnows
<1>4. QED
  BY <1>2, <1>3

\* The row moves to its next version: the lock of the device's job has gone stale.
LEMMA RowMoves ==
  ASSUME NEW row \in Row, NEW new \in Row, NEW obj \in Object, NEW j \in Job,
         new.ver = row.ver + 1, JobKnows(row, obj, j)
  PROVE  JobKnows(new, obj, j)
<1>1. row.ver \in Nat /\ new.ver \in Nat
  BY DEF Row
<1>2. j.st \in {"put", "del", "get", "store", "drop", "ack", "mark"} => j.lver \in Nat
  BY JobFields DEF RequestJob, StoreJob, MarkJob
<1>3. ASSUME j.st \in {"put", "del"} PROVE RequestKnows(new, j)
  BY <1>1, <1>2, <1>3 DEF JobKnows, RequestKnows
<1>4. ASSUME j.st = "get" PROVE GetKnows(new, obj, j)
  BY <1>1, <1>2, <1>4 DEF JobKnows, GetKnows
<1>5. ASSUME j.st = "store" PROVE StoreKnows(new, obj, j)
  BY <1>1, <1>2, <1>5 DEF JobKnows, StoreKnows
<1>6. ASSUME j.st = "drop" PROVE DropKnows(new, obj, j)
  BY <1>1, <1>2, <1>6 DEF JobKnows, DropKnows
<1>7. ASSUME j.st \in {"ack", "mark"} PROVE MarkKnows(new, obj, j)
  BY <1>1, <1>2, <1>7 DEF JobKnows, MarkKnows
<1>8. QED
  BY <1>3, <1>4, <1>5, <1>6, <1>7 DEF JobKnows

\* A row that was just written by the app, or is about to be marked, records none.
LEMMA UnmarkedRow ==
  ASSUME NEW row, NEW obj \in Object, row.rver = 0 PROVE RowKnows(row, obj)
  BY DEF RowKnows, Object

\* A job that has read nothing yet knows nothing.
LEMMA NewJobKnows ==
  ASSUME NEW row, NEW obj, NEW j, j.st \in {"none", "keys", "ver"} PROVE JobKnows(row, obj, j)
  BY DEF JobKnows

\* What the remote answers holds when it answers.
LEMMA AnswerHolds ==
  ASSUME TypeOK, NEW row, NEW k \in Key
  PROVE  JobKnows(row, remote[k], RemoteInfo(k))
<1>1. remote[k].ver \in Nat /\ remote[k].time \in Nat
  BY DEF TypeOK, Object
<1>2. AnswerKnows(remote[k], RemoteInfo(k))
  BY <1>1 DEF AnswerKnows, RemoteInfo, Info
<1>3. RemoteInfo(k).st = "info"
  BY DEF RemoteInfo, Info
<1>4. QED
  BY <1>2, <1>3 DEF JobKnows

\* Frames: what is left to show when a step changes the jobs of a device only, ...
LEMMA JobsChange ==
  ASSUME TypeOK, RowsKnow, JobsKnow, UNCHANGED <<local, remote>>,
         NEW d \in Device, NEW js \in [Key -> Job], job' = [job EXCEPT ![d] = js],
         \A k \in Key : JobKnows(local[d][k], remote[k], js[k])
  PROVE  RowsKnow' /\ JobsKnow'
<1>1. \A e \in Device : job'[e] = IF e = d THEN js ELSE job[e]
  BY DEF TypeOK
<1>2. QED
  BY <1>1 DEF RowsKnow, JobsKnow

LEMMA JobChanges ==
  ASSUME TypeOK, RowsKnow, JobsKnow, UNCHANGED <<local, remote>>,
         NEW d \in Device, NEW k \in Key, NEW j \in Job, job' = [job EXCEPT ![d][k] = j],
         JobKnows(local[d][k], remote[k], j)
  PROVE  RowsKnow' /\ JobsKnow'
<1>1. \A e \in Device, o \in Key : job'[e][o] = IF e = d /\ o = k THEN j ELSE job[e][o]
  BY DEF TypeOK
<1>2. QED
  BY <1>1 DEF RowsKnow, JobsKnow

\* ... a row and the job on it, ...
LEMMA RowChanges ==
  ASSUME TypeOK, RowsKnow, JobsKnow, UNCHANGED remote,
         NEW d \in Device, NEW k \in Key, NEW row \in Row, NEW j \in Job,
         local' = [local EXCEPT ![d][k] = row], job' = [job EXCEPT ![d][k] = j],
         RowKnows(row, remote[k]), JobKnows(row, remote[k], j)
  PROVE  RowsKnow' /\ JobsKnow'
<1>1. \A e \in Device, o \in Key :
         /\ job'[e][o] = IF e = d /\ o = k THEN j ELSE job[e][o]
         /\ local'[e][o] = IF e = d /\ o = k THEN row ELSE local[e][o]
  BY DEF TypeOK
<1>2. QED
  BY <1>1 DEF RowsKnow, JobsKnow

\* ... or an object.
LEMMA ObjectChanges ==
  ASSUME TypeOK, RowsKnow, JobsKnow, AnswersPast, UNCHANGED local, NEW k \in Key, NEW req,
         req.val \in AnyValue, remote' = [remote EXCEPT ![k] = Applied(k, req, SyncNow)]
  PROVE  /\ RowsKnow'
         /\ \A e \in Device, o \in Key : JobKnows(local'[e][o], remote'[o], job[e][o])
<1>1. SyncNow \in Nat /\ clock \in Nat /\ clock <= SyncNow /\ remote[k].time <= SyncNow
  BY DEF TypeOK, SyncNow, Object
<1>2. /\ Applied(k, req, SyncNow) \in Object
      /\ Applied(k, req, SyncNow).ver = remote[k].ver + 1
      /\ remote[k].time <= Applied(k, req, SyncNow).time
      /\ Applied(k, req, SyncNow).time = SyncNow
  BY <1>1, NewObject DEF TypeOK
<1>3. ASSUME NEW e \in Device, NEW o \in Key
      PROVE  RowKnows(local'[e][o], remote'[o]) /\ JobKnows(local'[e][o], remote'[o], job[e][o])
  <2>1. /\ RowKnows(local[e][o], remote[o]) /\ JobKnows(local[e][o], remote[o], job[e][o])
        /\ local[e][o] \in Row /\ remote[o] \in Object /\ job[e][o] \in Job
    BY DEF RowsKnow, JobsKnow, TypeOK
  <2>2. remote'[o] = IF o = k THEN Applied(k, req, SyncNow) ELSE remote[o]
    BY DEF TypeOK
  <2>3. CASE o = k
    <3>1. local[e][o].time <= SyncNow
      <4>1. local[e][o].time \in Nat /\ local[e][o].time <= clock
        BY DEF TypeOK, Row
      <4>2. QED
        BY <1>1, <4>1
    <3>2. job[e][o].st \in {"info", "recorded"} => job[e][o].time <= SyncNow
      <4>1. ASSUME job[e][o].st \in {"info", "recorded"} PROVE job[e][o].time \in Nat
        BY <2>1, <4>1, JobFields DEF InfoJob, RecordedJob
      <4>2. QED
        BY <1>1, <4>1 DEF AnswersPast
    <3>3. QED
      BY <1>2, <2>1, <2>2, <2>3, <3>1, <3>2, ObjectMoves
  <2>4. CASE o # k
    BY <2>1, <2>2, <2>4
  <2>5. QED
    BY <2>3, <2>4
<1>4. QED
  BY <1>3 DEF RowsKnow

LEMMA FinishKnows ==
  ASSUME TypeOK, RowsKnow, JobsKnow, UNCHANGED <<local, remote>>,
         NEW d \in Device, NEW k \in Key, Finish(d, k)
  PROVE  RowsKnow' /\ JobsKnow'
<1>1. [st |-> "none"] \in Job /\ JobKnows(local[d][k], remote[k], [st |-> "none"])
  BY NewJobs, NewJobKnows
<1>2. QED
  BY <1>1, JobChanges DEF Finish

LEMMA AppKnows ==
  ASSUME TypeOK, RowsKnow, JobsKnow, NEW d \in Device, NEW k \in Key, Set(d, k) \/ Del(d, k)
  PROVE  RowsKnow' /\ JobsKnow'
<1>1. /\ writes + 1 \in AnyValue /\ clock \in Nat /\ local[d][k] \in Row /\ job[d][k] \in Job
      /\ remote[k] \in Object
  BY KVAssumption DEF Set, Del, TypeOK, Value, AnyValue
<1>2. PICK row \in Row : /\ local' = [local EXCEPT ![d][k] = row]
                         /\ row.ver = local[d][k].ver + 1 /\ row.rver = 0
  <2>1. /\ SetRow(local[d][k], writes + 1, AppNow) \in Row
        /\ SetRow(local[d][k], writes + 1, AppNow).ver = local[d][k].ver + 1
        /\ DelRow(local[d][k], AppNow) \in Row
        /\ DelRow(local[d][k], AppNow).ver = local[d][k].ver + 1
    BY <1>1, NewRows DEF AppNow
  <2>2. SetRow(local[d][k], writes + 1, AppNow).rver = 0 /\ DelRow(local[d][k], AppNow).rver = 0
    BY <1>1 DEF SetRow, DelRow, Row
  <2>3. QED
    BY <2>1, <2>2 DEF Set, Del, Insert
<1>3. RowKnows(row, remote[k])
  BY <1>1, <1>2, UnmarkedRow
<1>4. JobKnows(row, remote[k], job[d][k])
  <2>1. JobKnows(local[d][k], remote[k], job[d][k])
    BY DEF JobsKnow
  <2>2. QED
    BY <1>1, <1>2, <2>1, RowMoves
<1>5. job' = [job EXCEPT ![d][k] = job[d][k]] /\ UNCHANGED remote
  BY DEF Set, Del, TypeOK
<1>6. QED
  BY <1>1, <1>2, <1>3, <1>4, <1>5, RowChanges

LEMMA StartKnows ==
  ASSUME TypeOK, RowsKnow, JobsKnow, NEW d \in Device,
         \/ SyncAllKeys(d) \/ KeysAnswered(d)
         \/ \E k \in Key : SyncKey(d, k) \/ VerAnswered(d, k)
  PROVE  RowsKnow' /\ JobsKnow'
<1>1. UNCHANGED <<local, remote>>
  BY DEF SyncAllKeys, KeysAnswered, SyncKey, VerAnswered
<1>2. \A st \in {"none", "keys", "ver"} :
         /\ [st |-> st] \in Job
         /\ \A k \in Key : JobKnows(local[d][k], remote[k], [st |-> st])
  BY NewJobs, NewJobKnows
<1>3. \A k \in Key : /\ RemoteInfo(k) \in Job
                    /\ JobKnows(local[d][k], remote[k], RemoteInfo(k))
  BY NewJobs, AnswerHolds DEF TypeOK, Object, RemoteInfo, Errors
<1>4. CASE SyncAllKeys(d)
  <2>1. [k \in Key |-> [st |-> "keys"]] \in [Key -> Job]
    BY <1>2
  <2>2. QED
    BY <1>1, <1>2, <1>4, <2>1, JobsChange DEF SyncAllKeys
<1>5. CASE KeysAnswered(d)
  <2>1. PICK known : job' = [job EXCEPT ![d] =
             [k \in Key |-> IF k \in known THEN RemoteInfo(k) ELSE [st |-> "none"]]]
    BY <1>5 DEF KeysAnswered
  <2> DEFINE js == [k \in Key |-> IF k \in known THEN RemoteInfo(k) ELSE [st |-> "none"]]
  <2>2. js \in [Key -> Job] /\ \A k \in Key : JobKnows(local[d][k], remote[k], js[k])
    BY <1>2, <1>3
  <2> HIDE DEF js
  <2>3. job' = [job EXCEPT ![d] = js]
    BY <2>1 DEF js
  <2>4. QED
    BY <1>1, <2>2, <2>3, JobsChange
<1>6. ASSUME NEW k \in Key, SyncKey(d, k) PROVE RowsKnow' /\ JobsKnow'
  BY <1>1, <1>2, <1>6, JobChanges DEF SyncKey
<1>7. ASSUME NEW k \in Key, VerAnswered(d, k) PROVE RowsKnow' /\ JobsKnow'
  <2>1. PICK j \in {RemoteInfo(k), Info(0, 0, "unknown"), Info(0, clock, "notFound")} :
          Goto(d, k, j) /\ (j # RemoteInfo(k) => ~(remote[k].ver > 0))
    BY <1>7 DEF VerAnswered
  <2>2. remote[k].ver \in Nat /\ remote[k].time \in Nat /\ clock \in Nat
    BY DEF TypeOK, Object
  <2>3. ASSUME NEW i \in {Info(0, 0, "unknown"), Info(0, clock, "notFound")}
        PROVE  i \in Job /\ (~(remote[k].ver > 0) => JobKnows(local[d][k], remote[k], i))
    <3>0. Info(0, 0, "unknown") \in Job /\ Info(0, clock, "notFound") \in Job
      BY <2>2, NewJobs DEF Errors
    <3>1. i \in Job /\ i.st = "info"
      BY <3>0 DEF Info
    <3>2. ~(remote[k].ver > 0) => AnswerKnows(remote[k], i)
      BY <2>2 DEF AnswerKnows, Info
    <3>3. QED
      BY <3>1, <3>2 DEF JobKnows
  <2>4. j \in Job /\ JobKnows(local[d][k], remote[k], j)
    BY <1>3, <2>1, <2>3
  <2>5. QED
    BY <1>1, <2>1, <2>4, JobChanges DEF Goto
<1>8. QED
  BY <1>4, <1>5, <1>6, <1>7

\* The first txn of a job hands on what the remote answered.
LEMMA ReadRecordedKnows ==
  ASSUME TypeOK, RowsKnow, JobsKnow, NEW d \in Device, NEW k \in Key, ReadRecorded(d, k)
  PROVE  RowsKnow' /\ JobsKnow'
<1>1. UNCHANGED <<local, remote>>
  BY DEF ReadRecorded
<1> DEFINE j == job[d][k]
           new == [st |-> "recorded", ver |-> j.ver, time |-> j.time, err |-> j.err,
                   rver |-> local[d][k].rver]
<1>2. j \in InfoJob /\ AnswerKnows(remote[k], j)
  BY JobFields DEF ReadRecorded, TypeOK, JobsKnow, JobKnows
<1>3. new \in Job
  BY <1>2, NewJobs DEF InfoJob, TypeOK, Row
<1>4. JobKnows(local[d][k], remote[k], new)
  BY <1>2 DEF AnswerKnows, JobKnows
<1>5. CASE Finish(d, k)
  BY <1>1, <1>5, FinishKnows
<1>6. CASE Goto(d, k, new)
  BY <1>1, <1>3, <1>4, <1>6, JobChanges DEF Goto
<1>7. QED
  BY <1>5, <1>6 DEF ReadRecorded

\* The second txn of a job: what it goes on with fits the row it has just read.
LEMMA DecideKnows ==
  ASSUME TypeOK, RowsKnow, JobsKnow, NEW d \in Device, NEW k \in Key, Decide(d, k)
  PROVE  RowsKnow' /\ JobsKnow'
<1> DEFINE j == job[d][k]
           row == local[d][k]
           obj == remote[k]
<1>1. UNCHANGED <<local, remote>>
  BY DEF Decide
<1>2. j \in RecordedJob /\ AnswerKnows(obj, j)
  BY JobFields DEF Decide, TypeOK, JobsKnow, JobKnows
<1>3. /\ j.ver \in Nat /\ j.time \in Nat /\ j.err \in Errors
      /\ row \in Row /\ row.ver \in Nat /\ row.time \in Nat /\ row.del \in BOOLEAN
      /\ obj \in Object /\ obj.ver \in Nat /\ obj.time \in Nat
  BY <1>2 DEF RecordedJob, TypeOK, Row, Object
<1>4. CASE Finish(d, k)
  BY <1>1, <1>4, FinishKnows
<1>5. ASSUME row.del, j.err = "tombstone",
             Goto(d, k, [st |-> "mark", lver |-> row.ver, rver |-> j.ver])
      PROVE  RowsKnow' /\ JobsKnow'
  <2> DEFINE new == [st |-> "mark", lver |-> row.ver, rver |-> j.ver]
  <2>1. new \in Job
    BY <1>3, NewJobs
  <2>2. MarkKnows(row, obj, new)
    BY <1>2, <1>3, <1>5 DEF AnswerKnows, MarkKnows, Live
  <2>3. JobKnows(row, obj, new)
    BY <2>2 DEF JobKnows
  <2>4. QED
    BY <1>1, <1>5, <2>1, <2>3, JobChanges DEF Goto
<1>6. ASSUME NEW op \in {"put", "del"}, NEW v \in Nat, row.del <=> op = "del",
             Goto(d, k, Request(op, row, v))
      PROVE  RowsKnow' /\ JobsKnow'
  <2>1. Request(op, row, v) \in Job
    BY <1>3, NewJobs
  <2>2. RequestKnows(row, Request(op, row, v)) /\ Request(op, row, v).st = op
    BY <1>3, <1>6 DEF RequestKnows, Request
  <2>3. JobKnows(row, obj, Request(op, row, v))
    BY <2>2 DEF JobKnows
  <2>4. QED
    BY <1>1, <1>6, <2>1, <2>3, JobChanges DEF Goto
<1>7. ASSUME j.err = "tombstone", ~(row.time >= j.time),
             Goto(d, k, [st |-> "drop", lver |-> row.ver, rver |-> j.ver])
      PROVE  RowsKnow' /\ JobsKnow'
  <2> DEFINE new == [st |-> "drop", lver |-> row.ver, rver |-> j.ver]
  <2>1. new \in Job
    BY <1>3, NewJobs
  <2>2. DropKnows(row, obj, new)
    BY <1>2, <1>3, <1>7 DEF AnswerKnows, DropKnows
  <2>3. JobKnows(row, obj, new)
    BY <2>2 DEF JobKnows
  <2>4. QED
    BY <1>1, <1>7, <2>1, <2>3, JobChanges DEF Goto
<1>8. ASSUME ~(row.time >= j.time), Goto(d, k, Request("get", row, j.ver))
      PROVE  RowsKnow' /\ JobsKnow'
  <2>1. Request("get", row, j.ver) \in Job
    BY <1>3, NewJobs
  <2>2. GetKnows(row, obj, Request("get", row, j.ver)) /\ Request("get", row, j.ver).st = "get"
    BY <1>2, <1>3, <1>8 DEF AnswerKnows, GetKnows, Request
  <2>3. JobKnows(row, obj, Request("get", row, j.ver))
    BY <2>2 DEF JobKnows
  <2>4. QED
    BY <1>1, <1>8, <2>1, <2>3, JobChanges DEF Goto
<1>9. CASE j.err = "unknown"
  BY <1>4, <1>9 DEF Decide
<1>10. CASE j.err # "unknown" /\ row.del /\ j.err = "tombstone"
  BY <1>5, <1>10 DEF Decide
<1>11. CASE j.err # "unknown" /\ ~(row.del /\ j.err = "tombstone") /\ row.time >= j.time
  <2>1. CASE row.del
    <3>1. Goto(d, k, Request("del", row, j.ver))
      BY <1>11, <2>1 DEF Decide
    <3>2. QED
      BY <1>3, <1>6, <2>1, <3>1
  <2>2. CASE ~row.del
    <3>1. \E v \in {1, j.ver} : Goto(d, k, Request("put", row, v))
      BY <1>11, <2>2 DEF Decide
    <3>2. QED
      BY <1>3, <1>6, <2>2, <3>1
  <2>3. QED
    BY <2>1, <2>2
<1>12. CASE j.err # "unknown" /\ ~(row.del /\ j.err = "tombstone") /\ ~(row.time >= j.time)
  <2>1. Goto(d, k, IF j.err = "tombstone"
                   THEN [st |-> "drop", lver |-> row.ver, rver |-> j.ver]
                   ELSE Request("get", row, j.ver))
    BY <1>12 DEF Decide
  <2>2. QED
    BY <1>7, <1>8, <1>12, <2>1
<1>13. QED
  BY <1>9, <1>10, <1>11, <1>12

LEMMA RemoteReadsKnows ==
  ASSUME TypeOK, RowsKnow, JobsKnow, NEW d \in Device, NEW k \in Key, RemoteReads(d, k)
  PROVE  RowsKnow' /\ JobsKnow'
<1> DEFINE j == job[d][k]
           row == local[d][k]
           obj == remote[k]
           new == [st |-> "store", lver |-> j.lver, rver |-> obj.ver, val |-> obj.val,
                   time |-> obj.time]
<1>1. UNCHANGED <<local, remote>>
  BY DEF RemoteReads
<1>2. CASE Finish(d, k)
  BY <1>1, <1>2, FinishKnows
<1>3. CASE obj.ver > 0 /\ ~obj.del /\ Goto(d, k, new)
  <2>1. j \in RequestJob /\ GetKnows(row, obj, j) /\ row \in Row /\ obj \in Object
    BY JobFields DEF RemoteReads, TypeOK, JobsKnow, JobKnows
  <2>2. new \in Job
    BY <2>1, NewJobs DEF RequestJob, Object
  <2>3. obj.ver \in Nat
    BY <2>1 DEF Object
  <2>4. StoreKnows(row, obj, new)
    BY <1>3, <2>1, <2>3 DEF GetKnows, StoreKnows
  <2>5. JobKnows(row, obj, new)
    BY <2>4 DEF JobKnows
  <2>6. QED
    BY <1>1, <1>3, <2>2, <2>5, JobChanges DEF Goto
<1>4. QED
  BY <1>2, <1>3 DEF RemoteReads

\* The remote takes a write: the row it came from, if it is still there, has what
\* the remote has now.
LEMMA RemoteWritesKnows ==
  ASSUME TypeOK, RowsKnow, JobsKnow, AnswersPast, NEW d \in Device, NEW k \in Key, RemoteWrites(d, k)
  PROVE  RowsKnow' /\ JobsKnow'
<1> DEFINE j == job[d][k]
           row == local[d][k]
           obj == Applied(k, j, SyncNow)
           new == [st |-> "ack", lver |-> j.lver, rver |-> remote[k].ver + 1]
<1>1. CASE ~Accepts(k, j)
  BY <1>1, FinishKnows DEF RemoteWrites
<1>2. CASE Accepts(k, j)
  <2>1. UNCHANGED local /\ remote' = [remote EXCEPT ![k] = obj] /\ Goto(d, k, new)
    BY <1>2 DEF RemoteWrites
  <2>2. j \in RequestJob /\ RequestKnows(row, j) /\ j.st \in {"put", "del"}
    BY JobFields DEF RemoteWrites, TypeOK, JobsKnow, JobKnows
  <2>3. /\ j.val \in AnyValue /\ j.lver \in Nat /\ remote[k].ver + 1 \in Nat
        /\ row.del \in BOOLEAN /\ row.ver \in Nat
    BY <2>2 DEF RequestJob, TypeOK, Object, Row
  <2>4. /\ RowsKnow'
        /\ \A e \in Device, o \in Key : JobKnows(local'[e][o], remote'[o], job[e][o])
    BY <2>1, <2>3, ObjectChanges
  <2>5. new \in Job
    BY <2>3, NewJobs
  <2>6. obj.ver = remote[k].ver + 1
    BY DEF Applied
  <2>7. j.lver = row.ver => Live(row) = Live(obj)
    <3>1. CASE j.op = "del"
      BY <2>2, <3>1 DEF RequestKnows, Live, Applied
    <3>2. CASE j.op = "put"
      BY <2>2, <3>2 DEF RequestKnows, Live, Applied
    <3>3. QED
      BY <2>2, <3>1, <3>2 DEF RequestKnows
  <2>8. MarkKnows(row, obj, new)
    BY <2>2, <2>3, <2>6, <2>7 DEF MarkKnows, RequestKnows
  <2>9. JobKnows(row, obj, new)
    BY <2>8 DEF JobKnows
  <2>10. local'[d][k] = row /\ remote'[k] = obj
    BY <2>1 DEF TypeOK
  <2>11. \A e \in Device, o \in Key : job'[e][o] = IF e = d /\ o = k THEN new ELSE job[e][o]
    BY <2>1 DEF Goto, TypeOK
  <2>12. JobKnows(local'[d][k], remote'[k], new)
    BY <2>9, <2>10
  <2> HIDE DEF new
  <2>13. QED
    BY <2>4, <2>11, <2>12 DEF JobsKnow
<1>3. QED
  BY <1>1, <1>2

\* The fetched value, or the remote's deletion, becomes a row.
LEMMA StoreKnowsMark ==
  ASSUME TypeOK, RowsKnow, JobsKnow, NEW d \in Device, NEW k \in Key, Store(d, k) \/ Drop(d, k)
  PROVE  RowsKnow' /\ JobsKnow'
<1> DEFINE j == job[d][k]
           row == local[d][k]
           obj == remote[k]
           new == [st |-> "mark", lver |-> j.lver + 1, rver |-> j.rver]
           stored == SetRow(row, j.val, SyncNow)
           dropped == DelRow(row, SyncNow)
<1>1. UNCHANGED remote
  BY DEF Store, Drop
<1>2. row \in Row /\ obj \in Object /\ row.ver \in Nat /\ obj.ver \in Nat /\ SyncNow \in Nat
  BY DEF TypeOK, Row, Object, SyncNow
<1>3. CASE Store(d, k) /\ Locked(d, k)
  <2>1. j \in StoreJob /\ StoreKnows(row, obj, j)
    BY <1>3, JobFields DEF Store, TypeOK, JobsKnow, JobKnows
  <2>2. j.lver \in Nat /\ j.rver \in Nat /\ j.val \in AnyValue /\ j.lver = row.ver
    BY <1>3, <2>1 DEF StoreJob, Locked
  <2>3. stored \in Row /\ stored.ver = row.ver + 1
    BY <1>2, <2>2, NewRows
  <2>4. new \in Job
    BY <2>2, NewJobs
  <2>5. RowKnows(stored, obj)
    BY <1>2, UnmarkedRow DEF SetRow
  <2>6. j.rver = obj.ver => Live(stored) = Live(obj)
    BY <2>1 DEF StoreKnows, Live, SetRow
  <2>7. MarkKnows(stored, obj, new)
    BY <1>2, <2>1, <2>2, <2>3, <2>6 DEF MarkKnows, StoreKnows
  <2>8. JobKnows(stored, obj, new)
    BY <2>7 DEF JobKnows
  <2>9. local' = [local EXCEPT ![d][k] = stored] /\ job' = [job EXCEPT ![d][k] = new]
    BY <1>3 DEF Store, Insert, Goto
  <2> HIDE DEF new, stored
  <2>10. QED
    BY <1>1, <2>3, <2>4, <2>5, <2>8, <2>9, RowChanges
<1>4. CASE Drop(d, k) /\ j.lver > 0 /\ Locked(d, k)
  <2>1. j \in MarkJob /\ DropKnows(row, obj, j)
    BY <1>4, JobFields DEF Drop, TypeOK, JobsKnow, JobKnows
  <2>2. j.lver \in Nat /\ j.rver \in Nat /\ j.lver = row.ver
    BY <1>4, <2>1 DEF MarkJob, Locked
  <2>3. dropped \in Row /\ dropped.ver = row.ver + 1
    BY <1>2, <2>2, NewRows DEF AnyValue
  <2>4. new \in Job
    BY <2>2, NewJobs
  <2>5. dropped.rver = 0 /\ dropped.del
    BY <1>2 DEF DelRow, Row
  <2>6. RowKnows(dropped, obj)
    BY <1>2, <2>5, UnmarkedRow
  <2>7. j.rver = obj.ver => Live(dropped) = Live(obj)
    BY <2>1, <2>5 DEF DropKnows, Live
  <2>8. MarkKnows(dropped, obj, new)
    BY <1>2, <2>1, <2>2, <2>3, <2>7 DEF MarkKnows, DropKnows
  <2>9. JobKnows(dropped, obj, new)
    BY <2>8 DEF JobKnows
  <2>10. local' = [local EXCEPT ![d][k] = dropped] /\ job' = [job EXCEPT ![d][k] = new]
    BY <1>4 DEF Drop, Insert, Goto
  <2> HIDE DEF new, dropped
  <2>11. QED
    BY <1>1, <2>3, <2>4, <2>6, <2>9, <2>10, RowChanges
<1>5. QED
  BY <1>1, <1>3, <1>4, FinishKnows DEF Store, Drop

\* The row of an undecipherable value is deleted.
LEMMA StoreMalformedKnows ==
  ASSUME TypeOK, RowsKnow, JobsKnow, NEW d \in Device, NEW k \in Key, StoreMalformed(d, k)
  PROVE  RowsKnow' /\ JobsKnow'
<1> DEFINE row == local[d][k]
           obj == remote[k]
           dropped == DelRow(row, SyncNow)
<1>1. UNCHANGED remote /\ Finish(d, k)
  BY DEF StoreMalformed
<1>2. row \in Row /\ obj \in Object /\ SyncNow \in Nat
  BY DEF TypeOK, SyncNow
<1>3. CASE local' = [local EXCEPT ![d][k] = dropped]
  <2>1. dropped \in Row /\ dropped.rver = 0
    BY <1>2, NewRows DEF AnyValue, DelRow, Row
  <2>2. RowKnows(dropped, obj)
    BY <1>2, <2>1, UnmarkedRow
  <2>3. [st |-> "none"] \in Job /\ JobKnows(dropped, obj, [st |-> "none"])
    BY NewJobs, NewJobKnows
  <2>4. job' = [job EXCEPT ![d][k] = [st |-> "none"]]
    BY <1>1 DEF Finish
  <2> HIDE DEF dropped
  <2>5. QED
    BY <1>1, <1>3, <2>1, <2>2, <2>3, <2>4, RowChanges
<1>4. CASE UNCHANGED local
  BY <1>1, <1>4, FinishKnows
<1>5. QED
  BY <1>3, <1>4 DEF StoreMalformed, Insert

\* setRemoteVersion: the row it marks is the one the job was about.
LEMMA MarkKnowsRow ==
  ASSUME TypeOK, RowsKnow, JobsKnow, NEW d \in Device, NEW k \in Key, Mark(d, k)
  PROVE  RowsKnow' /\ JobsKnow'
<1> DEFINE j == job[d][k]
           row == local[d][k]
           obj == remote[k]
           marked == MarkRow(row, j.rver, SyncNow)
<1>1. UNCHANGED remote /\ Finish(d, k)
  BY DEF Mark
<1>2. CASE j.lver > 0 /\ Locked(d, k)
  <2>1. j \in MarkJob /\ MarkKnows(row, obj, j) /\ row \in Row /\ obj \in Object
    BY JobFields DEF Mark, TypeOK, JobsKnow, JobKnows
  <2>2. j.rver \in Nat /\ j.lver = row.ver /\ SyncNow \in Nat
    BY <1>2, <2>1 DEF MarkJob, Locked, TypeOK, SyncNow
  <2>3. marked \in Row
    BY <2>1, <2>2, NewRows DEF AnyValue
  <2>4. marked.rver = j.rver /\ Live(marked) = Live(row)
    BY <2>1 DEF MarkRow, Live, Row
  <2>5. RowKnows(marked, obj)
    BY <2>1, <2>2, <2>4 DEF MarkKnows, RowKnows
  <2>6. [st |-> "none"] \in Job /\ JobKnows(marked, obj, [st |-> "none"])
    BY NewJobs, NewJobKnows
  <2>7. local' = [local EXCEPT ![d][k] = marked] /\ job' = [job EXCEPT ![d][k] = [st |-> "none"]]
    BY <1>2 DEF Mark, Insert, Finish
  <2> HIDE DEF marked
  <2>8. QED
    BY <1>1, <2>3, <2>5, <2>6, <2>7, RowChanges
<1>3. CASE ~(j.lver > 0 /\ Locked(d, k))
  BY <1>1, <1>3, FinishKnows DEF Mark
<1>4. QED
  BY <1>2, <1>3

LEMMA FaultKnows ==
  ASSUME TypeOK, RowsKnow, JobsKnow, NEW d \in Device,
         Restart(d) \/ \E k \in Key : Unanswered(d, k) \/ Throw(d, k)
  PROVE  RowsKnow' /\ JobsKnow'
<1> DEFINE js == [k \in Key |-> [st |-> "none"]]
<1>1. UNCHANGED <<local, remote>>
  BY DEF Restart, Unanswered, Throw
<1>2. js \in [Key -> Job] /\ \A k \in Key : JobKnows(local[d][k], remote[k], js[k])
  BY NewJobs, NewJobKnows
<1>3. \/ \E k \in Key : Finish(d, k) \/ Goto(d, k, [st |-> "none"])
      \/ job' = [job EXCEPT ![d] = js]
  BY DEF Restart, Unanswered, Throw
<1> HIDE DEF js
<1>4. ASSUME NEW k \in Key, Goto(d, k, [st |-> "none"]) PROVE RowsKnow' /\ JobsKnow'
  <2>1. [st |-> "none"] \in Job /\ JobKnows(local[d][k], remote[k], [st |-> "none"])
    BY NewJobs, NewJobKnows
  <2>2. QED
    BY <1>1, <1>4, <2>1, JobChanges DEF Goto
<1>5. QED
  BY <1>1, <1>2, <1>3, <1>4, FinishKnows, JobsChange

LEMMA LateKnows ==
  ASSUME TypeOK, RowsKnow, JobsKnow, AnswersPast, NEW m \in late, LateArrives(m)
  PROVE  RowsKnow' /\ JobsKnow'
<1>1. m.key \in Key /\ m.val \in AnyValue /\ UNCHANGED <<local, job>>
  BY DEF TypeOK, Late, LateArrives
<1>2. CASE Accepts(m.key, m)
  BY <1>1, <1>2, ObjectChanges DEF LateArrives, JobsKnow
<1>3. CASE ~Accepts(m.key, m)
  BY <1>1, <1>3 DEF LateArrives, RowsKnow, JobsKnow
<1>4. QED
  BY <1>2, <1>3

LEMMA NextKnows ==
  ASSUME IInv, [Next]_vars PROVE RowsKnow' /\ JobsKnow'
<1>1. CASE UNCHANGED vars
  BY <1>1 DEF vars, IInv, RowsKnow, JobsKnow
<1>2. ASSUME NEW d \in Device, NEW k \in Key, JobStep(d, k) PROVE RowsKnow' /\ JobsKnow'
  BY <1>2, StartKnows, ReadRecordedKnows, DecideKnows, RemoteReadsKnows, RemoteWritesKnows,
     StoreKnowsMark, MarkKnowsRow DEF JobStep, IInv
<1>3. QED
  BY <1>1, <1>2, AppKnows, StartKnows, StoreMalformedKnows, FaultKnows, LateKnows
     DEF Next, IInv

\* A step takes a job on with a new answer, without one, or with the one it had.
LEMMA NextRemembers ==
  ASSUME IInv, [Next]_vars PROVE AnswersPast' /\ KeysForAll'
<1>1. TypeOK /\ AnswersPast /\ KeysForAll /\ clock \in Nat
  BY DEF IInv, TypeOK
<1>2. \A d \in Device, k \in Key :
        /\ job[d][k].st \in {"info", "recorded"} => job[d][k].time \in Nat /\ job[d][k].time <= clock
        /\ job[d][k].st = "keys" => ~single[d]
  BY <1>1, JobFields DEF TypeOK, AnswersPast, KeysForAll, InfoJob, RecordedJob
<1>3. ASSUME NEW d \in Device, NEW k \in Key, NEW j, job' = [job EXCEPT ![d][k] = j],
             j.st \in {"info", "recorded"} => j.time \in Nat /\ j.time <= clock, j.st # "keys",
             clock' \in {clock, clock + 1},
             \A e \in Device : single'[e] => single[e]
      PROVE  AnswersPast' /\ KeysForAll'
  <2>1. \A e \in Device, o \in Key : job'[e][o] = IF e = d /\ o = k THEN j ELSE job[e][o]
    BY <1>1, <1>3 DEF TypeOK
  <2>2. ASSUME NEW e \in Device, NEW o \in Key, job'[e][o].st \in {"info", "recorded"}
        PROVE  job'[e][o].time <= clock'
    <3>1. job'[e][o].time \in Nat /\ job'[e][o].time <= clock
      BY <1>2, <1>3, <2>1, <2>2
    <3>2. QED
      BY <1>1, <1>3, <3>1
  <2>3. ASSUME NEW e \in Device, NEW o \in Key, job'[e][o].st = "keys" PROVE ~single'[e]
    BY <1>2, <1>3, <2>1, <2>3
  <2>4. QED
    BY <2>2, <2>3 DEF AnswersPast, KeysForAll
<1>4. ASSUME UNCHANGED <<job, single>>, clock' \in {clock, clock + 1}
      PROVE  AnswersPast' /\ KeysForAll'
  <2>1. \A d \in Device, k \in Key : job[d][k].st \in {"info", "recorded"} => job[d][k].time <= clock'
    BY <1>1, <1>2, <1>4
  <2>2. QED
    BY <1>2, <1>4, <2>1 DEF AnswersPast, KeysForAll
<1>5. CASE UNCHANGED vars
  BY <1>4, <1>5 DEF vars
<1>6. ASSUME NEW d \in Device, NEW k \in Key, Finish(d, k), clock' \in {clock, clock + 1}
      PROVE  AnswersPast' /\ KeysForAll'
  <2>1. job' = [job EXCEPT ![d][k] = [st |-> "none"]]
    BY <1>6 DEF Finish
  <2>2. \A e \in Device : single'[e] => single[e]
    BY <1>1, <1>6 DEF Finish, TypeOK
  <2> DEFINE new == [st |-> "none"]
  <2>3. new.st \notin {"info", "recorded", "keys"} /\ job' = [job EXCEPT ![d][k] = new]
    BY <2>1
  <2> HIDE DEF new
  <2>4. QED
    BY <1>3, <1>6, <2>2, <2>3
<1>7. ASSUME NEW d \in Device, NEW k \in Key, NEW j, Goto(d, k, j),
             j.st \in {"info", "recorded"} => j.time \in Nat /\ j.time <= clock, j.st # "keys",
             clock' \in {clock, clock + 1}
      PROVE  AnswersPast' /\ KeysForAll'
  BY <1>3, <1>7 DEF Goto
<1>8. ASSUME NEW d \in Device, NEW k \in Key, Set(d, k) \/ Del(d, k)
      PROVE  AnswersPast' /\ KeysForAll'
  BY <1>4, <1>8 DEF Set, Del, Insert, AppNow
<1>9. \A k \in Key : remote[k].time \in Nat /\ remote[k].time <= clock
  BY <1>1 DEF TypeOK, Object
<1>10. ASSUME NEW d \in Device, NEW k \in Key, VerAnswered(d, k)
       PROVE  AnswersPast' /\ KeysForAll'
  <2>1. PICK j \in {RemoteInfo(k), Info(0, 0, "unknown"), Info(0, clock, "notFound")} :
          Goto(d, k, j)
    BY <1>10 DEF VerAnswered
  <2>2. j.st = "info" /\ j.time \in {0, clock, remote[k].time}
    BY DEF RemoteInfo, Info
  <2>3. j.time \in Nat /\ j.time <= clock
    BY <1>1, <1>9, <2>2
  <2>4. QED
    BY <1>7, <1>10, <2>1, <2>2, <2>3 DEF VerAnswered
<1>11. ASSUME NEW d \in Device, NEW k \in Key, ReadRecorded(d, k)
       PROVE  AnswersPast' /\ KeysForAll'
  <2> DEFINE new == [st |-> "recorded", ver |-> job[d][k].ver, time |-> job[d][k].time,
                     err |-> job[d][k].err, rver |-> local[d][k].rver]
  <2>1. Finish(d, k) \/ Goto(d, k, new)
    BY <1>11 DEF ReadRecorded
  <2>2. new.st = "recorded" /\ new.time \in Nat /\ new.time <= clock
    BY <1>2, <1>11 DEF ReadRecorded
  <2>3. clock' = clock
    BY <1>11 DEF ReadRecorded
  <2> HIDE DEF new
  <2>4. QED
    BY <1>6, <1>7, <2>1, <2>2, <2>3
<1>12. ASSUME NEW d \in Device, NEW k \in Key, Decide(d, k)
       PROVE  AnswersPast' /\ KeysForAll'
  <2>1. \A j \in Decisions(local[d][k], job[d][k]) : j.st \in {"put", "del", "get", "mark", "drop"}
    BY DEF Decisions, Request
  <2>2. clock' = clock
    BY <1>12 DEF Decide
  <2>3. QED
    BY <1>6, <1>7, <1>12, <2>1, <2>2, DecideGoes
<1>13. ASSUME NEW d \in Device, NEW k \in Key,
              \/ RemoteWrites(d, k) \/ RemoteReads(d, k) \/ Store(d, k)
              \/ StoreMalformed(d, k) \/ Drop(d, k) \/ Mark(d, k) \/ Throw(d, k)
       PROVE  AnswersPast' /\ KeysForAll'
  <2>1. Finish(d, k) \/ \E j : Goto(d, k, j) /\ j.st \in {"ack", "store", "mark", "none"}
    BY <1>13 DEF RemoteWrites, RemoteReads, Store, StoreMalformed, Drop, Mark, Throw
  <2>2. clock' \in {clock, clock + 1}
    BY <1>13 DEF RemoteWrites, RemoteReads, Store, StoreMalformed, Drop, Mark, Throw, Insert,
       SyncNow
  <2>3. QED
    BY <1>6, <1>7, <2>1, <2>2
<1>14. ASSUME NEW d \in Device, NEW js, job' = [job EXCEPT ![d] = js], clock' = clock,
              \A e \in Device : single'[e] => single[e],
              \A k \in Key : /\ js[k].st \in {"info", "recorded"} => js[k].time <= clock
                             /\ js[k].st = "keys" => ~single[d]
       PROVE  AnswersPast' /\ KeysForAll'
  <2>1. \A e \in Device : job'[e] = IF e = d THEN js ELSE job[e]
    BY <1>1, <1>14 DEF TypeOK
  <2>2. QED
    BY <1>2, <1>14, <2>1 DEF AnswersPast, KeysForAll
<1>15. ASSUME NEW d \in Device, SyncAllKeys(d) PROVE AnswersPast' /\ KeysForAll'
  <2>1. ~single[d]
    BY <1>1, <1>15 DEF SyncAllKeys, TypeOK
  <2> DEFINE js == [k \in Key |-> [st |-> "keys"]]
  <2>2. \A k \in Key : js[k].st = "keys"
    OBVIOUS
  <2>3. job' = [job EXCEPT ![d] = js] /\ clock' = clock /\ UNCHANGED single
    BY <1>15 DEF SyncAllKeys
  <2> HIDE DEF js
  <2>4. QED
    BY <1>14, <2>1, <2>2, <2>3
<1>16. ASSUME NEW d \in Device, KeysAnswered(d) PROVE AnswersPast' /\ KeysForAll'
  <2>1. PICK known : job' = [job EXCEPT ![d] =
             [k \in Key |-> IF k \in known THEN RemoteInfo(k) ELSE [st |-> "none"]]]
    BY <1>16 DEF KeysAnswered
  <2>2. \A k \in Key : RemoteInfo(k).st = "info" /\ RemoteInfo(k).time <= clock
    BY <1>9 DEF RemoteInfo, Info
  <2> DEFINE js == [k \in Key |-> IF k \in known THEN RemoteInfo(k) ELSE [st |-> "none"]]
  <2>3. \A k \in Key : js[k].st # "keys" /\ (js[k].st = "info" => js[k].time <= clock)
                      /\ js[k].st # "recorded"
    BY <2>2
  <2>4. job' = [job EXCEPT ![d] = js] /\ clock' = clock /\ UNCHANGED single
    BY <1>16, <2>1 DEF KeysAnswered
  <2> HIDE DEF js
  <2>5. QED
    BY <1>14, <2>3, <2>4
<1>17. ASSUME NEW d \in Device, Restart(d) PROVE AnswersPast' /\ KeysForAll'
  <2>1. \A e \in Device : single'[e] => single[e]
    BY <1>1, <1>17 DEF Restart, TypeOK
  <2> DEFINE js == [k \in Key |-> [st |-> "none"]]
  <2>2. \A k \in Key : js[k].st \notin {"info", "recorded", "keys"}
    OBVIOUS
  <2>3. job' = [job EXCEPT ![d] = js] /\ clock' = clock
    BY <1>17 DEF Restart
  <2> HIDE DEF js
  <2>4. QED
    BY <1>14, <2>1, <2>2, <2>3
<1>18. ASSUME NEW d \in Device, NEW k \in Key, Unanswered(d, k)
       PROVE  AnswersPast' /\ KeysForAll'
  <2>1. CASE Finish(d, k)
    BY <1>6, <1>18, <2>1 DEF Unanswered
  <2>2. CASE job' = [job EXCEPT ![d] = [o \in Key |-> [st |-> "none"]]] /\ UNCHANGED single
    <3> DEFINE js == [o \in Key |-> [st |-> "none"]]
    <3>1. \A o \in Key : js[o].st \notin {"info", "recorded", "keys"}
      OBVIOUS
    <3>2. job' = [job EXCEPT ![d] = js] /\ clock' = clock
      BY <1>18, <2>2 DEF Unanswered
    <3>3. \A e \in Device : single'[e] => single[e]
      BY <2>2
    <3> HIDE DEF js
    <3>4. QED
      BY <1>14, <3>1, <3>2, <3>3
  <2>3. QED
    BY <1>18, <2>1, <2>2 DEF Unanswered
<1>19. ASSUME NEW d \in Device, NEW k \in Key, SyncKey(d, k)
       PROVE  AnswersPast' /\ KeysForAll'
  <2>1. ~running[d] /\ job' = [job EXCEPT ![d][k] = [st |-> "ver"]] /\ clock' = clock
        /\ single' = [single EXCEPT ![d] = TRUE]
    BY <1>19 DEF SyncKey
  <2>2. \A o \in Key : job[d][o].st = "none"
    BY <1>1, <2>1 DEF TypeOK, HasJob
  <2>3. \A e \in Device, o \in Key :
           job'[e][o] = IF e = d /\ o = k THEN [st |-> "ver"] ELSE job[e][o]
    BY <1>1, <2>1 DEF TypeOK
  <2>4. \A e \in Device : single'[e] = IF e = d THEN TRUE ELSE single[e]
    BY <1>1, <2>1 DEF TypeOK
  <2>5. QED
    BY <1>2, <2>1, <2>2, <2>3, <2>4 DEF AnswersPast, KeysForAll
<1>20. ASSUME NEW m \in late, LateArrives(m) PROVE AnswersPast' /\ KeysForAll'
  BY <1>4, <1>20 DEF LateArrives, SyncNow
<1>21. QED
  BY <1>5, <1>8, <1>10, <1>11, <1>12, <1>13, <1>15, <1>16, <1>17, <1>18, <1>19, <1>20
     DEF Next, JobStep
-----------------------------------------------------------------------------
(* Theorems                                                                 *)

LEMMA InitIInv == Init => IInv
<1> SUFFICES ASSUME Init PROVE IInv
  OBVIOUS
<1>1. NoRow \in Row /\ NoObject \in Object /\ [st |-> "none"] \in Job
  BY NewJobs DEF NoRow, NoObject, Row, Object, AnyValue
<1>2. RowsType /\ ObjectsType
  BY <1>1 DEF Init, RowsType, ObjectsType, NoRow, NoObject
<1>3. JobsType
  BY <1>1 DEF Init, JobsType, HasJob
<1>4. RestType
  BY KVAssumption DEF Init, RestType
<1>5. RowsKnow
  BY <1>1, UnmarkedRow DEF Init, RowsKnow, NoRow
<1>6. JobsKnow
  BY NewJobKnows DEF Init, JobsKnow
<1>7. AnswersPast /\ KeysForAll
  BY DEF Init, AnswersPast, KeysForAll
<1>8. QED
  BY <1>2, <1>3, <1>4, <1>5, <1>6, <1>7, TypeParts DEF IInv

\* What jobs and rows remember of versions stays true in every step of the app, of
\* the devices' syncs, of the remote and of the network.
THEOREM Invariance == Spec => []IInv
<1>1. IInv /\ [Next]_vars => IInv'
  BY NextTypes, NextKnows, NextRemembers DEF IInv
<1>2. QED
  BY InitIInv, <1>1, PTL DEF Spec

\* Rows, objects, jobs and requests have their types, no stamp is ahead of the clock,
\* and syncRunning is set while a key has a job, and after syncAllKeys only then; a
\* throw may leave it set without a job after syncKey.
THEOREM TypeCorrect == Spec => []TypeOK
<1>1. IInv => TypeOK
  BY DEF IInv
<1>2. QED
  BY Invariance, <1>1, PTL

\* The shortcut of _syncKey is sound: a row that records the remote's present
\* version holds what the remote holds.
THEOREM ShortcutIsSound == Spec => []SyncedMeansSame
<1>1. IInv => SyncedMeansSame
  BY DEF IInv, RowsKnow, RowKnows, SyncedMeansSame
<1>2. QED
  BY Invariance, <1>1, PTL

\* A sync replaces the value of a row only by one the remote stamped later.
THEOREM AppWritesAreKept == Spec => OverwritesOnlyOlder
<1> DEFINE Older == \A d \in Device, k \in Key :
              Live(local'[d][k]) # Live(local[d][k]) /\ writes' = writes =>
                  local[d][k].time <= remote[k].time
<1>1. ASSUME IInv, [Next]_vars PROVE [Older]_vars
  <2> SUFFICES ASSUME Next, writes' = writes, NEW d \in Device, NEW k \in Key,
                      Live(local'[d][k]) # Live(local[d][k])
               PROVE  local[d][k].time <= remote[k].time
    BY <1>1
  <2>1. TypeOK /\ JobsKnow /\ writes \in Nat
    BY <1>1 DEF IInv, TypeOK
  <2>2. local' # local
    OBVIOUS
  <2>3. PICK e \in Device, o \in Key :
          Store(e, o) \/ StoreMalformed(e, o) \/ Drop(e, o) \/ Mark(e, o)
    <3>1. ASSUME NEW e \in Device, NEW o \in Key PROVE ~Set(e, o) /\ ~Del(e, o)
      BY <2>1 DEF Set, Del
    <3>2. ASSUME NEW e \in Device, NEW o \in Key,
                 \/ SyncKey(e, o) \/ VerAnswered(e, o) \/ ReadRecorded(e, o) \/ Decide(e, o)
                 \/ RemoteWrites(e, o) \/ RemoteReads(e, o) \/ Unanswered(e, o) \/ Throw(e, o)
          PROVE  FALSE
      BY <2>2, <3>2 DEF SyncKey, VerAnswered, ReadRecorded, Decide, RemoteWrites,
         RemoteReads, Unanswered, Throw
    <3>3. ASSUME NEW e \in Device PROVE ~(SyncAllKeys(e) \/ KeysAnswered(e) \/ Restart(e))
      BY <2>2 DEF SyncAllKeys, KeysAnswered, Restart
    <3>4. ASSUME NEW m \in late PROVE ~LateArrives(m)
      BY <2>2 DEF LateArrives
    <3>5. QED
      BY <3>1, <3>2, <3>3, <3>4 DEF Next, JobStep
  <2>4. PICK row : local' = [local EXCEPT ![e][o] = row]
    BY <2>2, <2>3 DEF Store, StoreMalformed, Drop, Mark, Insert
  <2>5. e = d /\ o = k
    BY <2>1, <2>4 DEF TypeOK
  <2>6. CASE Store(d, k)
    <3>1. Locked(d, k) /\ StoreKnows(local[d][k], remote[k], job[d][k])
      BY <2>1, <2>2, <2>6 DEF Store, JobsKnow, JobKnows
    <3>2. QED
      BY <3>1 DEF Locked, StoreKnows
  <2>7. CASE Drop(d, k)
    <3>1. Locked(d, k) /\ DropKnows(local[d][k], remote[k], job[d][k])
      BY <2>1, <2>2, <2>7 DEF Drop, JobsKnow, JobKnows
    <3>2. QED
      BY <3>1 DEF Locked, DropKnows
  <2>8. CASE Mark(d, k)
    <3>1. local'[d][k] = MarkRow(local[d][k], job[d][k].rver, SyncNow)
      BY <2>1, <2>2, <2>8 DEF Mark, Insert, TypeOK
    <3>2. Live(local'[d][k]) = Live(local[d][k])
      BY <2>1, <3>1 DEF TypeOK, Row, MarkRow, Live
    <3>3. QED
      BY <3>2
  <2>9. CASE StoreMalformed(d, k)
    <3>1. Locked(d, k) /\ StoreKnows(local[d][k], remote[k], job[d][k])
      BY <2>1, <2>2, <2>9 DEF StoreMalformed, JobsKnow, JobKnows
    <3>2. QED
      BY <3>1 DEF Locked, StoreKnows
  <2>10. QED
    BY <2>3, <2>5, <2>6, <2>7, <2>8, <2>9
<1>2. QED
  BY Invariance, <1>1, PTL DEF Spec, OverwritesOnlyOlder
=============================================================================
