--------------------------- MODULE WriteCallProofs ---------------------------
(***************************************************************************)
(* The invariant behind WritesSurvive, and that the steps of a call to the *)
(* DB preserve it, for any number of writers and updates, any size of the  *)
(* write buffer and any faults, as long as every record that was appended  *)
(* without an error is found again.  WritePathProofs has the other steps.  *)
(***************************************************************************)
EXTENDS WritePath, TLAPS

-----------------------------------------------------------------------------
(* The calls and their queue.                                              *)

Busy == {"lead", "append", "sync", "insert"}
PCs == Busy \cup {"idle", "wait", "flush"}
Calls == [kind : {"none", "write", "sync", "flush"}, sync : BOOLEAN, id : 0..MaxUpdates]

\* The queue holds each waiting or busy writer once, without a result; the busy one, if
\* there is one, is in front.
QueueInv ==
  /\ pc \in [Writers -> PCs] /\ call \in [Writers -> Calls]
  /\ queue \in Seq(Writers) /\ result \in [Writers -> {None, "ok", "error"}]
  /\ \A w \in Writers : call[w].kind = "write" <=> call[w].id # 0
  /\ \A j, k \in 1..Len(queue) : queue[j] = queue[k] => j = k
  /\ \A w \in Writers : pc[w] \in Busy => Len(queue) > 0 /\ queue[1] = w
  /\ \A k \in 1..Len(queue) : result[queue[k]] = None /\ pc[queue[k]] \in Busy \cup {"wait"}
  /\ \A w \in Writers : pc[w] = "wait" /\ result[w] = None => \E k \in 1..Len(queue) : queue[k] = w
  /\ \A w \in Writers : /\ pc[w] \in {"append", "insert"} => call[w].kind = "write"
                        /\ pc[w] = "sync" => call[w].kind \in {"write", "sync"}
                        /\ pc[w] \in Busy \cup {"wait"} => call[w].kind # "none"
                        /\ result[w] # None => pc[w] = "wait"

\* The group holds the updates of the front of the queue.
Grouped(w) == pc[w] \in {"append", "sync", "insert"} /\ call[w].kind = "write"
GroupInv ==
  \A w \in Writers : Grouped(w) =>
    /\ group \in [ids : Seq(1..MaxUpdates), seq : Nat, last : Writers]
    /\ Len(group.ids) \in 1..Len(queue) /\ group.last = queue[Len(group.ids)]
    /\ \A k \in 1..Len(group.ids) : /\ group.ids[k] = call[queue[k]].id
                                    /\ call[queue[k]].sync => call[w].sync

-----------------------------------------------------------------------------
(* The store.                                                              *)

Content(l) == LogEntries(l.recs)
Kept(l) == LogEntries(SubSeq(l.recs, 1, l.synced))
Log == {l \in [recs : Seq(Record), synced : Nat] : l.synced <= Len(l.recs)}
Edit == {m \in [log : Nat, next : Nat, seq : Nat, tables : SUBSET Entry] : m.log < m.next}

\* What a restart finds with a manifest and logs, and what it finds on storage.
Found(m, ls) == m.tables \cup UNION {Content(ls[n]) : n \in {k \in DOMAIN ls : k >= m.log}}
Saved(m, ls) == m.tables \cup UNION {Kept(ls[n]) : n \in {k \in DOMAIN ls : k >= m.log}}

StoreTypeOK ==
  /\ wal \in BOOLEAN /\ mode \in {"down", "open", "up"} /\ dump \in {"idle", "build", "apply"}
  /\ nextFile \in Nat /\ logNo \in Nat /\ lastSeq \in Nat
  /\ DOMAIN logs \subseteq Nat /\ logs \in [DOMAIN logs -> Log] /\ (wal \/ DOMAIN logs = {})
  /\ manifest \in Edit /\ edit \in Edit \cup {None}
  /\ version \in [log : Nat, tables : SUBSET Entry]
  /\ mem \subseteq Entry /\ Frozen \subseteq Entry
  /\ replay \in [left : SUBSET Nat, tables : SUBSET Entry, maxSeq : Nat, ok : BOOLEAN, failed : BOOLEAN]

\* Nothing is going on.
Quiet ==
  /\ mem = {} /\ imm = {} /\ dump = "idle" /\ ~bgError /\ queue = <<>>
  /\ \A w \in Writers : pc[w] = "idle" /\ result[w] = None /\ flushing[w] = {}

\* DB::Open: the logs replayed so far are in tables, and their numbers are taken.
OpenInv ==
  /\ version = [log |-> manifest.log, tables |-> manifest.tables] /\ manifest.next < nextFile
  /\ replay.left \subseteq {n \in DOMAIN logs : n >= manifest.log}
  /\ \A n \in DOMAIN logs : n \notin replay.left => n < nextFile
  /\ ~replay.ok => replay.left = {}
  /\ replay.ok => \A n \in DOMAIN logs : n >= manifest.log /\ n \notin replay.left =>
                    Content(logs[n]) \subseteq replay.tables
  /\ edit # None => /\ replay.left = {} /\ Found(manifest, logs) \subseteq edit.tables
                    /\ edit.log >= manifest.log /\ edit.log < nextFile
                    /\ wal => edit.log = logNo /\ logNo \in DOMAIN logs

\* An open DB: all that is in memory is on disk as well, in the logs from the one the manifest
\* names on; the tables of an edit on its way hold all but the memtable of the last log.
UpInv ==
  /\ \A n \in DOMAIN logs : n < nextFile
  /\ version.log < nextFile /\ version.tables \subseteq manifest.tables
  /\ wal => /\ logNo \in DOMAIN logs /\ manifest.log <= logNo /\ logNo < nextFile
            /\ mem \subseteq Content(logs[logNo]) /\ Frozen \subseteq Found(manifest, logs)
  /\ dump # "idle" => imm # {}
  /\ edit # None <=> dump = "apply"
  /\ dump = "apply" => /\ edit.tables = version.tables \cup Frozen /\ edit.log < nextFile
                       /\ wal => edit.log = logNo

\* A record is in the log before its entries are in the memtable, and synced when asked.
RecordInv ==
  \A w \in Writers : Grouped(w) =>
    /\ todo \in Seq(EntriesOf(group)) /\ EntriesOf(group) \subseteq mem \cup Range(todo)
    /\ pc[w] # "insert" => wal
    /\ wal /\ pc[w] \in {"sync", "insert"} => EntriesOf(group) \subseteq Content(logs[logNo])
    /\ wal /\ pc[w] = "insert" /\ call[w].sync => EntriesOf(group) \subseteq Kept(logs[logNo])

StoreInv ==
  /\ mode # "up" => Quiet
  /\ mode = "down" => edit = None
  /\ mode = "open" => OpenInv
  /\ mode = "up" => UpInv

-----------------------------------------------------------------------------
(* What was reported to the callers.                                       *)

\* The part of the open DB that does not depend on the unsynced end of the last log.
Safe == version.tables \cup Frozen \cup (IF wal THEN Kept(logs[logNo]) ELSE {})

ReportInv ==
  /\ acked \subseteq Nat /\ flushing \in [Writers -> SUBSET Nat]
  /\ promised \subseteq acked /\ promised \subseteq Ids(Saved(manifest, logs))
  /\ mode # "up" => acked \subseteq Ids(Found(manifest, logs))
  /\ mode = "up" => acked \subseteq Ids(View) /\ promised \subseteq Ids(Safe)
  /\ mode = "up" => \A w \in Writers :
       /\ flushing[w] \subseteq acked
       /\ pc[w] = "flush" => flushing[w] \subseteq Ids(version.tables \cup Frozen)

WInv == QueueInv /\ GroupInv /\ StoreTypeOK /\ StoreInv /\ RecordInv /\ ReportInv

-----------------------------------------------------------------------------
(* The queue: one lemma for each way a call moves on.                      *)

\* The queue stays as it is and the leader moves on.
LEMMA LeaderQueue ==
  ASSUME QueueInv, NEW w \in Writers, pc[w] \in Busy, NEW to \in Busy,
         pc' = [pc EXCEPT ![w] = to], UNCHANGED <<call, queue, result>>,
         to \in {"append", "insert"} => call[w].kind = "write",
         to = "sync" => call[w].kind \in {"write", "sync"}
  PROVE  QueueInv' /\ pc'[w] = to /\ \A v \in Writers : v # w => pc'[v] = pc[v]
<1>1. pc \in [Writers -> PCs]
  BY Zenon DEF QueueInv
<1>2. pc'[w] = to /\ \A v \in Writers : v # w => pc'[v] = pc[v]
  BY <1>1, Zenon
<1>3. pc' \in [Writers -> PCs]
  BY <1>1, Zenon DEF PCs
<1>4. QueueInv'
  BY <1>2, <1>3, SMTT(30) DEF QueueInv, Busy
<1> QED BY <1>2, <1>4, Zenon

LEMMA LeaderStep ==
  ASSUME QueueInv, GroupInv, NEW w \in Writers, pc[w] \in Busy, NEW to \in Busy,
         pc' = [pc EXCEPT ![w] = to], UNCHANGED <<call, queue, result, group>>,
         to \in {"append", "insert"} => call[w].kind = "write",
         to = "sync" => call[w].kind \in {"write", "sync"},
         to # "lead" /\ call[w].kind = "write" => pc[w] # "lead"
  PROVE  QueueInv' /\ GroupInv' /\ pc'[w] = to /\ \A v \in Writers : v # w => pc'[v] = pc[v]
<1>1. QueueInv' /\ pc'[w] = to /\ \A v \in Writers : v # w => pc'[v] = pc[v]
  BY LeaderQueue, Zenon
<1>2. GroupInv'
  BY <1>1 DEF GroupInv, Grouped, Busy
<1> QED BY <1>1, <1>2, Zenon

\* A call takes its place.
LEMMA EnqueueStep ==
  ASSUME QueueInv, GroupInv, NEW w \in Writers, NEW c \in Calls, Enqueue(w, c),
         c.kind # "none", c.kind = "write" <=> c.id # 0
  PROVE  QueueInv' /\ GroupInv'
<1> DEFINE to == IF queue = <<>> THEN "lead" ELSE "wait"
<1>1. /\ pc[w] = "idle" /\ pc' = [pc EXCEPT ![w] = to] /\ call' = [call EXCEPT ![w] = c]
      /\ queue' = Append(queue, w) /\ UNCHANGED <<result, group>>
  BY Zenon DEF Enqueue
<1>2. /\ pc \in [Writers -> PCs] /\ call \in [Writers -> Calls] /\ queue \in Seq(Writers)
      /\ Len(queue) \in Nat
  BY DEF QueueInv
<1>3. /\ \A v \in Writers : v # w => pc'[v] = pc[v] /\ call'[v] = call[v]
      /\ pc'[w] = to /\ call'[w] = c
  BY <1>1, <1>2, Zenon
<1>4. /\ queue' \in Seq(Writers) /\ Len(queue') = Len(queue) + 1 /\ queue'[Len(queue) + 1] = w
      /\ \A k \in 1..Len(queue) : queue'[k] = queue[k] /\ queue[k] \in Writers
  BY <1>1, <1>2
<1>5. \A k \in 1..Len(queue) : queue[k] # w
  BY <1>1, Zenon DEF QueueInv, Busy
<1>6. to \in {"lead", "wait"} /\ (to = "lead" <=> Len(queue) = 0)
  BY <1>2
<1> HIDE DEF to
<1>7. pc' \in [Writers -> PCs] /\ call' \in [Writers -> Calls]
  BY <1>1, <1>2, <1>6, Zenon DEF PCs, Busy
<1>8. result[w] = None
  BY <1>1, Zenon DEF QueueInv
<1>9. \A k \in 1..Len(queue') : k \in 1..Len(queue) \/ k = Len(queue) + 1
  BY <1>2, <1>4
<1>10. QueueInv'
  <2>1. \A v \in Writers : call'[v].kind = "write" <=> call'[v].id # 0
    BY <1>3 DEF QueueInv
  <2>2. \A j, k \in 1..Len(queue') : queue'[j] = queue'[k] => j = k
    BY <1>4, <1>5, <1>9 DEF QueueInv
  <2>3. \A v \in Writers : pc'[v] \in Busy => Len(queue') > 0 /\ queue'[1] = v
    <3>1. ASSUME NEW v \in Writers, pc'[v] \in Busy PROVE Len(queue') > 0 /\ queue'[1] = v
      <4>1. CASE v = w
        BY <1>2, <1>3, <1>4, <1>6, <3>1, <4>1 DEF Busy
      <4>2. CASE v # w
        <5>1. Len(queue) > 0 /\ queue[1] = v
          BY <1>3, <3>1, <4>2, Zenon DEF QueueInv
        <5> QED BY <1>2, <1>4, <5>1
      <4> QED BY <4>1, <4>2, Zenon
    <3> QED BY <3>1, Zenon
  <2>4. \A k \in 1..Len(queue') : result'[queue'[k]] = None /\ pc'[queue'[k]] \in Busy \cup {"wait"}
    BY <1>1, <1>3, <1>4, <1>5, <1>6, <1>8, <1>9 DEF QueueInv, Busy
  <2>5. \A v \in Writers : pc'[v] = "wait" /\ result'[v] = None => \E k \in 1..Len(queue') : queue'[k] = v
    BY <1>1, <1>2, <1>3, <1>4 DEF QueueInv
  <2>6. \A v \in Writers : /\ pc'[v] \in {"append", "insert"} => call'[v].kind = "write"
                           /\ pc'[v] = "sync" => call'[v].kind \in {"write", "sync"}
                           /\ pc'[v] \in Busy \cup {"wait"} => call'[v].kind # "none"
                           /\ result'[v] # None => pc'[v] = "wait"
    BY <1>1, <1>3, <1>6, <1>8 DEF QueueInv
  <2> QED BY <1>1, <1>4, <1>7, <2>1, <2>2, <2>3, <2>4, <2>5, <2>6, Zenon DEF QueueInv
<1>11. GroupInv'
  <2>1. ASSUME NEW v \in Writers, Grouped(v)' PROVE v # w /\ Grouped(v)
    BY <1>3, <1>6, <2>1, Zenon DEF Grouped
  <2>2. \A k \in 1..Len(queue) : call'[queue'[k]] = call[queue[k]]
    BY <1>3, <1>4, <1>5
  <2>3. ASSUME NEW v \in Writers, Grouped(v)'
        PROVE  /\ group \in [ids : Seq(1..MaxUpdates), seq : Nat, last : Writers]
               /\ Len(group.ids) \in 1..Len(queue) /\ group.last = queue[Len(group.ids)]
               /\ \A k \in 1..Len(group.ids) : /\ group.ids[k] = call[queue[k]].id
                                               /\ call[queue[k]].sync => call[v].sync
    BY <2>1, <2>3, Zenon DEF GroupInv
  <2>4. ASSUME NEW v \in Writers, Grouped(v)'
        PROVE  /\ Len(group.ids) \in 1..Len(queue') /\ group.last = queue'[Len(group.ids)]
               /\ \A k \in 1..Len(group.ids) : k \in 1..Len(queue)
    BY <1>2, <1>4, <2>3, <2>4
  <2>5. ASSUME NEW v \in Writers, Grouped(v)' PROVE call'[v] = call[v]
    BY <1>3, <2>1, <2>5, Zenon
  <2> QED BY <1>1, <2>2, <2>3, <2>4, <2>5 DEF GroupInv
<1> QED BY <1>10, <1>11, Zenon

\* A waiting writer finds its result.
LEMMA WakeDoneStep ==
  ASSUME QueueInv, GroupInv, NEW w \in Writers, WakeDone(w)
  PROVE  QueueInv' /\ GroupInv'
<1>1. /\ pc[w] = "wait" /\ result[w] # None /\ pc' = [pc EXCEPT ![w] = "idle"]
      /\ call' = [call EXCEPT ![w] = NoCall] /\ result' = [result EXCEPT ![w] = None]
      /\ UNCHANGED <<queue, group>>
  BY Zenon DEF WakeDone, Idle
<1>2. /\ \A v \in Writers : v # w => pc'[v] = pc[v] /\ call'[v] = call[v] /\ result'[v] = result[v]
      /\ pc'[w] = "idle" /\ call'[w] = NoCall /\ result'[w] = None
  BY <1>1 DEF QueueInv
<1>3. \A k \in 1..Len(queue) : queue[k] # w /\ queue[k] \in Writers
  BY <1>1 DEF QueueInv
<1>4. NoCall \in Calls /\ NoCall.kind = "none" /\ NoCall.id = 0
  BY BoundsAssumption DEF NoCall, Calls
<1>5. pc' \in [Writers -> PCs] /\ call' \in [Writers -> Calls] /\ result' \in [Writers -> {None, "ok", "error"}]
  BY <1>1, <1>4, Zenon DEF QueueInv, PCs
<1>6. QueueInv'
  BY <1>1, <1>2, <1>3, <1>4, <1>5 DEF QueueInv, Busy
<1>7. GroupInv'
  BY <1>1, <1>2, <1>3 DEF GroupInv, Grouped, QueueInv
<1> QED BY <1>6, <1>7, Zenon

\* A waiting writer finds itself in front.
LEMMA WakeFrontStep ==
  ASSUME QueueInv, GroupInv, NEW w \in Writers, WakeFront(w)
  PROVE  QueueInv' /\ GroupInv'
<1>1. /\ pc[w] = "wait" /\ result[w] = None /\ Head(queue) = w /\ pc' = [pc EXCEPT ![w] = "lead"]
      /\ UNCHANGED <<call, queue, result, group>>
  BY Zenon DEF WakeFront
<1>2. pc'[w] = "lead" /\ (\A v \in Writers : v # w => pc'[v] = pc[v]) /\ pc' \in [Writers -> PCs]
  BY <1>1, Zenon DEF QueueInv, PCs, Busy
<1>3. Len(queue) > 0 /\ queue[1] = w
  <2>1. \E k \in 1..Len(queue) : queue[k] = w
    BY <1>1, Zenon DEF QueueInv
  <2> QED BY <1>1, <2>1 DEF QueueInv
<1>4. QueueInv'
  BY <1>1, <1>2, <1>3 DEF QueueInv, Busy
<1>5. GroupInv'
  BY <1>1, <1>2 DEF GroupInv, Grouped
<1> QED BY <1>4, <1>5, Zenon

\* The front of the queue leaves.
LEMMA Dropped ==
  ASSUME NEW q \in Seq(Writers), NEW n \in 1..Len(q)
  PROVE  /\ SubSeq(q, n + 1, Len(q)) \in Seq(Writers) /\ Len(SubSeq(q, n + 1, Len(q))) = Len(q) - n
         /\ \A k \in 1..(Len(q) - n) : SubSeq(q, n + 1, Len(q))[k] = q[k + n] /\ k + n \in 1..Len(q)
OBVIOUS

LEMMA PlaceOf ==
  ASSUME QueueInv, NEW n \in 1..Len(queue)
  PROVE  Place(queue[n]) = n
<1>1. DOMAIN queue = 1..Len(queue)
  BY DEF QueueInv
<1> QED BY <1>1 DEF QueueInv, Place

LEMMA DequeueStep ==
  ASSUME QueueInv, GroupInv, NEW w \in Writers, pc[w] \in Busy,
         NEW n \in 1..Len(queue), NEW ok \in BOOLEAN, NEW promise,
         Dequeue(w, queue[n], ok, promise), flushing \in [Writers -> SUBSET Nat]
  PROVE  /\ QueueInv' /\ GroupInv'
         /\ \A v \in Writers : pc'[v] \notin Busy
         /\ \A v \in Writers : pc'[v] = "flush" => pc[v] = "flush" \/ (v = w /\ call[w].kind = "flush")
         /\ acked' = IF ok THEN acked \cup ({call[queue[k]].id : k \in 1..n} \ {0}) ELSE acked
         /\ promised' = IF ok THEN promised \cup promise ELSE promised
         /\ flushing' \in [Writers -> SUBSET Nat] /\ \A v \in Writers : flushing'[v] \subseteq flushing[v]
<1> DEFINE served == {queue[k] : k \in 2..n}
           status == IF ok THEN "ok" ELSE "error"
<1>0. /\ queue \in Seq(Writers) /\ Len(queue) \in Nat /\ Len(queue) > 0 /\ queue[1] = w
      /\ pc \in [Writers -> PCs] /\ call \in [Writers -> Calls]
      /\ result \in [Writers -> {None, "ok", "error"}]
  BY DEF QueueInv
<1>1. /\ queue' = SubSeq(queue, n + 1, Len(queue))
      /\ result' = [v \in Writers |-> IF v \in served THEN status ELSE result[v]]
      /\ group' = NoGroup
      /\ acked' = IF ok THEN acked \cup ({call[v].id : v \in served \cup {w}} \ {0}) ELSE acked
      /\ promised' = IF ok THEN promised \cup promise ELSE promised
      /\ \/ pc' = [pc EXCEPT ![w] = "flush"] /\ call[w].kind = "flush" /\ UNCHANGED <<call, flushing>>
         \/ /\ pc' = [pc EXCEPT ![w] = "idle"] /\ call' = [call EXCEPT ![w] = NoCall]
            /\ flushing' = [flushing EXCEPT ![w] = {}]
  BY PlaceOf, Zenon DEF Dequeue, Idle
<1>2. NoCall \in Calls /\ NoCall.kind = "none" /\ NoCall.id = 0
  BY BoundsAssumption DEF NoCall, Calls
<1>3. /\ pc' \in [Writers -> PCs] /\ call' \in [Writers -> Calls] /\ pc'[w] \in {"idle", "flush"}
      /\ \A v \in Writers : v # w => pc'[v] = pc[v] /\ call'[v] = call[v]
      /\ pc'[w] = "flush" => call[w].kind = "flush"
      /\ call'[w] \in {call[w], NoCall}
  <2>0. /\ call' = call \/ call' = [call EXCEPT ![w] = NoCall]
        /\ \/ pc' = [pc EXCEPT ![w] = "flush"] /\ call[w].kind = "flush"
           \/ pc' = [pc EXCEPT ![w] = "idle"]
    BY <1>1, Zenon
  <2>1. /\ pc' \in [Writers -> PCs] /\ pc'[w] \in {"idle", "flush"}
        /\ \A v \in Writers : v # w => pc'[v] = pc[v]
        /\ pc'[w] = "flush" => call[w].kind = "flush"
    BY <1>0, <2>0 DEF PCs
  <2>2. /\ call' \in [Writers -> Calls] /\ call'[w] \in {call[w], NoCall}
        /\ \A v \in Writers : v # w => call'[v] = call[v]
    BY <1>0, <1>2, <2>0
  <2> QED BY <2>1, <2>2, Zenon
<1>4. /\ queue' \in Seq(Writers) /\ Len(queue') = Len(queue) - n
      /\ \A k \in 1..Len(queue') : queue'[k] = queue[k + n] /\ k + n \in 1..Len(queue)
  BY <1>0, <1>1, Dropped
<1>5. status \in {"ok", "error"}
  BY Zenon
<1>6. \A v \in Writers : /\ v \in served => result'[v] = status
                         /\ v \notin served => result'[v] = result[v]
  BY <1>1, Zenon
<1>7. result' \in [Writers -> {None, "ok", "error"}]
  BY <1>0, <1>1, <1>5, Zenon
<1> HIDE DEF served, status
<1>8. \A k \in 1..Len(queue') : queue'[k] \in Writers /\ queue'[k] # w /\ queue'[k] \notin served
  <2>1. \A k \in 1..Len(queue') : k + n # 1 /\ 1 \in 1..Len(queue)
    BY <1>0, <1>4
  <2>2. \A k \in 1..Len(queue') : \A j \in 2..n : k + n # j /\ j \in 1..Len(queue)
    BY <1>0, <1>4
  <2> QED BY <1>0, <1>4, <2>1, <2>2 DEF QueueInv, served
<1>9. \A v \in Writers : v \in served => pc[v] = "wait" /\ v # w
  <2>1. \A k \in 2..n : k \in 1..Len(queue) /\ k # 1
    BY <1>0
  <2> QED BY <1>0, <2>1 DEF QueueInv, served
<1>10. \A v \in Writers : pc'[v] \notin Busy
  BY <1>3 DEF QueueInv, Busy
<1>11. QueueInv'
  <2>1. \A v \in Writers : call'[v].kind = "write" <=> call'[v].id # 0
    BY <1>2, <1>3 DEF QueueInv
  <2>2. \A j, k \in 1..Len(queue') : queue'[j] = queue'[k] => j = k
    <3>1. \A j, k \in 1..Len(queue') : queue'[j] = queue'[k] => j + n = k + n
      BY <1>4 DEF QueueInv
    <3> QED BY <3>1
  <2>3. \A k \in 1..Len(queue') : result'[queue'[k]] = None /\ pc'[queue'[k]] \in Busy \cup {"wait"}
    <3>1. ASSUME NEW k \in 1..Len(queue')
          PROVE  result[queue[k + n]] = None /\ pc[queue[k + n]] \in Busy \cup {"wait"}
      BY <1>4, Zenon DEF QueueInv
    <3>2. ASSUME NEW k \in 1..Len(queue')
          PROVE  result'[queue'[k]] = None /\ pc'[queue'[k]] \in Busy \cup {"wait"}
      <4> DEFINE v == queue'[k]
      <4>1. v \in Writers /\ v # w /\ v \notin served
        BY <1>8, <3>2, Zenon
      <4>2. v = queue[k + n]
        BY <1>4, <3>2, Zenon
      <4>3. result[v] = None /\ pc[v] \in Busy \cup {"wait"}
        BY <3>1, <3>2, <4>2, Zenon
      <4> HIDE DEF v
      <4>4. result'[v] = result[v]
        BY <1>6, <4>1, Zenon
      <4>5. pc'[v] = pc[v]
        BY <1>3, <4>1, Zenon
      <4> QED BY <4>3, <4>4, <4>5, Zenon DEF v
    <3> QED BY <3>2, Zenon
  <2>4. ASSUME NEW v \in Writers, pc'[v] = "wait", result'[v] = None
        PROVE  \E k \in 1..Len(queue') : queue'[k] = v
    <3>1. v # w /\ v \notin served
      BY <1>3, <1>5, <1>6, <2>4, NoneAssumption, Zenon
    <3>2. PICK k \in 1..Len(queue) : queue[k] = v
      BY <1>3, <1>6, <2>4, <3>1 DEF QueueInv
    <3>3. k > n
      BY <1>0, <3>1, <3>2 DEF served
    <3>4. k - n \in 1..Len(queue') /\ (k - n) + n = k
      BY <1>0, <1>4, <3>2, <3>3
    <3> QED BY <1>4, <3>2, <3>4, Zenon
  <2>5. \A v \in Writers : /\ pc'[v] \in {"append", "insert"} => call'[v].kind = "write"
                           /\ pc'[v] = "sync" => call'[v].kind \in {"write", "sync"}
                           /\ pc'[v] \in Busy \cup {"wait"} => call'[v].kind # "none"
    BY <1>3, <1>10 DEF QueueInv, Busy
  <2>6. \A v \in Writers : result'[v] # None => pc'[v] = "wait"
    <3>1. result[w] = None
      BY <1>0 DEF QueueInv
    <3> QED BY <1>3, <1>6, <1>9, <3>1 DEF QueueInv
  <2> QED BY <1>3, <1>4, <1>7, <1>10, <2>1, <2>2, <2>3, <2>4, <2>5, <2>6, Zenon DEF QueueInv
<1>12. GroupInv'
  BY <1>10, Zenon DEF GroupInv, Grouped, Busy
<1>13. {call[v].id : v \in served \cup {w}} = {call[queue[k]].id : k \in 1..n}
  <2>1. served \cup {w} = {queue[k] : k \in 1..n}
    <3>1. \A k \in 1..n : k = 1 \/ k \in 2..n
      OBVIOUS
    <3>2. (\A k \in 2..n : k \in 1..n) /\ 1 \in 1..n
      OBVIOUS
    <3> QED BY <1>0, <3>1, <3>2, Zenon DEF served
  <2> QED BY <2>1, Zenon
<1>14. \A v \in Writers : pc'[v] = "flush" => pc[v] = "flush" \/ (v = w /\ call[w].kind = "flush")
  BY <1>3, Zenon
<1>15. flushing' \in [Writers -> SUBSET Nat] /\ \A v \in Writers : flushing'[v] \subseteq flushing[v]
  <2>1. flushing' = flushing \/ flushing' = [flushing EXCEPT ![w] = {}]
    BY <1>1, Zenon
  <2> QED BY <2>1, Zenon
<1> QED BY <1>1, <1>10, <1>11, <1>12, <1>13, <1>14, <1>15, Zenon

\* The leader builds a group.
LEMMA BuildStep ==
  ASSUME QueueInv, NEW w \in Writers, pc[w] = "lead", call[w].kind = "write", lastSeq \in Nat,
         wal \in BOOLEAN, BuildBatchGroup(w)
  PROVE  /\ QueueInv' /\ GroupInv'
         /\ \A v \in Writers : Grouped(v)' => v = w
         /\ pc'[w] = (IF wal THEN "append" ELSE "insert")
         /\ \A v \in Writers : v # w => pc'[v] = pc[v]
<1>1. PICK n \in GroupSizes(w) :
        /\ group' = [ids |-> [k \in 1..n |-> call[queue[k]].id], seq |-> lastSeq + 1, last |-> queue[n]]
        /\ pc' = [pc EXCEPT ![w] = IF wal THEN "append" ELSE "insert"]
        /\ UNCHANGED <<call, queue, result>>
  BY Zenon DEF BuildBatchGroup
<1>2. /\ queue \in Seq(Writers) /\ Len(queue) \in Nat /\ queue[1] = w /\ DOMAIN queue = 1..Len(queue)
      /\ call \in [Writers -> Calls] /\ pc \in [Writers -> PCs]
  BY DEF QueueInv, Busy
<1>3. /\ n \in 1..Len(queue)
      /\ \A k \in 2..n : call[queue[k]].kind = "write" /\ (call[queue[k]].sync => call[w].sync)
  BY <1>1, <1>2, Zenon DEF GroupSizes, Joins
<1>4. \A k \in 1..n : /\ queue[k] \in Writers /\ call[queue[k]].id \in 1..MaxUpdates
                      /\ (call[queue[k]].sync => call[w].sync) /\ k \in 1..Len(queue)
  <2>1. \A k \in 1..n : k \in 1..Len(queue) /\ (k = 1 \/ k \in 2..n)
    BY <1>2, <1>3
  <2>2. \A k \in 1..n : queue[k] \in Writers /\ call[queue[k]].kind = "write"
    BY <1>2, <1>3, <2>1
  <2>3. \A v \in Writers : call[v].kind = "write" => call[v].id \in 1..MaxUpdates
    BY NoneAssumption DEF QueueInv, Calls
  <2> QED BY <1>2, <1>3, <2>1, <2>2, <2>3, Zenon
<1>5. PICK to \in {"append", "insert"} : to = (IF wal THEN "append" ELSE "insert")
  BY Zenon
<1>6. QueueInv' /\ pc'[w] = to /\ \A v \in Writers : v # w => pc'[v] = pc[v]
  <2>1. to \in Busy /\ pc[w] \in Busy /\ to # "sync" /\ pc' = [pc EXCEPT ![w] = to]
    BY <1>1, <1>5, Zenon DEF Busy
  <2> QED BY <1>1, <2>1, LeaderQueue, Zenon
<1>7. \A v \in Writers : Grouped(v)' => v = w
  BY <1>2, <1>6 DEF Grouped, QueueInv, Busy
<1>8. /\ group'.ids \in Seq(1..MaxUpdates) /\ Len(group'.ids) = n /\ group'.last = queue[n]
      /\ \A k \in 1..n : group'.ids[k] = call[queue[k]].id
      /\ group' \in [ids : Seq(1..MaxUpdates), seq : Nat, last : Writers]
  <2> DEFINE ids == [k \in 1..n |-> call[queue[k]].id]
  <2>1. n \in Nat /\ ids \in [1..n -> 1..MaxUpdates]
    BY <1>3, <1>4
  <2>2. ids \in Seq(1..MaxUpdates) /\ Len(ids) = n
    BY <2>1
  <2>3. \A k \in 1..n : ids[k] = call[queue[k]].id
    BY Zenon
  <2>4. group' = [ids |-> ids, seq |-> lastSeq + 1, last |-> queue[n]]
    BY <1>1, Zenon
  <2>5. queue[n] \in Writers /\ lastSeq + 1 \in Nat
    BY <1>3, <1>4
  <2> HIDE DEF ids
  <2> QED BY <2>2, <2>3, <2>4, <2>5, Zenon
<1>9. GroupInv'
  BY <1>1, <1>3, <1>4, <1>7, <1>8, Zenon DEF GroupInv
<1> QED BY <1>5, <1>6, <1>7, <1>9, Zenon

\* A flush is over.
LEMMA FlushDoneStep ==
  ASSUME QueueInv, GroupInv, NEW w \in Writers, FlushDone(w)
  PROVE  QueueInv' /\ GroupInv'
<1>1. /\ pc[w] = "flush" /\ pc' = [pc EXCEPT ![w] = "idle"]
      /\ call' = [call EXCEPT ![w] = NoCall] /\ UNCHANGED <<queue, result, group>>
  BY Zenon DEF FlushDone, Idle
<1>2. /\ \A v \in Writers : v # w => pc'[v] = pc[v] /\ call'[v] = call[v]
      /\ pc'[w] = "idle" /\ call'[w] = NoCall
  BY <1>1 DEF QueueInv
<1>3. \A k \in 1..Len(queue) : queue[k] # w /\ queue[k] \in Writers
  BY <1>1 DEF QueueInv, Busy
<1>4. NoCall \in Calls /\ NoCall.kind = "none" /\ NoCall.id = 0
  BY BoundsAssumption DEF NoCall, Calls
<1>5. pc' \in [Writers -> PCs] /\ call' \in [Writers -> Calls]
  BY <1>1, <1>4, Zenon DEF QueueInv, PCs
<1>6. QueueInv'
  <2>1. \A k \in 1..Len(queue') : result'[queue'[k]] = None /\ pc'[queue'[k]] \in Busy \cup {"wait"}
    <3>1. ASSUME NEW k \in 1..Len(queue')
          PROVE  result'[queue'[k]] = None /\ pc'[queue'[k]] \in Busy \cup {"wait"}
      <4>1. queue' = queue /\ result' = result /\ k \in 1..Len(queue)
        BY <1>1, <3>1, Zenon
      <4>2. result[queue[k]] = None /\ pc[queue[k]] \in Busy \cup {"wait"}
        BY <4>1, Zenon DEF QueueInv
      <4>3. pc'[queue[k]] = pc[queue[k]]
        BY <1>2, <1>3, <4>1, Zenon
      <4> QED BY <4>1, <4>2, <4>3, Zenon
    <3> QED BY <3>1, Zenon
  <2>2. ASSUME NEW v \in Writers PROVE call'[v].kind = "write" <=> call'[v].id # 0
    <3>1. CASE v = w
      BY <1>2, <1>4, <3>1
    <3>2. CASE v # w
      <4>1. call'[v] = call[v]
        BY <1>2, <3>2, Zenon
      <4>2. call[v].kind = "write" <=> call[v].id # 0
        BY Zenon DEF QueueInv
      <4> QED BY <4>1, <4>2, Zenon
    <3> QED BY <3>1, <3>2, Zenon
  <2> QED BY <1>1, <1>2, <1>5, <2>1, <2>2 DEF QueueInv, Busy
<1>7. GroupInv'
  BY <1>1, <1>2, <1>3 DEF GroupInv, Grouped, QueueInv
<1> QED BY <1>6, <1>7, Zenon

\* All calls are gone.
NoCalls ==
  /\ pc = [w \in Writers |-> "idle"] /\ call = [w \in Writers |-> NoCall] /\ queue = <<>>
  /\ result = [w \in Writers |-> None]

LEMMA QuietQueue == NoCalls => QueueInv /\ GroupInv
<1> SUFFICES ASSUME NoCalls PROVE QueueInv /\ GroupInv
  BY Zenon
<1>1. NoCall \in Calls /\ NoCall.kind = "none" /\ NoCall.id = 0
  BY BoundsAssumption DEF NoCall, Calls
<1>2. pc \in [Writers -> PCs] /\ call \in [Writers -> Calls] /\ result \in [Writers -> {None, "ok", "error"}]
  BY <1>1, Zenon DEF PCs, NoCalls
<1>3. \A w \in Writers : pc[w] = "idle" /\ call[w] = NoCall /\ result[w] = None
  BY Zenon DEF NoCalls
<1>4. queue \in Seq(Writers) /\ Len(queue) = 0
  BY DEF NoCalls
<1>5. QueueInv
  BY <1>1, <1>2, <1>3, <1>4 DEF QueueInv, Busy
<1>6. GroupInv
  BY <1>3, Zenon DEF GroupInv, Grouped
<1> QED BY <1>5, <1>6, Zenon

LEMMA QuietQueueNext == NoCalls' => QueueInv' /\ GroupInv'
BY QuietQueue, PTL

-----------------------------------------------------------------------------
(* Records, logs and what they hold.                                       *)

LEMMA RecordEntries ==
  ASSUME NEW rec \in Record
  PROVE  /\ EntriesOf(rec) \subseteq Entry /\ EntrySeq(rec) \in Seq(EntriesOf(rec))
         /\ Range(EntrySeq(rec)) = EntriesOf(rec)
         /\ \A k \in 1..Len(rec.ids) : \E e \in EntriesOf(rec) : e.id = rec.ids[k]
         /\ \A e \in EntriesOf(rec) : e.seq \in rec.seq .. LastOf(rec)
<1> DEFINE n == Len(rec.ids)
           E == EntrySeq(rec)
<1>1. rec.ids \in Seq(1..MaxUpdates) /\ rec.seq \in Nat /\ n \in Nat
  BY DEF Record
<1>2. E = [k \in 1..(2 * n) |-> [seq |-> rec.seq + k - 1, id |-> rec.ids[(k + 1) \div 2]]]
  BY Zenon DEF EntrySeq
<1>3. \A k \in 1..(2 * n) : /\ rec.seq + k - 1 \in Nat /\ (k + 1) \div 2 \in 1..n
                            /\ rec.seq + k - 1 \in rec.seq .. LastOf(rec)
  BY <1>1 DEF LastOf
<1>4. \A k \in 1..n : 2 * k \in 1..(2 * n) /\ (2 * k + 1) \div 2 = k
  BY <1>1
<1>5. \A k \in 1..(2 * n) : /\ E[k] \in Entry /\ E[k].id = rec.ids[(k + 1) \div 2]
                            /\ E[k].seq \in rec.seq .. LastOf(rec)
  <2> SUFFICES ASSUME NEW k \in 1..(2 * n)
               PROVE  /\ E[k] \in Entry /\ E[k].id = rec.ids[(k + 1) \div 2]
                      /\ E[k].seq \in rec.seq .. LastOf(rec)
    BY Zenon
  <2>1. E[k] = [seq |-> rec.seq + k - 1, id |-> rec.ids[(k + 1) \div 2]]
    BY <1>2, Zenon
  <2> HIDE DEF E
  <2>2. \A i \in 1..n : rec.ids[i] \in 1..MaxUpdates
    <3>1. \A T : \A s \in Seq(T) : \A i \in 1..Len(s) : s[i] \in T
      OBVIOUS
    <3> QED BY <1>1, <3>1, Zenon
  <2>3. rec.seq + k - 1 \in Nat /\ rec.ids[(k + 1) \div 2] \in 1..MaxUpdates
    BY <1>3, <2>2, Zenon
  <2>4. E[k] \in Entry
    <3>1. \A a \in Nat, b \in 1..MaxUpdates : [seq |-> a, id |-> b] \in Entry
      BY Zenon DEF Entry
    <3> QED BY <2>1, <2>3, <3>1, Zenon
  <2>5. E[k].id = rec.ids[(k + 1) \div 2] /\ E[k].seq = rec.seq + k - 1
    BY <2>1
  <2> QED BY <1>3, <2>4, <2>5, Zenon
<1>6. EntriesOf(rec) = {E[k] : k \in 1..(2 * n)} /\ DOMAIN E = 1..(2 * n)
  BY <1>2, Zenon DEF EntriesOf, Range
<1>x. 2 * n \in Nat
  BY <1>1
<1> HIDE DEF E, n
<1>7. E \in [1..(2 * n) -> EntriesOf(rec)]
  BY <1>2, <1>6, Zenon
<1>8. E \in Seq(EntriesOf(rec))
  BY <1>x, <1>7
<1>9. \A k \in 1..n : \E e \in EntriesOf(rec) : e.id = rec.ids[k]
  BY <1>4, <1>5, <1>6, Zenon
<1> QED BY <1>5, <1>6, <1>8, <1>9, Zenon DEF EntriesOf, E, n

LEMMA LogEntriesBy ==
  ASSUME NEW recs \in Seq(Record), NEW j \in 0..Len(recs)
  PROVE  /\ SubSeq(recs, 1, j) \in Seq(Record) /\ Len(SubSeq(recs, 1, j)) = j
         /\ \A e : e \in LogEntries(recs) <=> \E k \in 1..Len(recs) : e \in EntriesOf(recs[k])
         /\ \A e : e \in LogEntries(SubSeq(recs, 1, j)) <=> \E k \in 1..j : e \in EntriesOf(recs[k])
<1>1. DOMAIN recs = 1..Len(recs)
  OBVIOUS
<1>2. /\ SubSeq(recs, 1, j) \in Seq(Record) /\ Len(SubSeq(recs, 1, j)) = j
      /\ DOMAIN SubSeq(recs, 1, j) = 1..j
      /\ \A k \in 1..j : SubSeq(recs, 1, j)[k] = recs[k]
  OBVIOUS
<1>3. \A e : e \in LogEntries(recs) <=> \E k \in 1..Len(recs) : e \in EntriesOf(recs[k])
  BY <1>1, Zenon DEF LogEntries
<1>4. \A e : e \in LogEntries(SubSeq(recs, 1, j)) <=> \E k \in 1..j : e \in EntriesOf(recs[k])
  BY <1>2, Zenon DEF LogEntries
<1> QED BY <1>2, <1>3, <1>4, Zenon

\* What a log holds, and what it holds on storage.
LEMMA LogBy ==
  ASSUME NEW l \in Log
  PROVE  /\ l.recs \in Seq(Record) /\ Len(l.recs) \in Nat /\ l.synced \in 0..Len(l.recs)
         /\ \A e : e \in Content(l) <=> \E k \in 1..Len(l.recs) : e \in EntriesOf(l.recs[k])
         /\ \A e : e \in Kept(l) <=> \E k \in 1..l.synced : e \in EntriesOf(l.recs[k])
         /\ Kept(l) \subseteq Content(l) /\ Content(l) \subseteq Entry
<1>1. l.recs \in Seq(Record) /\ Len(l.recs) \in Nat /\ l.synced \in 0..Len(l.recs)
  BY DEF Log
<1>2. /\ \A e : e \in Content(l) <=> \E k \in 1..Len(l.recs) : e \in EntriesOf(l.recs[k])
      /\ \A e : e \in Kept(l) <=> \E k \in 1..l.synced : e \in EntriesOf(l.recs[k])
  BY <1>1, LogEntriesBy, Zenon DEF Content, Kept
<1>3. \A k \in 1..l.synced : k \in 1..Len(l.recs)
  BY <1>1
<1>4. \A k \in 1..Len(l.recs) : l.recs[k] \in Record
  BY <1>1
<1> QED BY <1>1, <1>2, <1>3, <1>4, RecordEntries, Zenon

LEMMA NoLog == EmptyLog \in Log /\ Content(EmptyLog) = {} /\ Kept(EmptyLog) = {}
<1>1. EmptyLog \in Log /\ Len(EmptyLog.recs) = 0
  BY DEF EmptyLog, Log
<1>2. Content(EmptyLog) = {}
  BY <1>1, LogBy
<1> QED BY <1>1, <1>2, LogBy, Zenon

LEMMA LogAppended ==
  ASSUME NEW l \in Log, NEW rec \in Record
  PROVE  LET a == [recs |-> Append(l.recs, rec), synced |-> l.synced]
         IN  a \in Log /\ Content(a) = Content(l) \cup EntriesOf(rec) /\ Kept(a) = Kept(l)
<1> DEFINE a == [recs |-> Append(l.recs, rec), synced |-> l.synced]
<1>1. l.recs \in Seq(Record) /\ Len(l.recs) \in Nat /\ l.synced \in 0..Len(l.recs)
  BY LogBy, Zenon
<1>2. /\ Append(l.recs, rec) \in Seq(Record) /\ Len(Append(l.recs, rec)) = Len(l.recs) + 1
      /\ \A k \in 1..Len(l.recs) : Append(l.recs, rec)[k] = l.recs[k]
      /\ Append(l.recs, rec)[Len(l.recs) + 1] = rec
  BY <1>1
<1>3. a.recs = Append(l.recs, rec) /\ a.synced = l.synced
  BY Zenon
<1>4. a \in Log
  BY <1>1, <1>2 DEF Log
<1> HIDE DEF a
<1>5. \A k \in 1..Len(a.recs) : k \in 1..Len(l.recs) \/ k = Len(l.recs) + 1
  BY <1>1, <1>2, <1>3
<1>6. /\ \A k \in 1..Len(l.recs) : k \in 1..Len(a.recs)
      /\ Len(l.recs) + 1 \in 1..Len(a.recs)
      /\ \A k \in 1..l.synced : k \in 1..Len(l.recs)
  BY <1>1, <1>2, <1>3
<1>7. \A e : e \in Content(a) <=> e \in Content(l) \/ e \in EntriesOf(rec)
  <2>1. \A e : e \in Content(a) <=> \E k \in 1..Len(a.recs) : e \in EntriesOf(a.recs[k])
    BY <1>4, LogBy, Zenon
  <2>2. \A e : e \in Content(l) <=> \E k \in 1..Len(l.recs) : e \in EntriesOf(l.recs[k])
    BY LogBy, Zenon
  <2> QED BY <1>2, <1>3, <1>5, <1>6, <2>1, <2>2, Zenon
<1>8. \A e : e \in Kept(a) <=> e \in Kept(l)
  <2>1. \A e : e \in Kept(a) <=> \E k \in 1..a.synced : e \in EntriesOf(a.recs[k])
    BY <1>4, LogBy, Zenon
  <2>2. \A e : e \in Kept(l) <=> \E k \in 1..l.synced : e \in EntriesOf(l.recs[k])
    BY LogBy, Zenon
  <2> QED BY <1>2, <1>3, <1>6, <2>1, <2>2, Zenon
<1> QED BY <1>4, <1>7, <1>8, Zenon DEF a

LEMMA LogSynced ==
  ASSUME NEW l \in Log, NEW n \in {l.synced, Len(l.recs)}
  PROVE  LET s == [recs |-> l.recs, synced |-> n]
         IN  /\ s \in Log /\ Content(s) = Content(l) /\ Kept(l) \subseteq Kept(s)
             /\ n = Len(l.recs) => Kept(s) = Content(l)
<1> DEFINE s == [recs |-> l.recs, synced |-> n]
<1>1. l.recs \in Seq(Record) /\ Len(l.recs) \in Nat /\ l.synced \in 0..Len(l.recs)
  BY LogBy, Zenon
<1>2. s.recs = l.recs /\ s.synced = n
  BY Zenon
<1>3. s \in Log
  BY <1>1 DEF Log
<1> HIDE DEF s
<1>4. Content(s) = Content(l)
  BY <1>2, Zenon DEF Content
<1>5. /\ \A e : e \in Kept(s) <=> \E k \in 1..n : e \in EntriesOf(l.recs[k])
      /\ \A e : e \in Kept(l) <=> \E k \in 1..l.synced : e \in EntriesOf(l.recs[k])
      /\ \A e : e \in Content(l) <=> \E k \in 1..Len(l.recs) : e \in EntriesOf(l.recs[k])
  BY <1>2, <1>3, LogBy, Zenon
<1>6. \A k \in 1..l.synced : k \in 1..n
  BY <1>1
<1> QED BY <1>3, <1>4, <1>5, <1>6, Zenon DEF s

LEMMA LogCut ==
  ASSUME NEW l \in Log, NEW n \in l.synced..Len(l.recs)
  PROVE  LET c == [recs |-> SubSeq(l.recs, 1, n), synced |-> n]
         IN  c \in Log /\ Kept(l) \subseteq Kept(c) /\ Content(c) \subseteq Content(l)
<1> DEFINE c == [recs |-> SubSeq(l.recs, 1, n), synced |-> n]
<1>1. l.recs \in Seq(Record) /\ Len(l.recs) \in Nat /\ l.synced \in 0..Len(l.recs)
  BY LogBy, Zenon
<1>2. /\ SubSeq(l.recs, 1, n) \in Seq(Record) /\ Len(SubSeq(l.recs, 1, n)) = n
      /\ \A k \in 1..n : SubSeq(l.recs, 1, n)[k] = l.recs[k]
  BY <1>1
<1>3. c.recs = SubSeq(l.recs, 1, n) /\ c.synced = n
  BY Zenon
<1>4. c \in Log
  BY <1>1, <1>2 DEF Log
<1> HIDE DEF c
<1>5. /\ \A e : e \in Kept(c) <=> \E k \in 1..n : e \in EntriesOf(c.recs[k])
      /\ \A e : e \in Content(c) <=> \E k \in 1..n : e \in EntriesOf(c.recs[k])
      /\ \A e : e \in Kept(l) <=> \E k \in 1..l.synced : e \in EntriesOf(l.recs[k])
      /\ \A e : e \in Content(l) <=> \E k \in 1..Len(l.recs) : e \in EntriesOf(l.recs[k])
  BY <1>2, <1>3, <1>4, LogBy
<1>6. (\A k \in 1..l.synced : k \in 1..n) /\ (\A k \in 1..n : k \in 1..Len(l.recs))
  BY <1>1
<1> QED BY <1>2, <1>3, <1>4, <1>5, <1>6, Zenon DEF c

LEMMA FoundBy ==
  ASSUME NEW m, NEW ls
  PROVE  /\ \A e : e \in Found(m, ls) <=>
              e \in m.tables \/ \E n \in DOMAIN ls : n >= m.log /\ e \in Content(ls[n])
         /\ \A e : e \in Saved(m, ls) <=>
              e \in m.tables \/ \E n \in DOMAIN ls : n >= m.log /\ e \in Kept(ls[n])
BY Zenon DEF Found, Saved

\* The logs that are left hold what they held.
LEMMA FoundGrows ==
  ASSUME NEW m, NEW ls, NEW ls2,
         \A n \in DOMAIN ls : n >= m.log =>
           n \in DOMAIN ls2 /\ Content(ls[n]) \subseteq Content(ls2[n]) /\ Kept(ls[n]) \subseteq Kept(ls2[n])
  PROVE  Found(m, ls) \subseteq Found(m, ls2) /\ Saved(m, ls) \subseteq Saved(m, ls2)
<1>1. \A e : e \in Found(m, ls) => e \in Found(m, ls2)
  BY FoundBy, Zenon
<1>2. \A e : e \in Saved(m, ls) => e \in Saved(m, ls2)
  BY FoundBy, Zenon
<1> QED BY <1>1, <1>2, Zenon

LEMMA IdsGrow ==
  ASSUME NEW A, NEW B, A \subseteq B
  PROVE  Ids(A) \subseteq Ids(B)
BY Zenon DEF Ids

-----------------------------------------------------------------------------
(* What the invariant of the store and of the reports needs of a step.     *)

LEMMA CallsMeanUp ==
  ASSUME StoreInv, NEW w \in Writers, pc[w] # "idle"
  PROVE  mode = "up" /\ UpInv
BY Zenon DEF StoreInv, Quiet

LEMMA StoreSame ==
  ASSUME StoreTypeOK, UpInv, mode = "up", lastSeq' \in Nat,
         UNCHANGED <<wal, mode, mem, imm, nextFile, logNo, version, edit, dump, replay, logs, manifest>>
  PROVE  StoreTypeOK' /\ StoreInv'
<1>1. /\ wal' = wal /\ mode' = mode /\ mem' = mem /\ imm' = imm
      /\ nextFile' = nextFile /\ logNo' = logNo /\ version' = version /\ edit' = edit
      /\ dump' = dump /\ replay' = replay /\ logs' = logs /\ manifest' = manifest
  BY Zenon
<1>2. StoreTypeOK'
  BY <1>1 DEF StoreTypeOK, Frozen
<1>3. UpInv'
  BY <1>1 DEF UpInv, Frozen
<1> QED BY <1>1, <1>2, <1>3, Zenon DEF StoreInv

\* What a group has to do with the store.
LEMMA RecordKept ==
  ASSUME RecordInv, UNCHANGED <<wal, mem, group, todo>>, wal => logs'[logNo'] = logs[logNo],
         \A v \in Writers : Grouped(v)' => Grouped(v) /\ pc'[v] = pc[v] /\ call'[v] = call[v]
  PROVE  RecordInv'
BY Zenon DEF RecordInv

LEMMA RecordSame ==
  ASSUME RecordInv, UNCHANGED <<wal, mem, logs, logNo, group, todo>>,
         \A v \in Writers : Grouped(v)' => Grouped(v) /\ pc'[v] = pc[v] /\ call'[v] = call[v]
  PROVE  RecordInv'
BY Zenon DEF RecordInv

InTables == version.tables \cup Frozen

\* An open DB stays open and nothing gets lost, or all that was in memory is now in the
\* memtable that is dumped; the updates A are reported as done and those of P as saved.
LEMMA ReportStep ==
  ASSUME ReportInv, mode = "up", mode' = "up", NEW A, NEW P,
         acked' = acked \cup A, A \subseteq Nat, A \subseteq Ids(View'),
         promised' = promised \cup P, P \subseteq acked',
         P \subseteq Ids(Saved(manifest, logs)'), P \subseteq Ids(Safe'),
         Saved(manifest, logs) \subseteq Saved(manifest, logs)' \/ Safe \subseteq Saved(manifest, logs)',
         View \subseteq View',
         \/ /\ Safe \subseteq Safe' /\ InTables \subseteq InTables'
            /\ \A v \in Writers : pc'[v] = "flush" => pc[v] = "flush" /\ flushing'[v] \subseteq flushing[v]
         \/ View \subseteq InTables',
         flushing' \in [Writers -> SUBSET Nat],
         \A v \in Writers : flushing'[v] \subseteq flushing[v] \/ flushing'[v] \subseteq acked
  PROVE  ReportInv'
<1>1. /\ acked \subseteq Nat /\ promised \subseteq acked
      /\ promised \subseteq Ids(Saved(manifest, logs))
      /\ acked \subseteq Ids(View) /\ promised \subseteq Ids(Safe)
      /\ \A w \in Writers :
           /\ flushing[w] \subseteq acked
           /\ pc[w] = "flush" => flushing[w] \subseteq Ids(InTables)
  BY Zenon DEF ReportInv, InTables
<1>2. promised' \subseteq Ids(Saved(manifest, logs)')
  <2>1. CASE Saved(manifest, logs) \subseteq Saved(manifest, logs)'
    <3>1. Ids(Saved(manifest, logs)) \subseteq Ids(Saved(manifest, logs)')
      BY <2>1, IdsGrow, Zenon
    <3> QED BY <1>1, <3>1, Zenon
  <2>2. CASE Safe \subseteq Saved(manifest, logs)'
    <3>1. Ids(Safe) \subseteq Ids(Saved(manifest, logs)')
      BY <2>2, IdsGrow, Zenon
    <3> QED BY <1>1, <3>1, Zenon
  <2> QED BY <2>1, <2>2, Zenon
<1>3. /\ acked' \subseteq Nat /\ promised' \subseteq acked' /\ acked' \subseteq Ids(View')
      /\ \A w \in Writers : flushing'[w] \subseteq acked /\ flushing'[w] \subseteq acked'
  <2>1. Ids(View) \subseteq Ids(View')
    BY IdsGrow, Zenon
  <2>2. \A w \in Writers : flushing'[w] \subseteq acked
    BY <1>1, Zenon
  <2> QED BY <1>1, <2>1, <2>2, Zenon
<1>4. /\ promised' \subseteq Ids(Safe')
      /\ \A w \in Writers : pc'[w] = "flush" => flushing'[w] \subseteq Ids(InTables')
  <2>1. CASE /\ Safe \subseteq Safe' /\ InTables \subseteq InTables'
             /\ \A v \in Writers : pc'[v] = "flush" => pc[v] = "flush" /\ flushing'[v] \subseteq flushing[v]
    <3>1. Ids(Safe) \subseteq Ids(Safe') /\ Ids(InTables) \subseteq Ids(InTables')
      BY <2>1, IdsGrow, Zenon
    <3> QED BY <1>1, <2>1, <3>1, Zenon
  <2>2. CASE View \subseteq InTables'
    <3>1. InTables' \subseteq Safe'
      BY Zenon DEF InTables, Safe
    <3>2. View \subseteq Safe'
      BY <2>2, <3>1, Zenon
    <3>3. Ids(View) \subseteq Ids(InTables') /\ Ids(View) \subseteq Ids(Safe')
      BY <2>2, <3>2, IdsGrow, Zenon
    <3> QED BY <1>1, <1>3, <3>3, Zenon
  <2> QED BY <2>1, <2>2, Zenon
<1> QED BY <1>2, <1>3, <1>4, Zenon DEF ReportInv, InTables

\* Nothing is reported.
LEMMA ReportGrows ==
  ASSUME ReportInv, mode = "up", mode' = "up", UNCHANGED <<acked, promised>>,
         Saved(manifest, logs) \subseteq Saved(manifest, logs)' \/ Safe \subseteq Saved(manifest, logs)',
         View \subseteq View',
         \/ /\ Safe \subseteq Safe' /\ InTables \subseteq InTables'
            /\ \A v \in Writers : pc'[v] = "flush" => pc[v] = "flush" /\ flushing'[v] \subseteq flushing[v]
         \/ View \subseteq InTables',
         flushing' \in [Writers -> SUBSET Nat],
         \A v \in Writers : flushing'[v] \subseteq flushing[v] \/ flushing'[v] \subseteq acked
  PROVE  ReportInv'
<1>1. ASSUME NEW A, NEW P, A = {}, P = {}
      PROVE  ReportInv'
  <2>1. /\ acked' = acked \cup A /\ promised' = promised \cup P /\ A \subseteq Nat
        /\ A \subseteq Ids(View') /\ P \subseteq acked' /\ P \subseteq Ids(Safe')
        /\ P \subseteq Ids(Saved(manifest, logs)')
    BY <1>1, Zenon
  <2> QED BY <2>1, ReportStep, Zenon
<1> QED BY <1>1, Zenon

\* The store but for the last sequence number stays as it is.
LEMMA SameStore ==
  ASSUME UNCHANGED <<wal, mem, imm, logNo, version, logs, manifest>>
  PROVE  /\ View' = View /\ Safe' = Safe /\ InTables' = InTables
         /\ Saved(manifest, logs)' = Saved(manifest, logs)
BY Zenon DEF View, Safe, InTables, Frozen

\* A step of the callers alone.
LEMMA CallersStep ==
  ASSUME StoreTypeOK, StoreInv, ReportInv, mode = "up", lastSeq' \in Nat,
         UNCHANGED <<wal, mode, mem, imm, nextFile, logNo, version, edit, dump, replay, logs, manifest>>,
         UNCHANGED <<acked, promised>>, flushing' \in [Writers -> SUBSET Nat],
         \A v \in Writers : /\ pc'[v] = "flush" => pc[v] = "flush" /\ flushing'[v] \subseteq flushing[v]
                            /\ flushing'[v] \subseteq flushing[v] \/ flushing'[v] \subseteq acked
  PROVE  StoreTypeOK' /\ StoreInv' /\ ReportInv'
<1>1. StoreTypeOK' /\ StoreInv'
  BY StoreSame, Zenon DEF StoreInv
<1>2. /\ View \subseteq View' /\ Safe \subseteq Safe' /\ InTables \subseteq InTables'
      /\ Saved(manifest, logs) \subseteq Saved(manifest, logs)' /\ mode' = "up"
  BY SameStore, Zenon
<1>3. ReportInv'
  BY <1>2, ReportGrows, Zenon
<1> QED BY <1>1, <1>3, Zenon

LEMMA UnchangedStore ==
  ASSUME StoreTypeOK, UNCHANGED <<wal, mode, dbVars, replay, disk>>
  PROVE  /\ lastSeq' \in Nat
         /\ UNCHANGED <<wal, mode, mem, imm, nextFile, logNo, version, edit, dump, replay, logs, manifest>>
BY Zenon DEF StoreTypeOK, dbVars, disk

-----------------------------------------------------------------------------
(* The calls.                                                              *)

LEMMA EnqueueSafe ==
  ASSUME WInv, updates \in Nat, NEW w \in Writers, Write(w) \/ SyncWAL(w) \/ FlushMemTable(w)
  PROVE  WInv'
<1>0. QueueInv /\ GroupInv /\ StoreTypeOK /\ StoreInv /\ RecordInv /\ ReportInv
  BY Zenon DEF WInv
<1>1. PICK c \in Calls : /\ Enqueue(w, c) /\ c.kind # "none" /\ (c.kind = "write" <=> c.id # 0)
                         /\ flushing' = flushing \/ flushing' = [flushing EXCEPT ![w] = acked]
  <2>1. ASSUME NEW s \in BOOLEAN, NEW k \in {"write", "sync", "flush"}, NEW i \in 0..MaxUpdates
        PROVE  LET c == [kind |-> k, sync |-> s, id |-> i]
               IN  c \in Calls /\ c.kind = k /\ c.id = i
    BY Zenon DEF Calls
  <2>2. 0 \in 0..MaxUpdates /\ (updates < MaxUpdates => updates + 1 \in 0..MaxUpdates /\ updates + 1 # 0)
    BY BoundsAssumption
  <2>3. CASE Write(w)
    <3>1. PICK s \in BOOLEAN : Enqueue(w, [kind |-> "write", sync |-> s, id |-> updates + 1])
      BY <2>3, Zenon DEF Write
    <3>2. updates < MaxUpdates /\ flushing' = flushing
      BY <2>3, Zenon DEF Write
    <3> QED BY <2>1, <2>2, <3>1, <3>2, Zenon
  <2>4. CASE SyncWAL(w)
    <3>1. Enqueue(w, [kind |-> "sync", sync |-> FALSE, id |-> 0]) /\ flushing' = flushing
      BY <2>4, Zenon DEF SyncWAL
    <3> QED BY <2>1, <2>2, <3>1, Zenon
  <2>5. CASE FlushMemTable(w)
    <3>1. /\ Enqueue(w, [kind |-> "flush", sync |-> FALSE, id |-> 0])
          /\ flushing' = [flushing EXCEPT ![w] = acked]
      BY <2>5, Zenon DEF FlushMemTable
    <3> QED BY <2>1, <2>2, <3>1, Zenon
  <2> QED BY <2>3, <2>4, <2>5, Zenon
<1>2. QueueInv' /\ GroupInv'
  BY <1>0, <1>1, EnqueueStep, Zenon
<1>3. /\ mode = "up" /\ UNCHANGED <<wal, mode, dbVars, replay, disk>> /\ UNCHANGED <<acked, promised>>
      /\ UNCHANGED <<group, todo>> /\ pc[w] = "idle" /\ call' = [call EXCEPT ![w] = c]
      /\ pc' = [pc EXCEPT ![w] = "lead"] \/ pc' = [pc EXCEPT ![w] = "wait"]
  BY <1>1, Zenon DEF Enqueue, history
<1>4. /\ pc \in [Writers -> PCs] /\ call \in [Writers -> Calls]
      /\ acked \subseteq Nat /\ flushing \in [Writers -> SUBSET Nat]
  BY <1>0, Zenon DEF QueueInv, ReportInv
<1>5. /\ pc'[w] \in {"lead", "wait"}
      /\ \A v \in Writers : v # w => pc'[v] = pc[v] /\ call'[v] = call[v]
  BY <1>3, <1>4, Zenon
<1>6. RecordInv'
  <2>1. \A v \in Writers : Grouped(v)' => Grouped(v) /\ pc'[v] = pc[v] /\ call'[v] = call[v]
    BY <1>5, Zenon DEF Grouped
  <2> QED BY <1>0, <1>3, <2>1, RecordSame, Zenon DEF dbVars, disk
<1>7. flushing' \in [Writers -> SUBSET Nat]
  BY <1>1, <1>4, Zenon
<1>8. \A v \in Writers : /\ pc'[v] = "flush" => pc[v] = "flush" /\ flushing'[v] \subseteq flushing[v]
                         /\ flushing'[v] \subseteq flushing[v] \/ flushing'[v] \subseteq acked
  BY <1>1, <1>4, <1>5, Zenon
<1> QED BY <1>0, <1>2, <1>3, <1>6, <1>7, <1>8, UnchangedStore, CallersStep, Zenon DEF WInv

LEMMA WakeSafe ==
  ASSUME WInv, NEW w \in Writers, WakeDone(w) \/ WakeFront(w)
  PROVE  WInv'
<1>0. QueueInv /\ GroupInv /\ StoreTypeOK /\ StoreInv /\ RecordInv /\ ReportInv
  BY Zenon DEF WInv
<1>1. QueueInv' /\ GroupInv'
  BY <1>0, WakeDoneStep, WakeFrontStep, Zenon
<1>2. /\ pc[w] = "wait" /\ UNCHANGED <<wal, mode, dbVars, replay, disk>> /\ UNCHANGED <<acked, promised>>
      /\ UNCHANGED <<group, todo>>
      /\ call' = call \/ call' = [call EXCEPT ![w] = NoCall]
      /\ flushing' = flushing \/ flushing' = [flushing EXCEPT ![w] = {}]
      /\ pc' = [pc EXCEPT ![w] = "lead"] \/ pc' = [pc EXCEPT ![w] = "idle"]
  BY Zenon DEF WakeDone, WakeFront, Idle, history
<1>3. mode = "up"
  BY <1>0, <1>2, CallsMeanUp, Zenon
<1>4. /\ pc \in [Writers -> PCs] /\ call \in [Writers -> Calls] /\ flushing \in [Writers -> SUBSET Nat]
  BY <1>0, Zenon DEF QueueInv, ReportInv
<1>5. /\ pc'[w] \in {"lead", "idle"}
      /\ \A v \in Writers : v # w => pc'[v] = pc[v] /\ call'[v] = call[v]
  BY <1>2, <1>4, Zenon
<1>6. RecordInv'
  <2>1. \A v \in Writers : Grouped(v)' => Grouped(v) /\ pc'[v] = pc[v] /\ call'[v] = call[v]
    BY <1>5, Zenon DEF Grouped
  <2> QED BY <1>0, <1>2, <2>1, RecordSame, Zenon DEF dbVars, disk
<1>7. flushing' \in [Writers -> SUBSET Nat] /\ \A v \in Writers : flushing'[v] \subseteq flushing[v]
  BY <1>2, <1>4, Zenon
<1>8. \A v \in Writers : pc'[v] = "flush" => pc[v] = "flush"
  BY <1>5, Zenon
<1> QED BY <1>0, <1>1, <1>2, <1>3, <1>6, <1>7, <1>8, UnchangedStore, CallersStep, Zenon DEF WInv

\* The leader gives up before its group is built, or has nothing to sync.
LEMMA LeaveSafe ==
  ASSUME WInv, NEW w \in Writers, RoomError(w) \/ SwitchFails(w) \/ SyncNothing(w)
  PROVE  WInv'
<1>0. QueueInv /\ GroupInv /\ StoreTypeOK /\ StoreInv /\ RecordInv /\ ReportInv
  BY Zenon DEF WInv
<1>1. PICK ok \in BOOLEAN :
        /\ pc[w] = "lead" /\ Dequeue(w, w, ok, {}) /\ UNCHANGED <<wal, mode, dbVars, replay, disk>>
        /\ ok => call[w].kind = "sync"
  BY Zenon DEF RoomError, SwitchFails, SyncNothing, Finish, Leads
<1>2. mode = "up" /\ flushing \in [Writers -> SUBSET Nat]
  <2>1. pc[w] # "idle"
    BY <1>1, Zenon
  <2> QED BY <1>0, <2>1, CallsMeanUp, Zenon DEF ReportInv
<1>3. pc[w] \in Busy /\ 1 \in 1..Len(queue) /\ w = queue[1] /\ queue \in Seq(Writers)
  BY <1>0, <1>1 DEF QueueInv, Busy
<1>4. /\ QueueInv' /\ GroupInv'
      /\ \A v \in Writers : pc'[v] \notin Busy
      /\ \A v \in Writers : pc'[v] = "flush" => pc[v] = "flush" \/ (v = w /\ call[w].kind = "flush")
      /\ acked' = IF ok THEN acked \cup ({call[queue[k]].id : k \in 1..1} \ {0}) ELSE acked
      /\ promised' = IF ok THEN promised \cup {} ELSE promised
      /\ flushing' \in [Writers -> SUBSET Nat] /\ \A v \in Writers : flushing'[v] \subseteq flushing[v]
  <2>1. Dequeue(w, queue[1], ok, {})
    BY <1>1, <1>3, Zenon
  <2> QED BY <1>0, <1>2, <1>3, <2>1, DequeueStep, Zenon
<1>5. ok => call[w].id = 0
  BY <1>0, <1>1, Zenon DEF QueueInv
<1>6. acked' = acked /\ promised' = promised
  <2>1. \A k \in 1..1 : k = 1
    OBVIOUS
  <2>2. ok => {call[queue[k]].id : k \in 1..1} \ {0} = {}
    BY <1>3, <1>5, <2>1, Zenon
  <2> QED BY <1>4, <2>2, Zenon
<1>7. RecordInv'
  BY <1>4, Zenon DEF RecordInv, Grouped, Busy
<1>8. ASSUME NEW v \in Writers, pc'[v] = "flush"
      PROVE  pc[v] = "flush"
  <2>1. CASE ok
    BY <1>1, <1>4, <1>8, <2>1, Zenon
  <2>2. CASE ~ok
    <3>1. pc' = [pc EXCEPT ![w] = "idle"]
      BY <1>1, <2>2, Zenon DEF Dequeue, Idle
    <3> QED BY <1>0, <1>8, <3>1, Zenon DEF QueueInv
  <2> QED BY <2>1, <2>2, Zenon
<1> QED BY <1>0, <1>1, <1>2, <1>4, <1>6, <1>7, <1>8, UnchangedStore, CallersStep, Zenon DEF WInv

LEMMA SyncStartSafe ==
  ASSUME WInv, NEW w \in Writers, SyncStart(w)
  PROVE  WInv'
<1>0. QueueInv /\ GroupInv /\ StoreTypeOK /\ StoreInv /\ RecordInv /\ ReportInv
  BY Zenon DEF WInv
<1>1. /\ pc[w] = "lead" /\ call[w].kind = "sync" /\ pc' = [pc EXCEPT ![w] = "sync"]
      /\ UNCHANGED <<wal, mode, dbVars, replay, disk>> /\ UNCHANGED <<acked, promised>>
      /\ UNCHANGED <<call, queue, result, group, todo, flushing>>
  BY Zenon DEF SyncStart, Leads, history
<1>2. /\ QueueInv' /\ GroupInv' /\ pc'[w] = "sync" /\ \A v \in Writers : v # w => pc'[v] = pc[v]
  <2>1. pc[w] \in Busy /\ "sync" \in Busy
    BY <1>1, Zenon DEF Busy
  <2> QED BY <1>0, <1>1, <2>1, LeaderStep, Zenon
<1>3. mode = "up" /\ flushing \in [Writers -> SUBSET Nat]
  <2>1. pc[w] # "idle"
    BY <1>1, Zenon
  <2> QED BY <1>0, <2>1, CallsMeanUp, Zenon DEF ReportInv
<1>4. RecordInv'
  <2>1. \A v \in Writers : Grouped(v)' => Grouped(v) /\ pc'[v] = pc[v] /\ call'[v] = call[v]
    BY <1>1, <1>2, Zenon DEF Grouped
  <2> QED BY <1>0, <1>1, <2>1, RecordSame, Zenon DEF dbVars, disk
<1>5. \A v \in Writers : pc'[v] = "flush" => pc[v] = "flush"
  BY <1>2, Zenon
<1>6. flushing' \in [Writers -> SUBSET Nat] /\ \A v \in Writers : flushing'[v] \subseteq flushing[v]
  BY <1>1, <1>3, Zenon
<1> QED BY <1>0, <1>1, <1>2, <1>3, <1>4, <1>5, <1>6, UnchangedStore, CallersStep, Zenon DEF WInv

LEMMA GroupRecord ==
  ASSUME NEW g \in [ids : Seq(1..MaxUpdates), seq : Nat, last : Writers]
  PROVE  LET r == [ids |-> g.ids, seq |-> g.seq]
         IN  /\ r \in Record /\ EntrySeq(r) = EntrySeq(g) /\ EntriesOf(r) = EntriesOf(g)
             /\ LastOf(r) = LastOf(g) /\ r.ids = g.ids
<1> DEFINE r == [ids |-> g.ids, seq |-> g.seq]
<1>1. r \in Record /\ r.ids = g.ids /\ r.seq = g.seq
  BY Zenon DEF Record
<1> HIDE DEF r
<1>2. EntrySeq(r) = EntrySeq(g) /\ LastOf(r) = LastOf(g)
  BY <1>1, Zenon DEF EntrySeq, LastOf
<1> QED BY <1>1, <1>2, Zenon DEF r, EntriesOf

\* A group that was just built: all of it is still to do.
LEMMA BuildRecord ==
  ASSUME QueueInv, NEW w \in Writers, pc[w] = "lead", call[w].kind = "write", lastSeq \in Nat,
         wal \in BOOLEAN, wal' = wal, BuildBatchGroup(w)
  PROVE  /\ QueueInv' /\ GroupInv' /\ RecordInv' /\ UNCHANGED <<acked, promised, flushing>>
         /\ \A v \in Writers : pc'[v] = "flush" => pc[v] = "flush"
<1>1. /\ QueueInv' /\ GroupInv'
      /\ \A v \in Writers : Grouped(v)' => v = w
      /\ pc'[w] = (IF wal THEN "append" ELSE "insert")
      /\ \A v \in Writers : v # w => pc'[v] = pc[v]
  BY BuildStep, Zenon
<1>2. todo' = EntrySeq(group') /\ UNCHANGED <<acked, promised, flushing, call>>
  BY Zenon DEF BuildBatchGroup, history
<1>3. RecordInv'
  <2> SUFFICES ASSUME NEW v \in Writers, Grouped(v)'
               PROVE  /\ todo' \in Seq(EntriesOf(group')) /\ EntriesOf(group') \subseteq Range(todo')
                      /\ pc'[v] # "insert" => wal
                      /\ ~(wal /\ pc'[v] \in {"sync", "insert"})
    BY <1>2, Zenon DEF RecordInv
  <2>1. group' \in [ids : Seq(1..MaxUpdates), seq : Nat, last : Writers]
    BY <1>1, Zenon DEF GroupInv
  <2>2. todo' \in Seq(EntriesOf(group')) /\ EntriesOf(group') = Range(todo')
    <3> DEFINE r == [ids |-> group'.ids, seq |-> group'.seq]
    <3>1. r \in Record /\ EntrySeq(r) = EntrySeq(group') /\ EntriesOf(r) = EntriesOf(group')
      BY <2>1, GroupRecord, Zenon
    <3> HIDE DEF r
    <3>2. EntrySeq(r) \in Seq(EntriesOf(r)) /\ Range(EntrySeq(r)) = EntriesOf(r)
      BY <3>1, RecordEntries, Zenon
    <3> QED BY <1>2, <3>1, <3>2, Zenon
  <2>3. v = w /\ pc'[v] = (IF wal THEN "append" ELSE "insert")
    BY <1>1, Zenon
  <2> QED BY <2>2, <2>3, Zenon
<1>4. \A v \in Writers : pc'[v] = "flush" => pc[v] = "flush"
  BY <1>1, Zenon
<1> QED BY <1>1, <1>2, <1>3, <1>4, Zenon

LEMMA RoomReadySafe ==
  ASSUME WInv, NEW w \in Writers, RoomReady(w)
  PROVE  WInv'
<1>0. QueueInv /\ GroupInv /\ StoreTypeOK /\ StoreInv /\ RecordInv /\ ReportInv
  BY Zenon DEF WInv
<1>1. /\ pc[w] = "lead" /\ call[w].kind = "write" /\ BuildBatchGroup(w)
      /\ UNCHANGED <<wal, mode, dbVars, replay, disk>>
  BY Zenon DEF RoomReady
<1>2. lastSeq \in Nat /\ wal \in BOOLEAN /\ mode = "up" /\ flushing \in [Writers -> SUBSET Nat]
  <2>1. pc[w] # "idle"
    BY <1>1, Zenon
  <2> QED BY <1>0, <2>1, CallsMeanUp, Zenon DEF ReportInv, StoreTypeOK
<1>3. /\ QueueInv' /\ GroupInv' /\ RecordInv' /\ UNCHANGED <<acked, promised, flushing>>
      /\ \A v \in Writers : pc'[v] = "flush" => pc[v] = "flush"
  BY <1>0, <1>1, <1>2, BuildRecord, Zenon
<1>4. flushing' \in [Writers -> SUBSET Nat] /\ \A v \in Writers : flushing'[v] \subseteq flushing[v]
  BY <1>2, <1>3, Zenon
<1> QED BY <1>0, <1>1, <1>2, <1>3, <1>4, UnchangedStore, CallersStep, Zenon DEF WInv

LEMMA SwitchStore ==
  ASSUME StoreTypeOK, UpInv, mode = "up", imm = {}, NewLog, imm' = {mem}, mem' = {},
         UNCHANGED <<wal, mode, lastSeq, version, edit, dump, bgError, replay, manifest>>
  PROVE  /\ StoreTypeOK' /\ StoreInv' /\ View \subseteq View' /\ View \subseteq InTables'
         /\ Saved(manifest, logs) \subseteq Saved(manifest, logs)'
<1>0. /\ wal \in BOOLEAN /\ nextFile \in Nat /\ logNo \in Nat
      /\ DOMAIN logs \subseteq Nat /\ logs \in [DOMAIN logs -> Log] /\ (wal \/ DOMAIN logs = {})
      /\ manifest \in Edit /\ mem \subseteq Entry
  BY Zenon DEF StoreTypeOK
<1>1. Frozen' = mem /\ Frozen = {}
  BY Zenon DEF Frozen
<1>2. dump = "idle" /\ edit = None /\ version.log < nextFile /\ version.tables \subseteq manifest.tables
  BY Zenon DEF UpInv
<1>3. /\ nextFile' \in Nat /\ logNo' \in Nat /\ nextFile <= nextFile'
      /\ DOMAIN logs' \subseteq Nat /\ logs' \in [DOMAIN logs' -> Log] /\ (wal \/ DOMAIN logs' = {})
      /\ \A n \in DOMAIN logs : n \in DOMAIN logs' /\ Content(logs[n]) = Content(logs'[n])
                                /\ Kept(logs[n]) \subseteq Kept(logs'[n])
      /\ \A n \in DOMAIN logs' : n < nextFile'
      /\ wal => logNo' = nextFile /\ logNo' \in DOMAIN logs' /\ logNo' < nextFile'
  <2>1. CASE ~wal
    BY <1>0, <2>1 DEF NewLog, UpInv
  <2>2. CASE wal
    <3>1. PICK m \in {logs[logNo].synced, Len(logs[logNo].recs)} :
            logs' = [k \in DOMAIN logs \cup {nextFile} |->
                       IF k = nextFile THEN EmptyLog
                       ELSE IF k = logNo THEN [recs |-> logs[k].recs, synced |-> m]
                       ELSE logs[k]]
      BY <2>2, Zenon DEF NewLog
    <3>2. /\ logNo' = nextFile /\ nextFile' = nextFile + 1
          /\ logNo \in DOMAIN logs /\ \A n \in DOMAIN logs : n < nextFile
      BY <2>2, Zenon DEF NewLog, UpInv
    <3>3. DOMAIN logs' = DOMAIN logs \cup {nextFile}
      BY <3>1, Zenon
    <3>4. /\ [recs |-> logs[logNo].recs, synced |-> m] \in Log
          /\ Content([recs |-> logs[logNo].recs, synced |-> m]) = Content(logs[logNo])
          /\ Kept(logs[logNo]) \subseteq Kept([recs |-> logs[logNo].recs, synced |-> m])
      <4>1. logs[logNo] \in Log
        BY <1>0, <3>2, Zenon
      <4> QED BY <4>1, LogSynced, Zenon
    <3>5. \A n \in DOMAIN logs : n # nextFile
      BY <1>0, <3>2
    <3>6. ASSUME NEW n \in DOMAIN logs
          PROVE  /\ logs'[n] \in Log /\ Content(logs[n]) = Content(logs'[n])
                 /\ Kept(logs[n]) \subseteq Kept(logs'[n])
      <4>1. n # nextFile /\ n \in DOMAIN logs \cup {nextFile} /\ logs[n] \in Log
        BY <1>0, <3>5, Zenon
      <4>2. logs'[n] = IF n = logNo THEN [recs |-> logs[n].recs, synced |-> m] ELSE logs[n]
        BY <3>1, <4>1, Zenon
      <4> QED BY <3>4, <4>1, <4>2, Zenon
    <3>7. logs'[nextFile] \in Log
      BY <3>1, NoLog, Zenon
    <3>8. logs' \in [DOMAIN logs' -> Log]
      BY <3>1, <3>3, <3>6, <3>7, Zenon
    <3> QED BY <1>0, <2>2, <3>2, <3>3, <3>6, <3>8
  <2> QED BY <1>0, <2>1, <2>2, Zenon
<1>4. Found(manifest, logs) \subseteq Found(manifest, logs') /\ Saved(manifest, logs) \subseteq Saved(manifest, logs')
  BY <1>3, FoundGrows, Zenon
<1>5. StoreTypeOK'
  BY <1>0, <1>1, <1>3, Zenon DEF StoreTypeOK
<1>6. UpInv'
  <2>1. ASSUME wal
        PROVE  /\ logNo' \in DOMAIN logs' /\ manifest.log <= logNo' /\ logNo' < nextFile'
               /\ mem' \subseteq Content(logs'[logNo']) /\ Frozen' \subseteq Found(manifest, logs')
    <3>1. logNo \in DOMAIN logs /\ manifest.log <= logNo /\ logNo < nextFile /\ mem \subseteq Content(logs[logNo])
      BY <2>1, Zenon DEF UpInv
    <3>2. manifest.log \in Nat /\ logNo >= manifest.log
      BY <1>0, <3>1, Zenon DEF Edit
    <3>3. Content(logs[logNo]) \subseteq Found(manifest, logs)
      BY <3>1, <3>2, FoundBy, Zenon
    <3>4. manifest.log <= nextFile
      BY <1>0, <3>1, <3>2
    <3> QED BY <1>1, <1>3, <1>4, <2>1, <3>1, <3>3, <3>4, Zenon
  <2>2. version.log < nextFile'
    BY <1>0, <1>2, <1>3 DEF StoreTypeOK
  <2> QED BY <1>2, <1>3, <2>1, <2>2, Zenon DEF UpInv
<1>7. View \subseteq View' /\ View \subseteq InTables'
  BY <1>1, Zenon DEF View, InTables
<1> QED BY <1>4, <1>5, <1>6, <1>7, Zenon DEF StoreInv

LEMMA SwitchSafe ==
  ASSUME WInv, NEW w \in Writers, SwitchMemTable(w)
  PROVE  WInv'
<1>0. QueueInv /\ GroupInv /\ StoreTypeOK /\ StoreInv /\ RecordInv /\ ReportInv
  BY Zenon DEF WInv
<1>1. /\ pc[w] = "lead" /\ call[w].kind # "sync" /\ imm = {} /\ NewLog /\ imm' = {mem} /\ mem' = {}
      /\ IF call[w].kind = "flush" THEN Dequeue(w, w, TRUE, {}) ELSE BuildBatchGroup(w)
      /\ UNCHANGED <<wal, mode, lastSeq, version, edit, dump, bgError, replay, manifest>>
  BY Zenon DEF SwitchMemTable, SwitchWhen, Finish
<1>2. lastSeq \in Nat /\ wal \in BOOLEAN /\ mode = "up" /\ UpInv /\ flushing \in [Writers -> SUBSET Nat]
  <2>1. pc[w] # "idle"
    BY <1>1, Zenon
  <2> QED BY <1>0, <2>1, CallsMeanUp, Zenon DEF ReportInv, StoreTypeOK
<1>3. /\ StoreTypeOK' /\ StoreInv' /\ View \subseteq View' /\ View \subseteq InTables'
      /\ Saved(manifest, logs) \subseteq Saved(manifest, logs)' /\ mode' = "up"
  BY <1>0, <1>1, <1>2, SwitchStore, Zenon
<1>4. CASE call[w].kind = "flush"
  <2>1. /\ pc[w] \in Busy /\ 1 \in 1..Len(queue) /\ w = queue[1] /\ queue \in Seq(Writers)
        /\ call[w].id = 0
    BY <1>0, <1>1, <1>4 DEF QueueInv, Busy
  <2>2. /\ QueueInv' /\ GroupInv'
        /\ \A v \in Writers : pc'[v] \notin Busy
        /\ acked' = IF TRUE THEN acked \cup ({call[queue[k]].id : k \in 1..1} \ {0}) ELSE acked
        /\ promised' = IF TRUE THEN promised \cup {} ELSE promised
        /\ flushing' \in [Writers -> SUBSET Nat] /\ \A v \in Writers : flushing'[v] \subseteq flushing[v]
    <3>1. Dequeue(w, queue[1], TRUE, {})
      BY <1>1, <1>4, <2>1, Zenon
    <3> QED BY <1>0, <1>2, <2>1, <3>1, DequeueStep, Zenon
  <2>3. acked' = acked /\ promised' = promised
    BY <2>1, <2>2
  <2>4. RecordInv'
    BY <2>2, Zenon DEF RecordInv, Grouped, Busy
  <2>5. ReportInv'
    BY <1>0, <1>2, <1>3, <2>2, <2>3, ReportGrows, Zenon
  <2> QED BY <1>3, <2>2, <2>4, <2>5, Zenon DEF WInv
<1>5. CASE call[w].kind # "flush"
  <2>1. call[w].kind = "write" /\ BuildBatchGroup(w)
    BY <1>0, <1>1, <1>5 DEF QueueInv, Busy, Calls
  <2>2. /\ QueueInv' /\ GroupInv' /\ RecordInv' /\ UNCHANGED <<acked, promised, flushing>>
    BY <1>0, <1>1, <1>2, <2>1, BuildRecord, Zenon
  <2>3. flushing' \in [Writers -> SUBSET Nat] /\ \A v \in Writers : flushing'[v] \subseteq flushing[v]
    BY <1>2, <2>2, Zenon
  <2>4. ReportInv'
    BY <1>0, <1>2, <1>3, <2>2, <2>3, ReportGrows, Zenon
  <2> QED BY <1>3, <2>2, <2>4, Zenon DEF WInv
<1> QED BY <1>4, <1>5, Zenon

-----------------------------------------------------------------------------
(* The leader at work on the log and on the memtable.                      *)

\* The log in use gets longer, or more of it is on storage.
LEMMA LogStore ==
  ASSUME StoreTypeOK, UpInv, mode = "up", wal, NEW l \in Log, logs' = [logs EXCEPT ![logNo] = l],
         Content(logs[logNo]) \subseteq Content(l), Kept(logs[logNo]) \subseteq Kept(l), lastSeq' \in Nat,
         UNCHANGED <<wal, mode, mem, imm, nextFile, logNo, version, edit, dump, replay, manifest>>
  PROVE  /\ StoreTypeOK' /\ StoreInv' /\ View \subseteq View' /\ Safe \subseteq Safe'
         /\ InTables \subseteq InTables' /\ logs'[logNo] = l /\ l = logs'[logNo']
         /\ Saved(manifest, logs) \subseteq Saved(manifest, logs)'
         /\ Kept(l) \subseteq Saved(manifest, logs)' /\ Kept(l) \subseteq Safe'
<1>0. /\ DOMAIN logs \subseteq Nat /\ logs \in [DOMAIN logs -> Log] /\ manifest \in Edit /\ logNo \in Nat
  BY Zenon DEF StoreTypeOK
<1>1. /\ logNo \in DOMAIN logs /\ manifest.log <= logNo /\ mem \subseteq Content(logs[logNo])
      /\ Frozen \subseteq Found(manifest, logs)
  BY Zenon DEF UpInv
<1>2. /\ DOMAIN logs' = DOMAIN logs /\ logs'[logNo] = l
      /\ \A n \in DOMAIN logs : n # logNo => logs'[n] = logs[n]
  BY <1>0, <1>1, Zenon
<1>3. logs' \in [DOMAIN logs' -> Log]
  BY <1>0, <1>2, Zenon
<1>4. \A n \in DOMAIN logs : n >= manifest.log =>
        n \in DOMAIN logs' /\ Content(logs[n]) \subseteq Content(logs'[n]) /\ Kept(logs[n]) \subseteq Kept(logs'[n])
  <2>1. \A S : S \subseteq S
    BY Zenon
  <2> QED BY <1>2, <2>1, Zenon
<1>5. Found(manifest, logs) \subseteq Found(manifest, logs') /\ Saved(manifest, logs) \subseteq Saved(manifest, logs')
  BY <1>4, FoundGrows, Zenon
<1>6. StoreTypeOK'
  <2>1. Frozen' = Frozen /\ (wal \/ DOMAIN logs' = {}) /\ DOMAIN logs' \subseteq Nat
    BY <1>0, <1>2, Zenon DEF Frozen
  <2> QED BY <1>3, <2>1, Zenon DEF StoreTypeOK
<1>7. UpInv'
  <2>1. Frozen' = Frozen /\ Frozen \subseteq Found(manifest, logs') /\ mem \subseteq Content(l)
    BY <1>1, <1>5, Zenon DEF Frozen
  <2> QED BY <1>2, <2>1, Zenon DEF UpInv
<1>8. View' = View /\ InTables' = InTables
  BY Zenon DEF View, InTables, Frozen
<1>9. Safe \subseteq Safe' /\ Kept(l) \subseteq Safe'
  <2>1. Safe' = InTables \cup Kept(l) /\ Safe = InTables \cup Kept(logs[logNo])
    BY <1>2, <1>8, Zenon DEF Safe, InTables
  <2> QED BY <2>1, Zenon
<1>10. Kept(l) \subseteq Saved(manifest, logs')
  <2>1. logNo >= manifest.log
    BY <1>0, <1>1, Zenon DEF Edit
  <2> QED BY <1>1, <1>2, <2>1, FoundBy, Zenon
<1> QED BY <1>2, <1>5, <1>6, <1>7, <1>8, <1>9, <1>10, Zenon DEF StoreInv

\* A writer with a group: the group's record, and the only such writer.
LEMMA GroupLeader ==
  ASSUME QueueInv, GroupInv, NEW w \in Writers, Grouped(w)
  PROVE  /\ [ids |-> group.ids, seq |-> group.seq] \in Record
         /\ EntriesOf([ids |-> group.ids, seq |-> group.seq]) = EntriesOf(group)
         /\ EntriesOf(group) \subseteq Entry /\ LastOf(group) \in Nat
         /\ Len(group.ids) \in 1..Len(queue) /\ group.last = queue[Len(group.ids)] /\ pc[w] \in Busy
         /\ \A k \in 1..Len(group.ids) :
              /\ call[queue[k]].id \in 1..MaxUpdates /\ (call[queue[k]].sync => call[w].sync)
              /\ \E e \in EntriesOf(group) : e.id = call[queue[k]].id
<1>1. /\ group \in [ids : Seq(1..MaxUpdates), seq : Nat, last : Writers]
      /\ Len(group.ids) \in 1..Len(queue) /\ group.last = queue[Len(group.ids)]
      /\ \A k \in 1..Len(group.ids) : /\ group.ids[k] = call[queue[k]].id
                                      /\ call[queue[k]].sync => call[w].sync
  BY Zenon DEF GroupInv
<1> DEFINE r == [ids |-> group.ids, seq |-> group.seq]
<1>2. /\ r \in Record /\ EntriesOf(r) = EntriesOf(group) /\ r.ids = group.ids
  BY <1>1, GroupRecord, Zenon
<1>3. group.ids \in Seq(1..MaxUpdates) /\ group.seq \in Nat
  BY <1>1, Zenon
<1>4. \A k \in 1..Len(group.ids) : group.ids[k] \in 1..MaxUpdates
  <2>1. \A T : \A s \in Seq(T) : \A i \in 1..Len(s) : s[i] \in T
    OBVIOUS
  <2> QED BY <1>3, <2>1, Zenon
<1>5. LastOf(group) \in Nat
  <2>1. \A n \in 1..Len(queue), s \in Nat : s + 2 * n - 1 \in Nat
    OBVIOUS
  <2> QED BY <1>1, <1>3, <2>1, Zenon DEF LastOf
<1> HIDE DEF r
<1>6. /\ EntriesOf(r) \subseteq Entry
      /\ \A k \in 1..Len(r.ids) : \E e \in EntriesOf(r) : e.id = r.ids[k]
  BY <1>2, RecordEntries, Zenon
<1>7. pc[w] \in Busy
  BY Zenon DEF Grouped, Busy
<1>8. \A k \in 1..Len(group.ids) :
        /\ call[queue[k]].id \in 1..MaxUpdates /\ (call[queue[k]].sync => call[w].sync)
        /\ \E e \in EntriesOf(group) : e.id = call[queue[k]].id
  <2>1. ASSUME NEW k \in 1..Len(group.ids)
        PROVE  /\ call[queue[k]].id \in 1..MaxUpdates /\ (call[queue[k]].sync => call[w].sync)
               /\ \E e \in EntriesOf(group) : e.id = call[queue[k]].id
    <3>1. group.ids[k] = call[queue[k]].id /\ (call[queue[k]].sync => call[w].sync)
      BY <1>1, <2>1, Zenon
    <3>2. \E e \in EntriesOf(group) : e.id = group.ids[k]
      BY <1>2, <1>6, <2>1, Zenon
    <3> QED BY <1>4, <2>1, <3>1, <3>2, Zenon
  <2> QED BY <2>1, Zenon
<1>9. EntriesOf(group) \subseteq Entry
  BY <1>2, <1>6, Zenon
<1> QED BY <1>1, <1>2, <1>5, <1>7, <1>8, <1>9, Zenon DEF r

LEMMA OneLeader ==
  ASSUME QueueInv, NEW w \in Writers, pc[w] \in Busy, NEW v \in Writers, pc[v] \in Busy
  PROVE  v = w
BY DEF QueueInv

LEMMA AddRecordSafe ==
  ASSUME WInv, NEW w \in Writers, AddRecord(w), "behind" \notin ReplayFaults
  PROVE  WInv'
<1>0. QueueInv /\ GroupInv /\ StoreTypeOK /\ StoreInv /\ RecordInv /\ ReportInv
  BY Zenon DEF WInv
<1> DEFINE to == IF call[w].sync THEN "sync" ELSE "insert"
           rec == [ids |-> group.ids, seq |-> group.seq]
           l == [recs |-> Append(logs[logNo].recs, rec), synced |-> logs[logNo].synced]
<1>1. /\ pc[w] = "append" /\ logs' = [logs EXCEPT ![logNo] = l] /\ pc' = [pc EXCEPT ![w] = to]
      /\ UNCHANGED <<call, queue, result, group, todo, flushing>> /\ lastSeq' = lastSeq
      /\ UNCHANGED <<wal, mode, mem, imm, nextFile, logNo, version, edit, dump, replay, manifest>>
      /\ UNCHANGED <<acked, promised>>
  BY Zenon DEF AddRecord, LogRecord, Logged, LoggedBehind, Leads
<1>2. Grouped(w) /\ wal /\ pc[w] \in Busy
  BY <1>0, <1>1, Zenon DEF QueueInv, Grouped, RecordInv, Busy
<1>3. mode = "up" /\ UpInv /\ flushing \in [Writers -> SUBSET Nat] /\ lastSeq \in Nat
  <2>1. pc[w] # "idle"
    BY <1>1, Zenon
  <2> QED BY <1>0, <2>1, CallsMeanUp, Zenon DEF ReportInv, StoreTypeOK
<1>4. /\ QueueInv' /\ GroupInv' /\ pc'[w] = to /\ \A v \in Writers : v # w => pc'[v] = pc[v]
  <2>1. to \in Busy /\ call[w].kind = "write"
    BY <1>2, Zenon DEF Busy, Grouped
  <2> HIDE DEF to
  <2> QED BY <1>0, <1>1, <1>2, <2>1, LeaderStep, Zenon
<1>5. /\ l \in Log /\ Content(l) = Content(logs[logNo]) \cup EntriesOf(group) /\ Kept(l) = Kept(logs[logNo])
  <2>1. rec \in Record /\ EntriesOf(rec) = EntriesOf(group)
    BY <1>0, <1>2, GroupLeader, Zenon
  <2>2. logs[logNo] \in Log
    BY <1>0, <1>2, <1>3, Zenon DEF StoreTypeOK, UpInv
  <2> HIDE DEF rec
  <2> QED BY <2>1, <2>2, LogAppended, Zenon
<1> HIDE DEF l
<1>6. /\ StoreTypeOK' /\ StoreInv' /\ View \subseteq View' /\ Safe \subseteq Safe'
      /\ InTables \subseteq InTables' /\ l = logs'[logNo']
      /\ Saved(manifest, logs) \subseteq Saved(manifest, logs)'
  <2>1. Content(logs[logNo]) \subseteq Content(l) /\ Kept(logs[logNo]) \subseteq Kept(l) /\ lastSeq' \in Nat
    BY <1>1, <1>3, <1>5, Zenon
  <2> QED BY <1>0, <1>1, <1>2, <1>3, <1>5, <2>1, LogStore, Zenon
<1>7. RecordInv'
  <2> SUFFICES ASSUME NEW v \in Writers, Grouped(v)'
               PROVE  /\ todo \in Seq(EntriesOf(group)) /\ EntriesOf(group) \subseteq mem \cup Range(todo)
                      /\ EntriesOf(group) \subseteq Content(logs'[logNo'])
                      /\ ~(pc'[v] = "insert" /\ call[v].sync)
    BY <1>1, <1>2, Zenon DEF RecordInv
  <2>1. v = w
    <3>1. pc'[v] \in Busy
      BY Zenon DEF Grouped, Busy
    <3> QED BY <1>0, <1>2, <1>4, <3>1, OneLeader, Zenon
  <2>2. ~(pc'[v] = "insert" /\ call[v].sync)
    BY <1>4, <2>1, Zenon
  <2>3. EntriesOf(group) \subseteq Content(logs'[logNo'])
    BY <1>5, <1>6, Zenon
  <2> QED BY <1>0, <1>2, <2>2, <2>3, Zenon DEF RecordInv
<1>8. ReportInv'
  <2>1. \A v \in Writers : pc'[v] = "flush" => pc[v] = "flush"
    BY <1>4, Zenon
  <2>2. flushing' \in [Writers -> SUBSET Nat] /\ \A v \in Writers : flushing'[v] \subseteq flushing[v]
    BY <1>1, <1>3, Zenon
  <2>3. mode' = "up"
    BY <1>1, <1>3, Zenon
  <2> QED BY <1>0, <1>1, <1>3, <1>6, <2>1, <2>2, <2>3, ReportGrows, Zenon
<1> QED BY <1>4, <1>6, <1>7, <1>8, Zenon DEF WInv

\* The leader leaves with its group, or alone.
LEMMA GroupLeaves ==
  ASSUME QueueInv, GroupInv, NEW w \in Writers, Grouped(w), NEW ok \in BOOLEAN, NEW promise,
         Dequeue(w, group.last, ok, promise), flushing \in [Writers -> SUBSET Nat]
  PROVE  /\ QueueInv' /\ GroupInv' /\ RecordInv'
         /\ \A v \in Writers : pc'[v] = "flush" => pc[v] = "flush"
         /\ acked' = IF ok THEN acked \cup {call[queue[k]].id : k \in 1..Len(group.ids)} ELSE acked
         /\ promised' = IF ok THEN promised \cup promise ELSE promised
         /\ flushing' \in [Writers -> SUBSET Nat] /\ \A v \in Writers : flushing'[v] \subseteq flushing[v]
<1> DEFINE n == Len(group.ids)
<1>1. /\ n \in 1..Len(queue) /\ group.last = queue[n] /\ pc[w] \in Busy
      /\ \A k \in 1..n : call[queue[k]].id \in 1..MaxUpdates
  BY GroupLeader, Zenon
<1> HIDE DEF n
<1>2. /\ QueueInv' /\ GroupInv'
      /\ \A v \in Writers : pc'[v] \notin Busy
      /\ \A v \in Writers : pc'[v] = "flush" => pc[v] = "flush" \/ (v = w /\ call[w].kind = "flush")
      /\ acked' = IF ok THEN acked \cup ({call[queue[k]].id : k \in 1..n} \ {0}) ELSE acked
      /\ promised' = IF ok THEN promised \cup promise ELSE promised
      /\ flushing' \in [Writers -> SUBSET Nat] /\ \A v \in Writers : flushing'[v] \subseteq flushing[v]
  <2>1. Dequeue(w, queue[n], ok, promise)
    BY <1>1, Zenon
  <2> QED BY <1>1, <2>1, DequeueStep, Zenon
<1>3. {call[queue[k]].id : k \in 1..n} \ {0} = {call[queue[k]].id : k \in 1..n}
  <2>1. 0 \notin 1..MaxUpdates
    OBVIOUS
  <2> QED BY <1>1, <2>1, Zenon
<1>4. RecordInv'
  BY <1>2, Zenon DEF RecordInv, Grouped, Busy
<1>5. \A v \in Writers : pc'[v] = "flush" => pc[v] = "flush"
  BY <1>2, Zenon DEF Grouped
<1> QED BY <1>2, <1>3, <1>4, <1>5, Zenon DEF n

LEMMA SyncerLeaves ==
  ASSUME QueueInv, GroupInv, NEW w \in Writers, pc[w] \in Busy, call[w].kind = "sync", NEW ok \in BOOLEAN,
         NEW promise, Dequeue(w, w, ok, promise), flushing \in [Writers -> SUBSET Nat]
  PROVE  /\ QueueInv' /\ GroupInv' /\ RecordInv' /\ acked' = acked
         /\ \A v \in Writers : pc'[v] = "flush" => pc[v] = "flush"
         /\ promised' = IF ok THEN promised \cup promise ELSE promised
         /\ flushing' \in [Writers -> SUBSET Nat] /\ \A v \in Writers : flushing'[v] \subseteq flushing[v]
<1>1. 1 \in 1..Len(queue) /\ w = queue[1] /\ call[w].id = 0
  BY DEF QueueInv
<1>2. /\ QueueInv' /\ GroupInv'
      /\ \A v \in Writers : pc'[v] \notin Busy
      /\ \A v \in Writers : pc'[v] = "flush" => pc[v] = "flush" \/ (v = w /\ call[w].kind = "flush")
      /\ acked' = IF ok THEN acked \cup ({call[queue[k]].id : k \in 1..1} \ {0}) ELSE acked
      /\ promised' = IF ok THEN promised \cup promise ELSE promised
      /\ flushing' \in [Writers -> SUBSET Nat] /\ \A v \in Writers : flushing'[v] \subseteq flushing[v]
  <2>1. Dequeue(w, queue[1], ok, promise)
    BY <1>1, Zenon
  <2> QED BY <1>1, <2>1, DequeueStep, Zenon
<1>3. acked' = acked
  <2>1. \A k \in 1..1 : call[queue[k]].id = 0
    BY <1>1
  <2>2. {call[queue[k]].id : k \in 1..1} \ {0} = {}
    BY <2>1, Zenon
  <2> QED BY <1>2, <2>2, Zenon
<1>4. RecordInv'
  BY <1>2, Zenon DEF RecordInv, Grouped, Busy
<1>5. \A v \in Writers : pc'[v] = "flush" => pc[v] = "flush"
  BY <1>2, Zenon
<1> QED BY <1>2, <1>3, <1>4, <1>5, Zenon

LEMMA AddRecordFailsSafe ==
  ASSUME WInv, NEW w \in Writers, AddRecordFails(w)
  PROVE  WInv'
<1>0. QueueInv /\ GroupInv /\ StoreTypeOK /\ StoreInv /\ RecordInv /\ ReportInv
  BY Zenon DEF WInv
<1> DEFINE rec == [ids |-> group.ids, seq |-> group.seq]
           l == [recs |-> Append(logs[logNo].recs, rec), synced |-> logs[logNo].synced]
<1>1. /\ pc[w] = "append" /\ (logs' = [logs EXCEPT ![logNo] = l] \/ UNCHANGED logs)
      /\ Dequeue(w, group.last, FALSE, {}) /\ lastSeq' = LastOf(group)
      /\ UNCHANGED <<wal, mode, mem, imm, nextFile, logNo, version, edit, dump, replay, manifest>>
  BY Zenon DEF AddRecordFails, LogRecordFails, Logged, Leads, Finish
<1>2. Grouped(w) /\ wal /\ pc[w] \in Busy
  BY <1>0, <1>1, Zenon DEF QueueInv, Grouped, RecordInv, Busy
<1>3. mode = "up" /\ UpInv /\ flushing \in [Writers -> SUBSET Nat] /\ lastSeq' \in Nat /\ mode' = "up"
  <2>1. pc[w] # "idle"
    BY <1>1, Zenon
  <2>2. LastOf(group) \in Nat
    BY <1>0, <1>2, GroupLeader, Zenon
  <2> QED BY <1>0, <1>1, <2>1, <2>2, CallsMeanUp, Zenon DEF ReportInv
<1>4. /\ QueueInv' /\ GroupInv' /\ RecordInv' /\ acked' = acked /\ promised' = promised
      /\ \A v \in Writers : pc'[v] = "flush" => pc[v] = "flush"
      /\ flushing' \in [Writers -> SUBSET Nat] /\ \A v \in Writers : flushing'[v] \subseteq flushing[v]
  BY <1>0, <1>1, <1>2, <1>3, GroupLeaves, Zenon
<1>5. CASE UNCHANGED logs
  BY <1>0, <1>1, <1>3, <1>4, <1>5, CallersStep, Zenon DEF WInv
<1>6. CASE logs' = [logs EXCEPT ![logNo] = l]
  <2>1. /\ l \in Log /\ Content(l) = Content(logs[logNo]) \cup EntriesOf(group) /\ Kept(l) = Kept(logs[logNo])
    <3>1. rec \in Record /\ EntriesOf(rec) = EntriesOf(group)
      BY <1>0, <1>2, GroupLeader, Zenon
    <3>2. logs[logNo] \in Log
      BY <1>0, <1>2, <1>3, Zenon DEF StoreTypeOK, UpInv
    <3> HIDE DEF rec
    <3> QED BY <3>1, <3>2, LogAppended, Zenon
  <2> HIDE DEF l
  <2>2. Content(logs[logNo]) \subseteq Content(l) /\ Kept(logs[logNo]) \subseteq Kept(l)
    BY <2>1, Zenon
  <2>3. /\ StoreTypeOK' /\ StoreInv' /\ View \subseteq View' /\ Safe \subseteq Safe'
        /\ InTables \subseteq InTables' /\ Saved(manifest, logs) \subseteq Saved(manifest, logs)'
    BY <1>0, <1>1, <1>2, <1>3, <1>6, <2>1, <2>2, LogStore, Zenon
  <2> QED BY <1>0, <1>3, <1>4, <2>3, ReportGrows, Zenon DEF WInv
<1> QED BY <1>1, <1>5, <1>6, Zenon

\* The log of a writer that syncs is in use.
LEMMA SyncOkSafe ==
  ASSUME WInv, NEW w \in Writers, SyncOk(w), wal
  PROVE  WInv'
<1>0. QueueInv /\ GroupInv /\ StoreTypeOK /\ StoreInv /\ RecordInv /\ ReportInv
  BY Zenon DEF WInv
<1> DEFINE l == [recs |-> logs[logNo].recs, synced |-> Len(logs[logNo].recs)]
<1>1. /\ pc[w] = "sync" /\ logs' = [logs EXCEPT ![logNo] = l]
      /\ UNCHANGED <<wal, mode, mem, imm, nextFile, logNo, version, edit, dump, replay, manifest>>
      /\ lastSeq' = lastSeq
  BY Zenon DEF SyncOk, SyncLog, Leads, dbVars
<1>2. /\ mode = "up" /\ UpInv /\ flushing \in [Writers -> SUBSET Nat] /\ lastSeq' \in Nat /\ mode' = "up"
  <2>1. pc[w] # "idle"
    BY <1>1, Zenon
  <2> QED BY <1>0, <1>1, <2>1, CallsMeanUp, Zenon DEF ReportInv, StoreTypeOK
<1>3. /\ l \in Log /\ Content(l) = Content(logs[logNo]) /\ Kept(logs[logNo]) \subseteq Kept(l)
      /\ Kept(l) = Content(logs[logNo])
  <2>1. logs[logNo] \in Log
    BY <1>0, <1>2, Zenon DEF StoreTypeOK, UpInv
  <2> QED BY <2>1, LogSynced, Zenon
<1> HIDE DEF l
<1>4. /\ StoreTypeOK' /\ StoreInv' /\ View \subseteq View' /\ Safe \subseteq Safe'
      /\ InTables \subseteq InTables' /\ l = logs'[logNo'] /\ Saved(manifest, logs) \subseteq Saved(manifest, logs)'
      /\ Kept(l) \subseteq Saved(manifest, logs)' /\ Kept(l) \subseteq Safe'
  <2>1. Content(logs[logNo]) \subseteq Content(l)
    BY <1>3, Zenon
  <2> QED BY <1>0, <1>1, <1>2, <1>3, <2>1, LogStore, Zenon
<1>5. pc[w] \in Busy /\ "insert" \in Busy /\ call[w].kind \in {"write", "sync"}
  BY <1>0, <1>1, Zenon DEF Busy, QueueInv
<1>6. CASE call[w].kind = "sync"
  <2> DEFINE P == acked \cap Ids(Content(logs[logNo]))
  <2>1. Dequeue(w, w, TRUE, P)
    BY <1>6, Zenon DEF SyncOk, Finish, Content
  <2>2. P \subseteq acked /\ P \subseteq Ids(Kept(l))
    BY <1>3, Zenon
  <2> HIDE DEF P
  <2>3. /\ QueueInv' /\ GroupInv' /\ RecordInv' /\ acked' = acked
        /\ \A v \in Writers : pc'[v] = "flush" => pc[v] = "flush"
        /\ promised' = promised \cup P
        /\ flushing' \in [Writers -> SUBSET Nat] /\ \A v \in Writers : flushing'[v] \subseteq flushing[v]
    BY <1>0, <1>2, <1>5, <1>6, <2>1, SyncerLeaves, Zenon
  <2>4. P \subseteq Ids(Saved(manifest, logs)') /\ P \subseteq Ids(Safe') /\ P \subseteq acked'
    <3>1. Ids(Kept(l)) \subseteq Ids(Saved(manifest, logs)') /\ Ids(Kept(l)) \subseteq Ids(Safe')
      BY <1>4, IdsGrow, Zenon
    <3> QED BY <2>2, <2>3, <3>1, Zenon
  <2>5. ASSUME NEW A, A = {}
        PROVE  ReportInv'
    <3>1. acked' = acked \cup A /\ A \subseteq Nat /\ A \subseteq Ids(View')
      BY <2>3, <2>5, Zenon
    <3> QED BY <1>0, <1>2, <1>4, <2>3, <2>4, <3>1, ReportStep, Zenon
  <2> QED BY <1>4, <2>3, <2>5, Zenon DEF WInv
<1>7. CASE call[w].kind # "sync"
  <2>1. /\ pc' = [pc EXCEPT ![w] = "insert"] /\ UNCHANGED <<call, queue, result, group, todo, flushing>>
        /\ UNCHANGED <<acked, promised>> /\ call[w].kind = "write"
    BY <1>5, <1>7, Zenon DEF SyncOk, history
  <2>2. /\ QueueInv' /\ GroupInv' /\ pc'[w] = "insert" /\ \A v \in Writers : v # w => pc'[v] = pc[v]
    <3>1. pc[w] # "lead"
      BY <1>1, Zenon
    <3> QED BY <1>0, <1>5, <2>1, <3>1, LeaderStep, Zenon
  <2>3. /\ todo \in Seq(EntriesOf(group)) /\ EntriesOf(group) \subseteq mem \cup Range(todo)
        /\ EntriesOf(group) \subseteq Content(logs[logNo])
    BY <1>0, <1>1, <2>1, Zenon DEF RecordInv, Grouped
  <2>4. RecordInv'
    <3> SUFFICES ASSUME NEW v \in Writers, Grouped(v)'
                 PROVE  /\ todo \in Seq(EntriesOf(group)) /\ EntriesOf(group) \subseteq mem \cup Range(todo)
                        /\ EntriesOf(group) \subseteq Content(logs'[logNo'])
                        /\ EntriesOf(group) \subseteq Kept(logs'[logNo'])
      BY <1>1, <2>1, Zenon DEF RecordInv
    <3> QED BY <1>3, <1>4, <2>3, Zenon
  <2>5. ReportInv'
    <3>1. \A v \in Writers : pc'[v] = "flush" => pc[v] = "flush"
      BY <2>2, Zenon
    <3>2. flushing' \in [Writers -> SUBSET Nat] /\ \A v \in Writers : flushing'[v] \subseteq flushing[v]
      BY <1>2, <2>1, Zenon
    <3> QED BY <1>0, <1>2, <1>4, <2>1, <3>1, <3>2, ReportGrows, Zenon
  <2> QED BY <1>4, <2>2, <2>4, <2>5, Zenon DEF WInv
<1> QED BY <1>6, <1>7, Zenon

LEMMA SyncFailsSafe ==
  ASSUME WInv, NEW w \in Writers, SyncFails(w)
  PROVE  WInv'
<1>0. QueueInv /\ GroupInv /\ StoreTypeOK /\ StoreInv /\ RecordInv /\ ReportInv
  BY Zenon DEF WInv
<1>1. /\ pc[w] = "sync" /\ lastSeq' = (IF call[w].kind = "write" THEN LastOf(group) ELSE lastSeq)
      /\ Dequeue(w, IF call[w].kind = "write" THEN group.last ELSE w, FALSE, {})
      /\ UNCHANGED <<wal, mode, mem, imm, nextFile, logNo, version, edit, dump, replay, logs, manifest>>
  BY Zenon DEF SyncFails, Leads, Finish, disk
<1>2. /\ mode = "up" /\ flushing \in [Writers -> SUBSET Nat] /\ lastSeq \in Nat
  <2>1. pc[w] # "idle"
    BY <1>1, Zenon
  <2> QED BY <1>0, <2>1, CallsMeanUp, Zenon DEF ReportInv, StoreTypeOK
<1>3. pc[w] \in Busy /\ call[w].kind \in {"write", "sync"} /\ (call[w].kind = "write" => Grouped(w))
  BY <1>0, <1>1, Zenon DEF Busy, QueueInv, Grouped
<1>4. /\ QueueInv' /\ GroupInv' /\ RecordInv' /\ acked' = acked /\ promised' = promised /\ lastSeq' \in Nat
      /\ \A v \in Writers : pc'[v] = "flush" => pc[v] = "flush"
      /\ flushing' \in [Writers -> SUBSET Nat] /\ \A v \in Writers : flushing'[v] \subseteq flushing[v]
  <2>1. CASE call[w].kind = "write"
    <3>1. Dequeue(w, group.last, FALSE, {}) /\ Grouped(w) /\ lastSeq' = LastOf(group)
      BY <1>1, <1>3, <2>1, Zenon
    <3>2. LastOf(group) \in Nat
      BY <1>0, <3>1, GroupLeader, Zenon
    <3> QED BY <1>0, <1>2, <3>1, <3>2, GroupLeaves, Zenon
  <2>2. CASE call[w].kind # "write"
    <3>1. Dequeue(w, w, FALSE, {}) /\ call[w].kind = "sync" /\ lastSeq' = lastSeq
      BY <1>1, <1>3, <2>2, Zenon
    <3> QED BY <1>0, <1>2, <1>3, <3>1, SyncerLeaves, Zenon
  <2> QED BY <2>1, <2>2, Zenon
<1> QED BY <1>0, <1>1, <1>2, <1>4, CallersStep, Zenon DEF WInv

LEMMA HeadTail ==
  ASSUME NEW S, NEW s \in Seq(S), s # <<>>
  PROVE  /\ Head(s) \in S /\ Tail(s) \in Seq(S)
         /\ \A x : x \in Range(s) => x = Head(s) \/ x \in Range(Tail(s))
<1>1. Head(s) \in S /\ Tail(s) \in Seq(S) /\ Len(s) \in Nat /\ Len(Tail(s)) = Len(s) - 1
  OBVIOUS
<1>2. \A i \in 1..Len(s) : i = 1 \/ (i - 1 \in 1..Len(Tail(s)) /\ s[i] = Tail(s)[i - 1])
  OBVIOUS
<1>3. Head(s) = s[1] /\ DOMAIN s = 1..Len(s) /\ DOMAIN Tail(s) = 1..Len(Tail(s))
  BY <1>1
<1>4. ASSUME NEW x, x \in Range(s) PROVE x = Head(s) \/ x \in Range(Tail(s))
  <2>1. PICK i \in 1..Len(s) : x = s[i]
    BY <1>3, <1>4, Zenon DEF Range
  <2> QED BY <1>2, <1>3, <2>1, Zenon DEF Range
<1> QED BY <1>1, <1>4, Zenon

LEMMA InsertIntoSafe ==
  ASSUME WInv, NEW w \in Writers, InsertInto(w)
  PROVE  WInv'
<1>0. QueueInv /\ GroupInv /\ StoreTypeOK /\ StoreInv /\ RecordInv /\ ReportInv
  BY Zenon DEF WInv
<1> DEFINE e == Head(todo)
<1>1. /\ pc[w] = "insert" /\ todo # <<>> /\ mem' = mem \cup {e} /\ todo' = Tail(todo)
      /\ UNCHANGED <<pc, call, queue, result, group, flushing, acked, promised>>
      /\ UNCHANGED <<wal, mode, imm, lastSeq, nextFile, logNo, version, edit, dump, replay, logs, manifest>>
  BY Zenon DEF InsertInto, Leads, history, disk
<1>2. QueueInv' /\ GroupInv'
  <2>1. QueueInv'
    BY <1>0, <1>1, Zenon DEF QueueInv
  <2>2. GroupInv'
    BY <1>0, <1>1, Zenon DEF GroupInv, Grouped
  <2> QED BY <2>1, <2>2, Zenon
<1>3. mode = "up" /\ UpInv /\ flushing \in [Writers -> SUBSET Nat] /\ mode' = "up"
  <2>1. pc[w] # "idle"
    BY <1>1, Zenon
  <2> QED BY <1>0, <1>1, <2>1, CallsMeanUp, Zenon DEF ReportInv
<1>4. Grouped(w) /\ pc[w] \in Busy
  BY <1>0, <1>1, Zenon DEF QueueInv, Grouped, Busy
<1>5. /\ todo \in Seq(EntriesOf(group)) /\ EntriesOf(group) \subseteq mem \cup Range(todo)
      /\ wal => EntriesOf(group) \subseteq Content(logs[logNo])
  BY <1>0, <1>1, <1>4, Zenon DEF RecordInv
<1>6. /\ e \in EntriesOf(group) /\ todo' \in Seq(EntriesOf(group))
      /\ EntriesOf(group) \subseteq mem' \cup Range(todo')
  <2>1. /\ e \in EntriesOf(group) /\ Tail(todo) \in Seq(EntriesOf(group))
        /\ \A x : x \in Range(todo) => x = e \/ x \in Range(Tail(todo))
    BY <1>1, <1>5, HeadTail, Zenon
  <2> HIDE DEF e
  <2> QED BY <1>1, <1>5, <2>1, Zenon
<1> HIDE DEF e
<1>7. e \in Entry
  BY <1>0, <1>4, <1>6, GroupLeader, Zenon
<1>8. StoreTypeOK'
  <2>1. mem' \subseteq Entry /\ Frozen' = Frozen
    BY <1>0, <1>1, <1>7, Zenon DEF StoreTypeOK, Frozen
  <2> QED BY <1>0, <1>1, <2>1, Zenon DEF StoreTypeOK
<1>9. UpInv'
  <2>1. Frozen' = Frozen
    BY <1>1, Zenon DEF Frozen
  <2>2. wal => mem' \subseteq Content(logs[logNo])
    BY <1>1, <1>3, <1>5, <1>6, Zenon DEF UpInv
  <2> QED BY <1>1, <1>3, <2>1, <2>2, Zenon DEF UpInv
<1>10. RecordInv'
  <2> SUFFICES ASSUME NEW v \in Writers, Grouped(v)'
               PROVE  /\ todo' \in Seq(EntriesOf(group)) /\ EntriesOf(group) \subseteq mem' \cup Range(todo')
                      /\ Grouped(v)
    BY <1>0, <1>1, Zenon DEF RecordInv
  <2> QED BY <1>1, <1>6, Zenon DEF Grouped
<1>11. ReportInv'
  <2>1. /\ Saved(manifest, logs)' = Saved(manifest, logs) /\ InTables' = InTables /\ Safe' = Safe
    BY <1>1, Zenon DEF InTables, Safe, Frozen
  <2>2. View \subseteq View'
    BY <1>1, Zenon DEF View, Frozen
  <2>3. /\ Saved(manifest, logs) \subseteq Saved(manifest, logs)' /\ InTables \subseteq InTables'
        /\ Safe \subseteq Safe'
    BY <2>1, Zenon
  <2>4. /\ flushing' \in [Writers -> SUBSET Nat] /\ \A v \in Writers : flushing'[v] \subseteq flushing[v]
        /\ \A v \in Writers : pc'[v] = "flush" => pc[v] = "flush"
    BY <1>1, <1>3, Zenon
  <2> QED BY <1>0, <1>1, <1>3, <2>2, <2>3, <2>4, ReportGrows, Zenon
<1> QED BY <1>2, <1>3, <1>8, <1>9, <1>10, <1>11, Zenon DEF WInv, StoreInv

LEMMA WriteDoneSafe ==
  ASSUME WInv, NEW w \in Writers, WriteDone(w)
  PROVE  WInv'
<1>0. QueueInv /\ GroupInv /\ StoreTypeOK /\ StoreInv /\ RecordInv /\ ReportInv
  BY Zenon DEF WInv
<1> DEFINE P == IF wal THEN Synced(w) ELSE {}
           A == {call[queue[k]].id : k \in 1..Len(group.ids)}
<1>1. /\ pc[w] = "insert" /\ todo = <<>> /\ lastSeq' = LastOf(group) /\ Dequeue(w, group.last, TRUE, P)
      /\ UNCHANGED <<wal, mode, mem, imm, nextFile, logNo, version, edit, dump, replay, logs, manifest>>
  BY Zenon DEF WriteDone, Leads, Finish, disk
<1>2. Grouped(w) /\ pc[w] \in Busy
  BY <1>0, <1>1, Zenon DEF QueueInv, Grouped, Busy
<1>3. mode = "up" /\ UpInv /\ flushing \in [Writers -> SUBSET Nat] /\ mode' = "up"
  <2>1. pc[w] # "idle"
    BY <1>1, Zenon
  <2> QED BY <1>0, <1>1, <2>1, CallsMeanUp, Zenon DEF ReportInv
<1>4. /\ LastOf(group) \in Nat /\ Len(group.ids) \in 1..Len(queue) /\ group.last = queue[Len(group.ids)]
      /\ \A k \in 1..Len(group.ids) :
           /\ call[queue[k]].id \in 1..MaxUpdates /\ (call[queue[k]].sync => call[w].sync)
           /\ \E e \in EntriesOf(group) : e.id = call[queue[k]].id
  BY <1>0, <1>2, GroupLeader, Zenon
<1>5. /\ EntriesOf(group) \subseteq mem
      /\ wal /\ call[w].sync => EntriesOf(group) \subseteq Kept(logs[logNo])
  <2>1. Range(todo) = {}
    BY <1>1 DEF Range
  <2> QED BY <1>0, <1>1, <1>2, <2>1, Zenon DEF RecordInv
<1>6. A \subseteq Nat /\ A \subseteq Ids(View)
  <2>1. A \subseteq Nat
    BY <1>4
  <2>2. A \subseteq Ids(EntriesOf(group))
    BY <1>4, Zenon DEF Ids
  <2>3. EntriesOf(group) \subseteq View
    BY <1>5, Zenon DEF View
  <2> QED BY <2>1, <2>2, <2>3, IdsGrow, Zenon
<1>7. P \subseteq A /\ P \subseteq Ids(Saved(manifest, logs)) /\ P \subseteq Ids(Safe)
  <2>1. CASE ~wal
    BY <2>1, Zenon
  <2>2. CASE wal
    <3>1. Served(group.last) = {queue[k] : k \in 1..Len(group.ids)}
      BY <1>0, <1>4, PlaceOf, Zenon DEF Served
    <3>2. \A i \in P : \E k \in 1..Len(group.ids) : i = call[queue[k]].id /\ call[queue[k]].sync
      BY <2>2, <3>1, Zenon DEF Synced
    <3>3. P \subseteq A
      BY <3>2, Zenon
    <3> HIDE DEF P, A
    <3>4. P \subseteq Ids(Kept(logs[logNo]))
      <4>1. ASSUME NEW i \in P
            PROVE  \E e \in Kept(logs[logNo]) : i = e.id
        <5>1. PICK k \in 1..Len(group.ids) : i = call[queue[k]].id /\ call[queue[k]].sync
          BY <3>2, Zenon
        <5>2. call[w].sync /\ \E e \in EntriesOf(group) : e.id = i
          BY <1>4, <5>1, Zenon
        <5> QED BY <1>5, <2>2, <5>2, Zenon
      <4> QED BY <4>1, Zenon DEF Ids
    <3>5. Kept(logs[logNo]) \subseteq Safe
      BY <2>2, Zenon DEF Safe
    <3>6. Kept(logs[logNo]) \subseteq Saved(manifest, logs)
      <4>1. logNo \in DOMAIN logs /\ logNo >= manifest.log
        BY <1>0, <1>3, <2>2, Zenon DEF UpInv, StoreTypeOK, Edit
      <4> QED BY <4>1, FoundBy, Zenon
    <3>7. Ids(Kept(logs[logNo])) \subseteq Ids(Safe) /\ Ids(Kept(logs[logNo])) \subseteq Ids(Saved(manifest, logs))
      BY <3>5, <3>6, IdsGrow, Zenon
    <3> QED BY <3>3, <3>4, <3>7, Zenon
  <2> QED BY <2>1, <2>2, Zenon
<1> HIDE DEF P
<1>8. /\ QueueInv' /\ GroupInv' /\ RecordInv' /\ acked' = acked \cup A /\ promised' = promised \cup P
      /\ \A v \in Writers : pc'[v] = "flush" => pc[v] = "flush"
      /\ flushing' \in [Writers -> SUBSET Nat] /\ \A v \in Writers : flushing'[v] \subseteq flushing[v]
  BY <1>0, <1>1, <1>2, <1>3, GroupLeaves, Zenon
<1> HIDE DEF A
<1>9. StoreTypeOK' /\ StoreInv'
  BY <1>0, <1>1, <1>3, <1>4, StoreSame, Zenon
<1>10. /\ View' = View /\ Safe' = Safe /\ InTables' = InTables
       /\ Saved(manifest, logs)' = Saved(manifest, logs)
  BY <1>1, SameStore, Zenon
<1>11. /\ P \subseteq acked' /\ A \subseteq Ids(View') /\ P \subseteq Ids(Saved(manifest, logs)')
       /\ P \subseteq Ids(Safe') /\ View \subseteq View' /\ Safe \subseteq Safe' /\ InTables \subseteq InTables'
       /\ Saved(manifest, logs) \subseteq Saved(manifest, logs)'
  BY <1>6, <1>7, <1>8, <1>10, Zenon
<1>12. ReportInv'
  BY <1>0, <1>3, <1>6, <1>8, <1>11, ReportStep, Zenon
<1> QED BY <1>8, <1>9, <1>12, Zenon DEF WInv

LEMMA FlushDoneSafe ==
  ASSUME WInv, NEW w \in Writers, FlushDone(w)
  PROVE  WInv'
<1>0. QueueInv /\ GroupInv /\ StoreTypeOK /\ StoreInv /\ RecordInv /\ ReportInv
  BY Zenon DEF WInv
<1> DEFINE P == IF bgError THEN {} ELSE flushing[w]
<1>1. /\ pc[w] = "flush" /\ (imm = {} \/ bgError) /\ acked' = acked
      /\ promised' = IF bgError THEN promised ELSE promised \cup flushing[w]
      /\ pc' = [pc EXCEPT ![w] = "idle"] /\ call' = [call EXCEPT ![w] = NoCall]
      /\ flushing' = [flushing EXCEPT ![w] = {}] /\ UNCHANGED <<group, todo>>
      /\ UNCHANGED <<wal, mode, dbVars, replay, disk>>
  BY Zenon DEF FlushDone, Idle
<1>2. QueueInv' /\ GroupInv'
  BY <1>0, FlushDoneStep, Zenon
<1>3. /\ mode = "up" /\ UpInv /\ flushing \in [Writers -> SUBSET Nat] /\ mode' = "up" /\ lastSeq' \in Nat
      /\ UNCHANGED <<wal, mode, mem, imm, nextFile, logNo, version, edit, dump, replay, logs, manifest>>
  <2>1. pc[w] # "idle"
    BY <1>1, Zenon
  <2> QED BY <1>0, <1>1, <2>1, CallsMeanUp, UnchangedStore, Zenon DEF ReportInv
<1>4. StoreTypeOK' /\ StoreInv'
  BY <1>0, <1>3, StoreSame, Zenon
<1>5. pc \in [Writers -> PCs] /\ call \in [Writers -> Calls]
  BY <1>0, Zenon DEF QueueInv
<1>6. pc'[w] = "idle" /\ \A v \in Writers : v # w => pc'[v] = pc[v] /\ call'[v] = call[v]
  BY <1>1, <1>5, Zenon
<1>7. RecordInv'
  <2>1. \A v \in Writers : Grouped(v)' => Grouped(v) /\ pc'[v] = pc[v] /\ call'[v] = call[v]
    BY <1>6, Zenon DEF Grouped
  <2> QED BY <1>0, <1>1, <1>3, <2>1, RecordSame, Zenon
<1>8. /\ View' = View /\ Safe' = Safe /\ InTables' = InTables
      /\ Saved(manifest, logs)' = Saved(manifest, logs)
  BY <1>3, SameStore, Zenon
<1>9. promised' = promised \cup P /\ P \subseteq acked /\ P \subseteq Ids(Saved(manifest, logs)) /\ P \subseteq Ids(Safe)
  <2>1. CASE bgError
    BY <1>1, <2>1, Zenon
  <2>2. CASE ~bgError
    <3>1. P = flushing[w] /\ imm = {}
      BY <1>1, <2>2, Zenon
    <3>2. P \subseteq acked /\ P \subseteq Ids(version.tables \cup Frozen) /\ promised' = promised \cup P
      BY <1>0, <1>1, <1>3, <2>2, <3>1, Zenon DEF ReportInv
    <3>3. version.tables \cup Frozen \subseteq Safe
      BY Zenon DEF Safe
    <3>4. version.tables \cup Frozen \subseteq Saved(manifest, logs)
      <4>1. version.tables \cup Frozen \subseteq manifest.tables
        BY <1>3, <3>1, Zenon DEF UpInv, Frozen
      <4> QED BY <4>1, FoundBy, Zenon
    <3> HIDE DEF P
    <3>5. /\ Ids(version.tables \cup Frozen) \subseteq Ids(Safe)
          /\ Ids(version.tables \cup Frozen) \subseteq Ids(Saved(manifest, logs))
      BY <3>3, <3>4, IdsGrow, Zenon
    <3> QED BY <3>2, <3>5, Zenon
  <2> QED BY <2>1, <2>2, Zenon
<1> HIDE DEF P
<1>10. flushing' \in [Writers -> SUBSET Nat] /\ \A v \in Writers : flushing'[v] \subseteq flushing[v]
  BY <1>1, <1>3, Zenon
<1>11. \A v \in Writers : pc'[v] = "flush" => pc[v] = "flush"
  BY <1>6, Zenon
<1>12. ASSUME NEW A, A = {}
       PROVE  ReportInv'
  <2>1. /\ acked' = acked \cup A /\ A \subseteq Nat /\ A \subseteq Ids(View') /\ P \subseteq acked'
    BY <1>1, <1>9, <1>12, Zenon
  <2>2. /\ P \subseteq Ids(Saved(manifest, logs)') /\ P \subseteq Ids(Safe') /\ View \subseteq View'
        /\ Safe \subseteq Safe' /\ InTables \subseteq InTables'
        /\ Saved(manifest, logs) \subseteq Saved(manifest, logs)'
    BY <1>8, <1>9, Zenon
  <2> QED BY <1>0, <1>3, <1>9, <1>10, <1>11, <2>1, <2>2, ReportStep, ZenonT(30)
<1> QED BY <1>2, <1>4, <1>7, <1>12, Zenon DEF WInv
=============================================================================
