----------------------------- MODULE RpcProofs -----------------------------
(***************************************************************************)
(* Safety of the two RPC engines, for every number of callers, loops,      *)
(* threads, clients and requests.  Sockets: each call of a client is in    *)
(* one place, in the network, in a thread, in the pool or answered, and    *)
(* the pool's count and the socket outlive it.  Mercury: what a caller     *)
(* waits for is in one place, pending, completed, or in the hands of a     *)
(* loop.                                                                   *)
(***************************************************************************)
EXTENDS Rpc, TLAPS

-----------------------------------------------------------------------------
(* Mercury.                                                                *)

Kinds == {"addr", "reply"}
Op    == Kinds \X Callers \X Nat
Done  == Kinds \X Callers \X Nat \X Rets
Request == [at : {"idle", "lookup", "noaddr", "addr", "forwarded", "wait"},
            target : Targets \cup {Nothing}, done : BOOLEAN,
            ret : Rets \cup {"none"}, no : Nat]

HgTypeOK ==
  /\ loop \in [Loops -> {"none", "loop", "cb", "gone"}]
  /\ hasError \in BOOLEAN /\ stray \in BOOLEAN /\ made \in Nat
  /\ request \in [Callers -> Request]
  /\ ops \subseteq Op /\ ready \subseteq Done
  /\ saving \in [Loops -> Done \cup {Nothing}]
  /\ \A l \in Loops : loop[l] = "cb" => saving[l] \in Done
  /\ timers \subseteq Callers \X Nat

\* The call of an operation waits for it, and nothing has told it otherwise.
Live(op) == Waiting(op) /\ ~request[op[2]].done

\* Every operation is that of a waiting call, and no call has two.
OneEach ==
  /\ ~stray
  /\ \A op \in ops \cup ready : Live(op)
  /\ \A l \in Loops : loop[l] = "cb" => Live(saving[l])
  /\ \A p, q \in ops : p[2] = q[2] => p = q
  /\ \A p, q \in ready : p[2] = q[2] => p = q
  /\ \A p \in ops, q \in ready : p[2] # q[2]
  /\ \A l \in Loops : loop[l] = "cb" =>
       /\ \A op \in ops \cup ready : op[2] # saving[l][2]
       /\ \A k \in Loops \ {l} : loop[k] = "cb" => saving[k][2] # saving[l][2]

\* A call that is about to be forwarded has not been told that it is done.
Unsent == \A c \in Callers : request[c].at = "addr" => ~request[c].done

TimersLive == \A tm \in timers : request[tm[1]].no = tm[2] /\ request[tm[1]].at = "wait"

HgInv == HgTypeOK /\ TimersLive /\ Unsent /\ (~hasError => OneEach)

LEMMA HgInitially == HgInit => HgInv
<1> SUFFICES ASSUME HgInit PROVE HgInv
  BY Zenon
<1>1. NoRequest \in Request
  BY Zenon DEF NoRequest, Request, Rets
<1>2. request \in [Callers -> Request]
  BY <1>1, Zenon DEF HgInit
<1>3. HgTypeOK
  BY <1>2, Zenon DEF HgInit, HgTypeOK
<1>4. TimersLive /\ Unsent /\ OneEach
  BY Zenon DEF HgInit, NoRequest, TimersLive, Unsent, OneEach
<1> QED BY <1>3, <1>4, Zenon DEF HgInv

LEMMA HgStep == HgInv /\ [HgNext]_hgVars => HgInv'
<1> SUFFICES ASSUME HgInv, [HgNext]_hgVars PROVE HgInv'
  BY Zenon
<1> USE MercuryAssumption
<1>0. /\ HgTypeOK /\ TimersLive /\ Unsent
      /\ \A c \in Callers : /\ request[c] \in Request
                            /\ request[c].ret \in Rets \cup {"none"}
  BY Zenon DEF HgInv, HgTypeOK, Request
<1>1. ASSUME NEW c \in Callers, NEW t \in Targets, Lookup(c, t) PROVE HgInv'
  <2> USE <1>0, <1>1 DEF Lookup
  <2>1. /\ RPCState("addr", t, "none") \in Request
        /\ RPCState("lookup", t, "none") \in Request
        /\ RPCState("idle", t, "error") \in Request
    BY DEF HgTypeOK, RPCState, Request, Rets
  <2>2. request' \in [Callers -> Request]
    BY <2>1, Zenon DEF HgTypeOK
  <2>3. ops' \subseteq Op
    BY DEF HgTypeOK, Op, Kinds
  <2>4. HgTypeOK'
    BY <2>2, <2>3 DEF HgTypeOK
  <2>5. \A d \in Callers : d # c => request'[d] = request[d]
    BY Zenon DEF HgTypeOK
  <2>6. TimersLive'
    BY <2>5 DEF HgTypeOK, TimersLive
  <2>7. ASSUME ~hasError' PROVE OneEach'
    <3>1. OneEach
      BY <2>7, Zenon DEF HgInv
    <3>2. /\ \A op \in ops \cup ready : op[2] # c
          /\ \A l \in Loops : loop[l] = "cb" => saving[l][2] # c
      BY <3>1, Zenon DEF OneEach, Live, Waiting
    <3>3. \A op \in ops \cup ready : Live(op)' /\ op[2] \in Callers
      BY <2>5, <3>1, <3>2 DEF HgTypeOK, OneEach, Live, Waiting, Op, Done
    <3>4. \A l \in Loops : loop[l] = "cb" => Live(saving[l])'
      BY <2>5, <3>1, <3>2 DEF HgTypeOK, OneEach, Live, Waiting, Done
    <3>5. CASE ops' = ops
      BY <3>1, <3>3, <3>4, <3>5 DEF OneEach
    <3>6. CASE /\ ops' = ops \cup {<<"addr", c, made + 1>>}
               /\ request' = [request EXCEPT ![c] = RPCState("lookup", t, "none")]
      <4>1. \A op : op = <<"addr", c, made + 1>> => Live(op)'
        <5>1. request'[c] = RPCState("lookup", t, "none")
          BY <3>6, Zenon DEF HgTypeOK
        <5>2. /\ request'[c].no = made + 1 /\ request'[c].at = "lookup"
              /\ request'[c].done = FALSE
          BY <5>1 DEF RPCState
        <5> QED BY <5>2 DEF Live, Waiting
      <4>2. /\ \A p, q \in ops' : p[2] = q[2] => p = q
            /\ \A p \in ops', q \in ready : p[2] # q[2]
        BY <3>1, <3>2, <3>6 DEF OneEach
      <4>3. \A op \in ops' \cup ready' : Live(op)'
        BY <3>3, <3>6, <4>1, Zenon
      <4>4. \A l \in Loops : loop[l] = "cb" => \A op \in ops' \cup ready : op[2] # saving[l][2]
        BY <3>1, <3>2, <3>6 DEF OneEach
      <4> QED
        BY <3>1, <3>4, <4>2, <4>3, <4>4, Zenon DEF OneEach
    <3> QED BY <3>5, <3>6, Zenon
  <2>u. Unsent'
    BY <2>5 DEF HgTypeOK, Unsent, RPCState
  <2> QED BY <2>u, <2>4, <2>6, <2>7, Zenon DEF HgInv
<1>2. ASSUME NEW c \in Callers, LookupEnds(c) PROVE HgInv'
  <2> USE <1>0, <1>2 DEF LookupEnds, Set
  <2>0. PICK r \in Request :
          /\ request' = [request EXCEPT ![c] = r]
          /\ r.no = request[c].no
          /\ r.at = "addr" => ~r.done
    <3> DEFINE refused == [request[c] EXCEPT !.at = "noaddr"]
               found   == [request[c] EXCEPT !.at = "addr", !.done = FALSE, !.ret = "none"]
               failed  == [request[c] EXCEPT !.at = "idle"]
    <3>1. refused \in Request /\ found \in Request /\ failed \in Request
      BY Zenon DEF Request
    <3>2. /\ refused.no = request[c].no /\ refused.at = "noaddr"
          /\ found.no = request[c].no /\ found.at = "addr" /\ ~found.done
          /\ failed.no = request[c].no /\ failed.at = "idle"
      BY Zenon DEF Request
    <3>3. \/ request' = [request EXCEPT ![c] = refused]
          \/ request' = [request EXCEPT ![c] = found]
          \/ request' = [request EXCEPT ![c] = failed]
      BY Zenon
    <3> HIDE DEF refused, found, failed
    <3> QED BY <3>1, <3>2, <3>3, Zenon
  <2>1. HgTypeOK'
    BY <2>0, Zenon DEF HgTypeOK
  <2>2. TimersLive'
    BY <2>0, Zenon DEF HgTypeOK, TimersLive
  <2>3. ~hasError' => OneEach'
    BY <2>0 DEF HgInv, HgTypeOK, OneEach, Live, Waiting, Op, Done, Kinds
  <2>4. Unsent'
    BY <2>0, Zenon DEF HgTypeOK, Unsent
  <2> QED BY <2>1, <2>2, <2>3, <2>4, Zenon DEF HgInv
<1>3. ASSUME NEW c \in Callers, Forward(c) PROVE HgInv'
  <2> USE <1>0, <1>3 DEF Forward, Set
  <2>0. PICK r \in Request :
          /\ request' = [request EXCEPT ![c] = r]
          /\ r.no = request[c].no /\ r.done = request[c].done
          /\ (r.at = "idle" /\ ops' = ops) \/ r.at = "forwarded"
    <3>1. /\ [request[c] EXCEPT !.at = "forwarded"] \in Request
          /\ [request[c] EXCEPT !.at = "idle", !.ret = "error"] \in Request
      BY Zenon DEF Request, Rets
    <3> QED BY <3>1, Zenon DEF HgTypeOK, Request
  <2>1. request' \in [Callers -> Request]
    BY <2>0, Zenon DEF HgTypeOK
  <2>2. ops' \subseteq Op
    BY DEF HgTypeOK, Op, Kinds, Request
  <2>3. HgTypeOK'
    BY <2>1, <2>2, Zenon DEF HgTypeOK
  <2>4. /\ \A d \in Callers : d # c => request'[d] = request[d]
        /\ request'[c].no = request[c].no
        /\ request'[c].done = request[c].done
    BY <2>0, Zenon DEF HgTypeOK
  <2>5. TimersLive'
    BY <2>4 DEF HgTypeOK, TimersLive
  <2>6. ASSUME ~hasError' PROVE OneEach'
    <3>1. OneEach
      BY <2>6, Zenon DEF HgInv
    <3>2. /\ \A op \in ops \cup ready : op[2] # c
          /\ \A l \in Loops : loop[l] = "cb" => saving[l][2] # c
      BY <3>1, Zenon DEF OneEach, Live, Waiting
    <3>3. \A op \in ops \cup ready : Live(op)' /\ op[2] \in Callers
      BY <2>4, <3>1, <3>2 DEF HgTypeOK, OneEach, Live, Waiting, Op, Done
    <3>4. \A l \in Loops : loop[l] = "cb" => Live(saving[l])'
      BY <2>4, <3>1, <3>2 DEF HgTypeOK, OneEach, Live, Waiting, Done
    <3>5. CASE ops' = ops
      BY <3>1, <3>3, <3>4, <3>5 DEF OneEach
    <3>6. CASE r.at = "forwarded" /\ ops' = ops \cup {<<"reply", c, request[c].no>>}
      <4>1. request'[c] = r
        BY <2>0, Zenon DEF HgTypeOK
      <4>2. \A op : op = <<"reply", c, request[c].no>> => Live(op)'
        BY <2>0, <2>4, <3>6, <4>1 DEF Live, Waiting, Unsent
      <4>3. /\ \A p, q \in ops' : p[2] = q[2] => p = q
            /\ \A p \in ops', q \in ready : p[2] # q[2]
        BY <3>1, <3>2, <3>6 DEF OneEach
      <4>4. \A op \in ops' \cup ready' : Live(op)'
        BY <3>3, <3>6, <4>2, Zenon
      <4>5. \A l \in Loops : loop[l] = "cb" => \A op \in ops' \cup ready : op[2] # saving[l][2]
        BY <3>1, <3>2, <3>6 DEF OneEach
      <4> QED
        BY <3>1, <3>4, <4>3, <4>4, <4>5 DEF OneEach
    <3> QED BY <2>0, <3>5, <3>6, Zenon
  <2>7. Unsent'
    BY <2>0, Zenon DEF HgTypeOK, Unsent
  <2> QED BY <2>3, <2>5, <2>6, <2>7, Zenon DEF HgInv
<1>4. ASSUME NEW c \in Callers, AddTimerFor(c) PROVE HgInv'
  <2> USE <1>0, <1>4 DEF AddTimerFor, Set
  <2>1. HgTypeOK'
    BY DEF HgTypeOK, Request
  <2>2. TimersLive'
    BY DEF HgTypeOK, TimersLive, Request
  <2>3. ~hasError' => OneEach'
    BY DEF HgInv, HgTypeOK, OneEach, Live, Waiting, Op, Done, Request, Kinds
  <2>u. Unsent'
    BY DEF HgTypeOK, Unsent, Request
  <2> QED BY <2>u, <2>1, <2>2, <2>3, Zenon DEF HgInv
<1>5. ASSUME NEW c \in Callers, CallEnds(c) PROVE HgInv'
  <2> USE <1>0, <1>5 DEF CallEnds
  <2>0. PICK r \in Request :
          request' = [request EXCEPT ![c] = r] /\ r.no = request[c].no /\ r.at = "idle"
    <3> DEFINE r == [request[c] EXCEPT !.at = "idle", !.ret = IF hasError THEN "error" ELSE request[c].ret]
    <3>1. r \in Request /\ r.no = request[c].no /\ r.at = "idle"
      BY Zenon DEF Request, Rets
    <3>2. request' = [request EXCEPT ![c] = r]
      BY Zenon
    <3> HIDE DEF r
    <3> QED BY <3>1, <3>2, Zenon
  <2>1. HgTypeOK'
    BY <2>0 DEF HgTypeOK
  <2>2. TimersLive'
    BY <2>0 DEF HgTypeOK, TimersLive
  <2>3. ~hasError' => OneEach'
    BY <2>0 DEF HgInv, HgTypeOK, OneEach, Live, Waiting, Op, Done, Kinds
  <2>4. Unsent'
    BY <2>0, Zenon DEF HgTypeOK, Unsent
  <2> QED BY <2>1, <2>2, <2>3, <2>4, Zenon DEF HgInv
<1>6. CASE Start \/ Stop
  BY <1>6 DEF Start, Stop, HgInv, HgTypeOK, TimersLive, Unsent, OneEach, Live, Waiting
<1>7. ASSUME NEW l \in Loops, LoopFails(l) \/ LoopStops(l) PROVE HgInv'
  <2> USE <1>0, <1>7 DEF LoopFails, LoopStops
  <2>1. HgTypeOK'
    BY Zenon DEF HgTypeOK
  <2>2. TimersLive'
    BY Zenon DEF TimersLive
  <2>3. \A k \in Loops : loop'[k] = "cb" => loop[k] = "cb"
    BY Zenon DEF HgTypeOK
  <2>4. ~hasError' => OneEach'
    BY <2>3 DEF HgInv, OneEach, Live, Waiting
  <2>u. Unsent'
    BY Zenon DEF Unsent
  <2> QED BY <2>u, <2>1, <2>2, <2>4, Zenon DEF HgInv
<1>8. CASE Progress
  <2> USE <1>8 DEF Progress, Completed, HgInv
  <2>1. HgTypeOK'
    BY DEF HgTypeOK, Op, Done, Kinds, Rets
  <2>2. TimersLive'
    BY Zenon DEF TimersLive
  <2>3. ~hasError' => OneEach'
    BY DEF HgTypeOK, OneEach, Live, Waiting, Op, Done, Kinds, Rets
  <2>u. Unsent'
    BY Zenon DEF Unsent
  <2> QED BY <2>u, <2>1, <2>2, <2>3, Zenon
<1>9. CASE CheckTimers
  <2> USE <1>0
  <2>1. PICK over \in SUBSET ops :
          /\ timers' \subseteq timers
          /\ ops' = ops \ over
          /\ ready' = ready \cup {Completed(op, "error") : op \in over}
          /\ UNCHANGED <<loop, hasError, request, saving, stray, made>>
    BY <1>9, Zenon DEF CheckTimers
  <2>2. \A op \in over : /\ Completed(op, "error") \in Done
                         /\ Completed(op, "error")[2] = op[2]
                         /\ Completed(op, "error")[3] = op[3]
                         /\ Completed(op, "error")[1] = op[1]
    BY <2>1 DEF HgTypeOK, Op, Done, Rets, Completed
  <2>3. HgTypeOK'
    BY <2>1, <2>2 DEF HgTypeOK
  <2>4. TimersLive'
    BY <2>1, Zenon DEF TimersLive
  <2>5. ASSUME ~hasError' PROVE OneEach'
    <3>1. OneEach
      BY <2>1, <2>5, Zenon DEF HgInv
    <3>2. \A op \in ops \cup ready : Live(op)'
      BY <2>1, <3>1, Zenon DEF OneEach, Live, Waiting
    <3>3. \A op \in ready' : op \in ready \/ \E p \in over : op = Completed(p, "error")
      BY <2>1, Zenon
    <3>4. \A op \in ready' : Live(op)'
      BY <2>1, <2>2, <3>2, <3>3 DEF Live, Waiting
    <3>5. \A l \in Loops : loop'[l] = "cb" => Live(saving[l])'
      BY <2>1, <3>1, Zenon DEF OneEach, Live, Waiting
    <3>6. /\ \A p, q \in ops' : p[2] = q[2] => p = q
          /\ \A p, q \in ready' : p[2] = q[2] => p = q
          /\ \A p \in ops', q \in ready' : p[2] # q[2]
      BY <2>1, <2>2, <3>1, <3>3 DEF OneEach
    <3>7. \A l \in Loops : loop'[l] = "cb" =>
            /\ \A op \in ops' \cup ready' : op[2] # saving'[l][2]
            /\ \A k \in Loops \ {l} : loop'[k] = "cb" => saving'[k][2] # saving'[l][2]
      BY <2>1, <2>2, <3>1, <3>3 DEF OneEach
    <3> QED BY <2>1, <3>1, <3>2, <3>4, <3>5, <3>6, <3>7, Zenon DEF OneEach
  <2>u. Unsent'
    BY <2>1, Zenon DEF Unsent
  <2> QED BY <2>u, <2>3, <2>4, <2>5, Zenon DEF HgInv
<1>10. ASSUME NEW l \in Loops, NEW op \in ready, Trigger(l, op) PROVE HgInv'
  <2> USE <1>0, <1>10 DEF Trigger
  <2>0. op \in Done /\ op[2] \in Callers /\ op[4] \in Rets
    BY Zenon DEF HgTypeOK, Done
  <2>1. request' \in [Callers -> Request]
    <3>1. [request[op[2]] EXCEPT !.ret = op[4]] \in Request
      BY <2>0, Zenon DEF Request
    <3> QED BY <2>0, <3>1, Zenon DEF HgTypeOK
  <2>2. HgTypeOK'
    BY <2>0, <2>1, Zenon DEF HgTypeOK
  <2>3. TimersLive'
    BY <2>0 DEF HgTypeOK, TimersLive, Request
  <2>4. ~hasError' => OneEach'
    BY <2>0 DEF HgInv, HgTypeOK, OneEach, Live, Waiting, Op, Done, Kinds, Rets, Request
  <2>u. Unsent'
    BY <2>0 DEF HgTypeOK, Unsent, Request
  <2> QED BY <2>u, <2>2, <2>3, <2>4, Zenon DEF HgInv
<1>11. ASSUME NEW l \in Loops, SaveReply(l) PROVE HgInv'
  <2> USE <1>0, <1>11 DEF SaveReply
  <2>0. saving[l] \in Done /\ saving[l][2] \in Callers
    BY Zenon DEF HgTypeOK, Done
  <2>1. request' \in [Callers -> Request]
    <3>1. [request[saving[l][2]] EXCEPT !.done = TRUE] \in Request
      BY <2>0, Zenon DEF Request
    <3> QED BY <2>0, <3>1, Zenon DEF HgTypeOK
  <2>2. HgTypeOK'
    BY <2>0, <2>1, Zenon DEF HgTypeOK
  <2>3. TimersLive'
    BY <2>0 DEF HgTypeOK, TimersLive, Request
  <2>4. ~hasError' => OneEach'
    BY <2>0 DEF HgInv, HgTypeOK, OneEach, Live, Waiting, Op, Done, Kinds, Rets, Request
  <2>u. Unsent'
    BY <2>0 DEF HgTypeOK, Unsent, Request, Waiting
  <2> QED BY <2>u, <2>2, <2>3, <2>4, Zenon DEF HgInv
<1>12. CASE UNCHANGED hgVars
  BY <1>12 DEF hgVars, HgInv, HgTypeOK, TimersLive, Unsent, OneEach, Live, Waiting
<1> QED
  BY <1>1, <1>2, <1>3, <1>4, <1>5, <1>6, <1>7, <1>8, <1>9, <1>10, <1>11, <1>12, Zenon DEF HgNext

\* While no loop has failed, SaveAddr and SaveReply write only to the state of a call that
\* waits for them, and CheckTimers cancels only requests whose call has not returned: with
\* any number of callers and loops, and however often requests time out.
THEOREM CallbacksAlwaysInTime == HgSpec => []CallbacksInTime
<1>1. HgInv => CallbacksInTime
  BY Zenon DEF HgInv, OneEach, TimersLive, CallbacksInTime
<1> QED
  BY <1>1, HgInitially, HgStep, PTL DEF HgSpec

-----------------------------------------------------------------------------
(* The socket server, its pool and its clients.                            *)

\* What the counts rest on of FiniteSetTheorems: an assumption of the lemmas that count, which
\* Counts proves at the end of the module, where the library's theorems come in.
Counting ==
  /\ IsFiniteSet({}) /\ Cardinality({}) = 0 /\ \A S : IsFiniteSet(S) => (Cardinality(S) = 0 <=> S = {})
  /\ \A S : IsFiniteSet(S) => Cardinality(S) \in Nat
  /\ \A S, T : IsFiniteSet(S) /\ T \subseteq S =>
       /\ IsFiniteSet(T) /\ Cardinality(T) <= Cardinality(S)
       /\ Cardinality(S) = Cardinality(T) => S = T
  /\ \A S, x : IsFiniteSet(S) =>
       /\ IsFiniteSet(S \cup {x})
       /\ Cardinality(S \cup {x}) = IF x \in S THEN Cardinality(S) ELSE Cardinality(S) + 1
  /\ \A S, x : IsFiniteSet(S) =>
       /\ IsFiniteSet(S \ {x})
       /\ Cardinality(S \ {x}) = IF x \in S THEN Cardinality(S) - 1 ELSE Cardinality(S)

LEMMA NoneCounted ==
  ASSUME Counting
  PROVE  IsFiniteSet({}) /\ Cardinality({}) = 0 /\ \A S : IsFiniteSet(S) => (Cardinality(S) = 0 <=> S = {})
BY Zenon DEF Counting

LEMMA CountTyped ==
  ASSUME Counting, NEW S, IsFiniteSet(S)
  PROVE  Cardinality(S) \in Nat
BY Zenon DEF Counting

LEMMA PartCounted ==
  ASSUME Counting, NEW S, IsFiniteSet(S), NEW T \in SUBSET S
  PROVE  IsFiniteSet(T) /\ Cardinality(T) <= Cardinality(S) /\ (Cardinality(S) = Cardinality(T) => S = T)
BY Zenon DEF Counting

LEMMA OneAdded ==
  ASSUME Counting, NEW S, NEW x, IsFiniteSet(S)
  PROVE  /\ IsFiniteSet(S \cup {x})
         /\ Cardinality(S \cup {x}) = IF x \in S THEN Cardinality(S) ELSE Cardinality(S) + 1
BY Zenon DEF Counting

LEMMA OneRemoved ==
  ASSUME Counting, NEW S, NEW x, IsFiniteSet(S)
  PROVE  /\ IsFiniteSet(S \ {x})
         /\ Cardinality(S \ {x}) = IF x \in S THEN Cardinality(S) - 1 ELSE Cardinality(S)
BY Zenon DEF Counting

Msg    == Clients \X Nat
Active == {"loop", "read", "call", "leaving"}
Busy   == {"run", "ran"}
OwnerStates == {"closed", "bound", "starting", "running", "stopping", "stopped",
                "draining", "poolStop", "poolWait", "gone"}
ThreadStates == {"none", "new", "gone"} \cup Active
WorkerStates == {"none", "awake", "asleep"} \cup Busy
Jobs   == Msg \cup {NoJob}
Thread == [at : ThreadStates, job : Jobs, err : BOOLEAN]
Worker == [at : WorkerStates, job : Jobs]
Client == [n : Nat, at : {"idle", "send", "wait"}]

RpcTypeOK ==
  /\ transport \in Modes /\ owner \in OwnerStates
  /\ thr \in [Threads[transport] -> Thread]
  /\ bgThreads \in Nat /\ count \in Nat
  /\ fdOpen \in BOOLEAN /\ poolShut \in BOOLEAN
  /\ taskQueue \in Seq(Msg) /\ wrk \in [Workers -> Worker]
  /\ net \subseteq Msg /\ inbox \in [Clients -> SUBSET Msg]
  /\ cli \in [Clients -> Client] /\ DOMAIN got = Clients
  /\ late \subseteq Clients

Looping == {t \in Threads[transport] : thr[t].at \in Active}
Working == {w \in Workers : wrk[w].at \in Busy}

\* The owner's progress, the threads in BGLoop and the calls of the pool.
ServerInv ==
  /\ bgThreads = Cardinality(Looping)
  /\ owner \in {"closed", "bound"} => \A t \in Threads[transport] : thr[t].at = "none"
  /\ owner \in {"running", "stopping"} => \A t \in Threads[transport] : thr[t].at # "new"
  /\ owner \notin {"closed", "bound", "starting", "running", "stopping"} =>
       \A t \in Threads[transport] : thr[t].at \in {"none", "gone"}
  /\ fdOpen <=> owner \notin {"closed", "poolStop", "poolWait", "gone"}
  /\ count = Len(taskQueue) + Cardinality(Working)
  /\ owner \in {"closed", "bound", "poolStop", "poolWait", "gone"} => count = 0
  /\ poolShut => owner \in {"poolWait", "gone"}

\* Who has a job, in which mode of the server.
JobInv ==
  /\ \A t \in Threads[transport] : (thr[t].at \in {"read", "call"}) <=> (thr[t].job # NoJob)
  /\ \A w \in Workers : (wrk[w].at = "run") <=> (wrk[w].job # NoJob)
  /\ transport # "pool" => taskQueue = <<>> /\ \A w \in Workers : wrk[w].job = NoJob
  /\ transport = "pool" => \A t \in Threads[transport] : thr[t].job = NoJob

OwnerStep == OpenAndBind \/ BGStart \/ BGStarted \/ BGStop \/ BGStopped \/ Destroy
             \/ Drained \/ PoolStop \/ PoolStopped

\* The updates the actions make to the state of a thread or of a pool thread.
LEMMA ThreadUpdates ==
  ASSUME NEW r \in Thread, NEW at \in ThreadStates
  PROVE  /\ [r EXCEPT !.at = at] \in Thread
         /\ \A job \in Jobs : [r EXCEPT !.at = at, !.job = job] \in Thread
         /\ \A err \in BOOLEAN : [r EXCEPT !.at = at, !.err = err] \in Thread
BY Zenon DEF Thread

LEMMA WorkerUpdates ==
  ASSUME NEW r \in Worker, NEW at \in WorkerStates
  PROVE  /\ [r EXCEPT !.at = at] \in Worker
         /\ \A job \in Jobs : [at |-> at, job |-> job] \in Worker
BY Zenon DEF Worker

LEMMA ClientUpdates ==
  ASSUME NEW r \in Client
  PROVE  /\ \A at \in {"idle", "send", "wait"} : [r EXCEPT !.at = at] \in Client
         /\ \A at \in {"idle", "send", "wait"} : [n |-> r.n + 1, at |-> at] \in Client
         /\ [r EXCEPT !.n = r.n + 1] \in Client
BY DEF Client

LEMMA RpcTypesInitially == RpcInit => RpcTypeOK
<1> SUFFICES ASSUME RpcInit PROVE RpcTypeOK
  BY Zenon
<1> USE DEF RpcInit
<1>1. thr \in [Threads[transport] -> Thread]
  BY Zenon DEF Thread, ThreadStates, Jobs
<1>2. wrk \in [Workers -> Worker]
  BY Zenon DEF Worker, WorkerStates, Jobs
<1>3. cli \in [Clients -> Client]
  BY Zenon DEF Client
<1>4. taskQueue \in Seq(Msg) /\ inbox \in [Clients -> SUBSET Msg]
  OBVIOUS
<1>5. owner \in OwnerStates /\ bgThreads \in Nat /\ count \in Nat
  BY Zenon DEF OwnerStates
<1> QED BY <1>1, <1>2, <1>3, <1>4, <1>5, Zenon DEF RpcTypeOK

LEMMA RpcTypesStep ==
  ASSUME Counting
  PROVE  RpcTypeOK /\ ServerInv /\ JobInv /\ [RpcNext]_rpcVars => RpcTypeOK'
<1> SUFFICES ASSUME RpcTypeOK, ServerInv, JobInv, [RpcNext]_rpcVars PROVE RpcTypeOK'
  BY Zenon
<1> USE RpcAssumption
<1>a. /\ {"new", "loop", "leaving", "gone", "call", "read"} \subseteq ThreadStates
      /\ {"none", "awake", "asleep", "run", "ran"} \subseteq WorkerStates
  BY Zenon DEF ThreadStates, WorkerStates, Active, Busy
<1>b. Msg \subseteq Jobs /\ NoJob \in Jobs
  BY Zenon DEF Jobs
<1>c. \A w \in Workers : [wrk[w] EXCEPT !.at = "awake"] \in Worker /\ wrk[w] \in Worker
  BY <1>a, WorkerUpdates, Zenon DEF RpcTypeOK
<1>1. CASE BGStart
  <2>1. \A t \in Threads[transport] : [thr[t] EXCEPT !.at = "new"] \in Thread
    BY <1>a, ThreadUpdates, Zenon DEF RpcTypeOK
  <2> QED BY <1>1, <2>1, Zenon DEF BGStart, RpcTypeOK, OwnerStates, pool, wire, stub
<1>2. CASE PoolStop
  <2>1. wrk' \in [Workers -> Worker]
    BY <1>2, <1>c, Zenon DEF PoolStop
  <2> QED BY <1>2, <2>1, Zenon DEF PoolStop, RpcTypeOK, OwnerStates, wire, stub
<1>3. CASE OpenAndBind \/ BGStarted \/ BGStop \/ BGStopped \/ Destroy \/ Drained \/ PoolStopped
  BY <1>3, Zenon DEF OpenAndBind, BGStarted, BGStop, BGStopped, Destroy, Drained, PoolStopped,
              RpcTypeOK, OwnerStates, pool, wire, stub
<1>4. ASSUME NEW t \in Threads[transport], BGCallBegin(t) PROVE RpcTypeOK'
  <2>1. [thr[t] EXCEPT !.at = "loop"] \in Thread
    BY <1>a, ThreadUpdates, Zenon DEF RpcTypeOK
  <2> QED BY <1>4, <2>1 DEF BGCallBegin, At, RpcTypeOK, pool, wire, stub
<1>5. ASSUME NEW t \in Threads[transport], BGLoopEnds(t) PROVE RpcTypeOK'
  <2>1. \A err \in BOOLEAN : [thr[t] EXCEPT !.at = "leaving", !.err = err] \in Thread
    BY <1>a, ThreadUpdates, Zenon DEF RpcTypeOK
  <2> QED BY <1>5, <2>1, Zenon DEF BGLoopEnds, RpcTypeOK, pool, wire, stub
<1>6. ASSUME NEW t \in Threads[transport], BGCallEnd(t) PROVE RpcTypeOK'
  <2>1. [thr[t] EXCEPT !.at = "gone"] \in Thread
    BY <1>a, ThreadUpdates, Zenon DEF RpcTypeOK
  <2>2. t \in Looping
    BY <1>6, Zenon DEF BGCallEnd, Looping, Active
  <2>3. IsFiniteSet(Looping) /\ Looping # {}
    BY <2>2, PartCounted, Zenon DEF Looping, RpcTypeOK
  <2>4. bgThreads \in Nat /\ bgThreads # 0
    BY <2>3, CountTyped, NoneCounted, Zenon DEF ServerInv
  <2>5. bgThreads' \in Nat
    BY <1>6, <2>4 DEF BGCallEnd
  <2> QED BY <1>6, <2>1, <2>5, Zenon DEF BGCallEnd, At, RpcTypeOK, pool, wire, stub
<1>7. ASSUME NEW t \in Threads[transport], NEW m \in net, RecvRequest(t, m) PROVE RpcTypeOK'
  <2>1. m \in Msg
    BY Zenon DEF RpcTypeOK
  <2>2. [thr[t] EXCEPT !.at = "call", !.job = m] \in Thread
    BY <2>1, <1>a, <1>b, ThreadUpdates, Zenon DEF RpcTypeOK
  <2>3. thr' \in [Threads[transport] -> Thread]
    BY <1>7, <2>2, Zenon DEF RecvRequest, RpcTypeOK
  <2>4. wrk' \in [Workers -> Worker]
    BY <1>7, <1>c, Zenon DEF RecvRequest, Schedule, RpcTypeOK
  <2>5. taskQueue' \in Seq(Msg)
    <3>1. taskQueue \in Seq(Msg) /\ Append(taskQueue, m) \in Seq(Msg)
      BY <2>1 DEF RpcTypeOK
    <3> QED BY <1>7, <3>1, Zenon DEF RecvRequest, Schedule
  <2> QED BY <1>7, <2>3, <2>4, <2>5 DEF RecvRequest, RpcTypeOK, stub
<1>8. ASSUME NEW t \in Threads[transport], ProcessCallHere(t) PROVE RpcTypeOK'
  <2>1. [thr[t] EXCEPT !.at = "loop", !.job = NoJob] \in Thread
    BY <1>a, <1>b, ThreadUpdates, Zenon DEF RpcTypeOK
  <2>2. inbox' \in [Clients -> SUBSET Msg]
    <3>1. thr[t].job \in Msg \/ thr[t].job = NoJob
      BY Zenon DEF RpcTypeOK, Thread, Jobs
    <3> QED BY <1>8, <3>1 DEF ProcessCallHere, Replies, RpcTypeOK, JobInv
  <2> QED BY <1>8, <2>1, <2>2, Zenon DEF ProcessCallHere, Replies, RpcTypeOK, pool, stub
<1>9. ASSUME NEW t \in Threads[transport], TcpRead(t) PROVE RpcTypeOK'
  <2>1. /\ [thr[t] EXCEPT !.at = "loop", !.job = NoJob] \in Thread
        /\ [thr[t] EXCEPT !.at = "call"] \in Thread
    BY <1>a, <1>b, ThreadUpdates, Zenon DEF RpcTypeOK
  <2>2. thr' \in [Threads[transport] -> Thread]
    BY <1>9, <2>1 DEF TcpRead, At, RpcTypeOK
  <2> QED BY <1>9, <2>2, Zenon DEF TcpRead, RpcTypeOK, pool, stub
<1>10. ASSUME NEW t \in Threads[transport], TcpReply(t) PROVE RpcTypeOK'
  <2>1. [thr[t] EXCEPT !.at = "loop", !.job = NoJob] \in Thread
    BY <1>a, <1>b, ThreadUpdates, Zenon DEF RpcTypeOK
  <2>2. thr' \in [Threads[transport] -> Thread]
    BY <1>10, <2>1, Zenon DEF TcpReply, RpcTypeOK
  <2> QED BY <1>10, <2>2, Zenon DEF TcpReply, RpcTypeOK, pool, stub
<1>11. ASSUME NEW t \in Threads[transport], NEW m \in Calls, TcpAccept(t, m) PROVE RpcTypeOK'
  <2>1. m \in Msg
    BY DEF Calls, Msg
  <2>2. [thr[t] EXCEPT !.at = "read", !.job = m] \in Thread
    BY <2>1, <1>a, <1>b, ThreadUpdates, Zenon DEF RpcTypeOK
  <2>3. thr' \in [Threads[transport] -> Thread]
    BY <1>11, <2>2, Zenon DEF TcpAccept, RpcTypeOK
  <2> QED BY <1>11, <2>3, Zenon DEF TcpAccept, RpcTypeOK, pool, stub
<1>12. ASSUME NEW w \in Workers, BGThread(w) PROVE RpcTypeOK'
  <2>1. taskQueue # <<>> => Head(taskQueue) \in Msg /\ Tail(taskQueue) \in Seq(Msg)
    BY DEF RpcTypeOK
  <2>2. /\ [wrk[w] EXCEPT !.at = "none"] \in Worker
        /\ [wrk[w] EXCEPT !.at = "asleep"] \in Worker
        /\ taskQueue # <<>> => [at |-> "run", job |-> Head(taskQueue)] \in Worker
    BY <2>1, <1>a, <1>b, WorkerUpdates, Zenon DEF RpcTypeOK
  <2>3. wrk' \in [Workers -> Worker] /\ taskQueue' \in Seq(Msg)
    BY <1>12, <2>1, <2>2, Zenon DEF BGThread, RpcTypeOK
  <2> QED BY <1>12, <2>3, Zenon DEF BGThread, RpcTypeOK, srv, wire, stub
<1>13. ASSUME NEW w \in Workers, ProcessCall(w) PROVE RpcTypeOK'
  <2>1. [at |-> "ran", job |-> NoJob] \in Worker
    BY <1>a, <1>b, WorkerUpdates, Zenon DEF RpcTypeOK
  <2>2. inbox' \in [Clients -> SUBSET Msg]
    <3>1. wrk[w].job \in Msg \/ wrk[w].job = NoJob
      BY Zenon DEF RpcTypeOK, Worker, Jobs
    <3> QED BY <1>13, <3>1 DEF ProcessCall, Replies, RpcTypeOK, JobInv
  <2> QED BY <1>13, <2>1, <2>2, Zenon DEF ProcessCall, Replies, RpcTypeOK, srv, stub
<1>14. ASSUME NEW w \in Workers, ProcessCallEnd(w) PROVE RpcTypeOK'
  <2>1. w \in Working
    BY <1>14, Zenon DEF ProcessCallEnd, Working, Busy
  <2>2. IsFiniteSet(Working) /\ Working # {}
    BY <2>1, PartCounted, Zenon DEF Working
  <2>3. Cardinality(Working) \in Nat /\ Cardinality(Working) # 0
    BY <2>2, CountTyped, NoneCounted, Zenon
  <2>4. Len(taskQueue) \in Nat
    BY DEF RpcTypeOK
  <2>5. count' \in Nat
    BY <1>14, <2>3, <2>4 DEF ProcessCallEnd, ServerInv
  <2> QED BY <1>14, <1>c, <2>5, Zenon DEF ProcessCallEnd, RpcTypeOK, wire, stub
<1>15. CASE Pause
  BY <1>15, Zenon DEF Pause, RpcTypeOK, srv, wire, stub
<1>16. CASE Resume
  <2>1. wrk' \in [Workers -> Worker]
    BY <1>16, <1>c, Zenon DEF Resume
  <2> QED BY <1>16, <2>1, Zenon DEF Resume, RpcTypeOK, srv, wire, stub
<1>17. CASE Duplicate
  <2>1. PICK t \in Threads[transport] :
          /\ thr[t].job # NoJob
          /\ net' = net \cup {thr[t].job} /\ late' = late \cup {thr[t].job[1]}
    BY <1>17, Zenon DEF Duplicate
  <2>2. thr[t].job \in Msg
    BY <2>1, Zenon DEF RpcTypeOK, Thread, Jobs
  <2>3. thr[t].job[1] \in Clients
    BY <2>2, Zenon DEF Msg
  <2>4. net' \subseteq Msg /\ late' \subseteq Clients
    BY <2>1, <2>2, <2>3, Zenon DEF RpcTypeOK
  <2> QED BY <1>17, <2>4, Zenon DEF Duplicate, RpcTypeOK, srv, pool
<1>18. ASSUME NEW c \in Clients, UdpCall(c) PROVE RpcTypeOK'
  <2>1. [n |-> cli[c].n + 1, at |-> "wait"] \in Client
    BY ClientUpdates, Zenon DEF RpcTypeOK
  <2>2. <<c, cli[c].n + 1>> \in Msg
    BY DEF RpcTypeOK, Client, Msg
  <2> QED BY <1>18, <2>1, <2>2, Zenon DEF UdpCall, RpcTypeOK, srv, pool
<1>19. ASSUME NEW c \in Clients, UdpRecv(c) PROVE RpcTypeOK'
  <2>1. [cli[c] EXCEPT !.at = "idle"] \in Client
    BY ClientUpdates, Zenon DEF RpcTypeOK
  <2> QED BY <1>19, <2>1 DEF UdpRecv, RpcTypeOK, srv, pool
<1>20. ASSUME NEW c \in Clients, UdpTimeout(c) \/ TcpTimeout(c) PROVE RpcTypeOK'
  <2>1. [cli[c] EXCEPT !.at = "idle"] \in Client
    BY ClientUpdates, Zenon DEF RpcTypeOK
  <2>2. /\ cli' = [cli EXCEPT ![c] = [cli[c] EXCEPT !.at = "idle"]] /\ late' \subseteq Clients
        /\ got' = [got EXCEPT ![c] = Failed] /\ UNCHANGED <<transport, srv, pool>>
        /\ net' \subseteq net /\ UNCHANGED inbox
    BY <1>20, Zenon DEF UdpTimeout, TcpTimeout, RpcTypeOK, wire
  <2> QED BY <2>1, <2>2, Zenon DEF RpcTypeOK, srv, pool
<1>21. ASSUME NEW c \in Clients, TcpConnect(c) PROVE RpcTypeOK'
  <2>1. [n |-> cli[c].n + 1, at |-> "send"] \in Client /\ [cli[c] EXCEPT !.n = cli[c].n + 1] \in Client
    BY ClientUpdates, Zenon DEF RpcTypeOK
  <2> QED BY <1>21, <2>1 DEF TcpConnect, RpcTypeOK, srv, pool
<1>22. ASSUME NEW c \in Clients, TcpSend(c) PROVE RpcTypeOK'
  <2>1. [cli[c] EXCEPT !.at = "wait"] \in Client /\ [cli[c] EXCEPT !.at = "idle"] \in Client
    BY ClientUpdates, Zenon DEF RpcTypeOK
  <2>2. cli' \in [Clients -> Client] /\ DOMAIN got' = Clients
    <3>1. \/ cli' = [cli EXCEPT ![c] = [cli[c] EXCEPT !.at = "wait"]] /\ got' = got
          \/ cli' = [cli EXCEPT ![c] = [cli[c] EXCEPT !.at = "idle"]] /\ got' = [got EXCEPT ![c] = Failed]
      BY <1>22, Zenon DEF TcpSend
    <3> QED BY <2>1, <3>1, Zenon DEF RpcTypeOK
  <2> QED BY <1>22, <2>2, Zenon DEF TcpSend, RpcTypeOK, srv, pool
<1>23. ASSUME NEW c \in Clients, TcpRecv(c) PROVE RpcTypeOK'
  <2>1. [cli[c] EXCEPT !.at = "idle"] \in Client
    BY ClientUpdates, Zenon DEF RpcTypeOK
  <2> QED BY <1>23, <2>1, Zenon DEF TcpRecv, RpcTypeOK, srv, pool, wire
<1>24. CASE UNCHANGED rpcVars
  BY <1>24, Zenon DEF RpcTypeOK, rpcVars, srv, pool, wire, stub
<1> QED
  BY <1>1, <1>2, <1>3, <1>4, <1>5, <1>6, <1>7, <1>8, <1>9, <1>10, <1>11, <1>12, <1>13, <1>14,
     <1>15, <1>16, <1>17, <1>18, <1>19, <1>20, <1>21, <1>22, <1>23, <1>24, Zenon DEF RpcNext

\* A thread or a pool thread enters or leaves the ones that count.
LEMMA OneMore ==
  ASSUME Counting, NEW S, NEW T, NEW x, IsFiniteSet(S), x \notin S, T = S \cup {x}
  PROVE  IsFiniteSet(T) /\ Cardinality(T) = Cardinality(S) + 1 /\ Cardinality(S) \in Nat
BY OneAdded, CountTyped, Zenon

LEMMA OneLess ==
  ASSUME Counting, NEW S, NEW T, NEW x, IsFiniteSet(S), x \in S, T = S \ {x}
  PROVE  IsFiniteSet(T) /\ Cardinality(T) = Cardinality(S) - 1 /\ Cardinality(S) \in Nat
BY OneRemoved, CountTyped, Zenon

LEMMA ServerInitially ==
  ASSUME Counting
  PROVE  RpcInit => ServerInv
<1> SUFFICES ASSUME RpcInit PROVE ServerInv
  BY Zenon
<1>1. Looping = {} /\ Working = {}
  BY Zenon DEF RpcInit, Looping, Working, Active, Busy
<1>2. Len(taskQueue) = 0
  BY Zenon DEF RpcInit
<1>3. bgThreads = 0 /\ count = 0
  BY Zenon DEF RpcInit
<1>4. bgThreads = Cardinality(Looping) /\ count = Len(taskQueue) + Cardinality(Working)
  BY <1>1, <1>2, <1>3, NoneCounted
<1> QED BY <1>4, Zenon DEF RpcInit, ServerInv

LEMMA ServerStep ==
  ASSUME Counting
  PROVE  RpcTypeOK /\ ServerInv /\ [RpcNext]_rpcVars => ServerInv'
<1> SUFFICES ASSUME RpcTypeOK, ServerInv, [RpcNext]_rpcVars PROVE ServerInv'
  BY Zenon
<1>a. IsFiniteSet(Threads[transport]) /\ IsFiniteSet(Looping) /\ IsFiniteSet(Working)
  BY RpcAssumption, PartCounted, Zenon DEF RpcTypeOK, Looping, Working
<1>b. Cardinality(Looping) \in Nat /\ Cardinality(Working) \in Nat /\ Len(taskQueue) \in Nat
  BY <1>a, CountTyped DEF RpcTypeOK
<1>c. UNCHANGED <<transport, thr>> => Looping' = Looping
  BY Zenon DEF Looping
<1>d. UNCHANGED wrk => Working' = Working
  BY Zenon DEF Working
<1>e. ASSUME \A w \in Workers : wrk'[w].at \in Busy <=> wrk[w].at \in Busy PROVE Working' = Working
  BY <1>e, Zenon DEF Working
<1>f. ASSUME \A t \in Threads[transport] : thr'[t].at \in Active <=> thr[t].at \in Active,
             transport' = transport
      PROVE Looping' = Looping
  BY <1>f, Zenon DEF Looping
<1>1. CASE OpenAndBind
  BY <1>1, <1>c, <1>d, Zenon DEF OpenAndBind, ServerInv, pool, wire, stub
<1>2. CASE BGStart
  <2>1. Looping' = Looping
    BY <1>2, <1>f DEF BGStart, RpcTypeOK, ServerInv, Active
  <2> QED BY <1>2, <1>d, <2>1, Zenon DEF BGStart, ServerInv, pool
<1>3. CASE BGStarted
  <2>1. CASE bgThreads < Cardinality(Threads[transport])
    BY <1>3, <1>c, <1>d, <2>1, Zenon DEF BGStarted, ServerInv, pool
  <2>2. CASE ~(bgThreads < Cardinality(Threads[transport]))
    <3>1. Looping \subseteq Threads[transport]
      BY Zenon DEF Looping
    <3>2. Cardinality(Threads[transport]) \in Nat
      BY <1>a, CountTyped, Zenon
    <3>3. Cardinality(Looping) = Cardinality(Threads[transport])
      <4>1. Cardinality(Looping) <= Cardinality(Threads[transport])
        BY <1>a, <3>1, PartCounted, Zenon
      <4>2. bgThreads = Cardinality(Looping)
        BY Zenon DEF ServerInv
      <4> QED BY <1>b, <2>2, <3>2, <4>1, <4>2
    <3>4. Looping = Threads[transport]
      BY <1>a, <3>1, <3>3, PartCounted, Zenon
    <3>5. \A t \in Threads[transport] : thr[t].at # "new"
      BY <3>4, Zenon DEF Looping, Active
    <3> QED BY <1>3, <1>c, <1>d, <2>2, <3>5, Zenon DEF BGStarted, ServerInv, pool
  <2> QED BY <2>1, <2>2, Zenon
<1>4. CASE BGStop
  <2>1. \A t \in Threads[transport] : thr[t].at # "new"
    BY <1>4, Zenon DEF BGStop, ServerInv
  <2> QED BY <1>4, <1>c, <1>d, <2>1, Zenon DEF BGStop, ServerInv, pool
<1>5. CASE BGStopped
  <2>1. CASE bgThreads # 0
    BY <1>5, <1>c, <1>d, <2>1, Zenon DEF BGStopped, ServerInv, pool
  <2>2. CASE bgThreads = 0
    <3>1. Looping = {}
      BY <1>a, <2>2, NoneCounted, Zenon DEF ServerInv
    <3>2. \A t \in Threads[transport] : thr[t].at \in {"none", "gone"}
      BY <1>5, <3>1, Zenon DEF BGStopped, Looping, ServerInv, RpcTypeOK, Thread, ThreadStates
    <3> QED BY <1>5, <1>c, <1>d, <2>2, <3>2, Zenon DEF BGStopped, ServerInv, pool
  <2> QED BY <2>1, <2>2, Zenon
<1>6. CASE Destroy \/ Drained \/ PoolStopped
  <2>1. CASE Destroy
    BY <1>c, <1>d, <2>1, Zenon DEF Destroy, ServerInv, pool
  <2>2. CASE Drained
    BY <1>c, <1>d, <2>2, Zenon DEF Drained, ServerInv, pool
  <2>3. CASE PoolStopped
    BY <1>c, <1>d, <2>3, Zenon DEF PoolStopped, ServerInv, pool
  <2> QED BY <1>6, <2>1, <2>2, <2>3, Zenon
<1>7. CASE PoolStop
  <2>1. Working' = Working
    BY <1>7, <1>e, Zenon DEF PoolStop, RpcTypeOK, Worker, Busy
  <2> QED BY <1>7, <1>c, <2>1, Zenon DEF PoolStop, ServerInv
<1>8. ASSUME NEW t \in Threads[transport], BGCallBegin(t) PROVE ServerInv'
  <2>1. /\ thr[t].at = "new" /\ thr'[t].at = "loop" /\ transport' = transport
        /\ \A u \in Threads[transport] : u # t => thr'[u] = thr[u]
    BY <1>8, Zenon DEF BGCallBegin, At, RpcTypeOK, Thread
  <2>2. t \notin Looping /\ Looping' = Looping \cup {t}
    BY <2>1, Zenon DEF Looping, Active
  <2>3. Cardinality(Looping') = Cardinality(Looping) + 1
    BY <1>a, <2>2, OneMore, Zenon
  <2>4. owner = "starting" /\ owner' = owner
    BY <1>8, <2>1, Zenon DEF BGCallBegin, ServerInv, RpcTypeOK, OwnerStates
  <2> QED BY <1>8, <1>d, <2>3, <2>4, Zenon DEF BGCallBegin, ServerInv, pool
<1>9. ASSUME NEW t \in Threads[transport], BGCallEnd(t) PROVE ServerInv'
  <2>1. /\ thr[t].at = "leaving" /\ thr'[t].at = "gone" /\ transport' = transport
        /\ \A u \in Threads[transport] : u # t => thr'[u] = thr[u]
    BY <1>9, Zenon DEF BGCallEnd, At, RpcTypeOK, Thread
  <2>2. t \in Looping /\ Looping' = Looping \ {t}
    BY <2>1, Zenon DEF Looping, Active
  <2>3. Cardinality(Looping') = Cardinality(Looping) - 1
    BY <1>a, <2>2, OneLess, Zenon
  <2>4. owner \in {"starting", "running", "stopping"} /\ owner' = owner
    BY <1>9, <2>1, Zenon DEF BGCallEnd, ServerInv, RpcTypeOK, OwnerStates
  <2> QED BY <1>9, <1>d, <2>1, <2>3, <2>4, Zenon DEF BGCallEnd, ServerInv, pool
<1>10. ASSUME NEW t \in Threads[transport], NEW m \in net, RecvRequest(t, m), transport = "pool"
       PROVE  ServerInv'
  <2>1. thr[t].at = "loop" /\ owner' = owner /\ UNCHANGED <<transport, thr, bgThreads, fdOpen, poolShut>>
    BY <1>10, Zenon DEF RecvRequest
  <2>2. owner \in {"starting", "running", "stopping"}
    BY <2>1, Zenon DEF ServerInv, RpcTypeOK, OwnerStates
  <2>3. ~poolShut
    BY <2>2, Zenon DEF ServerInv
  <2>4. Working' = Working
    BY <1>10, <1>e, <2>3 DEF RecvRequest, Schedule, RpcTypeOK, Worker, Busy
  <2>5. taskQueue' = Append(taskQueue, m) /\ count' = count + 1
    BY <1>10, <2>3, Zenon DEF RecvRequest, Schedule
  <2>6. Len(taskQueue') = Len(taskQueue) + 1
    BY <2>5 DEF RpcTypeOK
  <2> QED BY <1>b, <1>c, <2>1, <2>2, <2>3, <2>4, <2>5, <2>6 DEF ServerInv
<1>11. ASSUME NEW t \in Threads[transport],
              \/ BGLoopEnds(t) \/ ProcessCallHere(t) \/ TcpRead(t) \/ TcpReply(t)
              \/ (transport # "pool" /\ \E m \in net : RecvRequest(t, m))
              \/ \E m \in Calls : TcpAccept(t, m)
       PROVE  ServerInv'
  <2>1. /\ thr[t].at \in {"loop", "read", "call"}
        /\ UNCHANGED <<transport, owner, bgThreads, fdOpen, count, taskQueue, wrk, poolShut>>
    BY <1>11, Zenon DEF BGLoopEnds, ProcessCallHere, TcpRead, TcpReply, RecvRequest, TcpAccept, pool
  <2>2. /\ thr'[t].at \in Active
        /\ \A u \in Threads[transport] : u # t => thr'[u] = thr[u]
    <3>a. /\ \A at, job : [thr[t] EXCEPT !.at = at, !.job = job].at = at
          /\ \A at, err : [thr[t] EXCEPT !.at = at, !.err = err].at = at
          /\ \A at : [thr[t] EXCEPT !.at = at].at = at
      BY Zenon DEF RpcTypeOK, Thread
    <3>b. DOMAIN thr = Threads[transport] /\ {"loop", "leaving", "call", "read"} \subseteq Active
      BY Zenon DEF RpcTypeOK, Active
    <3>1. CASE BGLoopEnds(t)
      BY <3>1, <3>a, <3>b DEF BGLoopEnds
    <3>2. CASE ProcessCallHere(t) \/ TcpReply(t)
      <4>1. thr' = [thr EXCEPT ![t] = [thr[t] EXCEPT !.at = "loop", !.job = NoJob]]
        BY <3>2, Zenon DEF ProcessCallHere, TcpReply
      <4> QED BY <4>1, <3>a, <3>b
    <3>3. CASE TcpRead(t)
      <4>1. CASE conn[thr[t].job].req = "part"
        <5>1. thr' = [thr EXCEPT ![t] = [thr[t] EXCEPT !.at = "loop", !.job = NoJob]]
          BY <3>3, <4>1, Zenon DEF TcpRead
        <5> QED BY <5>1, <3>a, <3>b
      <4>2. CASE conn[thr[t].job].req # "part"
        <5>1. thr' = [thr EXCEPT ![t] = [thr[t] EXCEPT !.at = "call"]]
          BY <3>3, <4>2, Zenon DEF TcpRead, At
        <5> QED BY <5>1, <3>a, <3>b
      <4> QED BY <4>1, <4>2, Zenon
    <3>4. CASE transport # "pool" /\ \E m \in net : RecvRequest(t, m)
      <4>1. \E m : thr' = [thr EXCEPT ![t] = [thr[t] EXCEPT !.at = "call", !.job = m]]
        BY <3>4, Zenon DEF RecvRequest
      <4> QED BY <4>1, <3>a, <3>b
    <3>5. CASE \E m \in Calls : TcpAccept(t, m)
      BY <3>5, <3>a, <3>b DEF TcpAccept
    <3> QED BY <1>11, <3>1, <3>2, <3>3, <3>4, <3>5, Zenon
  <2>3. Looping' = Looping
    BY <1>f, <2>1, <2>2, Zenon DEF Active
  <2>4. thr'[t].at # "new" /\ owner \in {"starting", "running", "stopping"}
    BY <2>1, <2>2, Zenon DEF Active, ServerInv, RpcTypeOK, OwnerStates
  <2> QED BY <1>d, <2>1, <2>2, <2>3, <2>4, Zenon DEF ServerInv
<1>12. ASSUME NEW w \in Workers, BGThread(w) PROVE ServerInv'
  <2>1. UNCHANGED <<transport, owner, thr, bgThreads, fdOpen, count, poolShut>> /\ wrk[w].at = "awake"
    BY <1>12, Zenon DEF BGThread, srv
  <2>2. CASE poolShut \/ paused \/ taskQueue = <<>>
    <3>1. Working' = Working /\ taskQueue' = taskQueue
      <4>1. PICK at \in {"none", "asleep"} : wrk' = [wrk EXCEPT ![w].at = at] /\ taskQueue' = taskQueue
        BY <1>12, <2>2, Zenon DEF BGThread
      <4>2. wrk'[w].at = at /\ \A v \in Workers : v # w => wrk'[v] = wrk[v]
        BY <4>1, Zenon DEF RpcTypeOK, Worker
      <4> QED BY <1>e, <2>1, <4>1, <4>2, Zenon DEF Busy
    <3> QED BY <1>c, <2>1, <3>1, Zenon DEF ServerInv
  <2>3. CASE ~(poolShut \/ paused \/ taskQueue = <<>>)
    <3>1. taskQueue' = Tail(taskQueue) /\ wrk' = [wrk EXCEPT ![w] = [at |-> "run", job |-> Head(taskQueue)]]
      BY <1>12, <2>3, Zenon DEF BGThread
    <3>2. w \notin Working /\ Working' = Working \cup {w}
      BY <2>1, <3>1, Zenon DEF Working, Busy, RpcTypeOK
    <3>3. Cardinality(Working') = Cardinality(Working) + 1
      BY <1>a, <3>2, OneMore, Zenon
    <3>4. Len(taskQueue') = Len(taskQueue) - 1
      BY <2>3, <3>1 DEF RpcTypeOK
    <3> QED BY <1>b, <1>c, <2>1, <3>3, <3>4 DEF ServerInv
  <2> QED BY <2>2, <2>3, Zenon
<1>13. ASSUME NEW w \in Workers, ProcessCall(w) PROVE ServerInv'
  <2>1. Working' = Working
    BY <1>13, <1>e, Zenon DEF ProcessCall, RpcTypeOK, Worker, Busy
  <2> QED BY <1>13, <1>c, <2>1, Zenon DEF ProcessCall, ServerInv, srv
<1>14. ASSUME NEW w \in Workers, ProcessCallEnd(w) PROVE ServerInv'
  <2>1. w \in Working /\ Working' = Working \ {w}
    BY <1>14, Zenon DEF ProcessCallEnd, Working, Busy, RpcTypeOK, Worker
  <2>2. Cardinality(Working') = Cardinality(Working) - 1 /\ Cardinality(Working') \in Nat
    BY <1>a, <2>1, OneLess, CountTyped, Zenon
  <2> QED BY <1>14, <1>b, <1>c, <2>2 DEF ProcessCallEnd, ServerInv
<1>15. CASE Resume
  <2>1. Working' = Working
    BY <1>15, <1>e, SMTT(30) DEF Resume, RpcTypeOK, Worker, Busy
  <2> QED BY <1>15, <1>c, <2>1, Zenon DEF Resume, ServerInv, srv
<1>16. CASE \/ Pause \/ Duplicate \/ UNCHANGED rpcVars
            \/ \E c \in Clients : \/ UdpCall(c) \/ UdpRecv(c) \/ UdpTimeout(c)
                                  \/ TcpConnect(c) \/ TcpSend(c) \/ TcpRecv(c) \/ TcpTimeout(c)
  <2>1. UNCHANGED <<transport, owner, thr, bgThreads, fdOpen, count, taskQueue, wrk, poolShut>>
    BY <1>16, Zenon DEF Pause, Duplicate, UdpCall, UdpRecv, UdpTimeout, TcpConnect, TcpSend, TcpRecv,
                 TcpTimeout, rpcVars, srv, pool
  <2> QED BY <1>c, <1>d, <2>1, Zenon DEF ServerInv
<1> QED
  BY <1>1, <1>2, <1>3, <1>4, <1>5, <1>6, <1>7, <1>8, <1>9, <1>10, <1>11, <1>12, <1>13, <1>14,
     <1>15, <1>16, Zenon DEF RpcNext

LEMMA JobsInitially == RpcInit => JobInv
BY SMTT(30) DEF RpcInit, JobInv

LEMMA JobStep == RpcTypeOK /\ ServerInv /\ JobInv /\ [RpcNext]_rpcVars => JobInv'
<1> SUFFICES ASSUME RpcTypeOK, ServerInv, JobInv, [RpcNext]_rpcVars PROVE JobInv'
  BY Zenon
<1>a. NoJob \notin Msg
  BY DEF NoJob, Msg
<1>1. CASE BGStart
  <2>1. \A t \in Threads[transport] : thr[t].at = "none" /\ thr[t].job = NoJob
    BY <1>1, Zenon DEF BGStart, ServerInv, JobInv
  <2>2. \A t \in Threads[transport] : thr'[t].at = "new" /\ thr'[t].job = NoJob
    BY <1>1, <2>1 DEF BGStart, RpcTypeOK, Thread
  <2>3. UNCHANGED <<transport, taskQueue, wrk>>
    BY <1>1, Zenon DEF BGStart, pool
  <2>4. \A t \in Threads[transport] : (thr'[t].at \in {"read", "call"}) <=> (thr'[t].job # NoJob)
    BY <2>2, Zenon
  <2> QED BY <2>2, <2>3, <2>4, Zenon DEF JobInv
<1>2. CASE PoolStop \/ Resume
  <2>1. \A w \in Workers : /\ wrk'[w].job = wrk[w].job
                           /\ (wrk'[w].at = "run") <=> (wrk[w].at = "run")
    <3>1. CASE PoolStop
      BY <3>1 DEF PoolStop, RpcTypeOK, Worker
    <3>2. CASE Resume
      BY <3>2 DEF Resume, RpcTypeOK, Worker
    <3> QED BY <1>2, <3>1, <3>2, Zenon
  <2> QED BY <1>2, <2>1 DEF PoolStop, Resume, JobInv, srv
<1>3. ASSUME NEW t \in Threads[transport], BGCallBegin(t) \/ BGCallEnd(t) \/ BGLoopEnds(t) PROVE JobInv'
  <2>1. \A u \in Threads[transport] :
           /\ thr'[u].job = thr[u].job
           /\ (thr'[u].at \in {"read", "call"}) <=> (thr[u].at \in {"read", "call"})
    <3>1. CASE BGCallBegin(t)
      BY <3>1 DEF BGCallBegin, At, RpcTypeOK, Thread
    <3>2. CASE BGCallEnd(t)
      BY <3>2 DEF BGCallEnd, At, RpcTypeOK, Thread
    <3>3. CASE BGLoopEnds(t)
      BY <3>3 DEF BGLoopEnds, RpcTypeOK, Thread
    <3> QED BY <1>3, <3>1, <3>2, <3>3, Zenon
  <2>2. UNCHANGED <<transport, taskQueue, wrk>>
    BY <1>3, Zenon DEF BGCallBegin, BGCallEnd, BGLoopEnds, pool
  <2>3. \A u \in Threads[transport] : (thr'[u].at \in {"read", "call"}) <=> (thr'[u].job # NoJob)
    BY <2>1, Zenon DEF JobInv
  <2>4. transport = "pool" => \A u \in Threads[transport] : thr'[u].job = NoJob
    BY <2>1, Zenon DEF JobInv
  <2> QED BY <2>2, <2>3, <2>4, Zenon DEF JobInv
<1>4. ASSUME NEW t \in Threads[transport], NEW m \in net, RecvRequest(t, m), transport = "pool"
      PROVE  JobInv'
  <2>1. \A w \in Workers : /\ wrk'[w].job = wrk[w].job
                           /\ (wrk'[w].at = "run") <=> (wrk[w].at = "run")
    BY <1>4 DEF RecvRequest, Schedule, RpcTypeOK, Worker
  <2> QED BY <1>4, <2>1 DEF RecvRequest, JobInv
<1>5. ASSUME NEW t \in Threads[transport],
             NEW m \in Msg, NEW at \in {"read", "call"},
             thr' = [thr EXCEPT ![t] = [thr[t] EXCEPT !.at = at, !.job = m]],
             transport # "pool", UNCHANGED <<transport, taskQueue, wrk>>
      PROVE  JobInv'
  <2>1. /\ thr'[t].job = m /\ thr'[t].at \in {"read", "call"}
        /\ \A u \in Threads[transport] : u # t => thr'[u] = thr[u]
    BY <1>5, Zenon DEF RpcTypeOK, Thread
  <2> QED BY <1>5, <1>a, <2>1 DEF JobInv
<1>6. ASSUME NEW t \in Threads[transport],
             thr' = [thr EXCEPT ![t] = [thr[t] EXCEPT !.at = "loop", !.job = NoJob]],
             UNCHANGED <<transport, taskQueue, wrk>>
      PROVE  JobInv'
  <2>1. /\ thr'[t].job = NoJob /\ thr'[t].at = "loop"
        /\ \A u \in Threads[transport] : u # t => thr'[u] = thr[u]
    BY <1>6 DEF RpcTypeOK, Thread
  <2> QED BY <1>6, <2>1 DEF JobInv
<1>7. ASSUME NEW t \in Threads[transport], TcpRead(t) PROVE JobInv'
  <2>1. CASE conn[thr[t].job].req = "part"
    BY <1>6, <1>7, <2>1, Zenon DEF TcpRead, pool
  <2>2. CASE conn[thr[t].job].req # "part"
    <3>1. thr[t].at = "read" /\ UNCHANGED <<transport, taskQueue, wrk>>
      BY <1>7, Zenon DEF TcpRead, pool
    <3>2. thr' = [thr EXCEPT ![t].at = "call"]
      BY <1>7, <2>2, Zenon DEF TcpRead, At
    <3>3. /\ thr'[t].job = thr[t].job /\ thr'[t].at = "call"
          /\ \A u \in Threads[transport] : u # t => thr'[u] = thr[u]
      BY <3>2, Zenon DEF RpcTypeOK, Thread
    <3> QED BY <3>1, <3>3 DEF JobInv
  <2> QED BY <2>1, <2>2, Zenon
<1>8. ASSUME NEW w \in Workers, BGThread(w) PROVE JobInv'
  <2>1. CASE poolShut \/ paused \/ taskQueue = <<>>
    <3>1. \A v \in Workers : /\ wrk'[v].job = wrk[v].job
                             /\ (wrk'[v].at = "run") <=> (wrk[v].at = "run")
      BY <1>8, <2>1 DEF BGThread, RpcTypeOK, Worker
    <3> QED BY <1>8, <2>1, <3>1 DEF BGThread, JobInv, srv
  <2>2. CASE ~(poolShut \/ paused \/ taskQueue = <<>>)
    <3>1. /\ wrk' = [wrk EXCEPT ![w] = [at |-> "run", job |-> Head(taskQueue)]]
          /\ UNCHANGED <<transport, thr>>
      BY <1>8, <2>2, Zenon DEF BGThread, srv
    <3>2. Head(taskQueue) # NoJob
      BY <1>a, <2>2 DEF RpcTypeOK
    <3>3. transport = "pool"
      BY <2>2, Zenon DEF JobInv
    <3>4. /\ wrk'[w].at = "run" /\ wrk'[w].job # NoJob
          /\ \A v \in Workers : v # w => wrk'[v] = wrk[v]
      BY <3>1, <3>2, Zenon DEF RpcTypeOK
    <3> QED BY <3>1, <3>3, <3>4 DEF JobInv
  <2> QED BY <2>1, <2>2, Zenon
<1>9. ASSUME NEW w \in Workers, ProcessCall(w) \/ ProcessCallEnd(w) PROVE JobInv'
  <2>1. /\ wrk'[w].at # "run" /\ wrk'[w].job = NoJob
        /\ \A v \in Workers : v # w => wrk'[v] = wrk[v]
    BY <1>9 DEF ProcessCall, ProcessCallEnd, RpcTypeOK, Worker, JobInv
  <2> QED BY <1>9, <2>1 DEF ProcessCall, ProcessCallEnd, JobInv, srv
<1>10. CASE \/ OpenAndBind \/ BGStarted \/ BGStop \/ BGStopped \/ Destroy \/ Drained \/ PoolStopped
            \/ Pause \/ Duplicate \/ UNCHANGED rpcVars
            \/ \E c \in Clients : \/ UdpCall(c) \/ UdpRecv(c) \/ UdpTimeout(c)
                                  \/ TcpConnect(c) \/ TcpSend(c) \/ TcpRecv(c) \/ TcpTimeout(c)
  <2>1. UNCHANGED <<transport, thr, taskQueue, wrk>>
    BY <1>10, Zenon DEF OpenAndBind, BGStarted, BGStop, BGStopped, Destroy, Drained, PoolStopped, Pause,
                 Duplicate, UdpCall, UdpRecv, UdpTimeout, TcpConnect, TcpSend, TcpRecv,
                 TcpTimeout, rpcVars, srv, pool
  <2> QED BY <2>1, Zenon DEF JobInv
<1>11. ASSUME NEW t \in Threads[transport],
              \/ ProcessCallHere(t) \/ TcpReply(t)
              \/ (transport # "pool" /\ \E m \in net : RecvRequest(t, m))
              \/ \E m \in Calls : TcpAccept(t, m)
       PROVE  JobInv'
  <2>1. UNCHANGED <<transport, taskQueue, wrk>>
    BY <1>11, Zenon DEF ProcessCallHere, TcpReply, RecvRequest, TcpAccept, pool
  <2>2. CASE ProcessCallHere(t) \/ TcpReply(t)
    BY <1>6, <2>1, <2>2, Zenon DEF ProcessCallHere, TcpReply
  <2>3. CASE transport # "pool" /\ \E m \in net : RecvRequest(t, m)
    BY <1>5, <2>1, <2>3, Zenon DEF RecvRequest, RpcTypeOK
  <2>4. CASE \E m \in Calls : TcpAccept(t, m)
    <3>1. Calls \subseteq Msg
      BY DEF Calls, Msg
    <3> QED BY <1>5, <2>1, <2>4, <3>1, Zenon DEF TcpAccept
  <2> QED BY <1>11, <2>2, <2>3, <2>4, Zenon
<1> QED
  BY <1>1, <1>2, <1>3, <1>4, <1>7, <1>8, <1>9, <1>10, <1>11, Zenon DEF RpcNext

-----------------------------------------------------------------------------
(* The clients of the socket server: a request, its copies and its reply   *)
(* are followed through the network, the queue and the threads.            *)

\* What is on its way for a client that had no accident is one message, for the
\* call it waits for.
Expected(m, calls, l) ==
  /\ m[2] <= calls[m[1]].n
  /\ m[1] \notin l => m[2] = calls[m[1]].n /\ calls[m[1]].at = "wait"
Apart(m, k, l) == m[1] = k[1] => m[1] \in l

\* A call in the hands of the server: nothing else is on its way for its client.
Alone(m, requests, replies, calls, l) ==
  /\ Expected(m, calls, l)
  /\ \A k \in requests : Apart(m, k, l)
  /\ \A k \in replies[m[1]] : Apart(m, k, l)

WireInv ==
  transport # "tcp" =>
    /\ \A m \in net : Expected(m, cli, late) /\ \A k \in inbox[m[1]] : Apart(m, k, late)
    /\ \A c \in Clients : \A m \in inbox[c] : m[1] = c /\ Expected(m, cli, late)

\* Requests that the background threads process themselves.
HereInv ==
  transport = "udp" =>
    \A t \in Threads[transport] : thr[t].job # NoJob =>
      /\ Alone(thr[t].job, net, inbox, cli, late)
      /\ \A u \in Threads[transport] \ {t} : thr[u].job # NoJob => Apart(thr[t].job, thr[u].job, late)

\* Requests that wait in the pool, or that its threads process.
QueueInv ==
  transport = "pool" =>
    \A i \in 1..Len(taskQueue) :
      /\ Alone(taskQueue[i], net, inbox, cli, late)
      /\ \A j \in 1..Len(taskQueue) : i # j => Apart(taskQueue[i], taskQueue[j], late)
      /\ \A w \in Workers : wrk[w].job # NoJob => Apart(taskQueue[i], wrk[w].job, late)
RunInv ==
  transport = "pool" =>
    \A w \in Workers : wrk[w].job # NoJob =>
      /\ Alone(wrk[w].job, net, inbox, cli, late)
      /\ \A v \in Workers \ {w} : wrk[v].job # NoJob => Apart(wrk[w].job, wrk[v].job, late)

AnswerInv ==
  \A c \in Clients : got[c].ok /\ got[c].rep # "none" =>
     /\ got[c].job \in Msg /\ got[c].job[1] = c /\ got[c].job[2] <= cli[c].n
     /\ c \notin late => got[c].job[2] = cli[c].n - (IF cli[c].at = "idle" THEN 0 ELSE 1)

InFlight == WireInv /\ HereInv /\ QueueInv /\ RunInv

\* Every request, queued call and reply of the UDP server belongs to a client.
LEMMA JobTypes ==
  ASSUME RpcTypeOK
  PROVE  /\ \A t \in Threads[transport] : thr[t].job # NoJob => thr[t].job \in Msg
         /\ \A w \in Workers : wrk[w].job # NoJob => wrk[w].job \in Msg
         /\ \A i \in 1..Len(taskQueue) : taskQueue[i] \in Msg
         /\ \A c \in Clients : inbox[c] \subseteq Msg
         /\ net \subseteq Msg
         /\ \A m \in Msg : m[1] \in Clients /\ m[2] \in Nat /\ m = <<m[1], m[2]>>
         /\ \A c \in Clients : cli[c].n \in Nat
BY DEF RpcTypeOK, Thread, Worker, Jobs, Msg, Client

\* A call stays alone when a request is received, and when the reply to another
\* call is sent.
LEMMA Alones ==
  ASSUME NEW m \in Msg, NEW requests, NEW replies, NEW calls, NEW l
  PROVE  /\ \A k \in Msg : Apart(m, k, l) => Apart(k, m, l)
         /\ Alone(m, requests, replies, calls, l) =>
              /\ Expected(m, calls, l)
              /\ \A k \in requests : Apart(m, k, l)
              /\ \A k \in replies[m[1]] : Apart(m, k, l)
         /\ \A k : Alone(m, requests, replies, calls, l) => Alone(m, requests \ {k}, replies, calls, l)
         /\ \A after : /\ Alone(m, requests, replies, calls, l)
                       /\ \A k \in after[m[1]] : k \in replies[m[1]] \/ Apart(m, k, l)
                       => Alone(m, requests, after, calls, l)
BY Zenon DEF Alone, Apart

\* A request that is received is alone.
LEMMA Received ==
  ASSUME RpcTypeOK, WireInv, transport # "tcp", NEW m \in net
  PROVE  Alone(m, net \ {m}, inbox, cli, late)
<1>1. m \in Msg /\ \A k \in net : k \in Msg
  BY JobTypes, Zenon
<1>2. \A k \in net : Expected(k, cli, late)
  BY Zenon DEF WireInv
<1>3. \A k \in net \ {m} : Apart(m, k, late)
  BY <1>1, <1>2, JobTypes DEF Expected, Apart
<1>4. \A k \in inbox[m[1]] : Apart(m, k, late)
  BY Zenon DEF WireInv
<1> QED BY <1>2, <1>3, <1>4, Zenon DEF Alone

\* The steps of the clients and of the network, which leave the jobs where they are.
LEMMA JobsStay ==
  ASSUME RpcTypeOK, HereInv, QueueInv, RunInv, UNCHANGED <<transport, taskQueue>>,
         \A t \in Threads[transport] : thr'[t].job = thr[t].job,
         \A w \in Workers : wrk'[w].job = wrk[w].job,
         \A m \in Msg : Alone(m, net, inbox, cli, late) => Alone(m, net', inbox', cli', late'),
         \A m, k \in Msg : Apart(m, k, late) => Apart(m, k, late')
  PROVE  HereInv' /\ QueueInv' /\ RunInv'
<1>1. HereInv'
  BY JobTypes DEF HereInv
<1>2. QueueInv'
  BY JobTypes, Zenon DEF QueueInv
<1>3. RunInv'
  BY JobTypes, Zenon DEF RunInv
<1> QED BY <1>1, <1>2, <1>3, Zenon

\* The steps of the server and of the clients that take a message from one place
\* to another.
LEMMA FlightStep ==
  RpcTypeOK /\ ServerInv /\ JobInv /\ InFlight /\ [RpcNext]_rpcVars => InFlight'
<1> SUFFICES ASSUME RpcTypeOK, ServerInv, JobInv, InFlight, [RpcNext]_rpcVars PROVE InFlight'
  BY Zenon
<1>a. transport' = transport
  BY Zenon DEF RpcNext, OpenAndBind, BGStart, BGStarted, BGStop, BGStopped, Destroy, Drained, PoolStop,
         PoolStopped, BGCallBegin, BGLoopEnds, BGCallEnd, ProcessCallHere, TcpRead, TcpReply,
         RecvRequest, TcpAccept, BGThread, ProcessCall, ProcessCallEnd, Pause, Resume, Duplicate,
         UdpCall, UdpRecv, UdpTimeout, TcpConnect, TcpSend, TcpRecv, TcpTimeout, rpcVars
<1>b. CASE transport = "tcp"
  BY <1>a, <1>b, Zenon DEF InFlight, WireInv, HereInv, QueueInv, RunInv
<1>c. ASSUME UNCHANGED <<net, inbox, cli, late, taskQueue>>,
             \A t \in Threads[transport] : thr'[t].job = thr[t].job,
             \A w \in Workers : wrk'[w].job = wrk[w].job
      PROVE  InFlight'
  <2>1. WireInv'
    BY <1>a, <1>c, Zenon DEF InFlight, WireInv
  <2>2. HereInv' /\ QueueInv' /\ RunInv'
    BY <1>a, <1>c, JobsStay, Zenon DEF InFlight
  <2> QED BY <2>1, <2>2, Zenon DEF InFlight
<1>1. CASE \/ OpenAndBind \/ BGStarted \/ BGStop \/ BGStopped \/ Destroy \/ Drained \/ PoolStopped
           \/ Pause \/ UNCHANGED rpcVars
  BY <1>1, <1>c, Zenon DEF OpenAndBind, BGStarted, BGStop, BGStopped, Destroy, Drained, PoolStopped,
                    Pause, rpcVars, srv, pool, wire, stub
<1>2. CASE BGStart
  <2>1. \A t \in Threads[transport] : thr'[t].job = thr[t].job
    BY <1>2 DEF BGStart, RpcTypeOK, Thread
  <2> QED BY <1>2, <1>c, <2>1, Zenon DEF BGStart, pool, wire, stub
<1>3. CASE PoolStop \/ Resume \/ \E w \in Workers : ProcessCallEnd(w)
  <2>1. \A w \in Workers : wrk'[w].job = wrk[w].job
    BY <1>3 DEF PoolStop, Resume, ProcessCallEnd, RpcTypeOK, Worker
  <2> QED BY <1>3, <1>c, <2>1, Zenon DEF PoolStop, Resume, ProcessCallEnd, srv, wire, stub
<1>4. ASSUME NEW t \in Threads[transport], BGCallBegin(t) \/ BGCallEnd(t) \/ BGLoopEnds(t) PROVE InFlight'
  <2>1. \A u \in Threads[transport] : thr'[u].job = thr[u].job
    <3>1. CASE BGCallBegin(t) \/ BGCallEnd(t)
      BY <3>1 DEF BGCallBegin, BGCallEnd, At, RpcTypeOK, Thread
    <3>2. CASE BGLoopEnds(t)
      BY <3>2 DEF BGLoopEnds, RpcTypeOK, Thread
    <3> QED BY <1>4, <3>1, <3>2, Zenon
  <2> QED BY <1>4, <1>c, <2>1, Zenon DEF BGCallBegin, BGCallEnd, BGLoopEnds, pool, wire, stub
<1>5. ASSUME NEW t \in Threads[transport], NEW m \in net, RecvRequest(t, m), transport = "udp"
      PROVE  InFlight'
  <2>1. thr' = [thr EXCEPT ![t] = [thr[t] EXCEPT !.at = "call", !.job = m]]
    BY <1>5, Zenon DEF RecvRequest
  <2>2. /\ thr'[t].job = m
        /\ \A u \in Threads[transport] : u # t => thr'[u] = thr[u]
    BY <2>1, Zenon DEF RpcTypeOK, Thread
  <2>3. net' = net \ {m} /\ UNCHANGED <<inbox, cli, late>> /\ thr[t].job = NoJob
    BY <1>5, Zenon DEF RecvRequest, stub, JobInv
  <2>4. WireInv'
    BY <1>a, <2>3, Zenon DEF InFlight, WireInv
  <2>5. Alone(m, net', inbox, cli, late)
    BY <1>5, <2>3, Received, Zenon DEF InFlight
  <2>6. \A u \in Threads[transport] : thr[u].job # NoJob =>
          /\ Alone(thr[u].job, net', inbox, cli, late)
          /\ Apart(thr[u].job, m, late) /\ Apart(m, thr[u].job, late)
    BY <1>5, <2>3, JobTypes, Alones, ZenonT(30) DEF InFlight, HereInv
  <2>7. HereInv'
    <3>1. \A u, v \in Threads[transport] : thr[u].job # NoJob /\ thr[v].job # NoJob /\ u # v =>
            Apart(thr[u].job, thr[v].job, late)
      BY <1>5, Zenon DEF InFlight, HereInv
    <3>2. \A u \in Threads[transport] : thr'[u].job # NoJob => Alone(thr'[u].job, net', inbox, cli, late)
      BY <2>2, <2>5, <2>6, Zenon
    <3>3. \A u, v \in Threads[transport] : thr'[u].job # NoJob /\ thr'[v].job # NoJob /\ u # v =>
            Apart(thr'[u].job, thr'[v].job, late)
      BY <2>2, <2>6, <3>1, Zenon
    <3> QED BY <1>a, <2>3, <3>2, <3>3, Zenon DEF HereInv
  <2> QED BY <1>5, <1>a, <2>4, <2>7, Zenon DEF InFlight, QueueInv, RunInv
<1>6. ASSUME NEW t \in Threads[transport], NEW m \in net, RecvRequest(t, m), transport = "pool"
      PROVE  InFlight'
  <2>1. \A w \in Workers : wrk'[w].job = wrk[w].job
    BY <1>6 DEF RecvRequest, Schedule, RpcTypeOK, Worker
  <2>2. net' = net \ {m} /\ UNCHANGED <<inbox, cli, late>>
    BY <1>6, Zenon DEF RecvRequest, stub
  <2>3. WireInv'
    BY <1>a, <2>2, Zenon DEF InFlight, WireInv
  <2>4. \A k \in Msg : Alone(k, net, inbox, cli, late) =>
          Alone(k, net', inbox, cli, late) /\ Apart(k, m, late) /\ Apart(m, k, late)
    BY <2>2, JobTypes, Alones, Zenon
  <2>5. RunInv'
    BY <1>6, <1>a, <2>1, <2>2, <2>4, JobTypes, ZenonT(30) DEF InFlight, RunInv
  <2>6. CASE poolShut
    <3>1. taskQueue' = taskQueue
      BY <1>6, <2>6, Zenon DEF RecvRequest, Schedule
    <3>2. QueueInv'
      BY <1>6, <1>a, <2>1, <2>2, <2>4, <3>1, JobTypes, ZenonT(30) DEF InFlight, QueueInv
    <3> QED BY <1>6, <1>a, <2>3, <2>5, <3>2, Zenon DEF InFlight, HereInv
  <2>7. CASE ~poolShut
    <3>1. taskQueue' = Append(taskQueue, m)
      BY <1>6, <2>7, Zenon DEF RecvRequest, Schedule
    <3>2. /\ Len(taskQueue') = Len(taskQueue) + 1 /\ taskQueue'[Len(taskQueue) + 1] = m
          /\ \A i \in 1..Len(taskQueue) : taskQueue'[i] = taskQueue[i]
          /\ Len(taskQueue) \in Nat
      BY <3>1 DEF RpcTypeOK
    <3>3. Alone(m, net', inbox, cli, late)
      BY <1>6, <2>2, Received, Zenon DEF InFlight
    <3>4. \A w \in Workers : wrk[w].job # NoJob => Apart(m, wrk[w].job, late)
      BY <1>6, <2>4, JobTypes, Zenon DEF InFlight, RunInv
    <3>5. \A i \in 1..Len(taskQueue) :
            Alone(taskQueue[i], net', inbox, cli, late)
            /\ Apart(m, taskQueue[i], late) /\ Apart(taskQueue[i], m, late)
      BY <1>6, <2>4, JobTypes, Zenon DEF InFlight, QueueInv
    <3>6. QueueInv'
      <4>1. SUFFICES ASSUME NEW i \in 1..Len(taskQueue')
                     PROVE  /\ Alone(taskQueue'[i], net', inbox, cli, late)
                            /\ \A j \in 1..Len(taskQueue') : i # j => Apart(taskQueue'[i], taskQueue'[j], late)
                            /\ \A w \in Workers : wrk[w].job # NoJob => Apart(taskQueue'[i], wrk[w].job, late)
        BY <1>a, <2>1, <2>2, Zenon DEF QueueInv
      <4>2. \A j \in 1..Len(taskQueue') : j \in 1..Len(taskQueue) \/ (taskQueue'[j] = m /\ j = Len(taskQueue) + 1)
        BY <3>2
      <4>3. CASE i \in 1..Len(taskQueue)
        <5>1. taskQueue'[i] = taskQueue[i]
          BY <3>2, <4>3, Zenon
        <5>2. \A j \in 1..Len(taskQueue) : i # j => Apart(taskQueue[i], taskQueue[j], late)
          BY <1>6, <4>3, Zenon DEF InFlight, QueueInv
        <5>3. \A w \in Workers : wrk[w].job # NoJob => Apart(taskQueue[i], wrk[w].job, late)
          BY <1>6, <4>3, Zenon DEF InFlight, QueueInv
        <5> QED BY <3>2, <3>5, <4>2, <4>3, <5>1, <5>2, <5>3, Zenon
      <4>4. CASE taskQueue'[i] = m /\ i = Len(taskQueue) + 1
        BY <3>2, <3>3, <3>4, <3>5, <4>2, <4>4, Zenon
      <4> QED BY <4>2, <4>3, <4>4, Zenon
    <3> QED BY <1>6, <1>a, <2>3, <2>5, <3>6, Zenon DEF InFlight, HereInv
  <2> QED BY <2>6, <2>7, Zenon
<1>7. ASSUME NEW t \in Threads[transport], ProcessCallHere(t) PROVE InFlight'
  <2>1. /\ thr'[t].job = NoJob
        /\ \A u \in Threads[transport] : u # t => thr'[u] = thr[u]
    BY <1>7 DEF ProcessCallHere, RpcTypeOK, Thread
  <2>2. /\ UNCHANGED <<net, cli, late>> /\ transport = "udp"
        /\ thr[t].job # NoJob /\ thr[t].job \in Msg
        /\ inbox' \in {inbox, [inbox EXCEPT ![thr[t].job[1]] = @ \cup {thr[t].job}]}
    BY <1>7, JobTypes, Zenon DEF ProcessCallHere, Replies, stub, JobInv
  <2>3. \A c \in Clients : \A m \in inbox'[c] : m \in inbox[c] \/ (m = thr[t].job /\ c = m[1])
    BY <2>2, JobTypes DEF RpcTypeOK
  <2>4. Alone(thr[t].job, net, inbox, cli, late)
    BY <2>2, Zenon DEF InFlight, HereInv
  <2>5. Expected(thr[t].job, cli, late) /\ \A m \in net : Apart(m, thr[t].job, late)
    BY <2>2, <2>4, JobTypes, Alones, Zenon
  <2>6. WireInv'
    BY <1>a, <2>2, <2>3, <2>5, JobTypes DEF InFlight, WireInv
  <2>7. \A u \in Threads[transport] \ {t} : thr[u].job # NoJob =>
          thr[u].job \in Msg /\ Alone(thr[u].job, net, inbox, cli, late)
          /\ Apart(thr[u].job, thr[t].job, late)
    BY <2>2, JobTypes, Zenon DEF InFlight, HereInv
  <2>8. \A u \in Threads[transport] \ {t} : thr[u].job # NoJob =>
          Alone(thr[u].job, net, inbox', cli, late)
    BY <2>3, <2>7, JobTypes, Alones
  <2>9. HereInv'
    <3>1. \A u \in Threads[transport] : thr'[u].job # NoJob => u # t /\ thr'[u] = thr[u]
      BY <2>1, Zenon
    <3>2. \A u \in Threads[transport] : thr'[u].job # NoJob =>
            Alone(thr'[u].job, net', inbox', cli', late')
      BY <2>2, <2>8, <3>1, Zenon
    <3>3. \A u, v \in Threads[transport] : thr[u].job # NoJob /\ thr[v].job # NoJob /\ u # v =>
            Apart(thr[u].job, thr[v].job, late)
      BY <2>2, Zenon DEF InFlight, HereInv
    <3>4. \A u, v \in Threads[transport] : thr'[u].job # NoJob /\ thr'[v].job # NoJob /\ u # v =>
            Apart(thr'[u].job, thr'[v].job, late')
      <4>1. \A u, v \in Threads[transport] : thr'[u].job # NoJob /\ thr'[v].job # NoJob /\ u # v =>
              Apart(thr'[u].job, thr'[v].job, late)
        BY <3>1, <3>3, Zenon
      <4> QED BY <2>2, <4>1, Zenon
    <3> QED BY <1>a, <3>2, <3>4, Zenon DEF HereInv
  <2> QED BY <1>a, <2>2, <2>6, <2>9, Zenon DEF InFlight, QueueInv, RunInv
<1>8. ASSUME NEW w \in Workers, BGThread(w), transport = "pool" PROVE InFlight'
  <2>1. CASE poolShut \/ paused \/ taskQueue = <<>>
    <3>1. \A v \in Workers : wrk'[v].job = wrk[v].job
      BY <1>8, <2>1 DEF BGThread, RpcTypeOK, Worker
    <3> QED BY <1>8, <1>c, <2>1, <3>1, Zenon DEF BGThread, srv, wire, stub
  <2>2. CASE ~(poolShut \/ paused \/ taskQueue = <<>>)
    <3>1. /\ wrk' = [wrk EXCEPT ![w] = [at |-> "run", job |-> Head(taskQueue)]]
          /\ taskQueue' = Tail(taskQueue) /\ UNCHANGED <<net, inbox, cli, late>>
          /\ wrk[w].job = NoJob
      BY <1>8, <2>2, Zenon DEF BGThread, wire, stub, JobInv
    <3>0. taskQueue \in Seq(Msg) /\ taskQueue # <<>>
      BY <2>2, Zenon DEF RpcTypeOK
    <3>a. Head(taskQueue) = taskQueue[1]
      BY <3>0
    <3>2. Head(taskQueue) = taskQueue[1] /\ wrk'[w].job = Head(taskQueue)
      BY <3>1, <3>a, Zenon DEF RpcTypeOK
    <3>3. \A v \in Workers : v # w => wrk'[v] = wrk[v]
      BY <3>1, Zenon DEF RpcTypeOK
    <3>4. /\ Len(taskQueue) \in Nat /\ Len(taskQueue) > 0 /\ Len(taskQueue') = Len(taskQueue) - 1
          /\ \A i \in 1..Len(taskQueue') : taskQueue'[i] = taskQueue[i + 1]
      BY <3>0, <3>1
    <3>5. \A i \in 1..Len(taskQueue') : i + 1 \in 1..Len(taskQueue) /\ i + 1 # 1
      BY <3>4
    <3>6. QueueInv'
      <4>1. \A i \in 1..Len(taskQueue) :
              /\ Alone(taskQueue[i], net, inbox, cli, late)
              /\ \A j \in 1..Len(taskQueue) : i # j => Apart(taskQueue[i], taskQueue[j], late)
              /\ \A v \in Workers : wrk[v].job # NoJob => Apart(taskQueue[i], wrk[v].job, late)
        BY <1>8, Zenon DEF InFlight, QueueInv
      <4>2. \A i \in 1..Len(taskQueue') :
              /\ Alone(taskQueue'[i], net, inbox, cli, late)
              /\ \A j \in 1..Len(taskQueue') : i # j => Apart(taskQueue'[i], taskQueue'[j], late)
        <5>1. \A i, j \in 1..Len(taskQueue') : i # j => i + 1 # j + 1
          BY <3>4
        <5> QED BY <3>4, <3>5, <4>1, <5>1, Zenon
      <4>3. \A i \in 1..Len(taskQueue') : \A v \in Workers : wrk'[v].job # NoJob =>
              Apart(taskQueue'[i], wrk'[v].job, late)
        <5>1. \A i \in 1..Len(taskQueue') : Apart(taskQueue'[i], taskQueue[1], late)
          <6>1. 1 \in 1..Len(taskQueue)
            BY <3>4
          <6> QED BY <3>4, <3>5, <4>1, <6>1, Zenon
        <5>2. \A i \in 1..Len(taskQueue') : \A v \in Workers : wrk[v].job # NoJob =>
                Apart(taskQueue'[i], wrk[v].job, late)
          BY <3>4, <3>5, <4>1, Zenon
        <5> QED BY <3>2, <3>3, <5>1, <5>2, Zenon
      <4> QED BY <1>a, <3>1, <4>2, <4>3, Zenon DEF QueueInv
    <3>7. /\ Alone(taskQueue[1], net, inbox, cli, late)
          /\ \A v \in Workers : wrk[v].job # NoJob =>
               Apart(taskQueue[1], wrk[v].job, late) /\ Apart(wrk[v].job, taskQueue[1], late)
      BY <1>8, <3>4, JobTypes, Alones DEF InFlight, QueueInv
    <3>8. RunInv'
      BY <1>8, <1>a, <3>1, <3>2, <3>3, <3>7, SMTT(30) DEF InFlight, RunInv
    <3>9. WireInv'
      BY <1>a, <3>1, Zenon DEF InFlight, WireInv
    <3> QED BY <1>8, <1>a, <3>6, <3>8, <3>9, Zenon DEF InFlight, HereInv
  <2> QED BY <2>1, <2>2, Zenon
<1>9. ASSUME NEW w \in Workers, ProcessCall(w), transport = "pool" PROVE InFlight'
  <2>1. /\ wrk'[w].job = NoJob
        /\ \A v \in Workers : v # w => wrk'[v] = wrk[v]
    BY <1>9, Zenon DEF ProcessCall, RpcTypeOK
  <2>2. /\ UNCHANGED <<net, cli, late, taskQueue>>
        /\ wrk[w].job # NoJob /\ wrk[w].job \in Msg
        /\ inbox' \in {inbox, [inbox EXCEPT ![wrk[w].job[1]] = @ \cup {wrk[w].job}]}
    BY <1>9, JobTypes, Zenon DEF ProcessCall, Replies, stub, JobInv
  <2>3. \A c \in Clients : \A m \in inbox'[c] : m \in inbox[c] \/ (m = wrk[w].job /\ c = m[1])
    BY <2>2, JobTypes DEF RpcTypeOK
  <2>4. Alone(wrk[w].job, net, inbox, cli, late)
    BY <1>9, <2>2, Zenon DEF InFlight, RunInv
  <2>5. Expected(wrk[w].job, cli, late) /\ \A m \in net : Apart(m, wrk[w].job, late)
    BY <2>2, <2>4, JobTypes, Alones, Zenon
  <2>6. WireInv'
    BY <1>a, <2>2, <2>3, <2>5, JobTypes DEF InFlight, WireInv
  <2>7. \A m \in Msg : Alone(m, net, inbox, cli, late) /\ Apart(m, wrk[w].job, late) =>
          Alone(m, net, inbox', cli, late)
    BY <2>3, JobTypes, Alones
  <2>8. QueueInv'
    BY <1>9, <1>a, <2>1, <2>2, <2>7, JobTypes DEF InFlight, QueueInv
  <2>9. RunInv'
    BY <1>9, <1>a, <2>1, <2>2, <2>7, JobTypes DEF InFlight, RunInv
  <2> QED BY <1>9, <1>a, <2>6, <2>8, <2>9, Zenon DEF InFlight, HereInv
<1>10. CASE Duplicate
  <2>1. PICK t \in Threads[transport] :
          /\ thr[t].job # NoJob /\ transport = "udp"
          /\ net' = net \cup {thr[t].job} /\ late' = late \cup {thr[t].job[1]}
    BY <1>10, Zenon DEF Duplicate
  <2>2. UNCHANGED <<thr, inbox, cli, taskQueue, wrk>>
    BY <1>10, Zenon DEF Duplicate, srv, pool
  <2>3. /\ thr[t].job \in Msg /\ Alone(thr[t].job, net, inbox, cli, late)
    BY <2>1, JobTypes, Zenon DEF InFlight, HereInv
  <2>4. /\ \A m, k \in Msg : Apart(m, k, late) => Apart(m, k, late')
        /\ \A m \in Msg : Expected(m, cli, late) => Expected(m, cli, late')
        /\ \A m \in Msg : Apart(m, thr[t].job, late') /\ Apart(thr[t].job, m, late')
    BY <2>1, Zenon DEF Apart, Expected
  <2>5. \A m \in Msg : Alone(m, net, inbox, cli, late) => Alone(m, net', inbox, cli, late')
    BY <2>1, <2>4, JobTypes, Zenon DEF Alone
  <2>6. HereInv' /\ QueueInv' /\ RunInv'
    BY <1>a, <2>2, <2>4, <2>5, JobsStay, Zenon DEF InFlight
  <2>7. Expected(thr[t].job, cli, late')
    BY <2>3, <2>4, Zenon DEF Alone
  <2>8. WireInv'
    <3>1. \A m \in net' : m \in Msg /\ Expected(m, cli, late')
      BY <2>1, <2>3, <2>4, <2>7, JobTypes, Zenon DEF InFlight, WireInv
    <3>2. \A m \in net' : \A k \in inbox[m[1]] : Apart(m, k, late')
      <4>1. \A m \in net : \A k \in inbox[m[1]] : Apart(m, k, late)
        BY <2>1, Zenon DEF InFlight, WireInv
      <4>2. \A m \in net : m \in Msg /\ \A k \in inbox[m[1]] : k \in Msg
        BY JobTypes, Zenon
      <4>3. \A k \in inbox[thr[t].job[1]] : k \in Msg
        BY <2>3, JobTypes, Zenon
      <4> QED BY <2>1, <2>4, <4>1, <4>2, <4>3, Zenon
    <3>3. \A c \in Clients : \A m \in inbox[c] : m[1] = c /\ Expected(m, cli, late')
      BY <2>1, <2>4, JobTypes, Zenon DEF InFlight, WireInv
    <3> QED BY <1>a, <2>2, <3>1, <3>2, <3>3, Zenon DEF WireInv
  <2> QED BY <2>6, <2>8, Zenon DEF InFlight
<1>11. ASSUME NEW c \in Clients, UdpCall(c) PROVE InFlight'
  <2> DEFINE call == <<c, cli[c].n + 1>>
  <2>1. /\ cli'[c] = [n |-> cli[c].n + 1, at |-> "wait"]
        /\ \A d \in Clients : d # c => cli'[d] = cli[d]
        /\ cli[c].at = "idle"
    BY <1>11, Zenon DEF UdpCall, RpcTypeOK
  <2>2. net' = net \cup {call} /\ UNCHANGED <<inbox, late, thr, taskQueue, wrk>> /\ transport # "tcp"
    BY <1>11, Zenon DEF UdpCall, srv, pool
  <2>3. call \in Msg /\ call[1] = c /\ call[2] = cli[c].n + 1
    <3>1. cli[c].n \in Nat
      BY JobTypes, Zenon
    <3> QED BY <3>1 DEF Msg
  <2>4. \A m \in Msg : Expected(m, cli, late) =>
          /\ Expected(m, cli', late)
          /\ Apart(m, call, late) /\ Apart(call, m, late)
    BY <2>1, <2>3, JobTypes DEF Expected, Apart
  <2>5. Expected(call, cli', late)
    BY <2>1, <2>3, JobTypes DEF Expected
  <2> HIDE DEF call
  <2>6. \A m \in Msg : Alone(m, net, inbox, cli, late) => Alone(m, net', inbox, cli', late)
    BY <2>2, <2>4, Zenon DEF Alone
  <2>7. HereInv' /\ QueueInv' /\ RunInv'
    BY <1>a, <2>2, <2>6, JobsStay, Zenon DEF InFlight
  <2>8. WireInv'
    BY <1>a, <2>2, <2>3, <2>4, <2>5, JobTypes DEF InFlight, WireInv
  <2> QED BY <2>7, <2>8, Zenon DEF InFlight
<1>12. ASSUME NEW c \in Clients, UdpRecv(c) PROVE InFlight'
  <2>1. /\ cli'[c].at = "idle" /\ cli'[c].n = cli[c].n
        /\ \A d \in Clients : d # c => cli'[d] = cli[d]
    BY <1>12 DEF UdpRecv, RpcTypeOK, Client
  <2>2. PICK m \in inbox[c] : inbox' = [inbox EXCEPT ![c] = @ \ {m}]
    BY <1>12, Zenon DEF UdpRecv
  <2>3. UNCHANGED <<net, late, thr, taskQueue, wrk>> /\ transport # "tcp"
    BY <1>12, Zenon DEF UdpRecv, srv, pool
  <2>4. m[1] = c /\ Expected(m, cli, late) /\ m \in Msg
    BY <2>3, JobTypes, Zenon DEF InFlight, WireInv
  <2>5. inbox'[c] = inbox[c] \ {m} /\ \A d \in Clients : d # c => inbox'[d] = inbox[d]
    BY <2>2, Zenon DEF RpcTypeOK
  <2>6. \A k \in Msg : Expected(k, cli, late) /\ (Apart(k, m, late) \/ k[1] # c) =>
          Expected(k, cli', late)
    BY <2>1, <2>4, JobTypes, Zenon DEF Expected, Apart
  <2>7. \A k \in Msg : Alone(k, net, inbox, cli, late) => Alone(k, net, inbox', cli', late)
    BY <2>4, <2>5, <2>6, JobTypes, Zenon DEF Alone
  <2>8. HereInv' /\ QueueInv' /\ RunInv'
    BY <1>a, <2>3, <2>7, JobsStay, Zenon DEF InFlight
  <2>9. \A k \in inbox[c] : k # m => Apart(k, m, late)
    BY <2>3, <2>4, JobTypes DEF InFlight, WireInv, Expected, Apart
  <2>10. WireInv'
    <3>1. \A k \in net : Expected(k, cli', late)
      BY <2>3, <2>4, <2>6, JobTypes, Zenon DEF InFlight, WireInv
    <3>2. \A d \in Clients : \A k \in inbox'[d] : k \in inbox[d] /\ k[1] = d /\ Expected(k, cli', late)
      BY <2>3, <2>5, <2>6, <2>9, JobTypes, Zenon DEF InFlight, WireInv
    <3> QED BY <1>a, <2>3, <3>1, <3>2, JobTypes, Zenon DEF InFlight, WireInv
  <2> QED BY <2>8, <2>10, Zenon DEF InFlight
<1>13. ASSUME NEW c \in Clients, UdpTimeout(c) PROVE InFlight'
  <2>1. /\ cli'[c].n = cli[c].n /\ \A d \in Clients : d # c => cli'[d] = cli[d]
        /\ late' = late \cup {c}
    BY <1>13, Zenon DEF UdpTimeout, RpcTypeOK, Client
  <2>2. UNCHANGED <<net, inbox, thr, taskQueue, wrk>> /\ transport # "tcp"
    BY <1>13, Zenon DEF UdpTimeout, srv, pool, wire
  <2>3. /\ \A m, k \in Msg : Apart(m, k, late) => Apart(m, k, late')
        /\ \A m \in Msg : Expected(m, cli, late) => Expected(m, cli', late')
    BY <2>1, JobTypes, Zenon DEF Apart, Expected
  <2>4. \A m \in Msg : Alone(m, net, inbox, cli, late) => Alone(m, net, inbox, cli', late')
    BY <2>3, JobTypes, Zenon DEF Alone
  <2>5. HereInv' /\ QueueInv' /\ RunInv'
    BY <1>a, <2>2, <2>3, <2>4, JobsStay, Zenon DEF InFlight
  <2>6. WireInv'
    BY <1>a, <2>2, <2>3, JobTypes, Zenon DEF InFlight, WireInv
  <2> QED BY <2>5, <2>6, Zenon DEF InFlight
<1>14. ASSUME transport = "udp", \E w \in Workers : BGThread(w) \/ ProcessCall(w) PROVE InFlight'
  <2>1. PICK w \in Workers : BGThread(w)
    BY <1>14, Zenon DEF ProcessCall, JobInv
  <2>2. UNCHANGED <<net, inbox, cli, late, thr>>
    BY <2>1, Zenon DEF BGThread, srv, wire, stub
  <2>3. WireInv'
    BY <1>a, <2>2, Zenon DEF InFlight, WireInv
  <2>4. HereInv'
    BY <1>a, <2>2, Zenon DEF InFlight, HereInv
  <2> QED BY <1>14, <1>a, <2>3, <2>4, Zenon DEF InFlight, QueueInv, RunInv
<1>15. transport \in {"udp", "pool", "tcp"}
  BY RpcAssumption, Zenon DEF RpcTypeOK
<1>16. (\E t \in Threads[transport] : TcpRead(t) \/ TcpReply(t) \/ \E m \in Calls : TcpAccept(t, m))
       \/ (\E c \in Clients : TcpConnect(c) \/ TcpSend(c) \/ TcpRecv(c) \/ TcpTimeout(c))
       => transport = "tcp"
  BY Zenon DEF TcpRead, TcpReply, TcpAccept, TcpConnect, TcpSend, TcpRecv, TcpTimeout
<1> QED
  BY <1>b, <1>1, <1>2, <1>3, <1>4, <1>5, <1>6, <1>7, <1>8, <1>9, <1>10, <1>11, <1>12, <1>13,
     <1>14, <1>15, <1>16, Zenon DEF RpcNext

\* What a call returned, for the steps of its client and of the network.
LEMMA AnswerStep ==
  RpcTypeOK /\ WireInv /\ AnswerInv /\ [RpcNext]_rpcVars => AnswerInv'
<1> SUFFICES ASSUME RpcTypeOK, WireInv, AnswerInv, [RpcNext]_rpcVars PROVE AnswerInv'
  BY Zenon
<1>a. (\A c \in Clients : cli[c].n \in Nat) /\ (\A m \in Msg : m[2] \in Nat)
  BY JobTypes, Zenon
<1>b. ASSUME NEW c \in Clients, NEW at \in {"wait", "send"},
             cli[c].at = "idle", cli'[c].n = cli[c].n + 1, cli'[c].at = at,
             \A d \in Clients : d # c => cli'[d] = cli[d], UNCHANGED <<got, late>>
      PROVE  AnswerInv'
  <2>1. SUFFICES ASSUME NEW d \in Clients, got[d].ok, got[d].rep # "none"
                 PROVE  /\ got[d].job \in Msg /\ got[d].job[1] = d /\ got[d].job[2] <= cli'[d].n
                        /\ d \notin late =>
                             got[d].job[2] = cli'[d].n - (IF cli'[d].at = "idle" THEN 0 ELSE 1)
    BY <1>b, Zenon DEF AnswerInv
  <2>2. CASE d = c
    BY <1>a, <1>b, <2>1, <2>2 DEF AnswerInv
  <2>3. CASE d # c
    BY <1>b, <2>1, <2>3 DEF AnswerInv
  <2> QED BY <2>2, <2>3, Zenon
<1>c. ASSUME NEW c \in Clients, ~got'[c].ok, late \subseteq late',
             \A d \in Clients : d # c => cli'[d] = cli[d] /\ got'[d] = got[d]
      PROVE  AnswerInv'
  <2>1. SUFFICES ASSUME NEW d \in Clients, got'[d].ok, got'[d].rep # "none"
                 PROVE  /\ got'[d].job \in Msg /\ got'[d].job[1] = d /\ got'[d].job[2] <= cli'[d].n
                        /\ d \notin late' =>
                             got'[d].job[2] = cli'[d].n - (IF cli'[d].at = "idle" THEN 0 ELSE 1)
    BY Zenon DEF AnswerInv
  <2>2. cli'[d] = cli[d] /\ got'[d] = got[d] /\ (d \notin late' => d \notin late)
    BY <1>c, <2>1, Zenon
  <2>3. got[d].ok /\ got[d].rep # "none"
    BY <2>1, <2>2, Zenon
  <2>4. /\ got[d].job \in Msg /\ got[d].job[1] = d /\ got[d].job[2] <= cli[d].n
        /\ d \notin late => got[d].job[2] = cli[d].n - (IF cli[d].at = "idle" THEN 0 ELSE 1)
    BY <2>3, Zenon DEF AnswerInv
  <2> QED BY <2>2, <2>4, Zenon
<1>1. CASE UNCHANGED <<cli, got>> /\ late \subseteq late'
  BY <1>1, Zenon DEF AnswerInv
<1>2. ASSUME NEW c \in Clients, UdpCall(c) PROVE AnswerInv'
  <2>1. /\ cli'[c] = [n |-> cli[c].n + 1, at |-> "wait"] /\ cli[c].at = "idle"
        /\ \A d \in Clients : d # c => cli'[d] = cli[d]
        /\ UNCHANGED <<got, late>>
    BY <1>2, Zenon DEF UdpCall, RpcTypeOK
  <2>2. cli'[c].n = cli[c].n + 1 /\ cli'[c].at = "wait"
    BY <2>1
  <2> QED BY <1>b, <2>1, <2>2, Zenon
<1>3. ASSUME NEW c \in Clients, UdpRecv(c) PROVE AnswerInv'
  <2>1. /\ cli'[c].at = "idle" /\ cli'[c].n = cli[c].n /\ UNCHANGED late
        /\ \A d \in Clients : d # c => cli'[d] = cli[d] /\ got'[d] = got[d]
    BY <1>3 DEF UdpRecv, RpcTypeOK, Client
  <2>2. PICK m \in inbox[c] : got' = [got EXCEPT ![c] = [ok |-> TRUE, job |-> m, rep |-> "whole"]]
    BY <1>3, Zenon DEF UdpRecv
  <2>3. got'[c].job = m
    BY <2>2, Zenon DEF RpcTypeOK
  <2>4. m \in Msg /\ m[1] = c /\ Expected(m, cli, late)
    BY <1>3, JobTypes, Zenon DEF UdpRecv, WireInv
  <2> QED BY <2>1, <2>3, <2>4, JobTypes, SMTT(30) DEF AnswerInv, Expected
<1>4. ASSUME NEW c \in Clients, UdpTimeout(c) \/ TcpTimeout(c) PROVE AnswerInv'
  <2>1. ~got'[c].ok /\ late \subseteq late'
    BY <1>4 DEF UdpTimeout, TcpTimeout, Failed, RpcTypeOK
  <2>2. \A d \in Clients : d # c => cli'[d] = cli[d] /\ got'[d] = got[d]
    BY <1>4, Zenon DEF UdpTimeout, TcpTimeout, RpcTypeOK
  <2> QED BY <1>c, <2>1, <2>2, Zenon
<1>5. ASSUME NEW c \in Clients, TcpConnect(c) PROVE AnswerInv'
  <2>1. /\ UNCHANGED late
        /\ \A d \in Clients : d # c => cli'[d] = cli[d] /\ got'[d] = got[d]
    BY <1>5, Zenon DEF TcpConnect, RpcTypeOK
  <2>2. CASE fdOpen
    <3>1. cli'[c] = [n |-> cli[c].n + 1, at |-> "send"] /\ cli[c].at = "idle" /\ UNCHANGED got
      BY <1>5, <2>2, Zenon DEF TcpConnect, RpcTypeOK
    <3>2. cli'[c].n = cli[c].n + 1 /\ cli'[c].at = "send"
      BY <3>1
    <3> QED BY <1>b, <2>1, <3>1, <3>2, Zenon
  <2>3. CASE ~fdOpen
    <3>1. ~got'[c].ok
      BY <1>5, <2>3 DEF TcpConnect, Failed, RpcTypeOK
    <3> QED BY <1>c, <2>1, <3>1, Zenon
  <2> QED BY <2>2, <2>3, Zenon
<1>6. ASSUME NEW c \in Clients, TcpSend(c) PROVE AnswerInv'
  <2>1. /\ UNCHANGED late /\ cli[c].at = "send" /\ cli'[c].n = cli[c].n
        /\ \A d \in Clients : d # c => cli'[d] = cli[d] /\ got'[d] = got[d]
    BY <1>6 DEF TcpSend, RpcTypeOK, Client
  <2>2. (cli'[c].at = "wait" /\ UNCHANGED got) \/ ~got'[c].ok
    BY <1>6 DEF TcpSend, Failed, RpcTypeOK, Client
  <2> QED BY <2>1, <2>2 DEF AnswerInv
<1>7. ASSUME NEW c \in Clients, TcpRecv(c) PROVE AnswerInv'
  <2>1. /\ cli'[c].at = "idle" /\ cli'[c].n = cli[c].n /\ UNCHANGED late
        /\ \A d \in Clients : d # c => cli'[d] = cli[d] /\ got'[d] = got[d]
    BY <1>7, Zenon DEF TcpRecv, RpcTypeOK, Client
  <2>2. got'[c].job = <<c, cli[c].n>>
    BY <1>7, Zenon DEF TcpRecv, Mine, RpcTypeOK
  <2>3. <<c, cli[c].n>> \in Msg /\ cli[c].n \in Nat
    BY JobTypes, Zenon DEF Msg
  <2> QED BY <2>1, <2>2, <2>3 DEF AnswerInv
<1>8. CASE \/ OpenAndBind \/ BGStart \/ BGStarted \/ BGStop \/ BGStopped \/ Destroy \/ Drained
           \/ PoolStop \/ PoolStopped \/ Pause \/ Resume \/ Duplicate \/ UNCHANGED rpcVars
  <2>1. UNCHANGED <<cli, got>> /\ late \subseteq late'
    BY <1>8, Zenon DEF OpenAndBind, BGStart, BGStarted, BGStop, BGStopped, Destroy, Drained, PoolStop,
                PoolStopped, Pause, Resume, Duplicate, stub, rpcVars
  <2> QED BY <1>1, <2>1, Zenon
<1>9. ASSUME \/ \E t \in Threads[transport] :
                  \/ BGCallBegin(t) \/ BGLoopEnds(t) \/ BGCallEnd(t)
                  \/ ProcessCallHere(t) \/ TcpRead(t) \/ TcpReply(t)
                  \/ \E m \in net : RecvRequest(t, m)
                  \/ \E m \in Calls : TcpAccept(t, m)
             \/ \E w \in Workers : BGThread(w) \/ ProcessCall(w) \/ ProcessCallEnd(w)
      PROVE  AnswerInv'
  <2>1. UNCHANGED <<cli, got>> /\ late \subseteq late'
    BY <1>9, ZenonT(30) DEF BGCallBegin, BGLoopEnds, BGCallEnd, ProcessCallHere, TcpRead, TcpReply,
                RecvRequest, TcpAccept, BGThread, ProcessCall, ProcessCallEnd, stub
  <2> QED BY <1>1, <2>1, Zenon
<1> QED
  BY <1>2, <1>3, <1>4, <1>5, <1>6, <1>7, <1>8, <1>9, Zenon DEF RpcNext

LEMMA CallsInitially == RpcInit => InFlight /\ AnswerInv
<1> SUFFICES ASSUME RpcInit PROVE InFlight /\ AnswerInv
  BY Zenon
<1>1. WireInv /\ HereInv /\ QueueInv /\ RunInv
  <2>1. /\ net = {} /\ taskQueue = <<>> /\ \A c \in Clients : inbox[c] = {}
        /\ \A t \in Threads[transport] : thr[t].job = NoJob
        /\ \A w \in Workers : wrk[w].job = NoJob
    BY Zenon DEF RpcInit
  <2>2. WireInv
    BY <2>1, Zenon DEF WireInv
  <2>3. QueueInv
    <3>1. Len(taskQueue) = 0
      BY <2>1, Zenon
    <3>2. ~\E i : i \in 1..Len(taskQueue)
      BY <3>1
    <3> QED BY <3>2, Zenon DEF QueueInv
  <2> QED BY <2>1, <2>2, <2>3, Zenon DEF HereInv, RunInv
<1>2. AnswerInv
  BY Zenon DEF RpcInit, AnswerInv, Failed
<1> QED BY <1>1, <1>2, Zenon DEF InFlight

-----------------------------------------------------------------------------
(* The counts.                                                             *)

INSTANCE FiniteSetTheorems

LEMMA Counts == Counting
<1>1. IsFiniteSet({}) /\ Cardinality({}) = 0 /\ \A S : IsFiniteSet(S) => (Cardinality(S) = 0 <=> S = {})
  BY FS_EmptySet, Zenon
<1>2. \A S : IsFiniteSet(S) => Cardinality(S) \in Nat
  BY FS_CardinalityType, Zenon
<1>3. \A S, T : IsFiniteSet(S) /\ T \subseteq S =>
          /\ IsFiniteSet(T) /\ Cardinality(T) <= Cardinality(S)
          /\ Cardinality(S) = Cardinality(T) => S = T
  BY FS_Subset, Zenon
<1>4. \A S, x : IsFiniteSet(S) =>
          /\ IsFiniteSet(S \cup {x})
          /\ Cardinality(S \cup {x}) = IF x \in S THEN Cardinality(S) ELSE Cardinality(S) + 1
  BY FS_AddElement, Zenon
<1>5. \A S, x : IsFiniteSet(S) =>
          /\ IsFiniteSet(S \ {x})
          /\ Cardinality(S \ {x}) = IF x \in S THEN Cardinality(S) - 1 ELSE Cardinality(S)
  BY FS_RemoveElement, Zenon
<1> QED BY <1>1, <1>2, <1>3, <1>4, <1>5, Zenon DEF Counting

LEMMA ServerInvariant == RpcSpec => [](RpcTypeOK /\ ServerInv /\ JobInv)
<1>1. RpcInit => RpcTypeOK /\ ServerInv /\ JobInv
  BY Counts, RpcTypesInitially, ServerInitially, JobsInitially, Zenon
<1>2. RpcTypeOK /\ ServerInv /\ JobInv /\ [RpcNext]_rpcVars => (RpcTypeOK /\ ServerInv /\ JobInv)'
  BY Counts, RpcTypesStep, ServerStep, JobStep, Zenon
<1> QED BY <1>1, <1>2, PTL DEF RpcSpec

(* No thread of a stopped server is still in BGLoop or has a call when ~PosixUDPServer
   closes the socket, and the pool's count of pending calls is exact (posix_rpc.cc,
   posix_bgrun.cc), for any number of threads, pool threads and clients. *)
THEOREM ServerAlwaysOutlivesCalls == RpcSpec => []ServerOutlivesCalls
<1>1. RpcTypeOK /\ ServerInv => ServerOutlivesCalls
  <2> SUFFICES ASSUME RpcTypeOK, ServerInv PROVE ServerOutlivesCalls
    BY Zenon
  <2>1. \A t \in Threads[transport] : thr[t].at \in {"loop", "read", "call", "leaving"} => fdOpen
    BY Zenon DEF ServerInv, RpcTypeOK, OwnerStates
  <2>2. count = Len(taskQueue) + Cardinality({w \in Workers : wrk[w].at \in {"run", "ran"}})
    BY Zenon DEF ServerInv, Working, Busy
  <2>3. count > 0 => fdOpen
    <3>1. count = 0 \/ fdOpen
      BY Zenon DEF ServerInv, RpcTypeOK, OwnerStates
    <3> QED BY <3>1
  <2> QED BY <2>1, <2>2, <2>3, Zenon DEF ServerOutlivesCalls
<1> QED BY <1>1, ServerInvariant, PTL

(* A client of the socket RPC takes only the reply to its own call, and no thread of a
   stopped server still has a call when ~PosixUDPServer closes the socket and ~RPCServer
   deletes the pool (posix_rpc_udp.cc, posix_rpc_tcp.cc, posix_bgrun.cc), for any number
   of threads, pool threads and clients. *)
THEOREM ServerAlwaysSound == RpcSpec => []ServerSound
<1>1. RpcTypeOK /\ ServerInv /\ JobInv /\ InFlight /\ AnswerInv /\ [RpcNext]_rpcVars
        => InFlight' /\ AnswerInv'
  BY FlightStep, AnswerStep, Zenon DEF InFlight
<1>2. AnswerInv => ReplyOfOwnCall
  BY Zenon DEF AnswerInv, ReplyOfOwnCall
<1>3. ReplyOfOwnCall /\ ServerOutlivesCalls => ServerSound
  BY Zenon DEF ServerSound
<1> QED
  BY <1>1, <1>2, <1>3, CallsInitially, ServerInvariant, ServerAlwaysOutlivesCalls, PTL DEF RpcSpec

-----------------------------------------------------------------------------
(* RPC::Open.                                                              *)

\* Whichever engine RPC::Open chose (rpc.cc), what is proved of the engine by itself holds of it:
\* the other one does not move.
THEOREM EnginesAlwaysSound == EngineSpec => [](ServerSound /\ CallbacksInTime)
<1>1. RpcOpen => RpcInit /\ HgInit
  BY Zenon DEF RpcOpen
<1>2. [EngineNext]_engineVars => [RpcNext]_rpcVars /\ [HgNext]_hgVars
  BY Zenon DEF EngineNext, SocketStep, MercuryStep, engineVars
<1> QED BY <1>1, <1>2, ServerAlwaysSound, CallbacksAlwaysInTime, PTL DEF EngineSpec, RpcSpec, HgSpec
=============================================================================
