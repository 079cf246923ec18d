----------------------------- MODULE SocketRpc -----------------------------
(***************************************************************************)
(* The socket RPC (src/posix/posix_rpc{,_udp,_tcp}.cc), the thread pool it *)
(* hands calls to (src/posix/posix_bgrun.cc) and the server that owns both *)
(* (RPCServer, src/rpc.cc): an owner thread that binds, starts, stops and  *)
(* destroys the server, the background threads that run BGLoop, the pool   *)
(* threads that process calls, the clients, and a network that loses,      *)
(* reorders and duplicates datagrams.                                      *)
(*                                                                         *)
(* A condition variable is a set of sleepers: SignalAll empties it, and a  *)
(* sleeper that wakes up takes the mutex and tests its condition again.    *)
(* Message contents are abstracted to the call they belong to, <<c, n>>    *)
(* for the n-th call of client c.                                          *)
(***************************************************************************)
EXTENDS Integers, Sequences, FiniteSets, Functions

CONSTANTS Threads,   \* Threads[transport]: background threads, num_rpc_threads of them
          Workers,   \* threads of the pool, max_threads_ of them
          Clients,   \* client stubs
          Modes,     \* subset of {"udp", "pool", "tcp"}: UDP with calls processed by
                     \* the background threads, UDP with extra_workers, TCP
          MaxCalls,  \* bound: calls of all clients
          MaxDups,   \* bound: datagrams duplicated
          MaxPauses  \* bound: Pause() of the pool

ASSUME RpcAssumption ==
  /\ Modes \subseteq {"udp", "pool", "tcp"} /\ MaxCalls \in Nat
  /\ \A m \in Modes : IsFiniteSet(Threads[m])
  /\ IsFiniteSet(Workers)

VARIABLES transport,
          owner,      \* where the owner of the server is
          ownerAsleep, \* sleepers on bg_cv_ of the server: the owner or nobody
          thr,        \* thr[t]: [at, job, err] of background thread t
          bgThreads, shutting, bgFailed,    \* bg_threads_, shutting_down_, bg_status_
          fdOpen,     \* fd_ is open
          count,      \* bg_count_
          taskQueue,      \* queue_ of the pool
          wrk,        \* wrk[w]: [at, job] of pool thread w
          poolShut, paused,
          net,        \* requests on their way to the server
          inbox,      \* inbox[c]: replies in the socket of client c
          conn,       \* conn[m]: the TCP connection of call m
          cli,        \* cli[c]: [n, at] of client c
          got,        \* got[c]: what the last call of client c returned
          late,       \* clients with a call that timed out, or with a duplicated datagram
          dups, pauses

srv  == <<owner, ownerAsleep, thr, bgThreads, shutting, bgFailed, fdOpen>>
pool == <<count, taskQueue, wrk, poolShut, paused, pauses>>
wire == <<net, inbox, conn, dups>>
stub == <<cli, got, late>>
rpcVars == <<transport, srv, pool, wire, stub>>

Calls   == Clients \X (1 .. MaxCalls)
Made    == FoldFunction(LAMBDA r, k : r.n + k, 0, cli)
NoJob   == <<>>
NoConn  == [st |-> "none", req |-> "none", rep |-> "none"]
Failed  == [ok |-> FALSE, job |-> NoJob, rep |-> "none"]

RpcInit ==
  /\ transport \in Modes
  /\ owner = "closed" /\ ownerAsleep = FALSE
  /\ thr = [t \in Threads[transport] |-> [at |-> "none", job |-> NoJob, err |-> FALSE]]
  /\ bgThreads = 0 /\ shutting = FALSE /\ bgFailed = FALSE /\ fdOpen = FALSE
  /\ count = 0 /\ taskQueue = <<>> /\ poolShut = FALSE /\ paused = FALSE /\ pauses = 0
  /\ wrk = [w \in Workers |-> [at |-> "none", job |-> NoJob]]
  /\ net = {} /\ inbox = [c \in Clients |-> {}] /\ dups = 0
  /\ conn = [m \in Calls |-> NoConn]
  /\ cli = [c \in Clients |-> [n |-> 0, at |-> "idle"]]
  /\ got = [c \in Clients |-> Failed]
  /\ late = {}

----------------------------------------------------------------------------
(* The owner: PosixRPC::Start and Stop, the destructors *)

\* A failure to open or bind leaves the server closed; it may be tried again.
OpenAndBind ==
  /\ owner = "closed"
  /\ owner' = "bound" /\ fdOpen' = TRUE
  /\ UNCHANGED <<transport, ownerAsleep, thr, bgThreads, shutting, bgFailed, pool, wire, stub>>

BGStart ==
  /\ owner = "bound"
  /\ thr' = [t \in Threads[transport] |-> [thr[t] EXCEPT !.at = "new"]]
  /\ owner' = "starting"
  /\ ownerAsleep' = (bgThreads < Cardinality(Threads[transport]))
  /\ UNCHANGED <<transport, bgThreads, shutting, bgFailed, fdOpen, pool, wire, stub>>

\* The owner wakes up in BGStart and finds all threads running, or sleeps again.
BGStarted ==
  /\ owner = "starting" /\ ~ownerAsleep
  /\ IF bgThreads < Cardinality(Threads[transport])
     THEN ownerAsleep' = TRUE /\ UNCHANGED owner
     ELSE owner' = "running" /\ UNCHANGED ownerAsleep
  /\ UNCHANGED <<transport, thr, bgThreads, shutting, bgFailed, fdOpen, pool, wire, stub>>

BGStop ==
  /\ owner \in {"bound", "running"}
  /\ shutting' = TRUE
  /\ owner' = "stopping"
  /\ ownerAsleep' = (bgThreads # 0)
  /\ UNCHANGED <<transport, thr, bgThreads, bgFailed, fdOpen, pool, wire, stub>>

BGStopped ==
  /\ owner = "stopping" /\ ~ownerAsleep
  /\ IF bgThreads # 0 THEN ownerAsleep' = TRUE /\ UNCHANGED owner
                      ELSE owner' = "stopped" /\ UNCHANGED ownerAsleep
  /\ UNCHANGED <<transport, thr, bgThreads, shutting, bgFailed, fdOpen, pool, wire, stub>>

\* ~PosixUDPServer: the server has stopped; it waits for the calls that are pending.
Destroy ==
  /\ owner = "stopped"
  /\ owner' = "draining"
  /\ ownerAsleep' = (count # 0)
  /\ UNCHANGED <<transport, thr, bgThreads, shutting, bgFailed, fdOpen, pool, wire, stub>>

\* All pending calls have been processed: ~PosixSocketServer closes the socket.
Drained ==
  /\ owner = "draining" /\ ~ownerAsleep
  /\ IF count # 0 THEN ownerAsleep' = TRUE /\ UNCHANGED <<owner, fdOpen>>
                  ELSE owner' = "poolStop" /\ fdOpen' = FALSE /\ UNCHANGED ownerAsleep
  /\ UNCHANGED <<transport, thr, bgThreads, shutting, bgFailed, pool, wire, stub>>

\* ~RPCServer deletes the pool after the rpc; ~PosixThreadPool wakes all pool threads
\* and waits for them to leave.
PoolStop ==
  /\ owner = "poolStop"
  /\ owner' = "poolWait" /\ poolShut' = TRUE
  /\ wrk' = [w \in Workers |-> IF wrk[w].at = "asleep" THEN [wrk[w] EXCEPT !.at = "awake"]
                                                       ELSE wrk[w]]
  /\ UNCHANGED <<transport, ownerAsleep, thr, bgThreads, shutting, bgFailed, fdOpen,
                 count, taskQueue, paused, pauses, wire, stub>>

PoolStopped ==
  /\ owner = "poolWait" /\ \A w \in Workers : wrk[w].at = "none"
  /\ owner' = "gone"
  /\ UNCHANGED <<transport, ownerAsleep, thr, bgThreads, shutting, bgFailed, fdOpen, pool, wire, stub>>

----------------------------------------------------------------------------
(* Background threads: BGCall around BGLoop *)

At(t, at) == thr' = [thr EXCEPT ![t].at = at]

BGCallBegin(t) ==
  /\ thr[t].at = "new" /\ At(t, "loop")
  /\ bgThreads' = bgThreads + 1
  /\ ownerAsleep' = (ownerAsleep /\ bgThreads' # Cardinality(Threads[transport]))
  /\ UNCHANGED <<transport, owner, shutting, bgFailed, fdOpen, pool, wire, stub>>

\* BGLoop ends because of the shutdown, or of an error of poll, recvfrom or accept.
BGLoopEnds(t) ==
  /\ thr[t].at = "loop"
  /\ \E err \in BOOLEAN :
       /\ err \/ shutting
       /\ thr' = [thr EXCEPT ![t] = [@ EXCEPT !.at = "leaving", !.err = err]]
  /\ UNCHANGED <<transport, owner, ownerAsleep, bgThreads, shutting, bgFailed, fdOpen, pool, wire, stub>>

BGCallEnd(t) ==
  /\ thr[t].at = "leaving" /\ At(t, "gone")
  /\ bgFailed' = (bgFailed \/ thr[t].err)
  /\ bgThreads' = bgThreads - 1
  /\ ownerAsleep' = (ownerAsleep /\ bgThreads' # 0)
  /\ UNCHANGED <<transport, owner, shutting, fdOpen, pool, wire, stub>>

\* PosixThreadPool::Schedule: the pool threads are started by the first call, and woken
\* when the queue was empty.  A pool that is shutting down takes no more work.
Schedule(job) ==
  IF poolShut THEN UNCHANGED <<taskQueue, wrk>>
  ELSE /\ taskQueue' = Append(taskQueue, job)
       /\ wrk' = [w \in Workers |->
                    IF wrk[w].at = "none" \/ (wrk[w].at = "asleep" /\ taskQueue = <<>>)
                    THEN [wrk[w] EXCEPT !.at = "awake"] ELSE wrk[w]]

\* A datagram is received: the call goes to the pool, or is processed here.
RecvRequest(t, m) ==
  /\ transport # "tcp" /\ thr[t].at = "loop" /\ ~shutting
  /\ net' = net \ {m}
  /\ IF transport = "pool"
     THEN count' = count + 1 /\ Schedule(m) /\ UNCHANGED thr
     ELSE thr' = [thr EXCEPT ![t] = [@ EXCEPT !.at = "call", !.job = m]] /\ UNCHANGED <<count, taskQueue, wrk>>
  /\ UNCHANGED <<transport, owner, ownerAsleep, bgThreads, shutting, bgFailed, fdOpen,
                 poolShut, paused, pauses, inbox, conn, dups, stub>>

\* Mutant: the address of the caller is the one of whoever called last.
RepliesAstray(m) ==
  /\ inbox' \in {inbox} \cup {[inbox EXCEPT ![c] = @ \cup {m}] : c \in Clients}
  /\ UNCHANGED <<net, conn, dups>>

\* ProcessCall: a reply is sent when the callback succeeded; sending may fail, and the
\* network may lose it.
Replies(m) ==
  inbox' \in {inbox, [inbox EXCEPT ![m[1]] = @ \cup {m}]} /\ UNCHANGED <<net, conn, dups>>

ProcessCallHere(t) ==
  /\ transport = "udp" /\ thr[t].at = "call"
  /\ Replies(thr[t].job)
  /\ thr' = [thr EXCEPT ![t] = [@ EXCEPT !.at = "loop", !.job = NoJob]]
  /\ UNCHANGED <<transport, owner, ownerAsleep, bgThreads, shutting, bgFailed, fdOpen, pool, stub>>

----------------------------------------------------------------------------
(* The thread pool *)

\* BGThread: a pool thread that is awake leaves, sleeps or takes the oldest item.
BGThread(w) ==
  /\ wrk[w].at = "awake"
  /\ IF poolShut
     THEN wrk' = [wrk EXCEPT ![w].at = "none"] /\ UNCHANGED taskQueue
     ELSE IF paused \/ taskQueue = <<>>
     THEN wrk' = [wrk EXCEPT ![w].at = "asleep"] /\ UNCHANGED taskQueue
     ELSE /\ wrk' = [wrk EXCEPT ![w] = [at |-> "run", job |-> Head(taskQueue)]]
          /\ taskQueue' = Tail(taskQueue)
  /\ UNCHANGED <<transport, srv, count, poolShut, paused, pauses, wire, stub>>

ProcessCall(w) ==
  /\ wrk[w].at = "run"
  /\ Replies(wrk[w].job)
  /\ wrk' = [wrk EXCEPT ![w] = [at |-> "ran", job |-> NoJob]]
  /\ UNCHANGED <<transport, srv, count, taskQueue, poolShut, paused, pauses, stub>>

\* The end of ProcessCallWrapper: the last call wakes the destructor.
ProcessCallEnd(w) ==
  /\ wrk[w].at = "ran"
  /\ wrk' = [wrk EXCEPT ![w].at = "awake"]
  /\ count' = count - 1
  /\ ownerAsleep' = (ownerAsleep /\ count' # 0)
  /\ UNCHANGED <<transport, owner, thr, bgThreads, shutting, bgFailed, fdOpen,
                 taskQueue, poolShut, paused, pauses, wire, stub>>

Pause ==
  /\ transport = "pool" /\ pauses < MaxPauses /\ ~paused /\ ~poolShut
  /\ paused' = TRUE /\ pauses' = pauses + 1
  /\ UNCHANGED <<transport, srv, count, taskQueue, wrk, poolShut, wire, stub>>

\* Mutant: Resume wakes nobody.
ResumeSilent ==
  /\ paused
  /\ paused' = FALSE
  /\ UNCHANGED <<transport, srv, count, taskQueue, wrk, poolShut, pauses, wire, stub>>

Resume ==
  /\ paused
  /\ paused' = FALSE
  /\ wrk' = [w \in Workers |-> IF wrk[w].at = "asleep" THEN [wrk[w] EXCEPT !.at = "awake"]
                                                       ELSE wrk[w]]
  /\ UNCHANGED <<transport, srv, count, taskQueue, poolShut, pauses, wire, stub>>

----------------------------------------------------------------------------
(* UDP clients and the network *)

\* Call sends its request; a request that the server never receives is a lost one.
UdpCall(c) ==
  /\ transport # "tcp" /\ cli[c].at = "idle" /\ Made < MaxCalls
  /\ cli' = [cli EXCEPT ![c] = [n |-> cli[c].n + 1, at |-> "wait"]]
  /\ net' = net \cup {<<c, cli[c].n + 1>>}
  /\ UNCHANGED <<transport, srv, pool, inbox, conn, dups, got, late>>

\* Any datagram in the socket is taken for the reply.
UdpRecv(c) ==
  /\ transport # "tcp" /\ cli[c].at = "wait"
  /\ \E m \in inbox[c] :
       /\ inbox' = [inbox EXCEPT ![c] = @ \ {m}]
       /\ got' = [got EXCEPT ![c] = [ok |-> TRUE, job |-> m, rep |-> "whole"]]
  /\ cli' = [cli EXCEPT ![c].at = "idle"]
  /\ UNCHANGED <<transport, srv, pool, net, conn, dups, late>>

\* poll() times out with nothing in the socket, or recv fails.
UdpTimeout(c) ==
  /\ transport # "tcp" /\ cli[c].at = "wait" /\ inbox[c] = {}
  /\ cli' = [cli EXCEPT ![c].at = "idle"]
  /\ got' = [got EXCEPT ![c] = Failed]
  /\ late' = late \cup {c}
  /\ UNCHANGED <<transport, srv, pool, wire>>

\* A request reaches the server twice.
Duplicate ==
  /\ dups < MaxDups
  /\ \E t \in Threads[transport] : thr[t].job # NoJob /\ transport = "udp"
       /\ net' = net \cup {thr[t].job} /\ late' = late \cup {thr[t].job[1]}
  /\ dups' = dups + 1
  /\ UNCHANGED <<transport, srv, pool, inbox, conn, cli, got>>

----------------------------------------------------------------------------
(* TCP *)

Mine(c) == <<c, cli[c].n>>

\* Call connects: without a listening socket it fails.
TcpConnect(c) ==
  /\ transport = "tcp" /\ cli[c].at = "idle" /\ Made < MaxCalls
  /\ IF fdOpen
     THEN /\ cli' = [cli EXCEPT ![c] = [n |-> cli[c].n + 1, at |-> "send"]]
          /\ conn' = [conn EXCEPT ![<<c, cli[c].n + 1>>] =
                        [st |-> "queued", req |-> "part", rep |-> "none"]]
          /\ UNCHANGED got
     ELSE /\ cli' = [cli EXCEPT ![c].n = @ + 1]
          /\ got' = [got EXCEPT ![c] = Failed]
          /\ UNCHANGED conn
  /\ UNCHANGED <<transport, srv, pool, net, inbox, dups, late>>

\* The request is sent whole and the sending half shut down, or send fails and the
\* connection is closed.
TcpSend(c) ==
  /\ transport = "tcp" /\ cli[c].at = "send"
  /\ \/ /\ conn' = [conn EXCEPT ![Mine(c)].req = "whole"]
        /\ cli' = [cli EXCEPT ![c].at = "wait"]
        /\ UNCHANGED got
     \/ /\ conn' = [conn EXCEPT ![Mine(c)].req = "cut"]
        /\ cli' = [cli EXCEPT ![c].at = "idle"]
        /\ got' = [got EXCEPT ![c] = Failed]
  /\ UNCHANGED <<transport, srv, pool, net, inbox, dups, late>>

TcpAccept(t, m) ==
  /\ transport = "tcp" /\ thr[t].at = "loop" /\ ~shutting /\ conn[m].st = "queued"
  /\ conn' = [conn EXCEPT ![m].st = "served"]
  /\ thr' = [thr EXCEPT ![t] = [@ EXCEPT !.at = "read", !.job = m]]
  /\ UNCHANGED <<transport, owner, ownerAsleep, bgThreads, shutting, bgFailed, fdOpen,
                 pool, net, inbox, dups, stub>>

\* HandleIncomingCall takes the end of the stream for the end of the message; a sender
\* that is too slow has its connection closed.
TcpRead(t) ==
  /\ transport = "tcp" /\ thr[t].at = "read"
  /\ LET m == thr[t].job IN
     IF conn[m].req = "part"
     THEN /\ conn' = [conn EXCEPT ![m].st = "closed"]
          /\ thr' = [thr EXCEPT ![t] = [@ EXCEPT !.at = "loop", !.job = NoJob]]
     ELSE At(t, "call") /\ UNCHANGED conn
  /\ UNCHANGED <<transport, owner, ownerAsleep, bgThreads, shutting, bgFailed, fdOpen,
                 pool, net, inbox, dups, stub>>

\* The status of the callback is ignored: what it failed to fill in is an empty reply.
\* The reply is sent, or cut short by an error; either way the connection is closed.
TcpReply(t) ==
  /\ transport = "tcp" /\ thr[t].at = "call"
  /\ \E rep \in {"none", "part", "whole"} :
       conn' = [conn EXCEPT ![thr[t].job] = [@ EXCEPT !.st = "closed", !.rep = rep]]
  /\ thr' = [thr EXCEPT ![t] = [@ EXCEPT !.at = "loop", !.job = NoJob]]
  /\ UNCHANGED <<transport, owner, ownerAsleep, bgThreads, shutting, bgFailed, fdOpen,
                 pool, net, inbox, dups, stub>>

\* The client, too, takes the end of the stream for the end of the message.
TcpRecv(c) ==
  /\ transport = "tcp" /\ cli[c].at = "wait" /\ conn[Mine(c)].st = "closed"
  /\ got' = [got EXCEPT ![c] = [ok |-> TRUE, job |-> Mine(c), rep |-> conn[Mine(c)].rep]]
  /\ cli' = [cli EXCEPT ![c].at = "idle"]
  /\ UNCHANGED <<transport, srv, pool, wire, late>>

TcpTimeout(c) ==
  /\ transport = "tcp" /\ cli[c].at = "wait" /\ conn[Mine(c)].st # "closed"
  /\ got' = [got EXCEPT ![c] = Failed]
  /\ cli' = [cli EXCEPT ![c].at = "idle"]
  /\ UNCHANGED <<transport, srv, pool, wire, late>>

----------------------------------------------------------------------------
RpcNext ==
  \/ OpenAndBind \/ BGStart \/ BGStarted \/ BGStop \/ BGStopped \/ Destroy \/ Drained
  \/ PoolStop \/ PoolStopped
  \/ \E t \in Threads[transport] : \/ BGCallBegin(t) \/ BGLoopEnds(t) \/ BGCallEnd(t)
                        \/ ProcessCallHere(t) \/ TcpRead(t) \/ TcpReply(t)
  \/ \E t \in Threads[transport] : \E m \in net : RecvRequest(t, m)
  \/ \E t \in Threads[transport], m \in Calls : TcpAccept(t, m)
  \/ \E w \in Workers : BGThread(w) \/ ProcessCall(w) \/ ProcessCallEnd(w)
  \/ Pause \/ Resume \/ Duplicate
  \/ \E c \in Clients : \/ UdpCall(c) \/ UdpRecv(c) \/ UdpTimeout(c)
                        \/ TcpConnect(c) \/ TcpSend(c) \/ TcpRecv(c) \/ TcpTimeout(c)

RpcSpec == RpcInit /\ [][RpcNext]_rpcVars

(* A runnable thread runs: the owner goes on once it is woken, a background thread that
   was asked to stop finishes the call it is in and stops, a pool thread takes its next
   item and finishes it, and a pause of the pool ends.  Nothing is promised of the
   clients, of the network, or of errors. *)
OwnerRuns   == BGStarted \/ BGStopped \/ Drained \/ PoolStop \/ PoolStopped
BGRuns(t)   == \/ BGCallBegin(t) \/ (shutting /\ BGLoopEnds(t)) \/ BGCallEnd(t)
               \/ ProcessCallHere(t) \/ TcpRead(t) \/ TcpReply(t)
PoolRuns(w) == BGThread(w) \/ ProcessCall(w) \/ ProcessCallEnd(w)

RpcFairness ==
  WF_rpcVars(\/ OwnerRuns \/ Resume
             \/ \E t \in Threads[transport] : BGRuns(t)
             \/ \E w \in Workers : PoolRuns(w))

FairRpcSpec == RpcSpec /\ RpcFairness

----------------------------------------------------------------------------
(* Properties *)

(* A reply that a call returns (PosixUDPCli::Call, PosixTCPCli::Call) was made for a
   call of the same stub.  It is the reply to this very call unless an earlier call of
   the stub timed out or its datagram was duplicated: UDP replies carry no call number,
   and one that arrives late is handed to the next call. *)
ReplyOfOwnCall ==
  \A c \in Clients : got[c].ok /\ got[c].rep # "none" =>
     /\ got[c].job[1] = c /\ got[c].job[2] <= cli[c].n
     /\ c \notin late => got[c].job[2] = cli[c].n - (IF cli[c].at = "idle" THEN 0 ELSE 1)

(* The destructors run in an order in which nobody uses what is gone: while a background
   thread is in BGLoop, or a pool thread has or will have a call of the server, the
   socket is open and the server exists; and the pool drops no call, since bg_count_
   is the number of calls it has not finished. *)
ServerOutlivesCalls ==
  /\ (\E t \in Threads[transport] : thr[t].at \in {"loop", "read", "call", "leaving"}) => fdOpen
  /\ count = Len(taskQueue) + Cardinality({w \in Workers : wrk[w].at \in {"run", "ran"}})
  /\ count > 0 => fdOpen

(* A client takes only the reply to its own call, and a stopped server's threads no
   longer touch it (posix_rpc_udp.cc, posix_rpc_tcp.cc, posix_bgrun.cc). *)
ServerSound == ReplyOfOwnCall /\ ServerOutlivesCalls

(* Destroying a server ends: BGStop returns, the pending calls drain, the pool's threads
   leave and the pool is gone, whatever the background threads, the pool and its pauses
   were doing. *)
StopEnds == []<>(owner \notin {"stopping", "draining", "poolStop", "poolWait"})

(* A call that was handed to the pool is processed, pauses and wake-ups included: the
   condition variable is signalled only when the queue was empty. *)
PoolDrains == []<>(count = 0)
=============================================================================
