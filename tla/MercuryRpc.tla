----------------------------- MODULE MercuryRpc -----------------------------
(***************************************************************************)
(* The Mercury RPC of src/mercury/mercury_rpc.{h,cc}: callers that look up *)
(* an address and forward a request (Client::Call, Lookup), the loops that *)
(* drive Mercury and run its callbacks (LocalLooper), and the timers that  *)
(* cancel requests nobody answers.                                         *)
(*                                                                         *)
(* Mercury itself is external: a lookup or a request is pending until      *)
(* HG_Progress completes it with some result or HG_Cancel cancels it; a    *)
(* completion waits until HG_Trigger runs its callback.  The waits of the  *)
(* callers are timed, so that a wake-up is never missed.                   *)
(***************************************************************************)
EXTENDS Integers, FiniteSets

CONSTANTS Callers,    \* threads that make calls, each with a stub of its own
          Loops,      \* 0 .. n-1: the ids of the loops, max_bg_loops_ of them
          Targets,    \* server addresses
          MaxRequests,\* bound: calls made
          Errors      \* whether HG_Progress and HG_Trigger may fail

ASSUME MercuryAssumption == 0 \in Loops /\ Loops \subseteq Nat /\ Errors \in BOOLEAN

VARIABLES loop,       \* loop[l]: "none", "loop", "cb" (in SaveReply) or "gone"
          running,    \* callers of Start() expect the loops to run: bg_loops_ of them do
          stopping,   \* shutting_down_
          hasError,   \* has_error_
          addrs,      \* targets in addr_cache_
          request,    \* request[c]: [at, target, done, ret] of caller c, state included
          ops,        \* operations pending in Mercury: <<kind, caller, serial>>
          ready,      \* completed operations: <<kind, caller, serial, ret>>
          saving,     \* saving[l]: the reply that loop l is writing to its caller
          timers,     \* timers_: calls <<caller, serial>> with a timer
          stray,      \* a callback wrote to a call that had returned
          made        \* calls made so far, the serial of the next one

hgVars == <<loop, running, stopping, hasError, addrs, request, ops, ready, saving, timers, stray, made>>

Rets == {"success", "error"}
Nothing == <<>>
NoRequest == [at |-> "idle", target |-> Nothing, done |-> FALSE, ret |-> "none", no |-> 0]

HgInit ==
  /\ loop = [l \in Loops |-> "none"]
  /\ running = 0 /\ stopping = FALSE /\ hasError = FALSE
  /\ addrs = {} /\ request = [c \in Callers |-> NoRequest]
  /\ ops = {} /\ ready = {} /\ saving = [l \in Loops |-> Nothing]
  /\ timers = {} /\ stray = FALSE /\ made = 0

----------------------------------------------------------------------------
(* Client::Call *)

Set(c, at) == request' = [request EXCEPT ![c].at = at]

\* What a call keeps in its RPCState, with the serial number of the call.
RPCState(at, t, ret) ==
  [at |-> at, target |-> t, done |-> FALSE, ret |-> ret, no |-> made + 1]

\* Lookup: the address is cached, or HG_Addr_lookup is started, or refuses.
Lookup(c, t) ==
  /\ request[c].at = "idle" /\ made < MaxRequests
  /\ made' = made + 1
  /\ \/ /\ t \in addrs
        /\ request' = [request EXCEPT ![c] = RPCState("addr", t, "none")]
        /\ UNCHANGED ops
     \/ /\ t \notin addrs
        /\ request' = [request EXCEPT ![c] = RPCState("lookup", t, "none")]
        /\ ops' = ops \cup {<<"addr", c, made + 1>>}
     \/ /\ t \notin addrs
        /\ request' = [request EXCEPT ![c] = RPCState("idle", t, "error")]
        /\ UNCHANGED ops
  /\ UNCHANGED <<loop, running, stopping, hasError, addrs, ready, saving, timers, stray>>

\* The wait for the address ends.  When has_error_ was set meanwhile the result is
\* HG_SUCCESS, of HG_Addr_lookup, with no entry.
LookupEnds(c) ==
  /\ request[c].at = "lookup" /\ (request[c].done \/ hasError)
  /\ IF hasError THEN Set(c, "noaddr") /\ UNCHANGED addrs
     ELSE IF request[c].ret = "success"
     THEN /\ addrs' = addrs \cup {request[c].target}
          /\ request' = [request EXCEPT ![c] = [@ EXCEPT !.at = "addr", !.done = FALSE, !.ret = "none"]]
     ELSE Set(c, "idle") /\ UNCHANGED addrs
  /\ UNCHANGED <<loop, running, stopping, hasError, ops, ready, saving, timers, stray, made>>

\* HG_Create and HG_Forward; either may refuse, and the call returns.
Forward(c) ==
  /\ request[c].at = "addr"
  /\ \/ Set(c, "forwarded") /\ ops' = ops \cup {<<"reply", c, request[c].no>>}
     \/ request' = [request EXCEPT ![c] = [@ EXCEPT !.at = "idle", !.ret = "error"]] /\ UNCHANGED ops
  /\ UNCHANGED <<loop, running, stopping, hasError, addrs, ready, saving, timers, stray, made>>

AddTimerFor(c) ==
  /\ request[c].at = "forwarded" /\ Set(c, "wait")
  /\ timers' = timers \cup {<<c, request[c].no>>}
  /\ UNCHANGED <<loop, running, stopping, hasError, addrs, ops, ready, saving, stray, made>>

\* Mutant: the timer stays in the list when the call returns.
CallEndsKeepsTimer(c) ==
  /\ request[c].at = "wait" /\ (request[c].done \/ hasError)
  /\ request' = [request EXCEPT ![c] = [@ EXCEPT !.at = "idle", !.ret = IF hasError THEN "error" ELSE request[c].ret]]
  /\ UNCHANGED <<loop, running, stopping, hasError, addrs, ops, ready, saving, timers, stray, made>>

\* The wait for the reply ends; RemoveTimer, HG_Destroy and Release follow.
CallEnds(c) ==
  /\ request[c].at = "wait" /\ (request[c].done \/ hasError)
  /\ timers' = timers \ {<<c, request[c].no>>}
  /\ request' = [request EXCEPT ![c] = [@ EXCEPT !.at = "idle", !.ret = IF hasError THEN "error" ELSE request[c].ret]]
  /\ UNCHANGED <<loop, running, stopping, hasError, addrs, ops, ready, saving, stray, made>>

----------------------------------------------------------------------------
(* LocalLooper *)

Start ==
  /\ running = 0 /\ ~stopping /\ \A l \in Loops : loop[l] = "none"
  /\ loop' = [l \in Loops |-> "loop"]
  /\ running' = Cardinality(Loops)
  /\ UNCHANGED <<stopping, hasError, addrs, request, ops, ready, saving, timers, stray, made>>

Stop ==
  /\ ~stopping /\ stopping' = TRUE
  /\ UNCHANGED <<loop, running, hasError, addrs, request, ops, ready, saving, timers, stray, made>>

\* Mutant: a loop that fails leaves without telling the callers.
LoopFailsQuietly(l) ==
  /\ Errors /\ loop[l] = "loop"
  /\ loop' = [loop EXCEPT ![l] = "gone"] /\ running' = running - 1
  /\ UNCHANGED <<stopping, hasError, addrs, request, ops, ready, saving, timers, stray, made>>

\* A loop leaves because HG_Progress or HG_Trigger failed, and tells the callers.
LoopFails(l) ==
  /\ Errors /\ loop[l] = "loop"
  /\ loop' = [loop EXCEPT ![l] = "gone"] /\ running' = running - 1
  /\ hasError' = TRUE
  /\ UNCHANGED <<stopping, addrs, request, ops, ready, saving, timers, stray, made>>

LoopStops(l) ==
  /\ stopping /\ loop[l] = "loop"
  /\ loop' = [loop EXCEPT ![l] = "gone"] /\ running' = running - 1
  /\ UNCHANGED <<stopping, hasError, addrs, request, ops, ready, saving, timers, stray, made>>

Completed(op, ret) == <<op[1], op[2], op[3], ret>>

\* HG_Progress, by loop 0 alone, completes a pending operation with some result.
Progress ==
  /\ loop[0] = "loop"
  /\ \E op \in ops, ret \in Rets :
       ops' = ops \ {op} /\ ready' = ready \cup {Completed(op, ret)}
  /\ UNCHANGED <<loop, running, stopping, hasError, addrs, request, saving, timers, stray, made>>

\* CheckTimers, by loop 0 alone: due timers are unlinked and their requests cancelled.
CheckTimers ==
  /\ loop[0] = "loop"
  /\ \E due \in SUBSET timers \ {{}} :
       LET late == {op \in ops : op[1] = "reply" /\ <<op[2], op[3]>> \in due} IN
       /\ timers' = timers \ due
       /\ ops' = ops \ late
       /\ ready' = ready \cup {Completed(op, "error") : op \in late}
  /\ UNCHANGED <<loop, running, stopping, hasError, addrs, request, saving, stray, made>>

Triggers(l) == l > 0 \/ Cardinality(Loops) <= 1

\* The call that an operation belongs to is still in the wait that started it.
Waiting(op) == /\ request[op[2]].no = op[3]
               /\ request[op[2]].at \in IF op[1] = "addr" THEN {"lookup"} ELSE {"forwarded", "wait"}

\* HG_Trigger runs a callback, SaveAddr or SaveReply, which first stores the result in
\* the state on the stack of the caller ...
Trigger(l, op) ==
  /\ loop[l] = "loop" /\ Triggers(l) /\ ~stopping
  /\ ready' = ready \ {op}
  /\ loop' = [loop EXCEPT ![l] = "cb"]
  /\ saving' = [saving EXCEPT ![l] = op]
  /\ IF Waiting(op) THEN request' = [request EXCEPT ![op[2]].ret = op[4]] /\ UNCHANGED stray
                    ELSE stray' = TRUE /\ UNCHANGED request
  /\ UNCHANGED <<running, stopping, hasError, addrs, ops, timers, made>>

\* ... and then, under the mutex of the caller, marks it done and signals.
SaveReply(l) ==
  /\ loop[l] = "cb"
  /\ loop' = [loop EXCEPT ![l] = "loop"]
  /\ saving' = [saving EXCEPT ![l] = Nothing]
  /\ LET op == saving[l] IN
     IF Waiting(op) THEN request' = [request EXCEPT ![op[2]].done = TRUE] /\ UNCHANGED stray
                    ELSE stray' = TRUE /\ UNCHANGED request
  /\ UNCHANGED <<running, stopping, hasError, addrs, ops, ready, timers, made>>

----------------------------------------------------------------------------
HgNext ==
  \/ \E c \in Callers, t \in Targets : Lookup(c, t)
  \/ \E c \in Callers : LookupEnds(c) \/ Forward(c) \/ AddTimerFor(c) \/ CallEnds(c)
  \/ Start \/ Stop \/ Progress \/ CheckTimers
  \/ \E l \in Loops : LoopFails(l) \/ LoopStops(l) \/ SaveReply(l)
  \/ \E l \in Loops : \E op \in ready : Trigger(l, op)

HgSpec == HgInit /\ [][HgNext]_hgVars

(* A caller that can go on does, a loop that runs keeps looking at its timers and at the
   completions Mercury has for it, and a pending lookup is completed.  Nothing is
   promised of an answer to a request. *)
CallRuns(c)  == LookupEnds(c) \/ Forward(c) \/ AddTimerFor(c) \/ CallEnds(c)
TriggerRuns  == \E l \in Loops : SaveReply(l) \/ \E op \in ready : Trigger(l, op)
LookupSettles == loop[0] = "loop" /\ Progress /\ \E op \in ops : op[1] = "addr" /\ op \notin ops'

HgFairness ==
  WF_hgVars((\E c \in Callers : CallRuns(c)) \/ TriggerRuns \/ CheckTimers \/ LookupSettles)

FairHgSpec == HgSpec /\ HgFairness

----------------------------------------------------------------------------
(* Properties *)

(* While no loop has failed, the callbacks write only to the state of a call that still
   waits for them, and every timer is one of a request whose call has not returned, so
   that CheckTimers cancels no destroyed handle. *)
CallbacksInTime ==
  /\ ~hasError => ~stray
  /\ \A tm \in timers : request[tm[1]].no = tm[2] /\ request[tm[1]].at = "wait"

(* A call returns, answered or not, as long as the loops have been started and are not
   stopped: an unanswered request is cancelled by its timer, and a failed loop makes
   every caller give up. *)
CallReturns ==
  \A c \in Callers :
    []<>(request[c].at \in {"idle", "noaddr"} \/ loop[0] = "none" \/ stopping)
=============================================================================
