------------------------------ MODULE MCCalls ------------------------------
(***************************************************************************)
(* Calls that must return, for TLC: the calls of writers into a DB, and    *)
(* remote calls over sockets and over Mercury.  A behaviour is one of one  *)
(* component, while the others keep one of their initial states.           *)
(*                                                                         *)
(* The socket server has two background threads where they process the     *)
(* calls themselves, over UDP or TCP, and one where it feeds a pool of     *)
(* two; Mercury has two loops.                                             *)
(***************************************************************************)
EXTENDS WritePath, Rpc

CONSTANTS t1, t2, Parts   \* two threads; the components to explore

VARIABLE part

MCThreads == [udp |-> {t1, t2}, pool |-> {t1}, tcp |-> {t1, t2}]

Init ==
  /\ part \in Parts
  /\ IF part = "rpc" THEN TRUE ELSE engine = "mercury"
  /\ WriteInit /\ RpcOpen

WriteStep == part = "write" /\ WriteNext /\ UNCHANGED <<part, engineVars>>
RpcStep   == part = "rpc" /\ EngineNext /\ UNCHANGED <<part, writeVars>>

Next == WriteStep \/ RpcStep

\* What is not explored stays in an initial state, where nothing that is fair is enabled.
Spec == Init /\ [][Next]_<<part, writeVars, engineVars>>
             /\ WriteFairness /\ RpcFairness /\ HgFairness

-----------------------------------------------------------------------------
(* Properties                                                              *)

\* Stop returns, and a pool that is not paused works off what it was given
\* (PosixSocketServer::BGStop, PosixFixedThreadPool).
ServerSettles == StopEnds /\ PoolDrains
=============================================================================
