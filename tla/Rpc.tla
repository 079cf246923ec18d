-------------------------------- MODULE Rpc --------------------------------
(***************************************************************************)
(* RPC::Open (src/rpc.cc): an RPC instance is a socket RPC or a Mercury    *)
(* RPC.  The two share nothing; the engine is chosen once, and only the    *)
(* chosen one moves.                                                       *)
(***************************************************************************)
EXTENDS SocketRpc, MercuryRpc

CONSTANT Engines   \* subset of {"socket", "mercury"}

VARIABLE engine

RpcOpen ==
  /\ engine \in Engines
  /\ RpcInit /\ HgInit
  /\ engine = "mercury" => transport = CHOOSE m \in Modes : TRUE

SocketStep  == engine = "socket" /\ RpcNext /\ UNCHANGED <<engine, hgVars>>
MercuryStep == engine = "mercury" /\ HgNext /\ UNCHANGED <<engine, rpcVars>>

EngineNext == SocketStep \/ MercuryStep

engineVars == <<engine, rpcVars, hgVars>>

EngineSpec == RpcOpen /\ [][EngineNext]_engineVars

FairEngineSpec == EngineSpec /\ RpcFairness /\ HgFairness
=============================================================================
