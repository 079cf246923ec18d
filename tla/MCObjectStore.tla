--------------------------- MODULE MCObjectStore ---------------------------
(***************************************************************************)
(* Files over an object store, for TLC: the object file system, and the    *)
(* RADOS back end with its asynchronous handles.  A behaviour is one of    *)
(* one component, while the other keeps one of its initial states.         *)
(***************************************************************************)
EXTENDS Ofs, RadosIo, TLC

CONSTANT Parts   \* the components to explore

VARIABLE part

\* A client with two files in one file set, one that mounts its set three times, and one
\* with a file in each of two sets.
MCPaths   == {<<"s", "a">>, <<"s", "b">>, <<"t", "a">>}
MCClients == {[paths |-> {<<"s", "a">>, <<"s", "b">>}, calls |-> 3, mounts |-> 2],
              [paths |-> {<<"s", "a">>, <<"s", "b">>}, calls |-> 2, mounts |-> 3],
              [paths |-> {<<"s", "a">>, <<"t", "a">>}, calls |-> 3, mounts |-> 2]}

MCSymmetry == Permutations(Handles) \cup Permutations(Objs)

Init ==
  /\ part \in Parts
  /\ IF part = "ofs" THEN TRUE ELSE client = CHOOSE c \in Clients : TRUE
  /\ OfsInit /\ RadosInit

OfsStep   == part = "ofs" /\ OfsNext /\ UNCHANGED <<part, radosVars>>
RadosStep == part = "rados" /\ RadosNext /\ UNCHANGED <<part, ofsVars>>

Next == OfsStep \/ RadosStep

Spec == Init /\ [][Next]_<<part, ofsVars, radosVars>>

-----------------------------------------------------------------------------
(* Properties                                                              *)

\* After any failed call, crash or remount, a file of the object file system (ofs_impl.cc)
\* holds what was promised, and every object is named by a log, so that none is leaked.
OfsExact == part = "ofs" => FilesHold /\ NoStrayObject

\* RADOS connections and stores outlive what refers to them, whole files are read, and a
\* Sync that returned OK made all earlier appends durable (rados_osd.cc, rados_comm.cc).
RadosExact == part = "rados" => HeldIsAlive /\ ReadersComplete /\ SyncIsDurable
=============================================================================
