---------------------------- MODULE DurableWrites ----------------------------
(***************************************************************************)
(* What a DB promises about updates.  While it is open, those that readers *)
(* see stay, and more come.  It may go down at any moment; those reported  *)
(* as saved are still there, and an update whose call failed or never      *)
(* returned may be there as well.  When it is open again, readers see what *)
(* was there.  Out of the promise are the updates at risk: those whose log *)
(* record the DB wrote and will not read.  No update is at risk that       *)
(* readers of the open DB saw before.                                      *)
(***************************************************************************)
CONSTANT Updates

VARIABLES
  up,         \* is the DB open?
  seen,       \* updates that reads reflect, or would if the DB was opened now
  limbo,      \* updates that reads do not reflect, and that may turn up when it goes down
  promised,   \* updates reported as saved
  risk        \* updates whose record will not be read

Init == up = FALSE /\ seen = {} /\ limbo = {} /\ promised = {} /\ risk = {}

TypesNext == seen' \subseteq Updates /\ limbo' \subseteq Updates \ seen' /\ promised' \subseteq seen'

\* Updates are applied and reported as saved.
Progress ==
  /\ up /\ up' /\ TypesNext
  /\ seen \subseteq seen' /\ promised \subseteq promised'
  /\ risk' \cap seen \subseteq risk

\* The DB goes down, or the machine crashes while it is down or being opened.
Down ==
  /\ ~up' /\ TypesNext
  /\ promised \ risk \subseteq promised' /\ promised' \subseteq promised
  /\ seen' \subseteq seen \cup limbo

Reopen ==
  /\ ~up /\ up' /\ TypesNext
  /\ seen' \subseteq seen /\ seen \ risk \subseteq seen'
  /\ promised \ risk \subseteq promised' /\ promised' \subseteq promised

Next == Progress \/ Down \/ Reopen

Spec == Init /\ [][Next]_<<up, seen, limbo, promised, risk>>
=============================================================================
