------------------------------ MODULE MCAlarms ------------------------------
(***************************************************************************)
(* One alarm that repeats and one that does not; at least one is on.       *)
(***************************************************************************)
EXTENDS Alarms

MCSaved ==
  {c \in [Alarm -> {"new", "off", "on"}] :
     \/ c["daily"] = "on" /\ c["once"] # "off"
     \/ c["daily"] = "off" /\ c["once"] = "on"}
=============================================================================
