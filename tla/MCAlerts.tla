------------------------------- MODULE MCAlerts -------------------------------
(* A small instance of Alerts: files enough for every alert and its repetition. *)
EXTENDS Alerts

CONSTANT k1

MCKeys == {k1}
MCFiles == 1 .. (MaxRejects + Cardinality(Keys) * (1 + MaxKills))
=============================================================================
