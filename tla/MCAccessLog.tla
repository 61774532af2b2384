----------------------------- MODULE MCAccessLog -----------------------------
(* Small instances of AccessLog: the second line is one the parser refuses. *)
EXTENDS AccessLog

MCBad == {2}
=============================================================================
