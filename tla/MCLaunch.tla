------------------------------ MODULE MCLaunch ------------------------------
(***************************************************************************)
(* Launch on small instances.  The constants keep the order of the code's  *)
(* times: the cooldown is shorter than the grace and the grace than the    *)
(* budget, a POST may outlast a probe and a poll, and the attempts of a    *)
(* wake its cooldown.                                                      *)
(***************************************************************************)
EXTENDS Launch

\* No launch but the caller's own, and a client that reports it honestly.
Alone == Happenings \ {"play", "hidden", "odd"}

\* Whatever the machine can do.
Anything == Happenings
=============================================================================
