----------------------------- MODULE MCRequest -----------------------------
(***************************************************************************)
(* Request on small instances.  One tick is 100 ms, the first delay; the   *)
(* longest delay is cut to four ticks, and Duration::MAX to a width a few  *)
(* doublings reach, where the code's takes 68.                             *)
(***************************************************************************)
EXTENDS Request

Waiting == [AtMost(3, 1, 4) EXCEPT !.retryIf = Transient \cup {"NoClient"}]

Both == [Until(6, 1, 4) EXCEPT !.maxAttempts = 3]

Fixed == [Until(5, 2, 2) EXCEPT !.factor = 1]

ManyPolicies == {NoRetry, AtMost(0, 1, 4), AtMost(3, 1, 4), Until(7, 1, 4), Waiting, Both, Fixed}

LongDeadline == {Until(60, 1, 4)}
=============================================================================
