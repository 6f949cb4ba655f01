---------------------------- MODULE MCSignature ----------------------------
EXTENDS Signature

\* y^2 = x^3 + 3 over the field of 19 elements: a group of order 13, in which two
\* points have an x-coordinate above the order.
CurveX   == <<1, 14, 11, 7, 3, 2, 2, 3, 7, 11, 14, 1>>
CurveOdd == <<0, 0, 0, 1, 0, 0, 1, 1, 0, 1, 1, 1>>

ServerBKs == [p \in {"server", "client", "backup"} |->
                 CASE p = "server" -> 3 [] p = "client" -> 5 [] p = "backup" -> 12]
=============================================================================
