---------------------------- MODULE MCV4Session ----------------------------
(* Model checking of V4Session.  The two devices are the numbers 1 and 2,  *)
(* in the order of their identity keys, so there is no symmetry between    *)
(* them; the configurations differ in their bounds only.                   *)
EXTENDS V4Session

Bound(m, r, c, s, o) == [msgs |-> m, resets |-> r, crashes |-> c, shadows |-> s, opk |-> o]

\* Three messages and any supply of OPKs; two messages with a crash and a reset;
\* two messages beside a shadow session.
MCBounds == {Bound(3, 0, 0, 0, BOOLEAN), Bound(2, 1, 1, 0, {TRUE}), Bound(2, 0, 0, 2, {TRUE})}
MCThree  == {Bound(3, 0, 0, 0, BOOLEAN)}
MCTwo    == {Bound(2, 0, 0, 0, BOOLEAN)}
MCReset  == {Bound(2, 1, 0, 0, BOOLEAN)}
MCShadow == {Bound(2, 0, 0, 2, {TRUE})}
=============================================================================
