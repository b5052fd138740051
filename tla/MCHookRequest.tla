---------------------------- MODULE MCHookRequest ----------------------------
EXTENDS HookRequest, TLC
CONSTANTS r1, r2, k1, k2, a, b, n1, n2, plain

\* The same trigger under two paths, another trigger for the first path with
\* the old one left as a plain node, two triggers in conflict, and none.
MCCanvas == {n1 :> a, n1 :> b, n1 :> plain @@ n2 :> a, n1 :> a @@ n2 :> a, n1 :> plain}
MCRequest == {r1, r2}
MCOwnerCall == {k1, k2}
=============================================================================
