-------------------------- MODULE MCOfficeWorkers --------------------------
EXTENDS OfficeWorkers, TLC
CONSTANTS c1, c2, c3, h1, h2
ThreeCalls == {c1, c2, c3}
TwoHelpers == {h1, h2}
\* Two calls share a helper; the third needs another.
Shared == (c1 :> h1) @@ (c2 :> h1) @@ (c3 :> h2)
=============================================================================
