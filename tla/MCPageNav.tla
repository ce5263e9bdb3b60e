----------------------------- MODULE MCPageNav -----------------------------
(* Small instances of PageNav. *)
EXTENDS PageNav, TLC

CONSTANTS g1, g2, h1, real, blank

BothUrls == {real, blank}
TwoGotos == {g1, g2}
OneGoto  == {g1}
OneHistory == {h1}
Nobody == {}
Symmetry == Permutations(TwoGotos)

(* Both Gotos go to a real document. *)
RealInit == Init /\ target = [g \in Gotos |-> real]
RealSpec == RealInit /\ [][Next]_vars
=============================================================================
