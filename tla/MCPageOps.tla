------------------------------ MODULE MCPageOps ------------------------------
(* Every operation alone, and pairs that drive the same element together.   *)
EXTENDS PageOps

One == CHOOSE o \in Ops : TRUE
Alone    == {[o \in Ops |-> IF o = One THEN k ELSE None] : k \in Kinds}
Together == {[o \in Ops |-> IF o = One THEN j ELSE k] :
               j \in {"Check", "Type"}, k \in {"Check", "Press"}}
MCFramed == {p \in Alone : p[One] \in {"FrameBox", "Evaluate"}}
MCPlans  == Alone \cup Together
=============================================================================
