--------------------------- MODULE MCJugglerClient ---------------------------
(* Small instances of JugglerClient for TLC. *)
EXTENDS JugglerClient, TLC

CONSTANTS c1, c2, h1, s1

TwoCalls      == {c1, c2}
CallsAndInline == {c1, h1}
JustC1        == {c1}
JustH1        == {h1}
JustS1        == {s1}
None          == {}
Symmetry       == Permutations(TwoCalls)

=============================================================================
