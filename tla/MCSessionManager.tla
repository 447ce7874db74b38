-------------------------- MODULE MCSessionManager --------------------------
(* SessionManager with a few concurrent calls and tokens. *)
EXTENDS SessionManager, TLC

CONSTANTS c1, c2, t1, t2, t3

TwoCalls == {c1, c2}
ThreeTokens == {t1, t2, t3}
BothKinds == BOOLEAN
Symmetry == Permutations(Call) \cup Permutations(Token)
==============================================================================
