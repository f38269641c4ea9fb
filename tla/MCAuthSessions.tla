--------------------------- MODULE MCAuthSessions ---------------------------
(* TLC instances of AuthSessions: symmetry of the model-value pools.       *)
EXTENDS AuthSessions, TLC

SymmetryTokens ==
    Permutations(Token) \cup Permutations(Session) \cup Permutations(Request)
=============================================================================
