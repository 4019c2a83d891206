--------------------------- MODULE MCOAuth2Tokens ---------------------------
(* Four requests on one code and the pairs that come of it, of two clients. *)
EXTENDS OAuth2Tokens, TLC

Symmetries == Permutations(Reqs) \union Permutations(Pairs)
=============================================================================
