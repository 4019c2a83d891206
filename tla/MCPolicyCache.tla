---------------------------- MODULE MCPolicyCache ----------------------------
(* Two processes that share one cache, and two calls.                      *)
EXTENDS PolicyCache
=============================================================================
