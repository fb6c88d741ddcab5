----------------------------- MODULE MCProxyRpc -----------------------------
(* ProxyRpc on small instances.                                            *)
EXTENDS ProxyRefinement, TLC

=============================================================================
