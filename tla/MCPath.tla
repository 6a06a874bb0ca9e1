------------------------------- MODULE MCPath --------------------------------
(* The request path on small instances: one tunnel, one target, one helper. *)
EXTENDS ProxyPath
==============================================================================
