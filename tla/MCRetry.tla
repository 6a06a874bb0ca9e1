------------------------------- MODULE MCRetry -------------------------------
(* The compiler's passes over two targets, with the retries of its start   *)
(* loop.                                                                   *)
EXTENDS RouteCompiler, Functions, TLC

(* Two targets on the same tunnel or on different ones. *)
TwoTargetDBs ==
  {[profiles |-> ("x" :> [name |-> 1, enabled |-> TRUE]) @@ ("y" :> [name |-> 2, enabled |-> TRUE]),
    targets |-> ("t" :> [alias |-> 1, vpn |-> "x", enabled |-> TRUE])
             @@ ("u" :> [alias |-> 2, vpn |-> v, enabled |-> TRUE]),
    tiers |-> Empty, rules |-> Empty, users |-> Empty, spent |-> {"x", "y", "t", "u"}, audit |-> 0] : v \in {"x", "y"}}

(* Passes and retries while the tables stay as they are. *)
FairSpec == Init /\ [][CompilerNext]_vars /\ Fairness

==============================================================================
