----------------------------- MODULE MCCompiler ------------------------------
(* The compiler beside one mutation, from tables of many shapes. *)
EXTENDS MCRetry, PassHistory

(* Tables the seed scripts and earlier mutations can have left: a profile, *)
(* another one, perhaps disabled or deleted, and a target, perhaps         *)
(* disabled, with any failover chain over them.                            *)
Chains(ids) == {c \in UNION {[S -> ids] : S \in SUBSET ({"t"} \X Tiers)} : IsInjective(c)}

SeededDBs ==
  UNION {{[profiles |-> p,
           targets |-> "t" :> [alias |-> 1, vpn |-> v, enabled |-> on],
           tiers |-> c, rules |-> Empty, users |-> Empty, spent |-> {"x", "y", "t"}, audit |-> 0] :
            v \in DOMAIN p \cup {NoId}, on \in BOOLEAN, c \in Chains(DOMAIN p)} :
         p \in {"y" :> [name |-> 2, enabled |-> TRUE]} \cup
               {("x" :> [name |-> 1, enabled |-> e]) @@ ("y" :> [name |-> 2, enabled |-> TRUE]) :
                  e \in BOOLEAN}}

CompilerDBs == SeededDBs \cup TwoTargetDBs

==============================================================================
