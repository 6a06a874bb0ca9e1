------------------------------- MODULE MCStore -------------------------------
(* The tables under a few mutations, from empty ones and from a route. *)
EXTENDS ConfigStore, TLC

CONSTANTS x, t

EmptyTables ==
  [profiles |-> Empty, targets |-> Empty, tiers |-> Empty, rules |-> Empty,
   users |-> Empty, spent |-> {}, audit |-> 0]

(* One target, routed by a tier or by its own profile, and nothing else. *)
OneRoute ==
  {[EmptyTables EXCEPT !.profiles = x :> [name |-> 1, enabled |-> TRUE],
                       !.targets = t :> [alias |-> 1, vpn |-> x, enabled |-> TRUE],
                       !.tiers = c,
                       !.spent = {x, t}] :
     c \in {Empty, <<t, 0>> :> x}}

SomeTables == OneRoute \cup {EmptyTables}

==============================================================================
