-------------------------- MODULE ConfigStoreProofs --------------------------
(***************************************************************************)
(* The store's safety for every set of ids, names and tiers: the tables    *)
(* stay well-formed and consistent, every change is audited, and deletions *)
(* reach only dependent rows.  A statement keeps what a transaction needs  *)
(* of its copy of the tables (Sound); the inductive invariant says that    *)
(* the copy of an open transaction is one statement away from the          *)
(* committed tables, which do not change meanwhile.                        *)
(***************************************************************************)
EXTENDS ConfigStore, WellFoundedInduction, TLAPS

Good(d) == IsDB(d) /\ Consistent(d)

Sound(d, e) == Good(e) /\ DependentsOnly(d, e) /\ e.audit = d.audit

StoreIInv ==
  /\ StoreTypeOK
  /\ Consistent(db)
  /\ tx # NoTx => /\ Consistent(tx.db)
                  /\ DependentsOnly(db, tx.db)
                  /\ db.audit < MaxEdits
                  /\ tx.db.audit = IF tx.next = "audit" THEN db.audit ELSE db.audit + 1

(* ON CONFLICT (name): the row with the name is overwritten, or a row with *)
(* a new id is added.                                                      *)
LEMMA UpsertProfileSound ==
  ASSUME NEW d, Good(d), NEW n \in Names, NEW b \in BOOLEAN, NEW e \in UpsertProfile(d, n, b)
  PROVE  Sound(d, e)
<1> DEFINE same == {i \in DOMAIN d.profiles : d.profiles[i].name = n}
<1>1. PICK i \in KeptOrFresh(same, ProfileIds \ d.spent) :
        e = [d EXCEPT !.profiles = Put(@, i, [name |-> n, enabled |-> b]),
                      !.spent = @ \cup {i}]
  BY DEF UpsertProfile
<1>2. i \in ProfileIds /\ \A j \in DOMAIN d.profiles : d.profiles[j].name = n => j = i
  BY DEF KeptOrFresh, Good, IsDB, IsTable, Consistent
<1>3. /\ e = [profiles |-> Put(d.profiles, i, [name |-> n, enabled |-> b]),
              targets |-> d.targets, tiers |-> d.tiers, rules |-> d.rules,
              users |-> d.users, spent |-> d.spent \cup {i}, audit |-> d.audit]
  BY <1>1 DEF Good, IsDB
<1>4. IsTable(e.profiles, ProfileIds, Profile)
  BY <1>2, <1>3 DEF Good, IsDB, IsTable, Put, Profile
<1>5. IsDB(e)
  BY <1>2, <1>3, <1>4 DEF Good, IsDB
<1>6. DOMAIN e.profiles = DOMAIN d.profiles \cup {i}
  BY <1>3 DEF Put
<1>7. \A j, k \in DOMAIN e.profiles : e.profiles[j].name = e.profiles[k].name => j = k
  BY <1>2, <1>3 DEF Good, Consistent, Put
<1>8. Consistent(e)
  BY <1>3, <1>6, <1>7 DEF Good, Consistent
<1>9. DependentsOnly(d, e) /\ e.audit = d.audit
  BY <1>3, <1>6 DEF DependentsOnly, Gone
<1> QED BY <1>5, <1>8, <1>9 DEF Sound, Good

(* ON DELETE SET NULL on the targets, ON DELETE CASCADE on the tiers: no   *)
(* reference to the profile is left.                                       *)
LEMMA DeleteProfileSound ==
  ASSUME NEW d, Good(d), NEW id, NEW e \in DeleteProfile(d, id)
  PROVE  Sound(d, e)
<1> DEFINE orphaned == [t \in DOMAIN d.targets |->
                         IF d.targets[t].vpn = id
                         THEN [d.targets[t] EXCEPT !.vpn = NoId] ELSE d.targets[t]]
           cut == {k \in DOMAIN d.tiers : d.tiers[k] = id}
<1>1. e = [profiles |-> Without(d.profiles, {id}), targets |-> orphaned,
           tiers |-> Without(d.tiers, cut), rules |-> d.rules,
           users |-> d.users, spent |-> d.spent, audit |-> d.audit]
  BY DEF Good, IsDB, DeleteProfile
<1>2. /\ DOMAIN e.profiles = DOMAIN d.profiles \ {id}
      /\ DOMAIN e.targets = DOMAIN d.targets
      /\ DOMAIN e.tiers = DOMAIN d.tiers \ cut
      /\ \A i \in DOMAIN e.profiles : e.profiles[i] = d.profiles[i]
      /\ \A k \in DOMAIN e.tiers : e.tiers[k] = d.tiers[k]
  BY <1>1 DEF Without
<1>3. IsTable(e.profiles, ProfileIds, Profile) /\ IsTable(e.tiers, TargetIds \X Tiers, ProfileIds)
  BY <1>1, <1>2 DEF Good, IsDB, IsTable, Without
<1>4. \A t \in DOMAIN d.targets :
        /\ e.targets[t] \in Target
        /\ e.targets[t].alias = d.targets[t].alias
        /\ e.targets[t].vpn = IF d.targets[t].vpn = id THEN NoId ELSE d.targets[t].vpn
  BY <1>1 DEF Good, IsDB, IsTable, Target
<1>5. IsTable(e.targets, TargetIds, Target)
  BY <1>1, <1>2, <1>4 DEF Good, IsDB, IsTable
<1>6. IsDB(e)
  BY <1>1, <1>3, <1>5 DEF Good, IsDB
<1>7. Consistent(e)
  <2>1. \A i, j \in DOMAIN e.profiles : e.profiles[i].name = e.profiles[j].name => i = j
    BY <1>2 DEF Good, Consistent
  <2>2. \A t, u \in DOMAIN e.targets : e.targets[t].alias = e.targets[u].alias => t = u
    BY <1>2, <1>4 DEF Good, Consistent
  <2>3. \A t \in DOMAIN e.targets : e.targets[t].vpn \in DOMAIN e.profiles \cup {NoId}
    BY <1>2, <1>4 DEF Good, Consistent
  <2>4. \A k \in DOMAIN e.tiers :
          k[1] \in DOMAIN e.targets /\ e.tiers[k] \in DOMAIN e.profiles
    BY <1>2 DEF Good, Consistent
  <2>5. \A k, l \in DOMAIN e.tiers : k[1] = l[1] /\ e.tiers[k] = e.tiers[l] => k = l
    BY <1>2 DEF Good, Consistent
  <2>6. \A r \in DOMAIN e.rules : e.rules[r].target \in DOMAIN e.targets \cup {NoId}
    BY <1>1, <1>2 DEF Good, Consistent
  <2> QED BY <2>1, <2>2, <2>3, <2>4, <2>5, <2>6 DEF Consistent
<1>8. DependentsOnly(d, e) /\ e.audit = d.audit
  <2>1. Gone(d.targets, e.targets) = {} /\ Gone(d.rules, e.rules) = {}
    BY <1>1, <1>2 DEF Gone
  <2>2. /\ \A t, u \in Gone(d.targets, e.targets) : t = u
        /\ \A r \in Gone(d.rules, e.rules) : d.rules[r].target \in Gone(d.targets, e.targets)
    BY <2>1
  <2>3. \A k \in Gone(d.tiers, e.tiers) : d.tiers[k] \in Gone(d.profiles, e.profiles)
    BY <1>2 DEF Gone, Good, Consistent
  <2>4. DOMAIN d.users \subseteq DOMAIN e.users /\ e.audit = d.audit
    BY <1>1
  <2> QED BY <2>1, <2>2, <2>3, <2>4 DEF DependentsOnly
<1> QED BY <1>6, <1>7, <1>8 DEF Sound, Good

(* ON CONFLICT (public_alias), with a profile that is there or NULL. *)
LEMMA UpsertTargetSound ==
  ASSUME NEW d, Good(d), NEW a \in Aliases, NEW v, NEW b \in BOOLEAN,
         NEW e \in UpsertTarget(d, a, v, b)
  PROVE  Sound(d, e)
<1> DEFINE same == {t \in DOMAIN d.targets : d.targets[t].alias = a}
           row == [alias |-> a, vpn |-> v, enabled |-> b]
<1>1. PICK t \in KeptOrFresh(same, TargetIds \ d.spent) :
        /\ v \in DOMAIN d.profiles \cup {NoId}
        /\ e = [d EXCEPT !.targets = Put(@, t, row), !.spent = @ \cup {t}]
  BY DEF UpsertTarget
<1>2. t \in TargetIds /\ \A u \in DOMAIN d.targets : d.targets[u].alias = a => u = t
  BY DEF KeptOrFresh, Good, IsDB, IsTable, Consistent
<1>3. /\ e = [profiles |-> d.profiles, targets |-> Put(d.targets, t, row),
              tiers |-> d.tiers, rules |-> d.rules,
              users |-> d.users, spent |-> d.spent \cup {t}, audit |-> d.audit]
  BY <1>1 DEF Good, IsDB
<1>4. IsTable(e.targets, TargetIds, Target)
  <2>1. row \in Target
    BY <1>1 DEF Good, IsDB, IsTable, Target
  <2> HIDE DEF row
  <2> QED BY <2>1, <1>2, <1>3 DEF Good, IsDB, IsTable, Put
<1>5. IsDB(e)
  BY <1>2, <1>3, <1>4 DEF Good, IsDB
<1>6. /\ DOMAIN e.targets = DOMAIN d.targets \cup {t}
      /\ \A u \in DOMAIN e.targets : e.targets[u] = IF u = t THEN row ELSE d.targets[u]
  BY <1>3 DEF Put
<1>7. \A u, w \in DOMAIN e.targets : e.targets[u].alias = e.targets[w].alias => u = w
  BY <1>2, <1>6 DEF Good, Consistent
<1>8. Consistent(e)
  BY <1>1, <1>3, <1>6, <1>7 DEF Good, Consistent
<1>9. DependentsOnly(d, e) /\ e.audit = d.audit
  BY <1>3, <1>6 DEF DependentsOnly, Gone
<1> QED BY <1>5, <1>8, <1>9 DEF Sound, Good

(* ON DELETE CASCADE on the tiers and on the rules. *)
LEMMA DeleteTargetSound ==
  ASSUME NEW d, Good(d), NEW id \in TargetIds, NEW e \in DeleteTarget(d, id)
  PROVE  Sound(d, e)
<1> DEFINE cut == {k \in DOMAIN d.tiers : k[1] = id}
           unruled == {r \in DOMAIN d.rules : d.rules[r].target = id}
<1>1. e = [profiles |-> d.profiles, targets |-> Without(d.targets, {id}),
           tiers |-> Without(d.tiers, cut), rules |-> Without(d.rules, unruled),
           users |-> d.users, spent |-> d.spent, audit |-> d.audit]
  BY DEF Good, IsDB, DeleteTarget
<1>2. /\ DOMAIN e.targets = DOMAIN d.targets \ {id}
      /\ DOMAIN e.tiers = DOMAIN d.tiers \ cut
      /\ DOMAIN e.rules = DOMAIN d.rules \ unruled
      /\ \A t \in DOMAIN e.targets : e.targets[t] = d.targets[t]
      /\ \A k \in DOMAIN e.tiers : e.tiers[k] = d.tiers[k]
      /\ \A r \in DOMAIN e.rules : e.rules[r] = d.rules[r]
  BY <1>1 DEF Without
<1>3. /\ IsTable(e.targets, TargetIds, Target)
      /\ IsTable(e.tiers, TargetIds \X Tiers, ProfileIds)
      /\ IsTable(e.rules, RuleIds, Rule)
  BY <1>1, <1>2 DEF Good, IsDB, IsTable, Without
<1>4. IsDB(e)
  BY <1>1, <1>3 DEF Good, IsDB
<1>5. Consistent(e)
  <2>1. \A i, j \in DOMAIN e.profiles : e.profiles[i].name = e.profiles[j].name => i = j
    BY <1>1 DEF Good, Consistent
  <2>2. \A t, u \in DOMAIN e.targets : e.targets[t].alias = e.targets[u].alias => t = u
    BY <1>2 DEF Good, Consistent
  <2>3. \A t \in DOMAIN e.targets : e.targets[t].vpn \in DOMAIN e.profiles \cup {NoId}
    BY <1>1, <1>2 DEF Good, Consistent
  <2>4. \A k \in DOMAIN e.tiers :
          k[1] \in DOMAIN e.targets /\ e.tiers[k] \in DOMAIN e.profiles
    BY <1>1, <1>2 DEF Good, Consistent
  <2>5. \A k, l \in DOMAIN e.tiers : k[1] = l[1] /\ e.tiers[k] = e.tiers[l] => k = l
    BY <1>2 DEF Good, Consistent
  <2>6. \A r \in DOMAIN e.rules : e.rules[r].target \in DOMAIN e.targets \cup {NoId}
    BY <1>2 DEF Good, Consistent
  <2> QED BY <2>1, <2>2, <2>3, <2>4, <2>5, <2>6 DEF Consistent
<1>6. DependentsOnly(d, e) /\ e.audit = d.audit
  <2>1. Gone(d.profiles, e.profiles) = {} /\ \A t, u \in Gone(d.targets, e.targets) : t = u
    BY <1>1, <1>2 DEF Gone
  <2>2. \A k \in Gone(d.tiers, e.tiers) : k[1] \in Gone(d.targets, e.targets)
    BY <1>2 DEF Gone, Good, Consistent
  <2>3. \A r \in Gone(d.rules, e.rules) : d.rules[r].target \in Gone(d.targets, e.targets)
    BY <1>2, StoreAssumption DEF Gone, Good, Consistent
  <2>4. DOMAIN d.users \subseteq DOMAIN e.users /\ e.audit = d.audit
    BY <1>1
  <2> QED BY <2>1, <2>2, <2>3, <2>4 DEF DependentsOnly
<1> QED BY <1>4, <1>5, <1>6 DEF Sound, Good

(* ON CONFLICT (target, tier), for a target and a profile that are there   *)
(* and a profile not elsewhere in the chain.                               *)
LEMMA UpsertTierSound ==
  ASSUME NEW d, Good(d), NEW t \in TargetIds, NEW k \in Tiers, NEW p \in ProfileIds,
         NEW e \in UpsertTier(d, t, k, p)
  PROVE  Sound(d, e)
<1>1. /\ t \in DOMAIN d.targets /\ p \in DOMAIN d.profiles
      /\ \A l \in Tiers \ {k} : <<t, l>> \in DOMAIN d.tiers => d.tiers[<<t, l>>] # p
      /\ e = [d EXCEPT !.tiers = Put(@, <<t, k>>, p)]
  BY DEF UpsertTier
<1>2. e = [profiles |-> d.profiles, targets |-> d.targets, tiers |-> Put(d.tiers, <<t, k>>, p),
           rules |-> d.rules, users |-> d.users, spent |-> d.spent, audit |-> d.audit]
  BY <1>1 DEF Good, IsDB
<1>3. /\ DOMAIN e.tiers = DOMAIN d.tiers \cup {<<t, k>>}
      /\ \A x \in DOMAIN e.tiers : e.tiers[x] = IF x = <<t, k>> THEN p ELSE d.tiers[x]
  BY <1>2 DEF Put
<1>4. IsTable(e.tiers, TargetIds \X Tiers, ProfileIds)
  BY <1>2 DEF Good, IsDB, IsTable, Put
<1>5. IsDB(e)
  BY <1>2, <1>4 DEF Good, IsDB
<1>6. \A x, y \in DOMAIN e.tiers : x[1] = y[1] /\ e.tiers[x] = e.tiers[y] => x = y
  <2>1. \A x \in DOMAIN d.tiers : x[1] = t /\ d.tiers[x] = p => x = <<t, k>>
    <3> SUFFICES ASSUME NEW x \in DOMAIN d.tiers, x[1] = t, d.tiers[x] = p
                 PROVE  x = <<t, k>>
      OBVIOUS
    <3>1. x \in TargetIds \X Tiers /\ x = <<x[1], x[2]>> /\ x[2] \in Tiers
      BY DEF Good, IsDB, IsTable
    <3> QED BY <1>1, <3>1
  <2>2. <<t, k>>[1] = t
    OBVIOUS
  <2> QED BY <1>3, <2>1, <2>2 DEF Good, Consistent
<1>7. \A x \in DOMAIN e.tiers : x[1] \in DOMAIN e.targets /\ e.tiers[x] \in DOMAIN e.profiles
  BY <1>1, <1>2, <1>3 DEF Good, Consistent
<1>8. Consistent(e)
  BY <1>2, <1>6, <1>7 DEF Good, Consistent
<1>9. DependentsOnly(d, e) /\ e.audit = d.audit
  BY <1>2, <1>3 DEF DependentsOnly, Gone
<1> QED BY <1>5, <1>8, <1>9 DEF Sound, Good

(* The deleted tier is the only row that goes. *)
LEMMA DeleteTierSound ==
  ASSUME NEW d, Good(d), NEW t, NEW k, NEW e \in DeleteTier(d, t, k)
  PROVE  Sound(d, e)
<1>1. e = [profiles |-> d.profiles, targets |-> d.targets, tiers |-> Without(d.tiers, {<<t, k>>}),
           rules |-> d.rules, users |-> d.users, spent |-> d.spent, audit |-> d.audit]
  BY DEF Good, IsDB, DeleteTier
<1>2. /\ DOMAIN e.tiers = DOMAIN d.tiers \ {<<t, k>>}
      /\ \A x \in DOMAIN e.tiers : e.tiers[x] = d.tiers[x]
  BY <1>1 DEF Without
<1>3. IsTable(e.tiers, TargetIds \X Tiers, ProfileIds)
  BY <1>1, <1>2 DEF Good, IsDB, IsTable, Without
<1>4. IsDB(e)
  BY <1>1, <1>3 DEF Good, IsDB
<1>5. Consistent(e)
  <2>1. \A x \in DOMAIN e.tiers : x[1] \in DOMAIN e.targets /\ e.tiers[x] \in DOMAIN e.profiles
    BY <1>1, <1>2 DEF Good, Consistent
  <2>2. \A x, y \in DOMAIN e.tiers : x[1] = y[1] /\ e.tiers[x] = e.tiers[y] => x = y
    BY <1>2 DEF Good, Consistent
  <2> QED BY <1>1, <2>1, <2>2 DEF Good, Consistent
<1>6. DependentsOnly(d, e) /\ e.audit = d.audit
  <2>1. /\ Gone(d.profiles, e.profiles) = {} /\ Gone(d.targets, e.targets) = {}
        /\ Gone(d.rules, e.rules) = {} /\ DOMAIN d.users \subseteq DOMAIN e.users
        /\ e.audit = d.audit
    BY <1>1 DEF Gone
  <2>2. \A x \in Gone(d.tiers, e.tiers) : Gone(d.tiers, e.tiers) = {x}
    BY <1>2 DEF Gone
  <2> QED BY <2>1, <2>2 DEF DependentsOnly
<1> QED BY <1>4, <1>5, <1>6 DEF Sound, Good

(* An INSERT with a new id or an UPDATE by id; the target is there or NULL. *)
LEMMA UpsertRuleSound ==
  ASSUME NEW d, Good(d), NEW id, NEW rule \in Rule, NEW e \in UpsertRule(d, id, rule)
  PROVE  Sound(d, e)
<1>1. PICK r \in IF id = NoId THEN NextRuleId(d) ELSE {id} \cap DOMAIN d.rules :
        /\ rule.target \in DOMAIN d.targets \cup {NoId}
        /\ e = [d EXCEPT !.rules = Put(@, r, rule), !.spent = @ \cup {r}]
  BY DEF UpsertRule
<1>2. r \in RuleIds
  BY DEF NextRuleId, Good, IsDB, IsTable
<1>3. e = [profiles |-> d.profiles, targets |-> d.targets, tiers |-> d.tiers,
           rules |-> Put(d.rules, r, rule), users |-> d.users, spent |-> d.spent \cup {r},
           audit |-> d.audit]
  BY <1>1 DEF Good, IsDB
<1>4. /\ DOMAIN e.rules = DOMAIN d.rules \cup {r}
      /\ \A q \in DOMAIN e.rules : e.rules[q] = IF q = r THEN rule ELSE d.rules[q]
  BY <1>3 DEF Put
<1>5. IsTable(e.rules, RuleIds, Rule)
  BY <1>2, <1>3 DEF Good, IsDB, IsTable, Put
<1>6. IsDB(e)
  BY <1>2, <1>3, <1>5 DEF Good, IsDB
<1>7. Consistent(e)
  BY <1>1, <1>3, <1>4 DEF Good, Consistent
<1>8. DependentsOnly(d, e) /\ e.audit = d.audit
  BY <1>3, <1>4 DEF DependentsOnly, Gone
<1> QED BY <1>6, <1>7, <1>8 DEF Sound, Good

(* The deleted rule is the only row that goes. *)
LEMMA DeleteRuleSound ==
  ASSUME NEW d, Good(d), NEW id, NEW e \in DeleteRule(d, id)
  PROVE  Sound(d, e)
<1>1. e = [profiles |-> d.profiles, targets |-> d.targets, tiers |-> d.tiers,
           rules |-> Without(d.rules, {id}), users |-> d.users, spent |-> d.spent,
           audit |-> d.audit]
  BY DEF Good, IsDB, DeleteRule
<1>2. /\ DOMAIN e.rules = DOMAIN d.rules \ {id}
      /\ \A r \in DOMAIN e.rules : e.rules[r] = d.rules[r]
  BY <1>1 DEF Without
<1>3. IsTable(e.rules, RuleIds, Rule)
  BY <1>1, <1>2 DEF Good, IsDB, IsTable, Without
<1>4. IsDB(e)
  BY <1>1, <1>3 DEF Good, IsDB
<1>5. Consistent(e)
  BY <1>1, <1>2 DEF Good, Consistent
<1>6. DependentsOnly(d, e) /\ e.audit = d.audit
  <2>1. /\ Gone(d.profiles, e.profiles) = {} /\ Gone(d.targets, e.targets) = {}
        /\ Gone(d.tiers, e.tiers) = {} /\ DOMAIN d.users \subseteq DOMAIN e.users
        /\ e.audit = d.audit
    BY <1>1 DEF Gone
  <2>2. \A x \in Gone(d.rules, e.rules) : Gone(d.rules, e.rules) = {x}
    BY <1>2 DEF Gone
  <2> QED BY <2>1, <2>2 DEF DependentsOnly
<1> QED BY <1>4, <1>5, <1>6 DEF Sound, Good

(* ON CONFLICT (username); no role becomes "user". *)
LEMMA UpsertUserSound ==
  ASSUME NEW d, Good(d), NEW u \in Usernames, NEW role, NEW s \in BOOLEAN, NEW b \in BOOLEAN,
         NEW e \in UpsertUser(d, u, role, s, b)
  PROVE  Sound(d, e)
<1>1. PICK r \in {"admin", "user"} :
        e = [d EXCEPT !.users = Put(@, u, [role |-> r, enabled |-> b])]
  BY DEF UpsertUser
<1>2. e = [profiles |-> d.profiles, targets |-> d.targets, tiers |-> d.tiers, rules |-> d.rules,
           users |-> Put(d.users, u, [role |-> r, enabled |-> b]), spent |-> d.spent,
           audit |-> d.audit]
  BY <1>1 DEF Good, IsDB
<1>3. IsTable(e.users, Usernames, User)
  BY <1>2 DEF Good, IsDB, IsTable, Put, User
<1>4. IsDB(e)
  BY <1>2, <1>3 DEF Good, IsDB
<1>5. Consistent(e)
  BY <1>2 DEF Good, Consistent
<1>6. DependentsOnly(d, e) /\ e.audit = d.audit
  BY <1>2 DEF DependentsOnly, Gone, Put
<1> QED BY <1>4, <1>5, <1>6 DEF Sound, Good

------------------------------------------------------------------------------
(* Beginning a transaction with a sound statement. *)
LEMMA MutateStep ==
  ASSUME StoreIInv, NEW outcomes, \A e \in outcomes : Sound(db, e), Mutate(outcomes)
  PROVE  StoreIInv'
<1>1. PICK e \in outcomes : tx' = [next |-> "audit", db |-> e]
  BY DEF Mutate
<1>2. db' = db /\ db.audit < MaxEdits /\ Sound(db, e)
  BY <1>1 DEF Mutate
<1>3. tx'.next = "audit" /\ tx'.db = e
  BY <1>1
<1>4. StoreTypeOK'
  BY <1>1, <1>2, <1>3 DEF StoreIInv, StoreTypeOK, Sound, Good
<1> QED BY <1>2, <1>3, <1>4 DEF StoreIInv, Sound, Good

(* Every mutation of the API is a sound statement on the committed tables. *)
LEMMA MutationStep ==
  ASSUME StoreIInv,
         \/ PutProfile \/ DelProfile \/ PutTarget \/ DelTarget
         \/ PutTier \/ DelTier \/ PutRule \/ DelRule \/ PutUser
  PROVE  StoreIInv'
<1>1. Good(db)
  BY DEF StoreIInv, StoreTypeOK, Good
<1>2. CASE PutProfile
  BY <1>1, <1>2, UpsertProfileSound, MutateStep DEF PutProfile
<1>3. CASE DelProfile
  BY <1>1, <1>3, DeleteProfileSound, MutateStep DEF DelProfile
<1>4. CASE PutTarget
  BY <1>1, <1>4, UpsertTargetSound, MutateStep DEF PutTarget
<1>5. CASE DelTarget
  BY <1>1, <1>5, DeleteTargetSound, MutateStep DEF DelTarget
<1>6. CASE PutTier
  BY <1>1, <1>6, UpsertTierSound, MutateStep DEF PutTier
<1>7. CASE DelTier
  BY <1>1, <1>7, DeleteTierSound, MutateStep DEF DelTier
<1>8. CASE PutRule
  BY <1>1, <1>8, UpsertRuleSound, MutateStep DEF PutRule
<1>9. CASE DelRule
  BY <1>1, <1>9, DeleteRuleSound, MutateStep DEF DelRule
<1>10. CASE PutUser
  BY <1>1, <1>10, UpsertUserSound, MutateStep DEF PutUser
<1> QED BY <1>2, <1>3, <1>4, <1>5, <1>6, <1>7, <1>8, <1>9, <1>10

(* Consistency is about the four tables the foreign and unique keys range over. *)
LEMMA ConsistentTables ==
  ASSUME NEW d, NEW e, Consistent(d), e.profiles = d.profiles, e.targets = d.targets,
         e.tiers = d.tiers, e.rules = d.rules
  PROVE  Consistent(e)
BY Zenon DEF Consistent

(* The audit row changes the copy's count and nothing else. *)
LEMMA AppendAuditStep == StoreIInv /\ AppendAudit => StoreIInv'
<1> SUFFICES ASSUME StoreIInv, AppendAudit PROVE StoreIInv'
  OBVIOUS
<1> DEFINE e == [tx.db EXCEPT !.audit = @ + 1]
<1>1. /\ tx # NoTx /\ tx.next = "audit" /\ db' = db
      /\ tx' = [next |-> "commit", db |-> e]
  BY DEF AppendAudit
<1>2. /\ IsDB(tx.db) /\ Consistent(tx.db) /\ DependentsOnly(db, tx.db)
      /\ tx.db.audit = db.audit /\ db.audit < MaxEdits /\ db.audit \in Nat
  BY <1>1, StoreAssumption DEF StoreIInv, StoreTypeOK, IsDB
<1>3. e = [profiles |-> tx.db.profiles, targets |-> tx.db.targets, tiers |-> tx.db.tiers,
           rules |-> tx.db.rules, users |-> tx.db.users, spent |-> tx.db.spent,
           audit |-> db.audit + 1]
  BY <1>2 DEF IsDB
<1>4. IsDB(e)
  BY <1>2, <1>3, StoreAssumption DEF IsDB
<1>5. Consistent(e) /\ DependentsOnly(db, e) /\ e.audit = db.audit + 1
  <2>1. /\ e.profiles = tx.db.profiles /\ e.targets = tx.db.targets /\ e.tiers = tx.db.tiers
        /\ e.rules = tx.db.rules /\ e.users = tx.db.users /\ e.audit = db.audit + 1
        /\ e.spent = tx.db.spent
    BY <1>3
  <2> HIDE DEF e
  <2>2. Consistent(e)
    BY <1>2, <2>1, ConsistentTables
  <2>3. DependentsOnly(db, e)
    BY <1>2, <2>1 DEF DependentsOnly
  <2> QED BY <2>1, <2>2, <2>3
<1>6. tx'.next = "commit" /\ tx'.db = e
  BY <1>1
<1> HIDE DEF e
<1>7. StoreTypeOK'
  BY <1>1, <1>4, <1>6 DEF StoreIInv, StoreTypeOK
<1> QED BY <1>1, <1>2, <1>5, <1>6, <1>7 DEF StoreIInv

(* Every step of the store keeps the invariant. *)
LEMMA StoreStep == StoreIInv /\ [StoreNext]_storeVars => StoreIInv'
<1> SUFFICES ASSUME StoreIInv, [StoreNext]_storeVars PROVE StoreIInv'
  OBVIOUS
<1>1. CASE AppendAudit
  BY <1>1, AppendAuditStep
<1>2. CASE Commit
  BY <1>2 DEF Commit, StoreIInv, StoreTypeOK
<1>3. CASE Rollback
  BY <1>3 DEF Rollback, StoreIInv, StoreTypeOK
<1>4. CASE UNCHANGED storeVars
  BY <1>4 DEF storeVars, StoreIInv, StoreTypeOK
<1> QED BY <1>1, <1>2, <1>3, <1>4, MutationStep DEF StoreNext

(* So does the initial state: the scripts' tables. *)
LEMMA StoreStart == StoreInit => StoreIInv
BY SeedsAssumption DEF StoreInit, StoreIInv, StoreTypeOK

(* The invariant is inductive. *)
THEOREM StoreInductive == StoreSpec => []StoreIInv
BY StoreStart, StoreStep, PTL DEF StoreSpec

(* The tables, committed and in a transaction, keep their types. *)
THEOREM StoreTypeCorrect == StoreSpec => []StoreTypeOK
<1>1. StoreIInv => StoreTypeOK
  BY DEF StoreIInv
<1> QED BY <1>1, StoreInductive, PTL

(* ReferencesResolve, for any number of rows and any sequence of calls. *)
THEOREM ReferencesAlwaysResolve == StoreSpec => []ReferencesResolve
<1>1. StoreIInv => ReferencesResolve
  BY DEF StoreIInv, ReferencesResolve
<1> QED BY <1>1, StoreInductive, PTL

(* A step that changes the committed tables is the commit of a statement   *)
(* and its audit row.                                                      *)
LEMMA OnlyCommitWrites ==
  ASSUME StoreIInv, [StoreNext]_storeVars
  PROVE  \/ db' = db
         \/ DependentsOnly(db, db') /\ db'.audit = db.audit + 1
<1>1. CASE Commit
  BY <1>1 DEF Commit, StoreIInv
<1>2. CASE ~Commit
  BY <1>2 DEF StoreNext, storeVars, Mutate, PutProfile, DelProfile, PutTarget, DelTarget,
     PutTier, DelTier, PutRule, DelRule, PutUser, AppendAudit, Rollback
<1> QED BY <1>1, <1>2

(* EveryMutationAudited: mutateWithAudit's promise. *)
THEOREM AuditComplete == StoreSpec => EveryMutationAudited
<1>1. StoreIInv /\ [StoreNext]_storeVars =>
        [Tables(db') # Tables(db) => db'.audit = db.audit + 1]_storeVars
  BY OnlyCommitWrites DEF storeVars
<1> QED BY <1>1, StoreInductive, PTL DEF StoreSpec, EveryMutationAudited

(* DeletesReachOnlyDependents: the foreign keys' promise. *)
THEOREM DeletesContained == StoreSpec => DeletesReachOnlyDependents
<1>1. DependentsOnly(db, db)
  BY DEF DependentsOnly, Gone
<1>2. StoreIInv /\ [StoreNext]_storeVars => [DependentsOnly(db, db')]_storeVars
  BY <1>1, OnlyCommitWrites DEF storeVars
<1> QED BY <1>2, StoreInductive, PTL DEF StoreSpec, DeletesReachOnlyDependents

------------------------------------------------------------------------------
(* Writing a row twice is writing it once. *)
LEMMA PutTwice ==
  ASSUME NEW f, NEW k, NEW row
  PROVE  Put(Put(f, k, row), k, row) = Put(f, k, row)
BY DEF Put

(* After ON CONFLICT (name) the name has one row, so the statement finds   *)
(* that row and writes what it holds.                                      *)
LEMMA ProfilePutTwice ==
  ASSUME NEW d, Good(d), NEW n \in Names, NEW b \in BOOLEAN, NEW e \in UpsertProfile(d, n, b)
  PROVE  UpsertProfile(e, n, b) = {e}
<1> DEFINE same(x) == {i \in DOMAIN x.profiles : x.profiles[i].name = n}
           row == [name |-> n, enabled |-> b]
<1>1. PICK i \in KeptOrFresh(same(d), ProfileIds \ d.spent) :
        e = [d EXCEPT !.profiles = Put(@, i, row), !.spent = @ \cup {i}]
  BY DEF UpsertProfile
<1>2. \A j \in DOMAIN d.profiles : d.profiles[j].name = n => j = i
  BY DEF KeptOrFresh, Good, Consistent
<1>3. e = [profiles |-> Put(d.profiles, i, row),
           targets |-> d.targets, tiers |-> d.tiers, rules |-> d.rules,
           users |-> d.users, spent |-> d.spent \cup {i}, audit |-> d.audit]
  BY <1>1 DEF Good, IsDB
<1>4. same(e) = {i}
  BY <1>2, <1>3 DEF Put
<1>5. Put(e.profiles, i, row) = e.profiles /\ e.spent \cup {i} = e.spent
  BY <1>3, PutTwice
<1>6. [e EXCEPT !.profiles = Put(@, i, row), !.spent = @ \cup {i}] = e
  BY <1>3, <1>5
<1>7. UpsertProfile(e, n, b) =
        {[e EXCEPT !.profiles = Put(@, j, row), !.spent = @ \cup {j}] : j \in {i}}
  BY <1>4 DEF UpsertProfile, KeptOrFresh
<1> QED BY <1>6, <1>7

(* The same for ON CONFLICT (public_alias); the profile is still there. *)
LEMMA TargetPutTwice ==
  ASSUME NEW d, Good(d), NEW a \in Aliases, NEW v, NEW b \in BOOLEAN,
         NEW e \in UpsertTarget(d, a, v, b)
  PROVE  UpsertTarget(e, a, v, b) = {e}
<1> DEFINE same(x) == {t \in DOMAIN x.targets : x.targets[t].alias = a}
           row == [alias |-> a, vpn |-> v, enabled |-> b]
<1>1. PICK t \in KeptOrFresh(same(d), TargetIds \ d.spent) :
        /\ v \in DOMAIN d.profiles \cup {NoId}
        /\ e = [d EXCEPT !.targets = Put(@, t, row), !.spent = @ \cup {t}]
  BY DEF UpsertTarget
<1>2. \A u \in DOMAIN d.targets : d.targets[u].alias = a => u = t
  BY DEF KeptOrFresh, Good, Consistent
<1>3. e = [profiles |-> d.profiles, targets |-> Put(d.targets, t, row),
           tiers |-> d.tiers, rules |-> d.rules,
           users |-> d.users, spent |-> d.spent \cup {t}, audit |-> d.audit]
  BY <1>1 DEF Good, IsDB
<1>4. same(e) = {t}
  BY <1>2, <1>3 DEF Put
<1>5. Put(e.targets, t, row) = e.targets /\ e.spent \cup {t} = e.spent
  BY <1>3, PutTwice
<1>6. [e EXCEPT !.targets = Put(@, t, row), !.spent = @ \cup {t}] = e
  BY <1>3, <1>5
<1>7. v \in DOMAIN e.profiles \cup {NoId}
  BY <1>1, <1>3
<1>8. UpsertTarget(e, a, v, b) =
        {[e EXCEPT !.targets = Put(@, u, row), !.spent = @ \cup {u}] : u \in {t}}
  <2>1. {x \in KeptOrFresh(same(e), TargetIds \ e.spent) : v \in DOMAIN e.profiles \cup {NoId}}
          = {t}
    BY <1>4, <1>7 DEF KeptOrFresh
  <2> QED BY <2>1 DEF UpsertTarget
<1> QED BY <1>6, <1>8

(* A tier that was taken by the profile may be given to it again: the      *)
(* UNIQUE (target, profile) of the chain looks at the other tiers.         *)
LEMMA TierPutTwice ==
  ASSUME NEW d, Good(d), NEW t, NEW k, NEW i, NEW e \in UpsertTier(d, t, k, i)
  PROVE  UpsertTier(e, t, k, i) = {e}
<1> DEFINE Fits(x) == /\ t \in DOMAIN x.targets
                      /\ i \in DOMAIN x.profiles
                      /\ \A l \in Tiers \ {k} :
                           <<t, l>> \in DOMAIN x.tiers => x.tiers[<<t, l>>] # i
<1>1. Fits(d) /\ e = [d EXCEPT !.tiers = Put(@, <<t, k>>, i)]
  BY DEF UpsertTier
<1>2. e = [profiles |-> d.profiles, targets |-> d.targets,
           tiers |-> Put(d.tiers, <<t, k>>, i), rules |-> d.rules,
           users |-> d.users, spent |-> d.spent, audit |-> d.audit]
  BY <1>1 DEF Good, IsDB
<1>3. \A l \in Tiers \ {k} : <<t, l>> \in DOMAIN e.tiers =>
        <<t, l>> \in DOMAIN d.tiers /\ e.tiers[<<t, l>>] = d.tiers[<<t, l>>]
  BY <1>2 DEF Put
<1>4. Fits(e)
  BY <1>1, <1>2, <1>3
<1>5. Put(e.tiers, <<t, k>>, i) = e.tiers
  BY <1>2, PutTwice
<1>6. [e EXCEPT !.tiers = Put(@, <<t, k>>, i)] = e
  BY <1>2, <1>5
<1>7. UpsertTier(e, t, k, i) = {[e EXCEPT !.tiers = Put(@, <<t, k>>, i)]}
  BY <1>4 DEF UpsertTier
<1> QED BY <1>6, <1>7

(* An UPDATE of a rule by its id finds the row again, and its target. *)
LEMMA RulePutTwice ==
  ASSUME NEW d, Good(d), NEW id \in RuleIds, NEW rule, NEW e \in UpsertRule(d, id, rule)
  PROVE  UpsertRule(e, id, rule) = {e}
<1> DEFINE Valid(x) == /\ rule.host # NoId \/ rule.path
                       /\ rule.target \in DOMAIN x.targets \cup {NoId}
<1>1. id # NoId
  BY StoreAssumption
<1>2. /\ id \in DOMAIN d.rules /\ Valid(d)
      /\ e = [d EXCEPT !.rules = Put(@, id, rule), !.spent = @ \cup {id}]
  BY <1>1 DEF UpsertRule
<1>3. e = [profiles |-> d.profiles, targets |-> d.targets, tiers |-> d.tiers,
           rules |-> Put(d.rules, id, rule),
           users |-> d.users, spent |-> d.spent \cup {id}, audit |-> d.audit]
  BY <1>2 DEF Good, IsDB
<1>4. id \in DOMAIN e.rules /\ Valid(e)
  BY <1>2, <1>3 DEF Put
<1>5. Put(e.rules, id, rule) = e.rules /\ e.spent \cup {id} = e.spent
  BY <1>3, PutTwice
<1>6. [e EXCEPT !.rules = Put(@, id, rule), !.spent = @ \cup {id}] = e
  BY <1>3, <1>5
<1>7. UpsertRule(e, id, rule) =
        {[e EXCEPT !.rules = Put(@, r, rule), !.spent = @ \cup {r}] : r \in {id}}
  <2>1. {x \in IF id = NoId THEN NextRuleId(e) ELSE {id} \cap DOMAIN e.rules : Valid(e)} = {id}
    BY <1>1, <1>4
  <2> QED BY <2>1 DEF UpsertRule
<1> QED BY <1>6, <1>7

(* A user is written under the username, with the same default role. *)
LEMMA UserPutTwice ==
  ASSUME NEW d, Good(d), NEW u, NEW role, NEW s \in BOOLEAN, NEW b \in BOOLEAN,
         NEW e \in UpsertUser(d, u, role, s, b)
  PROVE  UpsertUser(e, u, role, s, b) = {e}
<1> DEFINE r == IF role = "" THEN "user" ELSE role
           row == [role |-> r, enabled |-> b]
<1>1. s /\ r \in {"admin", "user"} /\ e = [d EXCEPT !.users = Put(@, u, row)]
  BY DEF UpsertUser
<1>2. e = [profiles |-> d.profiles, targets |-> d.targets, tiers |-> d.tiers,
           rules |-> d.rules, users |-> Put(d.users, u, row), spent |-> d.spent,
           audit |-> d.audit]
  BY <1>1 DEF Good, IsDB
<1>3. Put(e.users, u, row) = e.users
  <2>1. e.users = Put(d.users, u, row)
    BY <1>2
  <2> HIDE DEF row
  <2> QED BY <2>1, PutTwice
<1>4. [e EXCEPT !.users = Put(@, u, row)] = e
  BY <1>2, <1>3
<1>5. UpsertUser(e, u, role, s, b) = {[e EXCEPT !.users = Put(@, u, row)]}
  BY <1>1 DEF UpsertUser
<1> QED BY <1>4, <1>5

(* RetriedPutIsHarmless: a PUT whose answer was lost may be sent again. *)
THEOREM RetriesHarmless == StoreSpec => []RetriedPutIsHarmless
<1>1. StoreIInv => Good(db)
  BY DEF StoreIInv, StoreTypeOK, Good
<1>2. ASSUME Good(db) PROVE RetriedPutIsHarmless
  <2>1. \A n \in Names, b \in BOOLEAN :
          \A d \in UpsertProfile(db, n, b) : UpsertProfile(d, n, b) = {d}
    BY <1>2, ProfilePutTwice
  <2>2. \A a \in Aliases, v \in ProfileIds \cup {NoId}, b \in BOOLEAN :
          \A d \in UpsertTarget(db, a, v, b) : UpsertTarget(d, a, v, b) = {d}
    BY <1>2, TargetPutTwice
  <2>3. \A t \in TargetIds, k \in Tiers, i \in ProfileIds :
          \A d \in UpsertTier(db, t, k, i) : UpsertTier(d, t, k, i) = {d}
    BY <1>2, TierPutTwice
  <2>4. \A id \in RuleIds, rule \in Rule :
          \A d \in UpsertRule(db, id, rule) : UpsertRule(d, id, rule) = {d}
    BY <1>2, RulePutTwice
  <2>5. \A u \in Usernames, role \in Roles, s, b \in BOOLEAN :
          \A d \in UpsertUser(db, u, role, s, b) : UpsertUser(d, u, role, s, b) = {d}
    BY <1>2, UserPutTwice
  <2> QED BY <2>1, <2>2, <2>3, <2>4, <2>5 DEF RetriedPutIsHarmless
<1> QED BY <1>1, <1>2, StoreInductive, PTL

------------------------------------------------------------------------------
(* The natural numbers are well-ordered. *)
LEMMA LeastNat ==
  ASSUME NEW S \in SUBSET Nat, S # {}
  PROVE  \E x \in S : \A y \in S : x <= y
<1>1. PICK x \in S : \A y \in S : ~(<<y, x>> \in OpToRel(<, Nat))
  BY NatLessThanWellFounded, WFMin, Zenon
<1>2. ASSUME NEW y \in S PROVE x <= y
  <2>1. ~(<<y, x>> \in {ss \in Nat \X Nat : ss[1] < ss[2]})
    BY <1>1, <1>2, Zenon DEF OpToRel
  <2> QED BY <2>1, <1>2
<1> QED BY <1>2

(* ORDER BY priority DESC, created_at ASC has a first row: an INTEGER      *)
(* column has a largest value, and of its rows the oldest is one row.      *)
LEMMA FirstRule ==
  ASSUME NEW d, IsDB(d), NEW h \in Hosts,
         \E r \in DOMAIN d.rules : d.rules[r].enabled /\ d.rules[r].host = h
  PROVE  \E r \in DOMAIN d.rules : GetRuleByHost(d, h) = {r}
<1>1. MaxInteger \in Nat
  BY SMT DEF MaxInteger
<1> DEFINE matching == {r \in DOMAIN d.rules : d.rules[r].enabled /\ d.rules[r].host = h}
           P(r) == d.rules[r].priority
           below == {MaxInteger - P(r) : r \in matching}
<1>2. /\ matching # {} /\ matching \subseteq DOMAIN d.rules /\ matching \subseteq Nat
      /\ \A r \in matching : P(r) \in Int /\ P(r) <= MaxInteger
  <2>1. matching # {} /\ matching \subseteq DOMAIN d.rules
    OBVIOUS
  <2>2. \A r \in DOMAIN d.rules : r \in Nat /\ P(r) \in Priorities
    BY StoreAssumption DEF IsDB, IsTable, Rule
  <2>3. \A p \in Priorities : p \in Int /\ p <= MaxInteger
    BY <1>1, StoreAssumption
  <2> QED BY <2>1, <2>2, <2>3
<1>3. GetRuleByHost(d, h) = {r \in matching : \A q \in matching \ {r} :
                               P(q) < P(r) \/ (P(q) = P(r) /\ r < q)}
  BY DEF GetRuleByHost
<1> HIDE DEF matching, P
<1>4. PICK top \in matching : \A r \in matching : P(r) <= P(top)
  <2>1. below \in SUBSET Nat /\ below # {}
    BY <1>2, <1>1
  <2>2. PICK m \in below : \A y \in below : m <= y
    BY <2>1, LeastNat
  <2>3. PICK top \in matching : m = MaxInteger - P(top)
    BY <2>2
  <2>4. \A r \in matching : MaxInteger - P(top) <= MaxInteger - P(r)
    BY <2>2, <2>3
  <2> QED BY <1>2, <1>1, <2>4
<1> DEFINE tops == {r \in matching : P(r) = P(top)}
<1>5. PICK r \in tops : \A q \in tops : r <= q
  <2>1. tops \in SUBSET Nat /\ tops # {}
    BY <1>2
  <2> QED BY <2>1, LeastNat
<1>6. r \in matching /\ r \in Nat /\ P(r) = P(top)
  BY <1>2, <1>5
<1>7. \A q \in matching \ {r} : P(q) < P(r) \/ (P(q) = P(r) /\ r < q)
  <2> TAKE q \in matching \ {r}
  <2>1. q \in Nat /\ P(q) \in Int /\ P(r) \in Int /\ P(q) <= P(r)
    BY <1>2, <1>4, <1>6
  <2>2. P(q) = P(r) => r <= q
    BY <1>5, <1>6
  <2> QED BY <1>6, <2>1, <2>2
<1>8. \A q \in matching \ {r} : ~(P(r) < P(q) \/ (P(r) = P(q) /\ q < r))
  <2> TAKE q \in matching \ {r}
  <2>1. q \in Nat /\ P(q) \in Int /\ P(r) \in Int
    BY <1>2, <1>6
  <2> QED BY <1>6, <1>7, <2>1
<1>9. GetRuleByHost(d, h) = {r}
  <2>1. r \in GetRuleByHost(d, h)
    BY <1>3, <1>6, <1>7
  <2>2. ASSUME NEW q \in GetRuleByHost(d, h), q # r PROVE FALSE
    <3>1. q \in matching \ {r} /\ r \in matching \ {q}
      BY <1>3, <1>6, <2>2
    <3>2. P(r) < P(q) \/ (P(r) = P(q) /\ q < r)
      BY <1>3, <3>1
    <3> QED BY <1>8, <3>1, <3>2
  <2> QED BY <2>1, <2>2
<1> QED BY <1>2, <1>6, <1>9

(* OneAnswerPerHost: the answer to GET /api/rules/{host} is determined. *)
THEOREM AnswersDetermined == StoreSpec => []OneAnswerPerHost
<1>1. StoreIInv => IsDB(db) /\ Consistent(db)
  BY DEF StoreIInv, StoreTypeOK
<1>2. ASSUME IsDB(db), Consistent(db) PROVE OneAnswerPerHost
  <2> SUFFICES ASSUME NEW h \in Hosts,
                      \E r \in DOMAIN db.rules : db.rules[r].enabled /\ db.rules[r].host = h
               PROVE  \E r \in DOMAIN db.rules :
                        /\ GetRuleByHost(db, h) = {r}
                        /\ db.rules[r].target \in DOMAIN db.targets \cup {NoId}
    BY DEF OneAnswerPerHost
  <2>1. PICK r \in DOMAIN db.rules : GetRuleByHost(db, h) = {r}
    BY <1>2, FirstRule
  <2>2. db.rules[r].target \in DOMAIN db.targets \cup {NoId}
    BY <1>2 DEF Consistent
  <2> QED BY <2>1, <2>2
<1> QED BY <1>1, <1>2, StoreInductive, PTL

==============================================================================
