----------------------------- MODULE ConfigStore -----------------------------
(***************************************************************************)
(* The routing tables in PostgreSQL (sql/schema.sql, internal/store) and   *)
(* the mutations the control API makes to them (internal/api/handlers.go). *)
(* Rows have surrogate ids that are never used twice; tables refer to each *)
(* other by id, everything outside the database by name or alias.          *)
(*                                                                         *)
(* Readers run outside any transaction and see committed rows only.        *)
(* Writers of the same or of referenced rows are serialised by PostgreSQL's *)
(* row locks and other writers commute, so one transaction at a time is    *)
(* open here.                                                              *)
(***************************************************************************)
EXTENDS Integers

CONSTANTS
  ProfileIds,  \* ids of vpn_profiles rows
  TargetIds,   \* ids of target_hosts rows
  Names,       \* profile names, ordered as numbers
  Aliases,     \* public aliases, ordered as numbers
  Tiers,       \* failover tiers
  RuleIds,     \* ids of proxy_rules rows, in the order of created_at
  Hosts,       \* hosts a rule may match
  Priorities,  \* priorities of rules, an INTEGER column
  Usernames,   \* names of proxy_users rows
  NoId,        \* a NULL reference
  NoTx,        \* no transaction is open
  Seeds,       \* the tables the SQL scripts may have left
  MaxEdits     \* bound on the committed mutations

(* The largest value of PostgreSQL's INTEGER. *)
MaxInteger == 2147483647

ASSUME StoreAssumption ==
  /\ Names \subseteq Nat /\ Aliases \subseteq Nat /\ Tiers \subseteq Nat
  /\ RuleIds \subseteq Nat
  /\ Priorities \subseteq -MaxInteger - 1 .. MaxInteger
  /\ NoId \notin ProfileIds \cup TargetIds \cup RuleIds \cup Hosts
  /\ MaxEdits \in Nat

VARIABLES
  db,   \* the committed tables
  tx    \* the open transaction's view of them, and what it does next

storeVars == <<db, tx>>

Empty == [x \in {} |-> x]

Tables(d) == <<d.profiles, d.targets, d.tiers, d.rules, d.users>>

Put(f, k, row) == [x \in DOMAIN f \cup {k} |-> IF x = k THEN row ELSE f[x]]

Without(f, gone) == [x \in DOMAIN f \ gone |-> f[x]]

Profile == [name: Names, enabled: BOOLEAN]

Target == [alias: Aliases, vpn: ProfileIds \cup {NoId}, enabled: BOOLEAN]

(* match_host may be NULL; of match_path only whether it is there. *)
Rule == [priority: Priorities, host: Hosts \cup {NoId}, path: BOOLEAN,
         target: TargetIds \cup {NoId}, enabled: BOOLEAN]

User == [role: {"admin", "user"}, enabled: BOOLEAN]

------------------------------------------------------------------------------
(* The statements.  Each is the set of its outcomes, empty when a          *)
(* constraint refuses it: the row inserted gets a fresh id, the row found  *)
(* by its unique key keeps its own.                                        *)

KeptOrFresh(kept, fresh) == IF kept # {} THEN kept ELSE fresh

UpsertProfile(d, name, enabled) ==
  LET same == {i \in DOMAIN d.profiles : d.profiles[i].name = name}
  IN  {[d EXCEPT !.profiles = Put(@, i, [name |-> name, enabled |-> enabled]),
                 !.spent = @ \cup {i}] :
         i \in KeptOrFresh(same, ProfileIds \ d.spent)}

(* Mutant: ON DELETE CASCADE for the targets too. *)
DeleteProfile_CascadeTargets(d, id) ==
  {[d EXCEPT !.profiles = Without(@, {id}),
             !.targets = Without(@, {t \in DOMAIN @ : @[t].vpn = id}),
             !.tiers = Without(@, {k \in DOMAIN @ : \/ @[k] = id
                                                     \/ d.targets[k[1]].vpn = id}),
             !.rules = Without(@, {r \in DOMAIN @ : /\ @[r].target # NoId
                                                     /\ d.targets[@[r].target].vpn = id})]}

(* Mutant: SET NULL for the tiers too. *)
DeleteProfile_NullTiers(d, id) ==
  {[d EXCEPT !.profiles = Without(@, {id}),
             !.targets = [t \in DOMAIN @ |-> IF @[t].vpn = id
                                             THEN [@[t] EXCEPT !.vpn = NoId] ELSE @[t]],
             !.tiers = [k \in DOMAIN @ |-> IF @[k] = id THEN NoId ELSE @[k]]]}

(* Mutant: the tier rows of a deleted profile stay. *)
DeleteProfile_NoCascade(d, id) ==
  {[d EXCEPT !.profiles = Without(@, {id}),
             !.targets = [t \in DOMAIN @ |-> IF @[t].vpn = id
                                             THEN [@[t] EXCEPT !.vpn = NoId] ELSE @[t]]]}

(* ON DELETE SET NULL for targets, ON DELETE CASCADE for tiers; deleting   *)
(* an absent row is no error.                                              *)
DeleteProfile(d, id) ==
  {[d EXCEPT !.profiles = Without(@, {id}),
             !.targets = [t \in DOMAIN @ |-> IF @[t].vpn = id
                                             THEN [@[t] EXCEPT !.vpn = NoId] ELSE @[t]],
             !.tiers = Without(@, {k \in DOMAIN @ : @[k] = id})]}

(* Mutant: INSERT, without ON CONFLICT. *)
UpsertTarget_Inserts(d, alias, vpn, enabled) ==
  {[d EXCEPT !.targets = Put(@, t, [alias |-> alias, vpn |-> vpn, enabled |-> enabled]),
             !.spent = @ \cup {t}] :
     t \in {x \in TargetIds \ d.spent : vpn \in DOMAIN d.profiles \cup {NoId}}}

UpsertTarget(d, alias, vpn, enabled) ==
  LET same == {t \in DOMAIN d.targets : d.targets[t].alias = alias}
  IN  {[d EXCEPT !.targets = Put(@, t, [alias |-> alias, vpn |-> vpn, enabled |-> enabled]),
                 !.spent = @ \cup {t}] :
         t \in {x \in KeptOrFresh(same, TargetIds \ d.spent) :
                  vpn \in DOMAIN d.profiles \cup {NoId}}}

(* ON DELETE CASCADE for tiers and rules. *)
DeleteTarget(d, id) ==
  {[d EXCEPT !.targets = Without(@, {id}),
             !.tiers = Without(@, {k \in DOMAIN @ : k[1] = id}),
             !.rules = Without(@, {r \in DOMAIN @ : @[r].target = id})]}

(* Keyed on (target, tier); a profile occurs once in a target's chain. *)
UpsertTier(d, target, tier, profile) ==
  IF /\ target \in DOMAIN d.targets
     /\ profile \in DOMAIN d.profiles
     /\ \A k \in Tiers \ {tier} :
          <<target, k>> \in DOMAIN d.tiers => d.tiers[<<target, k>>] # profile
  THEN {[d EXCEPT !.tiers = Put(@, <<target, tier>>, profile)]}
  ELSE {}

DeleteTier(d, target, tier) == {[d EXCEPT !.tiers = Without(@, {<<target, tier>>})]}

(* The next rule inserted is younger than all others. *)
NextRuleId(d) == {r \in RuleIds \ d.spent : \A q \in RuleIds \ d.spent : r <= q}

(* id is NoId to insert, else an UPDATE: ErrNotFound if there is no row. *)
UpsertRule(d, id, rule) ==
  {[d EXCEPT !.rules = Put(@, r, rule), !.spent = @ \cup {r}] :
     r \in {x \in IF id = NoId THEN NextRuleId(d) ELSE {id} \cap DOMAIN d.rules :
              /\ rule.host # NoId \/ rule.path
              /\ rule.target \in DOMAIN d.targets \cup {NoId}}}

DeleteRule(d, id) == {[d EXCEPT !.rules = Without(@, {id})]}

(* Mutant: rules of the same priority are not told apart. *)
GetRuleByHost_NoTieBreak(d, host) ==
  LET matching == {r \in DOMAIN d.rules : d.rules[r].enabled /\ d.rules[r].host = host}
  IN  {r \in matching : \A q \in matching : d.rules[q].priority <= d.rules[r].priority}

(* ORDER BY priority DESC, created_at ASC: the rows no other row precedes. *)
GetRuleByHost(d, host) ==
  LET matching == {r \in DOMAIN d.rules : d.rules[r].enabled /\ d.rules[r].host = host}
  IN  {r \in matching : \A q \in matching \ {r} :
         \/ d.rules[q].priority < d.rules[r].priority
         \/ (d.rules[q].priority = d.rules[r].priority /\ r < q)}

(* No role means "user"; the table refuses other roles and an empty        *)
(* secret reference.                                                       *)
UpsertUser(d, username, role, secret, enabled) ==
  {[d EXCEPT !.users = Put(@, username, [role |-> r, enabled |-> enabled])] :
     r \in {x \in {IF role = "" THEN "user" ELSE role} : secret /\ x \in {"admin", "user"}}}

------------------------------------------------------------------------------
(* mutateWithAudit: mutate, append the audit row, commit, on one tx. *)

StoreInit ==
  /\ db \in Seeds
  /\ tx = NoTx

(* Mutant: the mutation runs on the pool instead of the transaction. *)
Mutate_OnPool(outcomes) ==
  /\ tx = NoTx
  /\ db.audit < MaxEdits
  /\ \E d \in outcomes : db' = d /\ tx' = [next |-> "audit", db |-> d]

(* BeginTx and the handler's statement.  A refused statement ends in a     *)
(* rollback, as if nothing had been asked.                                 *)
Mutate(outcomes) ==
  /\ tx = NoTx
  /\ db.audit < MaxEdits
  /\ \E d \in outcomes : tx' = [next |-> "audit", db |-> d]
  /\ UNCHANGED db

PutProfile == \E n \in Names, e \in BOOLEAN : Mutate(UpsertProfile(db, n, e))

DelProfile == \E i \in ProfileIds : Mutate(DeleteProfile(db, i))

PutTarget ==
  \E a \in Aliases, v \in ProfileIds \cup {NoId}, e \in BOOLEAN : Mutate(UpsertTarget(db, a, v, e))

DelTarget == \E t \in TargetIds : Mutate(DeleteTarget(db, t))

PutTier == \E t \in TargetIds, k \in Tiers, i \in ProfileIds : Mutate(UpsertTier(db, t, k, i))

DelTier == \E t \in TargetIds, k \in Tiers : Mutate(DeleteTier(db, t, k))

(* putRule answers 400 to a rule that matches neither host nor path. *)
PutRule ==
  \E id \in RuleIds \cup {NoId}, rule \in Rule :
    /\ rule.host # NoId \/ rule.path
    /\ Mutate(UpsertRule(db, id, rule))

DelRule == \E r \in RuleIds : Mutate(DeleteRule(db, r))

(* The roles a request may ask for, "" when it names none. *)
Roles == {"", "admin", "user", "other"}

PutUser ==
  \E u \in Usernames, role \in Roles, s, e \in BOOLEAN :
    Mutate(UpsertUser(db, u, role, s, e))

AppendAudit ==
  /\ tx # NoTx
  /\ tx.next = "audit"
  /\ tx' = [next |-> "commit", db |-> [tx.db EXCEPT !.audit = @ + 1]]
  /\ UNCHANGED db

Commit ==
  /\ tx # NoTx
  /\ tx.next = "commit"
  /\ db' = tx.db
  /\ tx' = NoTx

(* A failed audit write or commit, a client that went away (the request's  *)
(* context is the transaction's), a crash of the API or of PostgreSQL.     *)
Rollback ==
  /\ tx # NoTx
  /\ tx' = NoTx
  /\ UNCHANGED db

StoreNext ==
  \/ PutProfile \/ DelProfile
  \/ PutTarget \/ DelTarget
  \/ PutTier \/ DelTier
  \/ PutRule \/ DelRule \/ PutUser
  \/ AppendAudit \/ Commit \/ Rollback

StoreSpec == StoreInit /\ [][StoreNext]_storeVars

------------------------------------------------------------------------------
IsTable(f, ids, rows) == DOMAIN f \subseteq ids /\ f \in [DOMAIN f -> rows]

IsDB(d) ==
  /\ d = [profiles |-> d.profiles, targets |-> d.targets, tiers |-> d.tiers, rules |-> d.rules,
          users |-> d.users, spent |-> d.spent, audit |-> d.audit]
  /\ IsTable(d.profiles, ProfileIds, Profile)
  /\ IsTable(d.targets, TargetIds, Target)
  /\ IsTable(d.tiers, TargetIds \X Tiers, ProfileIds)
  /\ IsTable(d.rules, RuleIds, Rule)
  /\ IsTable(d.users, Usernames, User)
  /\ d.spent \subseteq ProfileIds \cup TargetIds \cup RuleIds
  /\ d.audit \in 0 .. MaxEdits

StoreTypeOK ==
  /\ IsDB(db)
  /\ tx # NoTx => /\ tx = [next |-> tx.next, db |-> tx.db]
                  /\ tx.next \in {"audit", "commit"}
                  /\ IsDB(tx.db)

Consistent(d) ==
  /\ \A i, j \in DOMAIN d.profiles : d.profiles[i].name = d.profiles[j].name => i = j
  /\ \A t, u \in DOMAIN d.targets : d.targets[t].alias = d.targets[u].alias => t = u
  /\ \A t \in DOMAIN d.targets : d.targets[t].vpn \in DOMAIN d.profiles \cup {NoId}
  /\ \A k \in DOMAIN d.tiers : k[1] \in DOMAIN d.targets /\ d.tiers[k] \in DOMAIN d.profiles
  /\ \A k, l \in DOMAIN d.tiers : k[1] = l[1] /\ d.tiers[k] = d.tiers[l] => k = l
  /\ \A r \in DOMAIN d.rules : d.rules[r].target \in DOMAIN d.targets \cup {NoId}

(* The scripts leave tables that keep their own constraints. *)
ASSUME SeedsAssumption == \A d \in Seeds : IsDB(d) /\ Consistent(d)

(* Whatever sequence of API calls ran, every reference in the committed    *)
(* tables resolves, names and aliases are unique, and a failover chain     *)
(* lists a tunnel once: what CompileAll's lookup maps rely on.             *)
ReferencesResolve == Consistent(db)

(* "an un-audited mutation is impossible" (handlers.go, mutateWithAudit):  *)
(* the tables never change without a new audit row in the same commit.     *)
EveryMutationAudited ==
  [][Tables(db') # Tables(db) => db'.audit = db.audit + 1]_storeVars

Gone(f, g) == DOMAIN f \ DOMAIN g

(* What d has and e has not. *)
DependentsOnly(d, e) ==
  LET profiles == Gone(d.profiles, e.profiles)
      targets == Gone(d.targets, e.targets)
      tiers == Gone(d.tiers, e.tiers)
      rules == Gone(d.rules, e.rules)
  IN  /\ \A t, u \in targets : t = u
      /\ profiles = {} \/ targets = {}
      /\ \A k \in tiers : \/ k[1] \in targets
                           \/ d.tiers[k] \in profiles
                           \/ (tiers = {k} /\ profiles \cup targets = {})
      /\ \A r \in rules : \/ d.rules[r].target \in targets
                           \/ (rules = {r} /\ profiles \cup targets = {})
      /\ DOMAIN d.users \subseteq DOMAIN e.users

(* "deleting a profile orphans the target" (sql/schema.sql) and the tables *)
(* cascade no further than they say: what a commit takes away beside the   *)
(* row it deletes are tiers and rules of the target, or tiers of the       *)
(* profile, that it deletes; a target goes only when it is itself deleted. *)
DeletesReachOnlyDependents == [][DependentsOnly(db, db')]_storeVars

(* The answer to GET /api/rules/{host} is determined: of the enabled rules *)
(* for the host, when there are some, one comes first, and the target it   *)
(* names is there.                                                         *)
OneAnswerPerHost ==
  \A h \in Hosts :
    (\E r \in DOMAIN db.rules : db.rules[r].enabled /\ db.rules[r].host = h) =>
      \E r \in DOMAIN db.rules :
        /\ GetRuleByHost(db, h) = {r}
        /\ db.rules[r].target \in DOMAIN db.targets \cup {NoId}

(* A PUT that is sent again because its answer was lost changes nothing    *)
(* more: the store finds the row by its name, alias, tier, username or     *)
(* rule id.  A rule put without an id is the exception.                    *)
RetriedPutIsHarmless ==
  /\ \A n \in Names, e \in BOOLEAN :
       \A d \in UpsertProfile(db, n, e) : UpsertProfile(d, n, e) = {d}
  /\ \A a \in Aliases, v \in ProfileIds \cup {NoId}, e \in BOOLEAN :
       \A d \in UpsertTarget(db, a, v, e) : UpsertTarget(d, a, v, e) = {d}
  /\ \A t \in TargetIds, k \in Tiers, i \in ProfileIds :
       \A d \in UpsertTier(db, t, k, i) : UpsertTier(d, t, k, i) = {d}
  /\ \A id \in RuleIds, rule \in Rule :
       \A d \in UpsertRule(db, id, rule) : UpsertRule(d, id, rule) = {d}
  /\ \A u \in Usernames, role \in Roles, s, e \in BOOLEAN :
       \A d \in UpsertUser(db, u, role, s, e) : UpsertUser(d, u, role, s, e) = {d}

==============================================================================
