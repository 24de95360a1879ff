--------------------------- MODULE FeatureConfig ---------------------------
(***************************************************************************)
(* Which features a tenant has (features.ts) and the views whose features  *)
(* come and go with them (adminplatform.ts).  A request of the             *)
(* administrator writes several records one after the other and may break  *)
(* off between them; the features are resolved at any time from the        *)
(* records as they are.                                                    *)
(*                                                                         *)
(* One request of an administrator is under way at a time.  What a view    *)
(* shows and where it stands in the navigation is left out.                *)
(***************************************************************************)
EXTENDS Naturals, Sequences, FiniteSets

CONSTANTS
    BuiltIn,        \* FEATURE_REGISTRY, all of it on by default
    Requires,       \* per built-in feature: the features it requires, in order
    BuiltInViews,   \* the built-in features that are views' own
    NewViews,       \* the features of views that may be created
    FeatureRoles,
    Templates,      \* what an industry template may name; BuiltIn is the one of the battery industry
    TenantConfigs, RoleConfigs  \* overrides the administrator may save

AllFeatures == BuiltIn \cup NewViews
Overrides == UNION {[K -> BOOLEAN] : K \in SUBSET AllFeatures}

ASSUME FeatureConfigAssumption ==
    /\ IsFiniteSet(AllFeatures) /\ Requires \in [BuiltIn -> Seq(BuiltIn)] /\ BuiltInViews \subseteq BuiltIn
    /\ BuiltIn \cap NewViews = {} /\ Templates \subseteq SUBSET BuiltIn
    /\ TenantConfigs \cup RoleConfigs \subseteq Overrides

\* No entry of the registry is required along two ways: with what they require in turn, entries form trees.
RequirementsAreTrees ==
    \E below \in [BuiltIn -> SUBSET BuiltIn] : \A k \in BuiltIn :
        /\ k \in below[k]
        /\ \A i \in DOMAIN Requires[k] : below[Requires[k][i]] \subseteq below[k] \ {k}
        /\ \A i, j \in DOMAIN Requires[k] : i # j => below[Requires[k][i]] \cap below[Requires[k][j]] = {}

ASSUME RequirementsAssumption == RequirementsAreTrees

VARIABLES
    template,   \* of the tenant's industry
    registered, \* dynamicFeatures
    tenantCfg, roleCfg, \* featureConfigs: the overrides
    viewRoles,  \* per view: the roles whose document lists it
    saving,    \* of the administrator: the role documents and records it has still to put
    halfDone    \* history: a request broke off

featVars == <<template, registered, tenantCfg, roleCfg, viewRoles, saving, halfDone>>

Views == BuiltInViews \cup NewViews
RoleSets == (SUBSET FeatureRoles) \ {{}}
Save == [pc : {"idle", "docs", "feature", "merge"}, view : Views \cup {"none"}, drop : SUBSET FeatureRoles,
            add : SUBSET FeatureRoles, op : {"none", "create", "save", "delete"}]
NoSave == [pc |-> "idle", view |-> "none", drop |-> {}, add |-> {}, op |-> "none"]

FeatTypeOK ==
    /\ template \in Templates /\ registered \subseteq NewViews
    /\ tenantCfg \in Overrides /\ roleCfg \in [FeatureRoles -> Overrides]
    /\ viewRoles \in [Views -> SUBSET FeatureRoles]
    /\ saving \in Save /\ halfDone \in BOOLEAN

NoOverrides == [k \in {} |-> FALSE]

FeatInit ==
    /\ template \in Templates /\ registered = {}
    /\ tenantCfg = NoOverrides /\ roleCfg = [r \in FeatureRoles |-> NoOverrides]
    /\ viewRoles = [v \in Views |-> IF v \in BuiltInViews THEN FeatureRoles ELSE {}]
    /\ saving = NoSave /\ halfDone = FALSE

-----------------------------------------------------------------------------
(* Resolution *)

On(overrides) == {k \in DOMAIN overrides : overrides[k]}
Off(overrides) == DOMAIN overrides \ On(overrides)

\* Defaults, narrowed to what the template names and widened by it, then the tenant's overrides.
TenantLayers == (template \cup On(tenantCfg)) \ Off(tenantCfg)

\* A role only takes away.
RoleLayers(r) == TenantLayers \ Off(roleCfg[r])

\* isOn walks what a key requires, depth first, and remembers every key it meets.  A key that is off
\* ends the walk, and so does one that is met again: it is taken for a cycle.
Required(key) == IF key \in BuiltIn THEN Requires[key] ELSE <<>>
WalkStart(key) == [ahead |-> <<key>>, seen |-> {}, on |-> TRUE]

WalkTurn(walk, on) ==
    LET key == Head(walk.ahead) IN
    IF walk.ahead = <<>> \/ ~walk.on THEN walk
    ELSE IF key \in walk.seen \/ key \notin on THEN [walk EXCEPT !.on = FALSE]
    ELSE [walk EXCEPT !.ahead = Required(key) \o Tail(@), !.seen = @ \cup {key}]

Walk(key, on) ==
    LET after[n \in 0..Cardinality(AllFeatures)] ==
            IF n = 0 THEN WalkStart(key) ELSE WalkTurn(after[n - 1], on) IN after

IsOn(key, on) == LET walk == Walk(key, on)[Cardinality(AllFeatures)] IN walk.on /\ walk.ahead = <<>>

\* Mutant of Cascade: only the features a key names itself are looked at.
CascadeOneLevel(on) == {k \in on : k \in BuiltIn => \A i \in DOMAIN Requires[k] : Requires[k][i] \in on}

Cascade(on) == {k \in on : IsOn(k, on)}

TenantFeatures == Cascade(TenantLayers)
RoleFeatures(r) == Cascade(RoleLayers(r))
UserFeatures(roles) == IF roles = {} THEN TenantFeatures ELSE UNION {RoleFeatures(r) : r \in roles}

-----------------------------------------------------------------------------
(* What the administrator does *)

KnownKeys(overrides) == DOMAIN overrides \subseteq BuiltIn \cup registered

\* putTenantConfig replaces all overrides.
TenantConfigPut == \E overrides \in TenantConfigs :
    /\ saving = NoSave /\ KnownKeys(overrides)
    /\ tenantCfg' = overrides
    /\ UNCHANGED <<template, registered, roleCfg, viewRoles, saving, halfDone>>

\* putRoleConfig turns nothing on that the tenant does not have.
RoleConfigPut(r) == \E overrides \in RoleConfigs :
    /\ saving = NoSave /\ KnownKeys(overrides) /\ On(overrides) \subseteq TenantFeatures
    /\ roleCfg' = [roleCfg EXCEPT ![r] = overrides]
    /\ UNCHANGED <<template, registered, tenantCfg, viewRoles, saving, halfDone>>

\* A new view is listed for roles, unless some document lists it already.
ViewCreated(v, roles) ==
    /\ saving = NoSave /\ viewRoles[v] = {}
    /\ saving' = [pc |-> "docs", view |-> v, drop |-> {}, add |-> roles, op |-> "create"]
    /\ UNCHANGED <<template, registered, tenantCfg, roleCfg, viewRoles, halfDone>>

\* A view that is listed gets other contents, and maybe other roles.
ViewSaved(v, roles) ==
    /\ saving = NoSave /\ viewRoles[v] # {}
    /\ saving' = [pc |-> "docs", view |-> v, drop |-> viewRoles[v] \ roles, add |-> roles, op |-> "save"]
    /\ UNCHANGED <<template, registered, tenantCfg, roleCfg, viewRoles, halfDone>>

ViewDeleted(v) ==
    /\ saving = NoSave /\ viewRoles[v] # {}
    /\ saving' = [pc |-> "docs", view |-> v, drop |-> viewRoles[v], add |-> {}, op |-> "delete"]
    /\ UNCHANGED <<template, registered, tenantCfg, roleCfg, viewRoles, halfDone>>

\* One role's document after the other is put, those that lose the view first.
DocPut == \E r \in IF saving.drop # {} THEN saving.drop ELSE saving.add :
    /\ saving.pc = "docs"
    /\ viewRoles' = [viewRoles EXCEPT ![saving.view] = IF saving.drop # {} THEN @ \ {r} ELSE @ \cup {r}]
    /\ saving' = [saving EXCEPT !.drop = @ \ {r}, !.add = IF saving.drop # {} THEN @ ELSE @ \ {r}]
    /\ UNCHANGED <<template, registered, tenantCfg, roleCfg, halfDone>>

\* Mutant of FeaturePut: the feature of a built-in view is registered like any other.
FeaturePutAny == LET v == saving.view IN
    /\ saving.pc = "docs" /\ saving.drop = {} /\ saving.add = {}
    /\ registered' = IF saving.op = "delete" THEN registered \ {v} ELSE registered \cup {v}
    /\ saving' = [saving EXCEPT !.pc = "merge"]
    /\ UNCHANGED <<template, tenantCfg, roleCfg, viewRoles, halfDone>>

\* Then the view's feature is registered, or its registration removed; a built-in one is neither.
\* To save a view leaves the registration alone.
FeaturePut == LET v == saving.view IN
    /\ saving.pc = "docs" /\ saving.drop = {} /\ saving.add = {}
    /\ registered' = IF v \in BuiltIn THEN registered
                     ELSE CASE saving.op = "create" -> registered \cup {v}
                            [] saving.op = "delete" -> registered \ {v}
                            [] OTHER -> registered
    /\ saving' = IF v \in BuiltIn /\ saving.op # "save" THEN NoSave
                  ELSE IF saving.op = "save" /\ v \notin BuiltIn \cup registered THEN NoSave
                  ELSE [saving EXCEPT !.pc = "merge"]
    /\ UNCHANGED <<template, tenantCfg, roleCfg, viewRoles, halfDone>>

\* mergeTenantOverride: the key is set to true, also when a view was only saved; after a deletion it
\* is taken out.
OverrideMerged == LET v == saving.view IN
    /\ saving.pc = "merge"
    /\ tenantCfg' = IF saving.op = "delete" THEN [k \in DOMAIN tenantCfg \ {v} |-> tenantCfg[k]]
                    ELSE [k \in DOMAIN tenantCfg \cup {v} |-> k = v \/ tenantCfg[k]]
    /\ saving' = NoSave
    /\ UNCHANGED <<template, registered, roleCfg, viewRoles, halfDone>>

\* A write fails or the process stops.
SaveBreaks ==
    /\ saving # NoSave
    /\ saving' = NoSave /\ halfDone' = TRUE
    /\ UNCHANGED <<template, registered, tenantCfg, roleCfg, viewRoles>>

FeatNext ==
    \/ TenantConfigPut \/ DocPut \/ FeaturePut \/ OverrideMerged \/ SaveBreaks
    \/ \E r \in FeatureRoles : RoleConfigPut(r)
    \/ \E v \in Views : \/ ViewDeleted(v)
                        \/ \E roles \in RoleSets : ViewCreated(v, roles) \/ ViewSaved(v, roles)

FeatSpec == FeatInit /\ [][FeatNext]_featVars

-----------------------------------------------------------------------------
(* Properties *)

\* All that a feature requires is there, too.
Closed(keys) == \A k \in keys \cap BuiltIn : \A i \in DOMAIN Requires[k] : Requires[k][i] \in keys

\* Whatever was saved, and in the middle of a request as well: a role's features are the largest
\* closed part of what its layers leave on, no less and no more; no combination of roles has more than
\* the tenant; and outside of requests, unless one broke off, a created view is listed in some
\* document exactly when its feature is registered, and no feature outlives its registration.
ConfigurationSound ==
    /\ \A r \in FeatureRoles : RoleFeatures(r) = UNION {keys \in SUBSET RoleLayers(r) : Closed(keys)}
    /\ \A roles \in RoleSets : UserFeatures(roles) \subseteq TenantFeatures /\ Closed(UserFeatures(roles))
    /\ saving = NoSave /\ ~halfDone =>
        /\ \A v \in NewViews : viewRoles[v] # {} <=> v \in registered
        /\ TenantFeatures \subseteq BuiltIn \cup registered

\* What the tenant has switched off stays off until overrides are saved.
OffStaysOff == [][Off(tenantCfg) \cap BuiltIn \subseteq Off(tenantCfg') \/ TenantConfigPut]_featVars

=============================================================================
