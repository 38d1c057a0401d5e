-------------------------------- MODULE Plans --------------------------------
(***************************************************************************)
(* The catalogue of plans: what the data migrations put into the tables    *)
(* Feature, Plan and PlanFeature, forwards and back, the command that      *)
(* seeds the same features with other numbers, the edits an administrator  *)
(* makes in between, and the limits that the rest of aerobox reads from    *)
(* the three tables.                                                       *)
(*                                                                         *)
(* A migration runs in a transaction of its own, so a deployment may stop  *)
(* between any two.  Limits are in MB, prices in cents.  The features      *)
(* file_preview and basic_support are left out: no code reads them.        *)
(***************************************************************************)
EXTENDS Integers

CONSTANTS
    EditableFeatures,  \* features an administrator edits or deletes
    EditableRows,      \* rows <<plan, code>> an administrator edits or deletes
    EditablePlans,     \* plans an administrator edits or deletes
    HandMade,          \* HandMade[c]: the metadata an administrator writes for c
    Prices,            \* the prices an administrator sets
    Null,              \* null in metadata
    Junk,              \* what is no number in metadata: a word, a list
    None               \* no row, no limit

Plans == {"basic", "pro", "enterprise"}
Codes == {"cloud_storage", "file_sharing", "folder_creation"}
Numbers == {"max_storage_mb", "max_file_size_mb", "max_active_links", "max_expiration_minutes"}
Switches == {"allow_folder_sharing", "allow_password", "allow_choose_expiration"}
Keys == Numbers \cup Switches

PlanRow == [price : Nat, active : BOOLEAN]

ASSUME EditsAssumption ==
    /\ EditableFeatures \subseteq Codes
    /\ EditableRows \subseteq Plans \X Codes
    /\ EditablePlans \subseteq Plans
    /\ Prices \subseteq Nat
    /\ \A c \in Codes : \A meta \in HandMade[c] :
        /\ DOMAIN meta \subseteq Keys
        /\ \A k \in DOMAIN meta \cap Numbers : meta[k] \in Int \cup {Null, Junk}
ASSUME NullAssumption == Null \notin Int /\ Junk \notin Int /\ None \notin Int

VARIABLES
    applied,  \* the migrations recorded as applied
    feature,  \* table Feature: the default metadata by code, or None
    plan,     \* table Plan
    row,      \* table PlanFeature: row[p][c], the metadata of c in p, or None
    edited    \* history: what was written by hand since a migration wrote it

vars == <<applied, feature, plan, row, edited>>

-----------------------------------------------------------------------------
(* What the migrations and the command write *)

Migrations == {"features", "basic", "basic_features", "pro", "pro_features",
               "enterprise", "enterprise_features"}
Needs == [m \in Migrations |->
    CASE m = "basic_features"      -> {"features", "basic"}
      [] m = "pro"                 -> {"basic_features"}
      [] m = "pro_features"        -> {"features", "pro"}
      [] m = "enterprise"          -> {"pro_features"}
      [] m = "enterprise_features" -> {"features", "enterprise"}
      [] OTHER                     -> {}]
\* The migration that gives a plan its features.
Assigning(p) == CASE p = "basic" -> "basic_features"
                  [] p = "pro"   -> "pro_features"
                  [] OTHER       -> "enterprise_features"

Empty == [k \in {} |-> Null]
Storage(storage, file) == [max_storage_mb |-> storage, max_file_size_mb |-> file]
Sharing(allowed, links, minutes) ==
    [allow_folder_sharing |-> allowed, allow_password |-> allowed,
     allow_choose_expiration |-> allowed, max_active_links |-> links,
     max_expiration_minutes |-> minutes]

BasicFeatures == [c \in Codes |->
    CASE c = "cloud_storage" -> Storage(5000, 200)
      [] c = "file_sharing"  -> Sharing(FALSE, 1, 1440)
      [] OTHER               -> Empty]
CommandFeatures == [c \in Codes |->
    CASE c = "cloud_storage" -> Storage(2048, 200) [] OTHER -> Empty]
ProFeatures == [c \in Codes |->
    CASE c = "cloud_storage" -> Storage(50000, 2000)
      [] c = "file_sharing"  -> Sharing(TRUE, 50, Null)
      [] OTHER               -> Empty]
EnterpriseFeatures == [c \in Codes |->
    CASE c = "cloud_storage" -> Storage(1000000, 5000)
      [] c = "file_sharing"  -> Sharing(TRUE, 100, Null)
      [] OTHER               -> Empty]

Granted(p) == CASE p = "basic" -> BasicFeatures
                [] p = "pro"   -> ProFeatures
                [] OTHER       -> EnterpriseFeatures
Metadata == UNION {HandMade[c] \cup {BasicFeatures[c], CommandFeatures[c], ProFeatures[c],
                                     EnterpriseFeatures[c]} : c \in Codes}
ASSUME NoneAssumption == None \notin Metadata /\ None \notin PlanRow

Price(p) == CASE p = "basic" -> 0 [] p = "pro" -> 499 [] OTHER -> 9999

-----------------------------------------------------------------------------
(* What the rest of aerobox reads *)

\* dict.update: the override wins, also with a null.
Merge(base, override) ==
    [k \in DOMAIN base \cup DOMAIN override |->
        IF k \in DOMAIN override THEN override[k] ELSE base[k]]

\* Plan.features goes through PlanFeature as well: without a row of its own a
\* plan has nothing of a feature, not even the default.
EffectiveMetadata(p, c) ==
    IF row[p][c] = None THEN Empty ELSE Merge(feature[c], row[p][c])

\* None is "no limit" to validate_size and change_plan; prepare_file_upload and
\* is_over_quota raise on it.
Limit(p, key) ==
    LET meta == EffectiveMetadata(p, "cloud_storage") IN
    IF key \notin DOMAIN meta \/ meta[key] \in {Null, Junk} THEN None
    ELSE IF meta[key] < 0 THEN None ELSE meta[key]

\* ChangePlanSerializer, and change_plan's look at the current plan.  What is
\* sold has a Stripe price.
\* Bug: the two prices swapped.
MoreOnly(p, q) == plan[p].price <= plan[q].price
NoDearer(p, q) == plan[p].price >= plan[q].price
MayChangeTo(p, q) ==
    /\ p # "basic"
    /\ p # q
    /\ plan[p] # None /\ plan[q] # None
    /\ plan[q].active
    /\ NoDearer(p, q)

-----------------------------------------------------------------------------
TypeOK ==
    /\ applied \subseteq Migrations
    /\ feature \in [Codes -> Metadata \cup {None}]
    /\ plan \in [Plans -> PlanRow \cup {None}]
    /\ row \in [Plans -> [Codes -> Metadata \cup {None}]]
    /\ edited \in [features : SUBSET Codes, rows : SUBSET (Plans \X Codes), plans : SUBSET Plans]
    /\ \A p \in Plans, c \in Codes : row[p][c] # None => plan[p] # None /\ feature[c] # None

NoRows == [c \in Codes |-> None]

Init ==
    /\ applied = {}
    /\ feature = [c \in Codes |-> None]
    /\ plan = [p \in Plans |-> None]
    /\ row = [p \in Plans |-> NoRows]
    /\ edited = [features |-> {}, rows |-> {}, plans |-> {}]

-----------------------------------------------------------------------------
(* Migrations *)

Apply(m) ==
    /\ m \notin applied
    /\ Needs[m] \subseteq applied
    /\ applied' = applied \cup {m}

\* What needs a migration is rolled back before it.
Unapply(m) ==
    /\ m \in applied
    /\ \A n \in applied : m \notin Needs[n]
    /\ applied' = applied \ {m}

\* update_or_create, also over what the command or a hand has written.
CreateBasicFeatures ==
    /\ Apply("features")
    /\ feature' = BasicFeatures
    /\ edited' = [edited EXCEPT !.features = {}]
    /\ UNCHANGED <<plan, row>>

\* PlanFeature.feature cascades.
DeleteBasicFeatures ==
    /\ Unapply("features")
    /\ feature' = [c \in Codes |-> None]
    /\ row' = [p \in Plans |-> NoRows]
    /\ UNCHANGED <<plan, edited>>

\* Bug: monthly_price is left out.
NewPlanWithoutPrice(p) == [price |-> None, active |-> TRUE]
NewPlan(p) == [price |-> Price(p), active |-> TRUE]

\* A plan that is there is left as it is.
CreatePlan(p) ==
    /\ Apply(p)
    /\ plan' = IF plan[p] = None THEN [plan EXCEPT ![p] = NewPlan(p)] ELSE plan
    /\ edited' = [edited EXCEPT !.plans = IF plan[p] = None THEN @ \ {p} ELSE @]
    /\ UNCHANGED <<feature, row>>
CreateFreePlan == CreatePlan("basic")
CreateProPlan == CreatePlan("pro")
CreateEnterprisePlan == CreatePlan("enterprise")

\* PlanFeature.plan cascades, and so does Subscription.plan.
DeletePlan(p) ==
    /\ Unapply(p)
    /\ plan' = [plan EXCEPT ![p] = None]
    /\ row' = [row EXCEPT ![p] = NoRows]
    /\ UNCHANGED <<feature, edited>>
DeleteFreePlan == DeletePlan("basic")
DeleteProPlan == DeletePlan("pro")
DeleteEnterprisePlan == DeletePlan("enterprise")

\* One update_or_create for each feature there is; no plan, no migration.
Assign(p, metadata) ==
    /\ Apply(Assigning(p))
    /\ plan[p] # None
    /\ row' = [row EXCEPT ![p] = [c \in Codes |-> IF feature[c] = None THEN @[c] ELSE metadata[c]]]
    /\ UNCHANGED <<feature, plan>>
\* What was written by hand, or copied from what was, or never written.
ByHand(p, codes) == (edited.rows \ ({p} \X Codes)) \cup ({p} \X codes)
Missing == {c \in Codes : feature[c] = None}

\* The free plan gets a copy of the defaults as they are.
AssignToFreePlan ==
    /\ Assign("basic", feature)
    /\ edited' = [edited EXCEPT !.rows = ByHand("basic", edited.features)]
AssignToProPlan ==
    /\ Assign("pro", ProFeatures)
    /\ edited' = [edited EXCEPT !.rows = ByHand("pro", Missing)]
\* Bug: the paid plan is looked up without its name, and found twice over.
AssignToEveryPaidPlan ==
    /\ Apply("enterprise_features")
    /\ row' = [p \in Plans |-> IF p = "basic" \/ plan[p] = None THEN row[p]
                  ELSE [c \in Codes |-> IF feature[c] = None THEN None ELSE EnterpriseFeatures[c]]]
    /\ edited' = [edited EXCEPT !.rows = ByHand("enterprise", Missing)]
    /\ UNCHANGED <<feature, plan>>
AssignToEnterprisePlan ==
    /\ Assign("enterprise", EnterpriseFeatures)
    /\ edited' = [edited EXCEPT !.rows = ByHand("enterprise", Missing)]

Unassign(p) ==
    /\ Unapply(Assigning(p))
    /\ row' = [row EXCEPT ![p] = NoRows]
    /\ UNCHANGED <<feature, plan, edited>>
UnassignFromFreePlan == Unassign("basic")
UnassignFromEnterprisePlan == Unassign("enterprise")
\* It looks for a Pro plan that is free, finds none and returns.
UnassignFromProPlan ==
    /\ Unapply("pro_features")
    /\ UNCHANGED <<feature, plan, row, edited>>

-----------------------------------------------------------------------------
(* manage.py create_basic_features *)

\* Bug: update_or_create, as in the migration.
OverwriteFeatures ==
    /\ feature' = CommandFeatures
    /\ UNCHANGED <<applied, plan, row, edited>>
CreateMissingFeatures ==
    /\ feature' = [c \in Codes |-> IF feature[c] = None THEN CommandFeatures[c] ELSE feature[c]]
    /\ UNCHANGED <<applied, plan, row, edited>>

-----------------------------------------------------------------------------
(* The administration *)

EditFeature(c) ==
    /\ feature[c] # None
    /\ \E meta \in HandMade[c] : feature' = [feature EXCEPT ![c] = meta]
    /\ edited' = [edited EXCEPT !.features = @ \cup {c}]
    /\ UNCHANGED <<applied, plan, row>>

RemoveFeature(c) ==
    /\ feature[c] # None
    /\ feature' = [feature EXCEPT ![c] = None]
    /\ row' = [p \in Plans |-> [row[p] EXCEPT ![c] = None]]
    /\ edited' = [edited EXCEPT !.features = @ \cup {c}, !.rows = @ \cup (Plans \X {c})]
    /\ UNCHANGED <<applied, plan>>

\* Added, changed or deleted.
EditRow(p, c) ==
    /\ plan[p] # None /\ feature[c] # None
    /\ \E meta \in HandMade[c] \cup {None} : row' = [row EXCEPT ![p][c] = meta]
    /\ edited' = [edited EXCEPT !.rows = @ \cup {<<p, c>>}]
    /\ UNCHANGED <<applied, feature, plan>>

EditPlan(p) ==
    /\ plan[p] # None
    /\ \E price \in Prices, active \in BOOLEAN :
          plan' = [plan EXCEPT ![p] = [price |-> price, active |-> active]]
    /\ edited' = [edited EXCEPT !.plans = @ \cup {p}]
    /\ UNCHANGED <<applied, feature, row>>

RemovePlan(p) ==
    /\ plan[p] # None
    /\ plan' = [plan EXCEPT ![p] = None]
    /\ row' = [row EXCEPT ![p] = NoRows]
    /\ edited' = [edited EXCEPT !.plans = @ \cup {p}, !.rows = @ \cup ({p} \X Codes)]
    /\ UNCHANGED <<applied, feature>>

-----------------------------------------------------------------------------
Forward ==
    \/ CreateBasicFeatures
    \/ CreateFreePlan \/ AssignToFreePlan
    \/ CreateProPlan \/ AssignToProPlan
    \/ CreateEnterprisePlan \/ AssignToEnterprisePlan

Backward ==
    \/ DeleteBasicFeatures
    \/ DeleteFreePlan \/ UnassignFromFreePlan
    \/ DeleteProPlan \/ UnassignFromProPlan
    \/ DeleteEnterprisePlan \/ UnassignFromEnterprisePlan

Administration ==
    \/ \E c \in EditableFeatures : EditFeature(c) \/ RemoveFeature(c)
    \/ \E pc \in EditableRows : EditRow(pc[1], pc[2])
    \/ \E p \in EditablePlans : EditPlan(p) \/ RemovePlan(p)

Next == Forward \/ Backward \/ CreateMissingFeatures \/ Administration

Spec == Init /\ [][Next]_vars

-----------------------------------------------------------------------------
(* Safety *)

Assigned(p) == Assigning(p) \in applied

\* The migrations alone decide what a plan grants: however they were applied,
\* rolled back and applied again, and whenever the command with its other numbers
\* was run or the defaults were edited after, a row nobody wrote by hand grants
\* what its migration says.
SeededLimits ==
    \A p \in Plans, c \in Codes : Assigned(p) /\ <<p, c>> \notin edited.rows =>
        /\ row[p][c] # None
        /\ \A k \in DOMAIN Granted(p)[c] : EffectiveMetadata(p, c)[k] = Granted(p)[c][k]

\* A change of plan is let in by comparing prices, and never grants more storage
\* than is paid for now, nor a limit on which an upload would raise, between plans
\* nobody edited.
Untouched(p) ==
    Assigned(p) /\ p \notin edited.plans /\ \A c \in Codes : <<p, c>> \notin edited.rows
ChangeOnlyReduces ==
    \A p, q \in Plans : Untouched(p) /\ Untouched(q) /\ MayChangeTo(p, q) =>
        \A key \in {"max_storage_mb", "max_file_size_mb"} :
            /\ Limit(p, key) # None /\ Limit(q, key) # None
            /\ Limit(q, key) <= Limit(p, key)

\* Deploying never changes what a plan grants that is already on sale, edits
\* included: neither a migration of something else nor the command, which fills in
\* only what is missing.
DeployKeepsLimits ==
    [][Forward \/ CreateMissingFeatures =>
        \A p \in Plans, c \in Codes : Assigned(p) =>
            (EffectiveMetadata(p, c) = EffectiveMetadata(p, c)')]_vars
=============================================================================
