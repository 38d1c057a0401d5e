----------------------------- MODULE PlansProofs -----------------------------
(* Theorems about Plans, for any edits an administrator makes. *)
EXTENDS Plans, TLAPS

-----------------------------------------------------------------------------
(* The data *)

LEMMA Seeds ==
    /\ \A c \in Codes : BasicFeatures[c] \in Metadata /\ CommandFeatures[c] \in Metadata
    /\ \A c \in Codes : ProFeatures[c] \in Metadata /\ EnterpriseFeatures[c] \in Metadata
    /\ \A c \in Codes : \A meta \in HandMade[c] : meta \in Metadata
    /\ \A p \in Plans, c \in Codes : Granted(p)[c] \in Metadata
<1>1. /\ \A c \in Codes : BasicFeatures[c] \in Metadata /\ CommandFeatures[c] \in Metadata
      /\ \A c \in Codes : ProFeatures[c] \in Metadata /\ EnterpriseFeatures[c] \in Metadata
      /\ \A c \in Codes : \A meta \in HandMade[c] : meta \in Metadata
    BY DEF Metadata
<1>2. \A p \in Plans : Granted(p) \in {BasicFeatures, ProFeatures, EnterpriseFeatures}
    BY DEF Granted
<1> QED BY <1>1, <1>2

LEMMA SeedFunctions ==
    BasicFeatures = [c \in Codes |-> BasicFeatures[c]]
    BY DEF BasicFeatures

LEMMA NewPlanType == \A p \in Plans : NewPlan(p) \in PlanRow /\ NewPlan(p) # None
<1> TAKE p \in Plans
<1>1. Price(p) \in Nat
    BY DEF Price
<1>2. NewPlan(p) \in PlanRow
    BY <1>1 DEF NewPlan, PlanRow
<1> QED BY <1>2, NoneAssumption

(* Keys of the override keep its values. *)
LEMMA MergeOverrides ==
    ASSUME NEW base, NEW override, NEW k \in DOMAIN override
    PROVE  k \in DOMAIN Merge(base, override) /\ Merge(base, override)[k] = override[k]
    BY DEF Merge

-----------------------------------------------------------------------------
(* Types *)

LEMMA TypeInit == Init => TypeOK
    BY DEF Init, TypeOK, NoRows

LEMMA AssignType ==
    ASSUME TypeOK, NEW p \in Plans, NEW metadata,
           \A c \in Codes : feature[c] # None => metadata[c] \in Metadata,
           Assign(p, metadata)
    PROVE  /\ row' \in [Plans -> [Codes -> Metadata \cup {None}]]
           /\ \A q \in Plans, c \in Codes :
                row'[q][c] # None => plan'[q] # None /\ feature'[c] # None
    BY DEF Assign, TypeOK

LEMMA ByHandType ==
    ASSUME TypeOK, NEW p \in Plans, NEW codes \in SUBSET Codes
    PROVE  [edited EXCEPT !.rows = ByHand(p, codes)]
             \in [features : SUBSET Codes, rows : SUBSET (Plans \X Codes), plans : SUBSET Plans]
    BY DEF ByHand, TypeOK

LEMMA TypeNext == TypeOK /\ [Next]_vars => TypeOK'
<1> SUFFICES ASSUME TypeOK, [Next]_vars PROVE TypeOK'
    OBVIOUS
<1> USE Seeds, NoneAssumption
<1>1. CASE CreateBasicFeatures
    <2>1. applied' \subseteq Migrations
        BY <1>1 DEF CreateBasicFeatures, Apply, TypeOK, Migrations
    <2>2. /\ feature' \in [Codes -> Metadata \cup {None}]
          /\ \A c \in Codes : feature'[c] # None
        BY <1>1, SeedFunctions DEF CreateBasicFeatures
    <2>3. edited' \in [features : SUBSET Codes, rows : SUBSET (Plans \X Codes), plans : SUBSET Plans]
        BY <1>1 DEF CreateBasicFeatures, TypeOK
    <2> QED BY <1>1, <2>1, <2>2, <2>3 DEF CreateBasicFeatures, TypeOK
<1>2. CASE DeleteBasicFeatures
    BY <1>2 DEF DeleteBasicFeatures, Unapply, TypeOK, NoRows
<1>3. ASSUME NEW p \in Plans, CreatePlan(p) PROVE TypeOK'
    <2>1. p \in Migrations
        BY DEF Plans, Migrations
    <2>2. plan' \in [Plans -> PlanRow \cup {None}] /\ \A q \in Plans : plan[q] # None => plan'[q] # None
        BY <1>3, NewPlanType DEF CreatePlan, TypeOK
    <2> QED BY <1>3, <2>1, <2>2 DEF CreatePlan, Apply, TypeOK
<1>4. ASSUME NEW p \in Plans, DeletePlan(p) PROVE TypeOK'
    BY <1>4 DEF DeletePlan, Unapply, TypeOK, NoRows
<1>5. CASE AssignToFreePlan
    <2>1. \A c \in Codes : feature[c] # None => feature[c] \in Metadata
        BY DEF TypeOK
    <2>2. Assign("basic", feature) /\ "basic" \in Plans
        BY <1>5 DEF AssignToFreePlan, Plans
    <2>3. edited.features \in SUBSET Codes
        BY DEF TypeOK
    <2>4. applied' \subseteq Migrations
        BY <2>2 DEF Assign, Assigning, Apply, TypeOK, Migrations
    <2> QED BY <1>5, <2>1, <2>2, <2>3, <2>4, AssignType, ByHandType DEF AssignToFreePlan, Assign, TypeOK
<1>6. CASE AssignToProPlan
    <2>1. Assign("pro", ProFeatures) /\ "pro" \in Plans
        BY <1>6 DEF AssignToProPlan, Plans
    <2>2. Missing \in SUBSET Codes
        BY DEF Missing
    <2>3. applied' \subseteq Migrations
        BY <2>1 DEF Assign, Assigning, Apply, TypeOK, Migrations
    <2> QED BY <1>6, <2>1, <2>2, <2>3, AssignType, ByHandType DEF AssignToProPlan, Assign, TypeOK
<1>7. CASE AssignToEnterprisePlan
    <2>1. Assign("enterprise", EnterpriseFeatures) /\ "enterprise" \in Plans
        BY <1>7 DEF AssignToEnterprisePlan, Plans
    <2>2. Missing \in SUBSET Codes
        BY DEF Missing
    <2>3. applied' \subseteq Migrations
        BY <2>1 DEF Assign, Assigning, Apply, TypeOK, Migrations
    <2> QED BY <1>7, <2>1, <2>2, <2>3, AssignType, ByHandType DEF AssignToEnterprisePlan, Assign, TypeOK
<1>8. ASSUME NEW p \in Plans, Unassign(p) PROVE TypeOK'
    BY <1>8 DEF Unassign, Unapply, TypeOK, NoRows
<1>9. CASE UnassignFromProPlan
    BY <1>9 DEF UnassignFromProPlan, Unapply, TypeOK
<1>10. CASE CreateMissingFeatures
    BY <1>10 DEF CreateMissingFeatures, TypeOK
<1>11. ASSUME NEW c \in Codes, EditFeature(c) PROVE TypeOK'
    <2>1. PICK meta \in HandMade[c] : feature' = [feature EXCEPT ![c] = meta]
        BY <1>11 DEF EditFeature
    <2>2. meta \in Metadata /\ meta # None
        BY <2>1
    <2>3. feature' \in [Codes -> Metadata \cup {None}]
        BY <2>1, <2>2 DEF TypeOK
    <2>4. \A d \in Codes : feature[d] # None => feature'[d] # None
        BY <2>1, <2>2 DEF TypeOK
    <2>5. edited' \in [features : SUBSET Codes, rows : SUBSET (Plans \X Codes), plans : SUBSET Plans]
        BY <1>11 DEF EditFeature, TypeOK
    <2> QED BY <1>11, <2>3, <2>4, <2>5 DEF EditFeature, TypeOK
<1>12. ASSUME NEW c \in Codes, RemoveFeature(c) PROVE TypeOK'
    <2>1. feature' \in [Codes -> Metadata \cup {None}]
        BY <1>12 DEF RemoveFeature, TypeOK
    <2>2. row' \in [Plans -> [Codes -> Metadata \cup {None}]]
        BY <1>12 DEF RemoveFeature, TypeOK
    <2>3. \A p \in Plans, d \in Codes : row'[p][d] # None => d # c /\ row'[p][d] = row[p][d]
        BY <1>12 DEF RemoveFeature, TypeOK
    <2>4. \A d \in Codes : d # c => feature'[d] = feature[d]
        BY <1>12 DEF RemoveFeature, TypeOK
    <2>5. edited' \in [features : SUBSET Codes, rows : SUBSET (Plans \X Codes), plans : SUBSET Plans]
        BY <1>12 DEF RemoveFeature, TypeOK
    <2> QED BY <1>12, <2>1, <2>2, <2>3, <2>4, <2>5 DEF RemoveFeature, TypeOK
<1>13. ASSUME NEW p \in Plans, NEW c \in Codes, EditRow(p, c) PROVE TypeOK'
    <2>1. PICK meta \in HandMade[c] \cup {None} : row' = [row EXCEPT ![p][c] = meta]
        BY <1>13 DEF EditRow
    <2>2. meta \in Metadata \cup {None}
        BY <2>1
    <2>3. row' \in [Plans -> [Codes -> Metadata \cup {None}]]
        BY <2>1, <2>2 DEF TypeOK
    <2>4. \A q \in Plans, d \in Codes : row'[q][d] = row[q][d] \/ (q = p /\ d = c)
        BY <2>1 DEF TypeOK
    <2>5. edited' \in [features : SUBSET Codes, rows : SUBSET (Plans \X Codes), plans : SUBSET Plans]
        <3>1. edited' = [edited EXCEPT !.rows = @ \cup {<<p, c>>}] /\ <<p, c>> \in Plans \X Codes
            BY <1>13 DEF EditRow
        <3>2. edited \in [features : SUBSET Codes, rows : SUBSET (Plans \X Codes), plans : SUBSET Plans]
            BY DEF TypeOK
        <3> QED BY ONLY <3>1, <3>2
    <2>6. /\ plan[p] # None /\ feature[c] # None
          /\ applied' = applied /\ feature' = feature /\ plan' = plan
        BY <1>13 DEF EditRow
    <2>7. \A q \in Plans, d \in Codes : row'[q][d] # None => plan'[q] # None /\ feature'[d] # None
        BY <2>4, <2>6 DEF TypeOK
    <2> QED BY <2>3, <2>5, <2>6, <2>7 DEF TypeOK
<1>14. ASSUME NEW p \in Plans, EditPlan(p) PROVE TypeOK'
    <2>1. PICK price \in Prices, active \in BOOLEAN :
              plan' = [plan EXCEPT ![p] = [price |-> price, active |-> active]]
        BY <1>14 DEF EditPlan
    <2>2. [price |-> price, active |-> active] \in PlanRow
        BY EditsAssumption DEF PlanRow
    <2>3. plan' \in [Plans -> PlanRow \cup {None}] /\ \A q \in Plans : plan[q] # None => plan'[q] # None
        BY <2>1, <2>2 DEF TypeOK
    <2>4. edited' \in [features : SUBSET Codes, rows : SUBSET (Plans \X Codes), plans : SUBSET Plans]
        BY <1>14 DEF EditPlan, TypeOK
    <2> QED BY <1>14, <2>3, <2>4 DEF EditPlan, TypeOK
<1>15. ASSUME NEW p \in Plans, RemovePlan(p) PROVE TypeOK'
    BY <1>15 DEF RemovePlan, TypeOK, NoRows
<1>16. CASE UNCHANGED vars
    BY <1>16 DEF vars, TypeOK
<1>17. \A pc \in EditableRows : pc[1] \in Plans /\ pc[2] \in Codes
    BY EditsAssumption
<1>18. EditableFeatures \subseteq Codes /\ EditablePlans \subseteq Plans
    BY EditsAssumption
<1>19. "basic" \in Plans /\ "pro" \in Plans /\ "enterprise" \in Plans
    BY DEF Plans
<1>20. CASE Administration
    BY <1>11, <1>12, <1>13, <1>14, <1>15, <1>17, <1>18, <1>20 DEF Administration
<1>21. CASE Forward
    BY <1>1, <1>3, <1>5, <1>6, <1>7, <1>19, <1>21
       DEF Forward, CreateFreePlan, CreateProPlan, CreateEnterprisePlan
<1>22. CASE Backward
    BY <1>2, <1>4, <1>8, <1>9, <1>19, <1>22
       DEF Backward, DeleteFreePlan, DeleteProPlan, DeleteEnterprisePlan,
           UnassignFromFreePlan, UnassignFromEnterprisePlan
<1> QED BY <1>10, <1>16, <1>20, <1>21, <1>22 DEF Next

(* Every reachable state is well typed, and a plan has no row of a feature or a plan that is gone. *)
THEOREM TypeCorrect == Spec => []TypeOK
    BY TypeInit, TypeNext, PTL DEF Spec

-----------------------------------------------------------------------------
(* What the migrations have written and nobody has edited since *)

Closed == \A m \in applied : Needs[m] \subseteq applied
DefaultsAsSeeded ==
    "features" \in applied => \A c \in Codes \ edited.features : feature[c] = BasicFeatures[c]
RowsAsGranted ==
    \A p \in Plans, c \in Codes :
        Assigned(p) /\ <<p, c>> \notin edited.rows => row[p][c] = Granted(p)[c]
PlansAsCreated ==
    \A p \in Plans \ edited.plans : plan[p] # None => plan[p] = NewPlan(p)
SInv == TypeOK /\ Closed /\ DefaultsAsSeeded /\ RowsAsGranted /\ PlansAsCreated

LEMMA Assigners ==
    /\ \A p \in Plans : Assigning(p) \in Migrations /\ p \in Migrations
    /\ \A p, q \in Plans : Assigning(p) = Assigning(q) => p = q
    /\ \A p, q \in Plans : Assigning(p) # q /\ Assigning(p) # "features"
    /\ \A p \in Plans : {"features", p} \subseteq Needs[Assigning(p)]
    BY DEF Assigning, Plans, Migrations, Needs

(* Whatever plan has its features has both the plan and the features behind it. *)
LEMMA AssignedNeeds ==
    ASSUME Closed, NEW p \in Plans, Assigned(p)
    PROVE  "features" \in applied /\ p \in applied
    BY Assigners DEF Closed, Assigned

LEMMA ClosedApply ==
    ASSUME Closed, NEW m \in Migrations, Apply(m)
    PROVE  Closed'
    BY DEF Closed, Apply

LEMMA ClosedUnapply ==
    ASSUME Closed, NEW m \in Migrations, Unapply(m)
    PROVE  Closed'
    BY DEF Closed, Unapply

LEMMA SInit == Init => SInv
    BY TypeInit DEF Init, SInv, Closed, DefaultsAsSeeded, RowsAsGranted, PlansAsCreated,
        Assigned, Assigning

(* Giving a plan its features, with whatever the migration writes for it. *)
LEMMA AssignRows ==
    ASSUME SInv, NEW p \in Plans, NEW metadata, NEW codes \in SUBSET Codes,
           Assign(p, metadata), edited' = [edited EXCEPT !.rows = ByHand(p, codes)],
           \A c \in Codes \ codes : feature[c] # None /\ metadata[c] = Granted(p)[c]
    PROVE  RowsAsGranted'
<1> SUFFICES ASSUME NEW q \in Plans, NEW c \in Codes, Assigned(q)', <<q, c>> \notin edited'.rows
             PROVE  row'[q][c] = Granted(q)[c]
    BY DEF RowsAsGranted, Granted
<1>1. edited'.rows = ByHand(p, codes)
    BY DEF SInv, TypeOK
<1>2. CASE q = p
    <2>1. c \notin codes
        BY <1>1, <1>2 DEF ByHand
    <2>2. row'[p][c] = metadata[c]
        BY <2>1 DEF Assign, SInv, TypeOK
    <2> QED BY <1>2, <2>1, <2>2
<1>3. CASE q # p
    <2>1. <<q, c>> \notin edited.rows
        BY <1>1, <1>3 DEF ByHand
    <2>2. Assigned(q)
        BY <1>3, Assigners DEF Assign, Apply, Assigned
    <2>3. row'[q] = row[q]
        BY <1>3 DEF Assign, SInv, TypeOK
    <2> QED BY <2>1, <2>2, <2>3 DEF SInv, RowsAsGranted
<1> QED BY <1>2, <1>3

(* A step after which a plan has its features, or had them, with rows as they were. *)
LEMMA RowsKept ==
    ASSUME SInv, \A p \in Plans : Assigned(p)' => Assigned(p) /\ row'[p] = row[p],
           edited.rows \subseteq edited'.rows
    PROVE  RowsAsGranted'
    BY DEF SInv, RowsAsGranted, Granted

LEMMA SNext == SInv /\ [Next]_vars => SInv'
<1> SUFFICES ASSUME SInv, [Next]_vars PROVE SInv'
    OBVIOUS
<1>0. TypeOK' /\ TypeOK /\ Closed
    BY TypeNext DEF SInv
<1>1. CASE CreateBasicFeatures
    <2>1. Closed'
        BY <1>0, <1>1, ClosedApply DEF CreateBasicFeatures, Migrations
    <2>2. DefaultsAsSeeded'
        BY <1>1 DEF CreateBasicFeatures, DefaultsAsSeeded
    <2>3. RowsAsGranted'
        BY <1>0, <1>1, RowsKept, Assigners DEF CreateBasicFeatures, Apply, Assigned, TypeOK
    <2>4. PlansAsCreated'
        BY <1>0, <1>1 DEF CreateBasicFeatures, SInv, PlansAsCreated, TypeOK
    <2> QED BY <1>0, <2>1, <2>2, <2>3, <2>4 DEF SInv
<1>2. CASE DeleteBasicFeatures
    <2>1. Closed'
        BY <1>0, <1>2, ClosedUnapply DEF DeleteBasicFeatures, Migrations
    <2>2. DefaultsAsSeeded'
        BY <1>2 DEF DeleteBasicFeatures, Unapply, DefaultsAsSeeded
    <2>3. \A p \in Plans : ~Assigned(p)'
        BY <1>2, Assigners DEF DeleteBasicFeatures, Unapply, Assigned
    <2>4. PlansAsCreated'
        BY <1>2 DEF DeleteBasicFeatures, SInv, PlansAsCreated
    <2> QED BY <1>0, <2>1, <2>2, <2>3, <2>4 DEF SInv, RowsAsGranted
<1>3. ASSUME NEW p \in Plans, CreatePlan(p) PROVE SInv'
    <2>1. Closed'
        BY <1>0, <1>3, ClosedApply, Assigners DEF CreatePlan
    <2>2. edited'.features = edited.features /\ edited'.rows = edited.rows
        BY <1>0, <1>3 DEF CreatePlan, TypeOK
    <2>3. DefaultsAsSeeded'
        BY <1>3, <2>2 DEF CreatePlan, Apply, SInv, DefaultsAsSeeded, Plans
    <2>4. RowsAsGranted'
        BY <1>3, <2>2, RowsKept, Assigners DEF CreatePlan, Apply, Assigned
    <2>5. PlansAsCreated'
        BY <1>0, <1>3 DEF CreatePlan, SInv, PlansAsCreated, TypeOK
    <2> QED BY <1>0, <2>1, <2>3, <2>4, <2>5 DEF SInv
<1>4. ASSUME NEW p \in Plans, DeletePlan(p) PROVE SInv'
    <2>1. Closed'
        BY <1>0, <1>4, ClosedUnapply, Assigners DEF DeletePlan
    <2>2. DefaultsAsSeeded'
        BY <1>4 DEF DeletePlan, Unapply, SInv, DefaultsAsSeeded
    <2>3. \A q \in Plans : Assigned(q)' => Assigned(q) /\ q # p
        BY <1>4, Assigners DEF DeletePlan, Unapply, Assigned
    <2>4. RowsAsGranted'
        BY <1>0, <1>4, <2>3, RowsKept DEF DeletePlan, TypeOK
    <2>5. PlansAsCreated'
        BY <1>0, <1>4 DEF DeletePlan, SInv, PlansAsCreated, TypeOK
    <2> QED BY <1>0, <2>1, <2>2, <2>4, <2>5 DEF SInv
<1>5. ASSUME NEW p \in Plans, NEW metadata, NEW codes \in SUBSET Codes,
             Assign(p, metadata), edited' = [edited EXCEPT !.rows = ByHand(p, codes)],
             \A c \in Codes \ codes : feature[c] # None /\ metadata[c] = Granted(p)[c]
      PROVE  SInv'
    <2>1. Closed'
        BY <1>0, <1>5, ClosedApply, Assigners DEF Assign
    <2>2. edited'.features = edited.features /\ edited'.plans = edited.plans
        BY <1>0, <1>5 DEF TypeOK
    <2>3. DefaultsAsSeeded'
        BY <1>5, <2>2, Assigners DEF Assign, Apply, SInv, DefaultsAsSeeded
    <2>4. RowsAsGranted'
        BY <1>5, AssignRows
    <2>5. PlansAsCreated'
        BY <1>5, <2>2 DEF Assign, SInv, PlansAsCreated
    <2> QED BY <1>0, <2>1, <2>3, <2>4, <2>5 DEF SInv
<1>6. CASE AssignToFreePlan
    <2>1. "features" \in applied
        BY <1>6, Assigners DEF AssignToFreePlan, Assign, Apply, Plans
    <2>2. \A c \in Codes \ edited.features : feature[c] # None /\ feature[c] = Granted("basic")[c]
        BY <2>1, Seeds, NoneAssumption DEF SInv, DefaultsAsSeeded, Granted
    <2>3. edited.features \in SUBSET Codes /\ "basic" \in Plans
        BY <1>0 DEF TypeOK, Plans
    <2> QED BY <1>5, <1>6, <2>2, <2>3 DEF AssignToFreePlan
<1>7. CASE AssignToProPlan
    <2>1. \A c \in Codes \ Missing : feature[c] # None /\ ProFeatures[c] = Granted("pro")[c]
        BY DEF Missing, Granted
    <2>2. Missing \in SUBSET Codes /\ "pro" \in Plans
        BY DEF Missing, Plans
    <2> QED BY <1>5, <1>7, <2>1, <2>2 DEF AssignToProPlan
<1>8. CASE AssignToEnterprisePlan
    <2>1. \A c \in Codes \ Missing :
            feature[c] # None /\ EnterpriseFeatures[c] = Granted("enterprise")[c]
        BY DEF Missing, Granted
    <2>2. Missing \in SUBSET Codes /\ "enterprise" \in Plans
        BY DEF Missing, Plans
    <2> QED BY <1>5, <1>8, <2>1, <2>2 DEF AssignToEnterprisePlan
<1>9. ASSUME NEW p \in Plans, Unassign(p) PROVE SInv'
    <2>1. Closed'
        BY <1>0, <1>9, ClosedUnapply, Assigners DEF Unassign
    <2>2. DefaultsAsSeeded'
        BY <1>9 DEF Unassign, Unapply, SInv, DefaultsAsSeeded
    <2>3. \A q \in Plans : Assigned(q)' => Assigned(q) /\ q # p
        BY <1>9 DEF Unassign, Unapply, Assigned
    <2>4. RowsAsGranted'
        BY <1>0, <1>9, <2>3, RowsKept DEF Unassign, TypeOK
    <2>5. PlansAsCreated'
        BY <1>9 DEF Unassign, SInv, PlansAsCreated
    <2> QED BY <1>0, <2>1, <2>2, <2>4, <2>5 DEF SInv
<1>10. CASE UnassignFromProPlan
    <2>1. Closed'
        BY <1>0, <1>10, ClosedUnapply DEF UnassignFromProPlan, Migrations
    <2>2. DefaultsAsSeeded' /\ PlansAsCreated'
        BY <1>10 DEF UnassignFromProPlan, Unapply, SInv, DefaultsAsSeeded, PlansAsCreated
    <2>3. RowsAsGranted'
        BY <1>10, RowsKept DEF UnassignFromProPlan, Unapply, Assigned
    <2> QED BY <1>0, <2>1, <2>2, <2>3 DEF SInv
<1>11. CASE CreateMissingFeatures
    <2>1. Closed' /\ PlansAsCreated'
        BY <1>11 DEF CreateMissingFeatures, SInv, Closed, PlansAsCreated
    <2>2. DefaultsAsSeeded'
        BY <1>11, Seeds, NoneAssumption DEF CreateMissingFeatures, SInv, DefaultsAsSeeded
    <2>3. RowsAsGranted'
        BY <1>11, RowsKept DEF CreateMissingFeatures, Assigned
    <2> QED BY <1>0, <2>1, <2>2, <2>3 DEF SInv
<1>12. ASSUME NEW c \in Codes, EditFeature(c) PROVE SInv'
    <2>1. edited'.features = edited.features \cup {c} /\ edited'.rows = edited.rows
                /\ edited'.plans = edited.plans
        BY <1>0, <1>12 DEF EditFeature, TypeOK
    <2>2. Closed' /\ PlansAsCreated'
        BY <1>12, <2>1 DEF EditFeature, SInv, Closed, PlansAsCreated
    <2>3. \A d \in Codes : d # c => feature'[d] = feature[d]
        BY <1>0, <1>12 DEF EditFeature, TypeOK
    <2>4. DefaultsAsSeeded'
        BY <1>12, <2>1, <2>3 DEF EditFeature, SInv, DefaultsAsSeeded
    <2>5. RowsAsGranted'
        BY <1>12, <2>1, RowsKept DEF EditFeature, Assigned
    <2> QED BY <1>0, <2>2, <2>4, <2>5 DEF SInv
<1>13. ASSUME NEW c \in Codes, RemoveFeature(c) PROVE SInv'
    <2>1. edited'.features = edited.features \cup {c} /\ edited'.plans = edited.plans
                /\ edited'.rows = edited.rows \cup (Plans \X {c})
        BY <1>0, <1>13 DEF RemoveFeature, TypeOK
    <2>2. Closed' /\ PlansAsCreated'
        BY <1>13, <2>1 DEF RemoveFeature, SInv, Closed, PlansAsCreated
    <2>3. \A d \in Codes : d # c =>
            feature'[d] = feature[d] /\ \A p \in Plans : row'[p][d] = row[p][d]
        BY <1>0, <1>13 DEF RemoveFeature, TypeOK
    <2>4. DefaultsAsSeeded'
        BY <1>13, <2>1, <2>3 DEF RemoveFeature, SInv, DefaultsAsSeeded
    <2>5. RowsAsGranted'
        BY <1>13, <2>1, <2>3 DEF RemoveFeature, SInv, RowsAsGranted, Assigned, Granted
    <2> QED BY <1>0, <2>2, <2>4, <2>5 DEF SInv
<1>14. ASSUME NEW p \in Plans, NEW c \in Codes, EditRow(p, c) PROVE SInv'
    <2>1. edited'.features = edited.features /\ edited'.plans = edited.plans
                /\ edited'.rows = edited.rows \cup {<<p, c>>}
        BY <1>0, <1>14 DEF EditRow, TypeOK
    <2>2. Closed' /\ PlansAsCreated' /\ DefaultsAsSeeded'
        BY <1>14, <2>1 DEF EditRow, SInv, Closed, PlansAsCreated, DefaultsAsSeeded
    <2>3. \A q \in Plans, d \in Codes : <<q, d>> # <<p, c>> => row'[q][d] = row[q][d]
        BY <1>0, <1>14 DEF EditRow, TypeOK
    <2>4. RowsAsGranted'
        BY <1>14, <2>1, <2>3 DEF EditRow, SInv, RowsAsGranted, Assigned, Granted
    <2> QED BY <1>0, <2>2, <2>4 DEF SInv
<1>15. ASSUME NEW p \in Plans, EditPlan(p) PROVE SInv'
    <2>1. edited'.features = edited.features /\ edited'.rows = edited.rows
                /\ edited'.plans = edited.plans \cup {p}
        BY <1>0, <1>15 DEF EditPlan, TypeOK
    <2>2. Closed' /\ DefaultsAsSeeded'
        BY <1>15, <2>1 DEF EditPlan, SInv, Closed, DefaultsAsSeeded
    <2>3. PlansAsCreated'
        BY <1>0, <1>15, <2>1 DEF EditPlan, SInv, PlansAsCreated, TypeOK
    <2>4. RowsAsGranted'
        BY <1>15, <2>1, RowsKept DEF EditPlan, Assigned
    <2> QED BY <1>0, <2>2, <2>3, <2>4 DEF SInv
<1>16. ASSUME NEW p \in Plans, RemovePlan(p) PROVE SInv'
    <2>1. edited'.features = edited.features /\ edited'.plans = edited.plans \cup {p}
                /\ edited'.rows = edited.rows \cup ({p} \X Codes)
        BY <1>0, <1>16 DEF RemovePlan, TypeOK
    <2>2. Closed' /\ DefaultsAsSeeded'
        BY <1>16, <2>1 DEF RemovePlan, SInv, Closed, DefaultsAsSeeded
    <2>3. PlansAsCreated'
        BY <1>0, <1>16, <2>1 DEF RemovePlan, SInv, PlansAsCreated, TypeOK
    <2>4. \A q \in Plans : q # p => row'[q] = row[q]
        BY <1>0, <1>16 DEF RemovePlan, TypeOK
    <2>5. RowsAsGranted'
        BY <1>16, <2>1, <2>4 DEF RemovePlan, SInv, RowsAsGranted, Assigned, Granted
    <2> QED BY <1>0, <2>2, <2>3, <2>5 DEF SInv
<1>17. CASE UNCHANGED vars
    BY <1>0, <1>17 DEF vars, SInv, Closed, DefaultsAsSeeded, RowsAsGranted, PlansAsCreated, Assigned
<1>18. \A pc \in EditableRows : pc[1] \in Plans /\ pc[2] \in Codes
    BY EditsAssumption
<1>19. EditableFeatures \subseteq Codes /\ EditablePlans \subseteq Plans
    BY EditsAssumption
<1>20. "basic" \in Plans /\ "pro" \in Plans /\ "enterprise" \in Plans
    BY DEF Plans
<1>21. CASE Administration
    BY <1>12, <1>13, <1>14, <1>15, <1>16, <1>18, <1>19, <1>21 DEF Administration
<1>22. CASE Forward
    BY <1>1, <1>3, <1>6, <1>7, <1>8, <1>20, <1>22
       DEF Forward, CreateFreePlan, CreateProPlan, CreateEnterprisePlan
<1>23. CASE Backward
    BY <1>2, <1>4, <1>9, <1>10, <1>20, <1>23
       DEF Backward, DeleteFreePlan, DeleteProPlan, DeleteEnterprisePlan,
           UnassignFromFreePlan, UnassignFromEnterprisePlan
<1> QED BY <1>11, <1>17, <1>21, <1>22, <1>23 DEF Next

LEMMA SAlways == Spec => []SInv
    BY SInit, SNext, PTL DEF Spec

-----------------------------------------------------------------------------
(* The limits *)

LEMMA SeededLimit ==
    ASSUME SInv, NEW p \in Plans, NEW c \in Codes, Assigned(p), <<p, c>> \notin edited.rows,
           NEW k \in DOMAIN Granted(p)[c]
    PROVE  /\ row[p][c] # None
           /\ k \in DOMAIN EffectiveMetadata(p, c)
           /\ EffectiveMetadata(p, c)[k] = Granted(p)[c][k]
<1>1. row[p][c] = Granted(p)[c] /\ row[p][c] # None
    BY Seeds, NoneAssumption DEF SInv, RowsAsGranted
<1>2. EffectiveMetadata(p, c) = Merge(feature[c], Granted(p)[c])
    BY <1>1 DEF EffectiveMetadata
<1> QED BY <1>1, <1>2, MergeOverrides

(* However the migrations are applied, rolled back and applied again, with the command and   *)
(* the edits in between: a row that nobody wrote by hand grants what its migration says.     *)
THEOREM SeededCorrect == Spec => []SeededLimits
<1>1. SInv => SeededLimits
    <2> SUFFICES ASSUME SInv, NEW p \in Plans, NEW c \in Codes, Assigned(p), <<p, c>> \notin edited.rows
                 PROVE  /\ row[p][c] # None
                        /\ \A k \in DOMAIN Granted(p)[c] :
                              EffectiveMetadata(p, c)[k] = Granted(p)[c][k]
        BY DEF SeededLimits
    <2>1. row[p][c] # None
        BY Seeds, NoneAssumption DEF SInv, RowsAsGranted
    <2> QED BY <2>1, SeededLimit
<1> QED BY <1>1, SAlways, PTL

(* The storage the migrations grant grows with the price, as it does for the size of a file. *)
LEMMA StorageGranted ==
    ASSUME NEW p \in Plans, NEW key \in {"max_storage_mb", "max_file_size_mb"}
    PROVE  /\ key \in DOMAIN Granted(p)["cloud_storage"]
           /\ Granted(p)["cloud_storage"][key] \in Nat
           /\ \A q \in Plans : Price(q) <= Price(p) =>
                Granted(q)["cloud_storage"][key] <= Granted(p)["cloud_storage"][key]
<1>1. "cloud_storage" \in Codes
    BY DEF Codes
<1>2. /\ BasicFeatures["cloud_storage"] = Storage(5000, 200)
      /\ ProFeatures["cloud_storage"] = Storage(50000, 2000)
      /\ EnterpriseFeatures["cloud_storage"] = Storage(1000000, 5000)
    BY <1>1 DEF BasicFeatures, ProFeatures, EnterpriseFeatures
<1>3. /\ Granted("basic")["cloud_storage"] = Storage(5000, 200) /\ Price("basic") = 0
      /\ Granted("pro")["cloud_storage"] = Storage(50000, 2000) /\ Price("pro") = 499
      /\ Granted("enterprise")["cloud_storage"] = Storage(1000000, 5000) /\ Price("enterprise") = 9999
    BY <1>2 DEF Granted, Price
<1>4. \A a, b : /\ key \in DOMAIN Storage(a, b)
                /\ Storage(a, b)[key] = IF key = "max_storage_mb" THEN a ELSE b
    BY DEF Storage
<1>5. CASE key = "max_storage_mb"
    <2>1. /\ Granted("basic")["cloud_storage"][key] = 5000
          /\ Granted("pro")["cloud_storage"][key] = 50000
          /\ Granted("enterprise")["cloud_storage"][key] = 1000000
        BY <1>3, <1>4, <1>5
    <2> QED BY <1>3, <1>4, <2>1 DEF Plans
<1>6. CASE key = "max_file_size_mb"
    <2>1. /\ Granted("basic")["cloud_storage"][key] = 200
          /\ Granted("pro")["cloud_storage"][key] = 2000
          /\ Granted("enterprise")["cloud_storage"][key] = 5000
        BY <1>3, <1>4, <1>6
    <2> QED BY <1>3, <1>4, <2>1 DEF Plans
<1> QED BY <1>5, <1>6

LEMMA UntouchedLimit ==
    ASSUME SInv, NEW p \in Plans, Untouched(p), NEW key \in {"max_storage_mb", "max_file_size_mb"}
    PROVE  Limit(p, key) = Granted(p)["cloud_storage"][key] /\ Limit(p, key) # None
<1> DEFINE limit == Granted(p)["cloud_storage"][key]
<1>1. key \in DOMAIN Granted(p)["cloud_storage"] /\ limit \in Nat
    BY StorageGranted
<1>2. Assigned(p) /\ "cloud_storage" \in Codes /\ <<p, "cloud_storage">> \notin edited.rows
    BY DEF Untouched, Codes
<1>3. /\ key \in DOMAIN EffectiveMetadata(p, "cloud_storage")
      /\ EffectiveMetadata(p, "cloud_storage")[key] = limit
    BY <1>1, <1>2, SeededLimit
<1>4. limit \notin {Null, Junk} /\ limit # None /\ ~(limit < 0)
    BY <1>1, NullAssumption
<1> HIDE DEF limit
<1>5. Limit(p, key) = limit
    BY <1>3, <1>4 DEF Limit
<1> QED BY <1>4, <1>5 DEF limit

(* A change of plan that is let in never grants more storage, nor a limit that is missing,   *)
(* between two plans as the migrations left them.                                            *)
THEOREM ChangeCorrect == Spec => []ChangeOnlyReduces
<1>1. SInv => ChangeOnlyReduces
    <2> SUFFICES ASSUME SInv, NEW p \in Plans, NEW q \in Plans,
                        Untouched(p), Untouched(q), MayChangeTo(p, q),
                        NEW key \in {"max_storage_mb", "max_file_size_mb"}
                 PROVE  /\ Limit(p, key) # None /\ Limit(q, key) # None
                        /\ Limit(q, key) <= Limit(p, key)
        BY DEF ChangeOnlyReduces
    <2>1. plan[p] = NewPlan(p) /\ plan[q] = NewPlan(q)
        BY DEF SInv, PlansAsCreated, Untouched, MayChangeTo
    <2>2. Price(q) <= Price(p)
        BY <2>1 DEF MayChangeTo, NoDearer, NewPlan, Price
    <2> QED BY <2>2, UntouchedLimit, StorageGranted
<1> QED BY <1>1, SAlways, PTL

(* A deployment never changes what a plan grants that is already on sale, edits included. *)
THEOREM DeployCorrect == Spec => DeployKeepsLimits
<1> DEFINE Kept == \A p \in Plans, c \in Codes : Assigned(p) =>
                        (EffectiveMetadata(p, c) = EffectiveMetadata(p, c)')
<1>1. SInv /\ [Next]_vars => [Forward \/ CreateMissingFeatures => Kept]_vars
    <2> SUFFICES ASSUME SInv, Forward \/ CreateMissingFeatures, NEW p \in Plans, NEW c \in Codes,
                        Assigned(p)
                 PROVE  EffectiveMetadata(p, c) = EffectiveMetadata(p, c)'
        OBVIOUS
    <2>1. "features" \in applied /\ TypeOK
        BY AssignedNeeds DEF SInv
    <2>2. ~CreateBasicFeatures
        BY <2>1 DEF CreateBasicFeatures, Apply
    <2>3. ASSUME NEW q \in Plans, CreatePlan(q) PROVE EffectiveMetadata(p, c) = EffectiveMetadata(p, c)'
        BY <2>3 DEF CreatePlan, EffectiveMetadata
    <2>4. ASSUME NEW q \in Plans, NEW metadata, Assign(q, metadata)
          PROVE  EffectiveMetadata(p, c) = EffectiveMetadata(p, c)'
        <3>1. q # p
            BY <2>4 DEF Assign, Apply, Assigned
        <3>2. row'[p] = row[p]
            BY <2>1, <2>4, <3>1 DEF Assign, TypeOK
        <3> QED BY <2>4, <3>2 DEF Assign, EffectiveMetadata
    <2>5. ASSUME CreateMissingFeatures PROVE EffectiveMetadata(p, c) = EffectiveMetadata(p, c)'
        <3>1. row[p][c] # None => feature'[c] = feature[c]
            BY <2>1, <2>5 DEF CreateMissingFeatures, TypeOK
        <3> QED BY <2>5, <3>1 DEF CreateMissingFeatures, EffectiveMetadata
    <2>6. "basic" \in Plans /\ "pro" \in Plans /\ "enterprise" \in Plans
        BY DEF Plans
    <2> QED BY <2>2, <2>3, <2>4, <2>5, <2>6
            DEF Forward, CreateFreePlan, CreateProPlan, CreateEnterprisePlan,
                AssignToFreePlan, AssignToProPlan, AssignToEnterprisePlan
<1> QED BY <1>1, SAlways, PTL DEF Spec, DeployKeepsLimits
=============================================================================
