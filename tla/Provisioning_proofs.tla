--------------------------- MODULE Provisioning_proofs ---------------------------
(***************************************************************************)
(* Proofs about Provisioning for any number of requests, tenants, roles    *)
(* and menus, and any number of operations of one statement in between.    *)
(***************************************************************************)
EXTENDS Provisioning, TLAPS

USE DEF tables, inputs, locals, history

\* Where a request of each kind can be, and when it has menus to write.
ShapeOf(c) ==
    /\ op[c] = "tenant" => pc[c] \in {"tenant", "package", "key", "role", "count", "bind", "dept",
                                      "name", "user", "grant", "added", "over"}
    /\ op[c] = "role" => pc[c] \in {"key", "role", "count", "bind", "over"}
    /\ op[c] = "change" => pc[c] \in {"key", "update", "count", "bind", "over"}
    /\ op[c] = "remove" => pc[c] \in {"accounts", "rows", "holders", "links", "over"}
    /\ op[c] = "sync" => pc[c] \in {"idle", "package", "roles", "drop", "rebind", "synced", "over"}
    /\ \/ pc[c] \in {"count", "bind", "roles", "drop", "rebind", "synced"}
       \/ pc[c] \in {"key", "role"} /\ op[c] = "tenant"
       => menus[c] # {}
    /\ op[c] \in {"tenant", "role"} => at[c] \in Tenant
    /\ pc[c] \notin {"drop", "rebind", "synced"} => done[c] = {}

Shape == \A c \in Call : ShapeOf(c)

\* A role is not drawn twice.
Distinct == \A c, d \in Call : op[c] = "tenant" /\ op[d] = "tenant" /\ on[c] = on[d] => c = d

Late == {"count", "bind", "dept", "name", "user", "grant", "added"}

\* What the adding of a tenant has made, unless somebody changed it.
Rooted(c) == op[c] = "tenant" =>
    /\ pc[c] \notin {"tenant", "over"} => at[c] \in tenant \/ c \in undone
    /\ pc[c] \in Late => owner[on[c]] = at[c] \/ c \in undone
    /\ pc[c] \in {"grant", "added"} => user[on[c]] = name[c] \/ c \in undone
    /\ pc[c] = "added" => on[c] \in held \/ c \in undone

Placed == Distinct /\ \A c \in Call : Rooted(c)

\* A removal deletes what it found no account to have.
Counted == \A c \in Call : pc[c] \in {"rows", "holders", "links"} => rest[c] \subseteq free

Structure == TypeOK /\ Shape /\ Counted

\* The role is there, and it has menus: or we know who took them.
Kept(r) == owner[r] # None \/ r \in free
Armed(r) == bound[r] = {} => r \in free \/ why[r] # "nothing" \/ \E c \in Call : Between(c, r)

\* An account has the role, or may get it.
Account == {"dept", "name", "user", "grant"}
Manned(r) == r \in held \/ user[r] # None \/ \E c \in Call : op[c] = "tenant" /\ pc[c] \in Account /\ on[c] = r

Equipped ==
    /\ \A r \in Role : Manned(r) => Kept(r) /\ Armed(r)
    /\ \A c \in Call : op[c] = "tenant" /\ pc[c] \in Late => Kept(on[c])

\* Nobody but synchronisations with the same menus runs beside a calm one.
Alone(c) ==
    /\ op[c] = "sync" /\ pc[c] \in {"roles", "drop", "rebind", "synced"}
    /\ \A d \in Call \ {c} : Running(d) => op[d] = "sync" /\ (pc[d] = "package" \/ menus[d] = menus[c])

\* What a synchronisation finds where it is about to insert.
Clean(c) == pc[c] = "rebind" => bound[on[c]] \in {{}, menus[c]}

Calm == \A c \in calm : Alone(c) /\ Clean(c)

Settled(c, r) ==
    \/ bound[r] = menus[c]
    \/ bound[r] = {} /\ (why[r] = "gave up" \/ \E d \in Call : Between(d, r))

IInv == Structure /\ Placed /\ Equipped /\ Calm /\ SyncsAgree

-----------------------------------------------------------------------------
LEMMA SplitTyped == \A list \in Lists : Split(list) \subseteq Bindable /\ Split(list) # {}
  BY ProvisioningTyped DEF Split, Bindable

LEMMA InitIInv == Init => IInv
<1> USE ProvisioningTyped
<1> SUFFICES ASSUME Init PROVE IInv
  OBVIOUS
<1>1. TypeOK
  <2>1. PICK t \in Tenant, n \in Name, m \in Lists \ {{}}, k \in Key, there \in BOOLEAN :
          /\ tenant = IF there THEN {t} ELSE {}
          /\ owner = [r \in Role |-> IF there /\ r = Seed THEN t ELSE None]
          /\ key = [r \in Role |-> IF there /\ r = Seed THEN k ELSE "admin"]
          /\ bound = [r \in Role |-> IF there /\ r = Seed THEN m ELSE {}]
          /\ user = [r \in Role |-> IF there /\ r = Seed THEN n ELSE None]
          /\ held = IF there THEN {Seed} ELSE {}
          /\ home = [c \in Call |-> t]
          /\ at = [c \in Call |-> t]
          /\ name = [c \in Call |-> n]
    BY DEF Init
  <2>2. m \in SUBSET Bindable
    BY DEF Bindable
  <2>3. /\ tenant \subseteq Tenant /\ held \subseteq Role
        /\ owner \in [Role -> Tenant \cup {None}] /\ key \in [Role -> Key]
        /\ user \in [Role -> Name \cup {None}]
    BY <2>1 DEF Key
  <2>4. bound \in [Role -> SUBSET Bindable]
    BY <2>1, <2>2
  <2>5. home \in [Call -> Tenant] /\ at \in [Call -> Tenant \cup {None}] /\ name \in [Call -> Name]
    BY <2>1
  <2> QED BY <2>3, <2>4, <2>5 DEF Init, TypeOK, Key, Over, Steps, Causes
<1>2. Shape /\ Counted
  BY DEF Init, Shape, ShapeOf, Counted
<1>3. Placed
  BY DEF Init, Placed, Distinct, Rooted
<1>4. Equipped
  BY DEF Init, Equipped, Manned, Kept, Armed, Account, Late
<1>5. Calm /\ SyncsAgree
  BY DEF Init, Calm, SyncsAgree
<1> QED BY <1>1, <1>2, <1>3, <1>4, <1>5 DEF IInv, Structure

-----------------------------------------------------------------------------
(* Types.                                                                  *)

Kinds == {"tenant", "role", "change", "remove", "sync"}

LEMMA BeginTyped ==
  ASSUME TypeOK, NEW c \in Call, NEW o \in Kinds, NEW label \in Steps, NEW t \in Tenant \cup {None},
         NEW r \in Role, NEW k \in Key, NEW n \in Name, NEW ms \in SUBSET Bindable, NEW rs \in SUBSET Role,
         Begin(c, o, label, t, r, k, n, ms, rs), UNCHANGED edits
  PROVE  TypeOK'
<1>1. UNCHANGED <<enabled, tenant, package, owner, key, bound, user, held, had, todo, done,
                  free, undone, why, edits>>
  BY DEF Begin
<1>2. PICK h \in IF enabled THEN Tenant ELSE {home[c]} : home' = [home EXCEPT ![c] = h]
  BY DEF Begin
<1>3. home' \in [Call -> Tenant]
  BY <1>2 DEF TypeOK
<1>4. op' \in [Call -> Kinds] /\ pc' \in [Call -> Over \cup Steps]
  BY DEF TypeOK, Begin, Goto, Kinds
<1>5. at' \in [Call -> Tenant \cup {None}] /\ on' \in [Call -> Role]
  BY DEF TypeOK, Begin
<1>6. form' \in [Call -> Key] /\ name' \in [Call -> Name]
  BY DEF TypeOK, Begin
<1>7. menus' \in [Call -> SUBSET Bindable] /\ rest' \in [Call -> SUBSET Role] /\ calm' \subseteq Call
  BY DEF TypeOK, Begin
<1> QED BY <1>1, <1>3, <1>4, <1>5, <1>6, <1>7 DEF TypeOK, Kinds

LEMMA StepTyped == ASSUME TypeOK, Shape, NEW c \in Call, Step(c), UNCHANGED edits PROVE TypeOK'
<1> USE ProvisioningTyped DEF TypeOK, Goto, OnlyMove, Locally, Over, Steps
<1>1. CASE CheckKey(c)
  BY <1>1 DEF CheckKey
<1>2. CASE InsertRole(c)
  BY <1>2 DEF InsertRole
<1>3. CASE UpdateRole(c)
  <2>1. key' \in [Role -> Key] /\ undone' \subseteq Call
    BY <1>3 DEF UpdateRole, WritersOf
  <2>2. owner' \in [Role -> Tenant \cup {None}]
    BY <1>3 DEF UpdateRole
  <2>3. pc' \in [Call -> Over \cup Steps]
    BY <1>3 DEF UpdateRole
  <2> QED BY <1>3, <2>1, <2>2, <2>3 DEF UpdateRole
<1>4. CASE CountMenus(c)
  <2>1. had' \in [Call -> BOOLEAN]
    <3>1. PICK found \in {FALSE, bound[on[c]] # {}} : had' = [had EXCEPT ![c] = found]
      BY <1>4 DEF CountMenus
    <3>2. found \in BOOLEAN
      OBVIOUS
    <3> QED BY <3>1, <3>2, ZenonT(30)
  <2> QED BY <1>4, <2>1 DEF CountMenus
<1>5. CASE BindMenus(c)
  BY <1>5 DEF BindMenus, Insert, Causes
<1>6. CASE InsertTenant(c)
  BY <1>6 DEF InsertTenant, Shape, ShapeOf
<1>7. CASE AddDept(c)
  BY <1>7 DEF AddDept
<1>8. CASE CheckName(c)
  BY <1>8 DEF CheckName
<1>9. CASE InsertUser(c)
  BY <1>9 DEF InsertUser
<1>10. CASE GrantRole(c)
  BY <1>10 DEF GrantRole
<1>11. CASE ReadPackage(c)
  <2>1. menus' \in [Call -> SUBSET Bindable]
    BY <1>11, SplitTyped DEF ReadPackage
  <2>2. calm' \subseteq Call
    BY <1>11 DEF ReadPackage
  <2> QED BY <1>11, <2>1, <2>2 DEF ReadPackage
<1>12. CASE ReadRoles(c)
  BY <1>12 DEF ReadRoles
<1>13. CASE DropMenus(c)
  BY <1>13 DEF DropMenus
<1>14. CASE RebindMenus(c)
  <2>1. todo' \in [Call -> SUBSET Role] /\ done' \in [Call -> SUBSET Role]
    BY <1>14 DEF RebindMenus
  <2>2. bound' \in [Role -> SUBSET Bindable] /\ why' \in [Role -> Causes]
    BY <1>14 DEF RebindMenus, Insert, Causes
  <2> QED BY <1>14, <2>1, <2>2 DEF RebindMenus, Insert
<1>15. CASE TrimMenus(c)
  BY <1>15 DEF TrimMenus, Causes
<1>16. CASE CountAccounts(c)
  BY <1>16 DEF CountAccounts
<1>17. CASE DeleteRows(c)
  BY <1>17 DEF DeleteRows, WritersOf
<1>18. CASE DeleteHolders(c)
  BY <1>18 DEF DeleteHolders, WritersOf
<1>19. CASE DeleteLinks(c)
  BY <1>19 DEF DeleteLinks
<1> QED BY <1>1, <1>2, <1>3, <1>4, <1>5, <1>6, <1>7, <1>8, <1>9, <1>10, <1>11, <1>12, <1>13, <1>14,
           <1>15, <1>16, <1>17, <1>18, <1>19 DEF Step

LEMMA FailTyped == ASSUME TypeOK, NEW c \in Call, Fail(c), UNCHANGED edits PROVE TypeOK'
  BY DEF Fail, Goto, TypeOK, Over, Causes

\* An operation of one statement leaves the requests where they are.
LEMMA EditTyped ==
  ASSUME TypeOK, Edit, edits' = edits + 1
  PROVE  TypeOK' /\ UNCHANGED <<inputs, pc, locals>> /\ free' = free /\ undone \subseteq undone'
<1> USE ProvisioningTyped
<1>1. ASSUME NEW ms \in Lists, EditPackage(ms) PROVE TypeOK' /\ UNCHANGED <<inputs, pc, locals, free, undone>>
  BY <1>1 DEF EditPackage, TypeOK
<1>2. ASSUME NEW ms \in SUBSET Menu, DeleteMenus(ms)
      PROVE  TypeOK' /\ UNCHANGED <<inputs, pc, locals, free, undone>>
  <2>1. bound' \in [Role -> SUBSET Bindable] /\ why' \in [Role -> Causes] /\ calm' \subseteq Call
    BY <1>2 DEF DeleteMenus, TypeOK, Causes
  <2>2. UNCHANGED <<enabled, tenant, package, owner, key, user, held, inputs, pc, locals, free, undone>>
    BY <1>2 DEF DeleteMenus
  <2> QED BY <2>1, <2>2 DEF TypeOK
<1>3. ASSUME NEW t \in Tenant, DeleteTenant(t)
      PROVE  TypeOK' /\ UNCHANGED <<inputs, pc, locals, free>> /\ undone \subseteq undone'
  <2>1. tenant' \subseteq Tenant /\ undone' \subseteq Call /\ undone \subseteq undone'
    BY <1>3 DEF DeleteTenant, TypeOK
  <2> QED BY <1>3, <2>1 DEF DeleteTenant, TypeOK
<1>4. ASSUME NEW t \in Tenant, NEW n \in Tenant, EditTenant(t, n)
      PROVE  TypeOK' /\ UNCHANGED <<inputs, pc, locals, free>> /\ undone \subseteq undone'
  <2>1. tenant' \subseteq Tenant /\ undone' \subseteq Call /\ undone \subseteq undone'
    BY <1>4 DEF EditTenant, TypeOK
  <2> QED BY <1>4, <2>1 DEF EditTenant, TypeOK
<1>5. ASSUME NEW r \in Role, DeleteUser(r) \/ TakeRole(r) \/ GiveRole(r)
      PROVE  TypeOK' /\ UNCHANGED <<inputs, pc, locals, free>> /\ undone \subseteq undone'
  <2>1. /\ user' \in [Role -> Name \cup {None}] /\ held' \subseteq Role
        /\ undone' \subseteq Call /\ undone \subseteq undone'
    BY <1>5 DEF DeleteUser, TakeRole, GiveRole, WritersOf, TypeOK
  <2>2. UNCHANGED <<enabled, tenant, package, owner, key, bound, inputs, pc, locals, calm, free, why>>
    BY <1>5 DEF DeleteUser, TakeRole, GiveRole
  <2> QED BY <2>1, <2>2 DEF TypeOK
<1> QED BY <1>1, <1>2, <1>3, <1>4, <1>5 DEF Edit

-----------------------------------------------------------------------------
(* Where the requests are, and what they have made.                        *)

\* A step is one of a request that runs, and leaves the others where they are.
LEMMA StepMoves ==
  ASSUME TypeOK, Shape, NEW e \in Call, Step(e)
  PROVE  /\ UNCHANGED inputs
         /\ \A d \in Call \ {e} : /\ pc'[d] = pc[d] /\ menus'[d] = menus[d] /\ on'[d] = on[d]
                                  /\ todo'[d] = todo[d] /\ done'[d] = done[d] /\ rest'[d] = rest[d]
         /\ Running(e)
         /\ pc[e] # "package" => UNCHANGED <<calm, menus>>
         /\ pc[e] = "package" => ReadPackage(e)
         /\ op[e] # "sync" => on' = on /\ rest' = rest
         /\ pc'[e] \notin {"idle", "package"} \/ pc[e] = "tenant"
         /\ free \subseteq free' /\ undone \subseteq undone'
<1> USE DEF TypeOK, Shape, ShapeOf, Goto, OnlyMove, Locally, Running, Over
<1>1. CASE CheckKey(e)
  BY <1>1 DEF CheckKey
<1>2. CASE InsertRole(e)
  BY <1>2 DEF InsertRole
<1>3. CASE UpdateRole(e)
  BY <1>3 DEF UpdateRole
<1>4. CASE CountMenus(e)
  BY <1>4 DEF CountMenus
<1>5. CASE BindMenus(e)
  BY <1>5 DEF BindMenus, Insert
<1>6. CASE InsertTenant(e)
  BY <1>6 DEF InsertTenant
<1>7. CASE AddDept(e)
  BY <1>7 DEF AddDept
<1>8. CASE CheckName(e)
  BY <1>8 DEF CheckName
<1>9. CASE InsertUser(e)
  BY <1>9 DEF InsertUser
<1>10. CASE GrantRole(e)
  BY <1>10 DEF GrantRole
<1>11. CASE ReadPackage(e)
  BY <1>11 DEF ReadPackage
<1>12. CASE ReadRoles(e)
  BY <1>12 DEF ReadRoles
<1>13. CASE DropMenus(e)
  <2>1. /\ pc[e] = "drop" /\ pc'[e] = "rebind" /\ \A d \in Call \ {e} : pc'[d] = pc[d] /\ on'[d] = on[d]
        /\ UNCHANGED <<inputs, menus, todo, done, rest, calm, free, undone>>
    BY <1>13 DEF DropMenus
  <2>2. op[e] = "sync"
    BY <2>1
  <2> QED BY <2>1, <2>2
<1>14. CASE RebindMenus(e)
  BY <1>14 DEF RebindMenus, Insert
<1>15. CASE TrimMenus(e)
  BY <1>15 DEF TrimMenus
<1>16. CASE CountAccounts(e)
  BY <1>16 DEF CountAccounts
<1>17. CASE DeleteRows(e)
  BY <1>17 DEF DeleteRows
<1>18. CASE DeleteHolders(e)
  BY <1>18 DEF DeleteHolders
<1>19. CASE DeleteLinks(e)
  BY <1>19 DEF DeleteLinks
<1> QED BY <1>1, <1>2, <1>3, <1>4, <1>5, <1>6, <1>7, <1>8, <1>9, <1>10, <1>11, <1>12, <1>13, <1>14,
           <1>15, <1>16, <1>17, <1>18, <1>19 DEF Step

LEMMA StepShape == ASSUME TypeOK, Shape, NEW c \in Call, Step(c) PROVE Shape'
<1>1. ASSUME NEW d \in Call \ {c} PROVE ShapeOf(d)'
  BY <1>1, StepMoves DEF Shape, ShapeOf
<1>2. ShapeOf(c)'
  <2> USE DEF TypeOK, Shape, ShapeOf, Goto, OnlyMove, Locally
  <2>1. CASE CheckKey(c)
    BY <2>1 DEF CheckKey
  <2>2. CASE InsertRole(c)
    BY <2>2 DEF InsertRole
  <2>3. CASE UpdateRole(c)
    BY <2>3 DEF UpdateRole
  <2>4. CASE CountMenus(c)
    BY <2>4 DEF CountMenus
  <2>5. CASE BindMenus(c)
    BY <2>5 DEF BindMenus, Insert
  <2>6. CASE InsertTenant(c)
    BY <2>6 DEF InsertTenant
  <2>7. CASE AddDept(c)
    BY <2>7 DEF AddDept
  <2>8. CASE CheckName(c)
    BY <2>8 DEF CheckName
  <2>9. CASE InsertUser(c)
    BY <2>9 DEF InsertUser
  <2>10. CASE GrantRole(c)
    BY <2>10 DEF GrantRole
  <2>11. CASE ReadPackage(c)
    <3>1. /\ pc[c] = "package" /\ pc'[c] = (IF op[c] = "sync" THEN "roles" ELSE "key")
          /\ menus'[c] = Split(package) /\ menus'[c] # {} /\ done'[c] = done[c]
      BY <2>11, SplitTyped DEF ReadPackage
    <3>2. op'[c] = op[c] /\ at'[c] = at[c] /\ op[c] \in {"tenant", "sync"}
      BY <2>11, <3>1 DEF ReadPackage
    <3> QED BY <3>1, <3>2
  <2>12. CASE ReadRoles(c)
    BY <2>12 DEF ReadRoles
  <2>13. CASE DropMenus(c)
    BY <2>13 DEF DropMenus
  <2>14. CASE RebindMenus(c)
    BY <2>14 DEF RebindMenus, Insert
  <2>15. CASE TrimMenus(c)
    BY <2>15 DEF TrimMenus
  <2>16. CASE CountAccounts(c)
    BY <2>16 DEF CountAccounts
  <2>17. CASE DeleteRows(c)
    BY <2>17 DEF DeleteRows
  <2>18. CASE DeleteHolders(c)
    BY <2>18 DEF DeleteHolders
  <2>19. CASE DeleteLinks(c)
    BY <2>19 DEF DeleteLinks
  <2> QED BY <2>1, <2>2, <2>3, <2>4, <2>5, <2>6, <2>7, <2>8, <2>9, <2>10, <2>11, <2>12, <2>13, <2>14,
             <2>15, <2>16, <2>17, <2>18, <2>19 DEF Step
<1> QED BY <1>1, <1>2 DEF Shape

\* What a step writes, and where it is written.
LEMMA StepWrites ==
  ASSUME TypeOK, NEW e \in Call, Step(e)
  PROVE  /\ UNCHANGED owner \/ InsertRole(e) \/ UpdateRole(e) \/ DeleteRows(e)
         /\ UNCHANGED <<bound, why>> \/ BindMenus(e) \/ DropMenus(e) \/ RebindMenus(e) \/ TrimMenus(e)
                                     \/ DeleteLinks(e)
         /\ UNCHANGED user \/ InsertUser(e)
         /\ UNCHANGED held \/ GrantRole(e) \/ DeleteHolders(e)
         /\ UNCHANGED tenant \/ InsertTenant(e)
         /\ UNCHANGED free \/ CountAccounts(e)
         /\ UNCHANGED rest \/ ReadRoles(e)
         /\ UNCHANGED <<on, todo>> \/ ReadRoles(e) \/ DropMenus(e) \/ RebindMenus(e)
         /\ UNCHANGED done \/ RebindMenus(e)
<1> USE DEF OnlyMove, Locally
<1>1. CASE CheckKey(e) \/ CountMenus(e) \/ AddDept(e) \/ CheckName(e) \/ ReadPackage(e) \/ ReadRoles(e)
           \/ CountAccounts(e)
  BY <1>1 DEF CheckKey, CountMenus, AddDept, CheckName, ReadPackage, ReadRoles, CountAccounts
<1>2. CASE InsertRole(e) \/ UpdateRole(e) \/ DeleteRows(e) \/ InsertUser(e) \/ GrantRole(e)
           \/ DeleteHolders(e) \/ InsertTenant(e)
  BY <1>2 DEF InsertRole, UpdateRole, DeleteRows, InsertUser, GrantRole, DeleteHolders, InsertTenant
<1>3. CASE BindMenus(e) \/ DropMenus(e) \/ RebindMenus(e) \/ TrimMenus(e) \/ DeleteLinks(e)
  BY <1>3 DEF BindMenus, DropMenus, RebindMenus, TrimMenus, DeleteLinks, Insert
<1> QED BY <1>1, <1>2, <1>3 DEF Step

LEMMA StepCounted == ASSUME Structure, NEW e \in Call, Step(e) PROVE Counted'
<1>0. TypeOK /\ Shape /\ Counted
  BY DEF Structure
<1> SUFFICES ASSUME NEW c \in Call, pc'[c] \in {"rows", "holders", "links"} PROVE rest'[c] \subseteq free'
  BY DEF Counted
<1>1. CASE c # e
  BY <1>0, <1>1, StepMoves DEF Counted
<1>2. CASE c = e
  <2> USE <1>0 DEF TypeOK, Shape, ShapeOf, Goto, OnlyMove
  <2>1. pc[e] \in {"accounts", "rows", "holders"}
    <3>1. pc[e] \notin {"accounts", "rows", "holders"} => pc'[e] \notin {"rows", "holders", "links"}
      <4> USE DEF Step
      <4>1. CASE CheckKey(e) \/ InsertRole(e) \/ UpdateRole(e) \/ CountMenus(e) \/ BindMenus(e)
        BY <4>1 DEF CheckKey, InsertRole, UpdateRole, CountMenus, BindMenus
      <4>2. CASE InsertTenant(e) \/ AddDept(e) \/ CheckName(e) \/ InsertUser(e) \/ GrantRole(e)
        BY <4>2 DEF InsertTenant, AddDept, CheckName, InsertUser, GrantRole
      <4>3. CASE ReadPackage(e) \/ ReadRoles(e) \/ DropMenus(e) \/ RebindMenus(e) \/ TrimMenus(e)
        BY <4>3 DEF ReadPackage, ReadRoles, DropMenus, RebindMenus, TrimMenus
      <4>4. CASE CountAccounts(e) \/ DeleteRows(e) \/ DeleteHolders(e) \/ DeleteLinks(e)
        BY <4>4 DEF CountAccounts, DeleteRows, DeleteHolders, DeleteLinks
      <4> QED BY <4>1, <4>2, <4>3, <4>4
    <3> QED BY <1>2, <3>1
  <2>2. rest' = rest
    BY <2>1, StepMoves
  <2>3. CASE pc[e] = "accounts"
    <3>1. CountAccounts(e)
      BY <2>3 DEF Step, CheckKey, InsertRole, UpdateRole, CountMenus, BindMenus, InsertTenant, AddDept,
                  CheckName, InsertUser, GrantRole, ReadPackage, ReadRoles, DropMenus, RebindMenus,
                  TrimMenus, DeleteRows, DeleteHolders, DeleteLinks
    <3> QED BY <1>2, <2>2, <3>1 DEF CountAccounts
  <2>4. CASE pc[e] # "accounts"
    BY <1>2, <2>1, <2>2, <2>4, StepMoves DEF Counted
  <2> QED BY <2>3, <2>4
<1> QED BY <1>1, <1>2

LEMMA StepPlaced == ASSUME Structure, Placed, NEW e \in Call, Step(e) PROVE Placed'
<1>0. TypeOK /\ Shape /\ Distinct /\ UNCHANGED inputs /\ \A c \in Call : Rooted(c)
  BY StepMoves DEF Structure, Placed
<1>1. \A c \in Call : op[c] = "tenant" => on'[c] = on[c]
  BY <1>0, StepMoves
<1>2. Distinct'
  BY <1>0, <1>1 DEF Distinct
<1>3. ASSUME NEW c \in Call, op[c] = "tenant" PROVE Rooted(c)'
  <2> DEFINE r == on[c]
  <2>0. /\ r \in Role /\ on'[c] = r /\ at[c] \in Tenant /\ Rooted(c) /\ at[c] # None
        /\ undone \subseteq undone'
    BY <1>0, <1>1, <1>3, StepMoves, ProvisioningTyped DEF TypeOK, Shape, ShapeOf
  <2>1. at[c] \in tenant => at[c] \in tenant'
    BY <2>0, StepWrites, <1>0 DEF InsertTenant
  <2>2. owner[r] = at[c] => owner'[r] = at[c] \/ c \in undone'
    <3>1. CASE InsertRole(e)
      BY <1>0, <2>0, <3>1 DEF InsertRole, TypeOK
    <3>2. CASE UpdateRole(e)
      <4>1. e # c
        BY <1>0, <1>3, <3>2 DEF UpdateRole, Shape, ShapeOf
      <4>2. CASE on[e] = r
        BY <3>2, <4>1, <4>2 DEF UpdateRole, WritersOf
      <4>3. CASE on[e] # r
        BY <1>0, <2>0, <3>2, <4>3 DEF UpdateRole, TypeOK
      <4> QED BY <4>2, <4>3
    <3>3. CASE DeleteRows(e)
      BY <2>0, <3>3 DEF DeleteRows, WritersOf
    <3> QED BY <1>0, <3>1, <3>2, <3>3, StepWrites
  <2>3. user[r] = name[c] => user'[r] = name[c]
    <3>1. CASE InsertUser(e)
      <4>1. op[e] = "tenant"
        BY <1>0, <3>1 DEF InsertUser, Shape, ShapeOf, TypeOK
      <4> QED BY <1>0, <1>3, <2>0, <3>1, <4>1 DEF InsertUser, Distinct, TypeOK
    <3> QED BY <1>0, <3>1, StepWrites
  <2>4. r \in held => r \in held' \/ c \in undone'
    BY <1>0, <2>0, StepWrites DEF GrantRole, DeleteHolders, WritersOf
  <2>5. CASE c # e
    <3>1. pc'[c] = pc[c] /\ op'[c] = op[c] /\ name'[c] = name[c] /\ at'[c] = at[c]
      BY <1>0, <2>5, StepMoves
    <3> QED BY <2>0, <2>1, <2>2, <2>3, <2>4, <3>1 DEF Rooted
  <2>6. CASE c = e
    <3> USE <1>0, <1>3, <2>0, <2>6 DEF TypeOK, Rooted, Goto, OnlyMove, Locally, Late
    <3>1. CASE CheckKey(e)
      BY <3>1 DEF CheckKey
    <3>2. CASE InsertRole(e)
      BY <3>2 DEF InsertRole
    <3>3. CASE CountMenus(e)
      BY <3>3 DEF CountMenus
    <3>4. CASE BindMenus(e)
      BY <3>4 DEF BindMenus, Insert
    <3>5. CASE InsertTenant(e)
      BY <3>5 DEF InsertTenant
    <3>6. CASE AddDept(e)
      BY <3>6 DEF AddDept
    <3>7. CASE CheckName(e)
      BY <3>7 DEF CheckName
    <3>8. CASE InsertUser(e)
      BY <3>8 DEF InsertUser
    <3>9. CASE GrantRole(e)
      BY <3>9 DEF GrantRole
    <3>10. CASE ReadPackage(e)
      BY <3>10 DEF ReadPackage
    <3>11. pc[e] \in {"tenant", "package", "key", "role", "count", "bind", "dept", "name", "user", "grant"}
      BY StepMoves DEF Shape, ShapeOf, Running, Over
    <3>12. \/ CheckKey(e) \/ InsertRole(e) \/ CountMenus(e) \/ BindMenus(e) \/ InsertTenant(e) \/ AddDept(e)
           \/ CheckName(e) \/ InsertUser(e) \/ GrantRole(e) \/ ReadPackage(e)
      BY <3>11 DEF Step, UpdateRole, ReadRoles, DropMenus, RebindMenus, TrimMenus, CountAccounts,
                   DeleteRows, DeleteHolders, DeleteLinks
    <3> QED BY <3>1, <3>2, <3>3, <3>4, <3>5, <3>6, <3>7, <3>8, <3>9, <3>10, <3>12
  <2> QED BY <2>5, <2>6
<1>4. ASSUME NEW c \in Call, op[c] # "tenant" PROVE Rooted(c)'
  BY <1>0, <1>4 DEF Rooted
<1> QED BY <1>2, <1>3, <1>4 DEF Placed

-----------------------------------------------------------------------------
(* A request that arrives.                                                 *)

\* What a request has of its own at the start.
Begun(c) ==
    /\ pc[c] = "idle" /\ on'[c] \in Role /\ done'[c] = done[c]
    /\ \/ op'[c] = "tenant" /\ pc'[c] = "tenant" /\ \A d \in Call : op[d] = "tenant" => on[d] # on'[c]
       \/ op'[c] = "role" /\ pc'[c] = "key"
       \/ op'[c] = "change" /\ pc'[c] = "key"
       \/ op'[c] = "remove" /\ pc'[c] = "accounts"
       \/ op'[c] = "sync" /\ pc'[c] = "package"
    /\ op'[c] \in {"tenant", "role"} => at'[c] \in Tenant
    /\ \A d \in Call \ {c} :
          /\ op'[d] = op[d] /\ pc'[d] = pc[d] /\ at'[d] = at[d] /\ on'[d] = on[d] /\ name'[d] = name[d]
          /\ menus'[d] = menus[d] /\ done'[d] = done[d] /\ rest'[d] = rest[d]
    /\ calm' = IF op'[c] = "sync" THEN calm ELSE {}
    /\ UNCHANGED <<tables, free, undone, why>>

LEMMA BeginBegun ==
  ASSUME TypeOK, NEW c \in Call, NEW o \in Kinds, NEW label, NEW t, NEW r \in Role, NEW k, NEW n, NEW ms, NEW rs,
         Begin(c, o, label, t, r, k, n, ms, rs),
         \/ o = "tenant" /\ label = "tenant" /\ \A d \in Call : op[d] = "tenant" => on[d] # r
         \/ o = "role" /\ label = "key"
         \/ o = "change" /\ label = "key"
         \/ o = "remove" /\ label = "accounts"
         \/ o = "sync" /\ label = "package",
         o \in {"tenant", "role"} => t \in Tenant
  PROVE  Begun(c)
<1>1. /\ op'[c] = o /\ pc'[c] = label /\ at'[c] = t /\ on'[c] = r /\ done' = done /\ pc[c] = "idle"
      /\ UNCHANGED <<tables, free, undone, why>>
      /\ calm' = IF o = "sync" THEN calm ELSE {}
  BY DEF Begin, Goto, TypeOK
<1>2. \A d \in Call \ {c} :
          /\ op'[d] = op[d] /\ pc'[d] = pc[d] /\ at'[d] = at[d] /\ on'[d] = on[d] /\ name'[d] = name[d]
          /\ menus'[d] = menus[d] /\ rest'[d] = rest[d]
  BY DEF Begin, Goto, TypeOK
<1> QED BY <1>1, <1>2 DEF Begun

LEMMA RequestBegun ==
  ASSUME TypeOK, Request, UNCHANGED edits PROVE (\E c \in Call : Begun(c)) /\ TypeOK'
<1> USE ProvisioningTyped
<1>0. /\ \A ms \in Lists \cup {{}} : ms \in SUBSET Bindable
      /\ \A c \in Call : name[c] \in Name /\ on[c] \in Role /\ form[c] \in Key /\ at[c] \in Tenant \cup {None}
      /\ "admin" \in Key /\ {} \in SUBSET Role
  BY DEF TypeOK, Bindable, Key
<1>1. ASSUME NEW c \in Call, NEW t \in Tenant, NEW r \in Role, NEW n \in Name, AddTenant(c, t, r, n)
      PROVE  Begun(c) /\ TypeOK'
  <2>1. Begin(c, "tenant", "tenant", t, r, "admin", n, {}, {}) /\ \A d \in Call : op[d] = "tenant" => on[d] # r
    BY <1>1 DEF AddTenant, Fresh
  <2> QED BY <1>0, <2>1, BeginBegun, BeginTyped DEF Kinds, Steps
<1>2. ASSUME NEW c \in Call, NEW t \in Tenant, NEW r \in Role, NEW k \in Key, NEW ms \in Lists,
             AddRole(c, t, r, k, ms)
      PROVE  Begun(c) /\ TypeOK'
  <2>1. Begin(c, "role", "key", t, r, k, name[c], ms, {})
    BY <1>2 DEF AddRole
  <2> QED BY <1>0, <2>1, BeginBegun, BeginTyped DEF Kinds, Steps
<1>3. ASSUME NEW c \in Call, NEW r \in Role, NEW t \in Tenant \cup {None}, NEW k \in Key, NEW ms \in Lists,
             ChangeRole(c, r, t, k, ms)
      PROVE  Begun(c) /\ TypeOK'
  <2>1. Begin(c, "change", "key", t, r, k, name[c], ms, {})
    BY <1>3 DEF ChangeRole
  <2> QED BY <1>0, <2>1, BeginBegun, BeginTyped DEF Kinds, Steps
<1>4. ASSUME NEW c \in Call, NEW rs \in SUBSET Role, RemoveRoles(c, rs) PROVE Begun(c) /\ TypeOK'
  <2>1. Begin(c, "remove", "accounts", at[c], on[c], form[c], name[c], {}, rs)
    BY <1>4 DEF RemoveRoles
  <2> QED BY <1>0, <2>1, BeginBegun, BeginTyped DEF Kinds, Steps
<1>5. ASSUME NEW c \in Call, NEW t \in Tenant, SyncTenantPackage(c, t) PROVE Begun(c) /\ TypeOK'
  <2>1. Begin(c, "sync", "package", t, on[c], form[c], name[c], {}, {})
    BY <1>5 DEF SyncTenantPackage
  <2> QED BY <1>0, <2>1, BeginBegun, BeginTyped DEF Kinds, Steps
<1> QED BY <1>1, <1>2, <1>3, <1>4, <1>5 DEF Request

LEMMA BegunStructure == ASSUME Structure, TypeOK', NEW c \in Call, Begun(c) PROVE Structure'
<1>1. Shape'
  <2>1. ShapeOf(c)'
    BY DEF Structure, Shape, ShapeOf, Begun
  <2>2. \A d \in Call \ {c} : ShapeOf(d)'
    BY DEF Structure, Shape, ShapeOf, Begun
  <2> QED BY <2>1, <2>2 DEF Shape
<1>2. Counted'
  BY DEF Structure, Counted, Begun
<1> QED BY <1>1, <1>2 DEF Structure

LEMMA BegunPlaced == ASSUME Placed, NEW c \in Call, Begun(c) PROVE Placed'
<1>1. Distinct'
  BY DEF Placed, Distinct, Begun
<1>2. Rooted(c)'
  BY DEF Rooted, Begun, Late
<1>3. ASSUME NEW d \in Call \ {c} PROVE Rooted(d)'
  BY <1>3 DEF Placed, Rooted, Begun
<1> QED BY <1>1, <1>2, <1>3 DEF Placed

-----------------------------------------------------------------------------
(* A request that fails, and an operation of one statement.                *)

LEMMA FailStructure == ASSUME Structure, NEW c \in Call, Fail(c), UNCHANGED edits PROVE Structure'
<1>1. TypeOK'
  BY FailTyped DEF Structure
<1>2. Shape'
  BY DEF Fail, Goto, Structure, Shape, ShapeOf, TypeOK, Running, Over
<1>3. Counted'
  BY DEF Fail, Goto, Structure, Counted, TypeOK
<1> QED BY <1>1, <1>2, <1>3 DEF Structure

LEMMA FailPlaced == ASSUME TypeOK, Placed, NEW c \in Call, Fail(c) PROVE Placed'
<1>1. Distinct'
  BY DEF Placed, Distinct, Fail
<1>2. \A d \in Call : Rooted(d)'
  BY DEF Placed, Rooted, Late, Fail, Goto, TypeOK
<1> QED BY <1>1, <1>2 DEF Placed

LEMMA EditStructure == ASSUME Structure, Edit, edits' = edits + 1 PROVE Structure'
<1>1. TypeOK' /\ UNCHANGED <<op, pc, at, menus, done, rest, free>>
  BY EditTyped DEF Structure
<1>2. Shape' /\ Counted'
  BY <1>1 DEF Structure, Shape, ShapeOf, Counted
<1> QED BY <1>1, <1>2 DEF Structure

LEMMA EditPlaced == ASSUME TypeOK, Placed, Edit, edits' = edits + 1 PROVE Placed'
<1>1. UNCHANGED <<op, pc, at, name, on>> /\ undone \subseteq undone'
  BY EditTyped
<1>2. owner' = owner
  BY DEF Edit, EditPackage, DeleteMenus, DeleteTenant, EditTenant, DeleteUser, TakeRole, GiveRole
<1>3. \A c \in Call : at[c] \in tenant => at[c] \in tenant' \/ c \in undone'
  BY DEF Edit, EditPackage, DeleteMenus, DeleteTenant, EditTenant, DeleteUser, TakeRole, GiveRole
<1>4. \A c \in Call : user'[on[c]] = user[on[c]] \/ c \in undone'
  BY DEF Edit, EditPackage, DeleteMenus, DeleteTenant, EditTenant, DeleteUser, TakeRole, GiveRole, WritersOf, TypeOK
<1>5. \A c \in Call : on[c] \in held => on[c] \in held' \/ c \in undone'
  BY DEF Edit, EditPackage, DeleteMenus, DeleteTenant, EditTenant, DeleteUser, TakeRole, GiveRole, WritersOf
<1>6. Distinct'
  BY <1>1 DEF Placed, Distinct
<1>7. \A c \in Call : Rooted(c)'
  BY <1>1, <1>2, <1>3, <1>4, <1>5 DEF Placed, Rooted
<1> QED BY <1>6, <1>7 DEF Placed

-----------------------------------------------------------------------------
(* Administrators, their roles and their menus.                            *)

\* A role that is there stays, or a removal found no account to have it.
LEMMA KeptStays == ASSUME Structure, NEW e \in Call, Step(e), NEW r \in Role, Kept(r) PROVE Kept(r)'
<1> USE ProvisioningTyped
<1>0. TypeOK /\ Shape /\ Counted /\ free \subseteq free'
  BY StepMoves DEF Structure
<1>1. CASE InsertRole(e)
  <2>1. op[e] \in {"tenant", "role"} /\ at[e] # None
    <3>1. op[e] \in {"tenant", "role"}
      BY <1>0, <1>1 DEF InsertRole, Shape, ShapeOf, TypeOK
    <3>2. at[e] \in Tenant
      BY <1>0, <3>1 DEF Shape, ShapeOf
    <3> QED BY <3>1, <3>2
  <2> QED BY <1>0, <1>1, <2>1 DEF InsertRole, Kept, TypeOK
<1>2. CASE UpdateRole(e)
  BY <1>0, <1>2 DEF UpdateRole, Kept, TypeOK
<1>3. CASE DeleteRows(e)
  <2>1. rest[e] \subseteq free
    BY <1>0, <1>3 DEF DeleteRows, Counted
  <2> QED BY <1>0, <1>3, <2>1 DEF DeleteRows, Kept, TypeOK
<1> QED BY <1>0, <1>1, <1>2, <1>3, StepWrites DEF Kept

\* However the last menu of a role goes, we know why.
LEMMA ArmedStays == ASSUME Structure, NEW e \in Call, Step(e), NEW r \in Role, Armed(r) PROVE Armed(r)'
<1>0. TypeOK /\ Shape /\ Counted /\ free \subseteq free'
  BY StepMoves DEF Structure
<1> USE DEF Goto
<1>1. \A c \in Call \ {e} : Between(c, r) => Between(c, r)'
  BY <1>0, StepMoves DEF Between
<1>2. CASE BindMenus(e) \/ RebindMenus(e)
  <2>1. \E left : Insert(e, on[e], left) /\ menus[e] # {}
    BY <1>0, <1>2 DEF BindMenus, RebindMenus, Shape, ShapeOf
  <2>2. CASE on[e] = r
    BY <1>0, <2>1, <2>2 DEF Insert, Armed, TypeOK
  <2>3. CASE on[e] # r
    BY <1>0, <1>1, <2>1, <2>3 DEF Insert, Armed, Between, TypeOK
  <2> QED BY <2>2, <2>3
<1>3. CASE DropMenus(e)
  <2>1. PICK s \in todo[e] : on' = [on EXCEPT ![e] = s] /\ bound' = [bound EXCEPT ![s] = {}]
    BY <1>3 DEF DropMenus
  <2>2. pc[e] = "drop" /\ pc'[e] = "rebind" /\ why' = why
    BY <1>0, <1>3 DEF DropMenus, TypeOK
  <2>3. CASE s = r
    BY <1>0, <2>1, <2>2, <2>3 DEF Armed, Between, TypeOK
  <2>4. CASE s # r
    BY <1>0, <1>1, <2>1, <2>2, <2>4 DEF Armed, Between, TypeOK
  <2> QED BY <2>3, <2>4
<1>4. CASE TrimMenus(e)
  <2>1. pc[e] = "drop"
    BY <1>4 DEF TrimMenus
  <2>2. CASE bound[r] # {} /\ bound'[r] = {}
    BY <1>0, <1>4, <2>2 DEF TrimMenus, Armed
  <2>3. CASE bound'[r] # {}
    BY <2>3 DEF Armed
  <2>4. CASE bound[r] = {}
    BY <1>0, <1>1, <1>4, <2>1, <2>4 DEF TrimMenus, Armed, Between, TypeOK
  <2> QED BY <2>2, <2>3, <2>4
<1>5. CASE DeleteLinks(e)
  <2>1. pc[e] = "links" /\ rest[e] \subseteq free /\ why' = why
    BY <1>0, <1>5 DEF DeleteLinks, Locally, Counted
  <2>2. r \notin rest[e] => bound'[r] = bound[r]
    BY <1>0, <1>5 DEF DeleteLinks, TypeOK
  <2> QED BY <1>0, <1>1, <2>1, <2>2 DEF Armed, Between
<1>6. CASE UNCHANGED <<bound, why>> /\ ~RebindMenus(e)
  <2>1. pc[e] # "rebind"
    BY <1>6 DEF Step, CheckKey, InsertRole, UpdateRole, CountMenus, BindMenus, InsertTenant, AddDept,
                CheckName, InsertUser, GrantRole, ReadPackage, ReadRoles, DropMenus, TrimMenus,
                CountAccounts, DeleteRows, DeleteHolders, DeleteLinks
  <2> QED BY <1>0, <1>1, <1>6, <2>1 DEF Armed, Between
<1> QED BY <1>0, <1>2, <1>3, <1>4, <1>5, <1>6, StepWrites

\* An account gets a role that is there and has menus.
LEMMA StepEquipped == ASSUME Structure, Equipped, NEW e \in Call, Step(e) PROVE Equipped'
<1>0. TypeOK /\ Shape /\ UNCHANGED inputs
  BY StepMoves DEF Structure
<1>1. \A r \in Role : (Kept(r) => Kept(r)') /\ (Armed(r) => Armed(r)')
  BY KeptStays, ArmedStays
<1>2. ASSUME NEW c \in Call, op[c] = "tenant", pc'[c] \in Late PROVE Kept(on[c])'
  <2>1. on[c] \in Role /\ on'[c] = on[c]
    BY <1>0, <1>2, StepMoves DEF TypeOK
  <2>2. CASE pc[c] \in Late
    <3>1. Kept(on[c])
      BY <1>2, <2>2 DEF Equipped
    <3> QED BY <1>1, <2>1, <3>1 DEF Kept
  <2>3. CASE pc[c] \notin Late
    <3>1. c = e
      BY <1>0, <1>2, <2>3, StepMoves
    <3>2. pc[c] \in {"tenant", "package", "key", "role"}
      BY <1>0, <1>2, <2>3, <3>1, StepMoves DEF Shape, ShapeOf, Late, Running, Over
    <3>3. InsertRole(c)
      <4>1. InsertTenant(c) \/ ReadPackage(c) \/ CheckKey(c) \/ InsertRole(c)
        BY <3>1, <3>2 DEF Step, UpdateRole, CountMenus, BindMenus, AddDept, CheckName, InsertUser,
                          GrantRole, ReadRoles, DropMenus, RebindMenus, TrimMenus, CountAccounts,
                          DeleteRows, DeleteHolders, DeleteLinks
      <4> QED BY <1>0, <1>2, <4>1 DEF InsertTenant, ReadPackage, CheckKey, OnlyMove, Goto, Late, TypeOK
    <3>4. at[c] \in Tenant /\ owner'[on[c]] = at[c]
      BY <1>0, <1>2, <2>1, <3>3 DEF InsertRole, Shape, ShapeOf, TypeOK
    <3> QED BY <1>0, <1>2, <3>1, <3>4, ProvisioningTyped, StepMoves DEF Kept
  <2> QED BY <2>2, <2>3
<1>3. ASSUME NEW r \in Role, Manned(r)' PROVE Manned(r) \/ (Kept(r) /\ Armed(r)')
  <2>1. CASE r \in held' /\ r \notin held
    <3>1. GrantRole(e) /\ r = on[e]
      BY <1>0, <2>1, StepWrites DEF GrantRole, DeleteHolders
    <3>2. op[e] = "tenant" /\ pc[e] \in Account
      BY <1>0, <3>1 DEF GrantRole, Shape, ShapeOf, TypeOK, Account
    <3> QED BY <3>1, <3>2 DEF Manned
  <2>2. CASE user'[r] # None /\ user[r] = None
    <3>1. InsertUser(e) /\ r = on[e]
      BY <1>0, <2>2, StepWrites DEF InsertUser, TypeOK
    <3>2. op[e] = "tenant" /\ pc[e] \in Account
      BY <1>0, <3>1 DEF InsertUser, Shape, ShapeOf, TypeOK, Account
    <3> QED BY <3>1, <3>2 DEF Manned
  <2>3. CASE \E c \in Call : op[c] = "tenant" /\ pc'[c] \in Account /\ on'[c] = r
    <3>1. PICK c \in Call : op[c] = "tenant" /\ pc'[c] \in Account /\ on'[c] = r
      BY <2>3
    <3>2. on'[c] = on[c]
      BY <1>0, <3>1, StepMoves
    <3>3. CASE pc[c] \in Account
      BY <3>1, <3>2, <3>3 DEF Manned
    <3>4. CASE pc[c] \notin Account
      <4>1. c = e
        BY <1>0, <3>1, <3>4, StepMoves
      <4>2. pc[c] \in {"tenant", "package", "key", "role", "count", "bind"}
        BY <1>0, <3>1, <3>4, <4>1, StepMoves DEF Shape, ShapeOf, Account, Running, Over
      <4>3. BindMenus(c)
        <5>1. InsertTenant(c) \/ ReadPackage(c) \/ CheckKey(c) \/ InsertRole(c) \/ CountMenus(c) \/ BindMenus(c)
          BY <4>1, <4>2 DEF Step, UpdateRole, AddDept, CheckName, InsertUser,
                            GrantRole, ReadRoles, DropMenus, RebindMenus, TrimMenus, CountAccounts,
                            DeleteRows, DeleteHolders, DeleteLinks
        <5> QED BY <1>0, <3>1, <5>1 DEF InsertTenant, ReadPackage, CheckKey, InsertRole, CountMenus,
                                        OnlyMove, Goto, Account, TypeOK
      <4>4. Insert(c, r, IF had[c] THEN {} ELSE bound[r]) /\ menus[c] # {}
        BY <1>0, <3>1, <3>2, <4>3 DEF BindMenus, Shape, ShapeOf
      <4>5. Armed(r)'
        BY <1>0, <4>4 DEF Insert, Armed, TypeOK
      <4>6. Kept(r)
        BY <3>1, <3>2, <4>3 DEF BindMenus, Equipped, Late
      <4> QED BY <4>5, <4>6
    <3> QED BY <3>3, <3>4
  <2> QED BY <1>0, <1>3, <2>1, <2>2, <2>3 DEF Manned
<1>4. \A r \in Role : Manned(r)' => Kept(r)' /\ Armed(r)'
  BY <1>1, <1>3 DEF Equipped
<1>5. \A c \in Call : op'[c] = "tenant" /\ pc'[c] \in Late => Kept(on[c])' /\ on'[c] = on[c]
  BY <1>0, <1>2, StepMoves
<1> QED BY <1>4, <1>5 DEF Equipped, Kept

LEMMA BegunEquipped == ASSUME Structure, Equipped, NEW c \in Call, Begun(c) PROVE Equipped'
<1>0. UNCHANGED <<owner, bound, user, held, free, why>> /\ pc[c] = "idle"
  BY DEF Begun
<1>1. \A r : \A d \in Call : Between(d, r) => Between(d, r)'
  BY <1>0 DEF Begun, Between
<1>2. \A r \in Role : (Kept(r) => Kept(r)') /\ (Armed(r) => Armed(r)')
  BY <1>0, <1>1 DEF Kept, Armed
<1>3. \A d \in Call : op'[d] = "tenant" /\ pc'[d] \in Late \cup Account =>
                         d # c /\ op[d] = "tenant" /\ pc[d] = pc'[d] /\ on'[d] = on[d]
  BY DEF Begun, Late, Account
<1>4. \A r \in Role : Manned(r)' => Manned(r)
  BY <1>0, <1>3 DEF Manned
<1>5. \A d \in Call : op'[d] = "tenant" /\ pc'[d] \in Late => Kept(on[d]) /\ on'[d] = on[d] /\ on[d] \in Role
  BY <1>3 DEF Equipped, Structure, TypeOK
<1> QED BY <1>2, <1>4, <1>5 DEF Equipped, Kept

LEMMA FailEquipped == ASSUME Structure, Equipped, NEW c \in Call, Fail(c) PROVE Equipped'
<1>0. /\ TypeOK /\ UNCHANGED <<owner, bound, user, held, op, on, free>>
      /\ why' = [r \in Role |-> IF Between(c, r) /\ bound[r] = {} THEN "gave up" ELSE why[r]]
      /\ pc' = [pc EXCEPT ![c] = "over"]
  BY DEF Fail, Goto, Structure
<1>1. \A d \in Call : pc'[d] \in Late \cup Account => pc[d] = pc'[d]
  BY <1>0 DEF Late, Account, TypeOK
<1>2. \A r \in Role : (Kept(r) => Kept(r)') /\ (Armed(r) => Armed(r)')
  BY <1>0 DEF Kept, Armed, Between, TypeOK
<1>3. \A r \in Role : Manned(r)' => Manned(r)
  BY <1>0, <1>1 DEF Manned
<1>4. \A d \in Call : op'[d] = "tenant" /\ pc'[d] \in Late => Kept(on[d]) /\ on'[d] = on[d] /\ on[d] \in Role
  BY <1>0, <1>1 DEF Equipped, TypeOK
<1> QED BY <1>2, <1>3, <1>4 DEF Equipped, Kept

LEMMA EditEquipped == ASSUME Structure, Equipped, Edit, edits' = edits + 1 PROVE Equipped'
<1>0. TypeOK /\ UNCHANGED <<op, pc, on, free>>
  BY EditTyped DEF Structure
<1>1. owner' = owner
  BY DEF Edit, EditPackage, DeleteMenus, DeleteTenant, EditTenant, DeleteUser, TakeRole, GiveRole
<1>2. ASSUME NEW r \in Role, Armed(r) PROVE Armed(r)'
  <2>1. \A d \in Call : Between(d, r)' = Between(d, r)
    BY <1>0 DEF Between
  <2>2. ASSUME NEW ms \in SUBSET Menu, DeleteMenus(ms) PROVE Armed(r)'
    <3>1. bound'[r] = bound[r] \ ms /\ why'[r] = IF bound[r] # {} /\ bound[r] \subseteq ms
                                                 THEN "menus deleted" ELSE why[r]
      BY <2>2 DEF DeleteMenus
    <3> QED BY <1>0, <1>2, <2>1, <3>1 DEF Armed
  <2>3. CASE UNCHANGED <<bound, why>>
    BY <1>0, <1>2, <2>1, <2>3 DEF Armed
  <2> QED BY <2>2, <2>3 DEF Edit, EditPackage, DeleteTenant, EditTenant, DeleteUser, TakeRole, GiveRole
<1>3. ASSUME NEW r \in Role, Manned(r)' PROVE Manned(r)
  <2>1. r \in held' => r \in held \/ user[r] # None
    BY DEF Edit, EditPackage, DeleteMenus, DeleteTenant, EditTenant, DeleteUser, TakeRole, GiveRole
  <2>2. user'[r] # None => user[r] # None
    BY <1>0 DEF Edit, EditPackage, DeleteMenus, DeleteTenant, EditTenant, DeleteUser, TakeRole, GiveRole, TypeOK
  <2> QED BY <1>0, <1>3, <2>1, <2>2 DEF Manned
<1> QED BY <1>0, <1>1, <1>2, <1>3 DEF Equipped, Kept

-----------------------------------------------------------------------------
(* Synchronisations.                                                       *)

\* A synchronisation is calm from the time it reads the package, or not at all.
LEMMA StaysCalm ==
  ASSUME Structure, NEW e \in Call, Step(e), NEW c \in calm', c # e \/ pc[e] # "package"
  PROVE  c \in calm
<1>0. TypeOK /\ Shape
  BY DEF Structure
<1>1. CASE pc[e] # "package"
  BY <1>0, <1>1, StepMoves
<1>2. CASE pc[e] = "package"
  BY <1>0, <1>2, StepMoves DEF ReadPackage
<1> QED BY <1>1, <1>2

LEMMA StepAlone ==
  ASSUME Structure, Calm, NEW e \in Call, Step(e), NEW c \in calm'
  PROVE  /\ c \in Call /\ Alone(c)'
         /\ c # e \/ pc[e] # "package" => c \in calm /\ menus'[c] = menus[c]
<1>0. /\ TypeOK /\ Shape /\ UNCHANGED op /\ Running(e) /\ c \in Call
      /\ \A d \in Call \ {e} : pc'[d] = pc[d] /\ menus'[d] = menus[d] /\ Running(d)' = Running(d)
  <2>1. TypeOK /\ Shape
    BY DEF Structure
  <2>2. calm' \subseteq Call
    BY <2>1, StepMoves DEF ReadPackage, TypeOK
  <2> QED BY <2>1, <2>2, StepMoves DEF Running
<1>1. CASE pc[e] # "package"
  <2>1. UNCHANGED <<calm, menus>> /\ c \in calm /\ Alone(c)
    BY <1>0, <1>1, StepMoves DEF Calm
  <2>2. pc'[c] \in {"roles", "drop", "rebind", "synced"}
    <3>1. CASE c = e
      <4>1. pc[e] \in {"roles", "drop", "rebind"} /\ op[e] = "sync" /\ menus[e] # {}
        BY <1>0, <2>1, <3>1 DEF Alone, Running, Over, Shape, ShapeOf
      <4> QED BY <1>0, <3>1, <4>1 DEF Step, CheckKey, InsertRole, UpdateRole, CountMenus, BindMenus,
            InsertTenant, AddDept, CheckName, InsertUser, GrantRole, ReadPackage, ReadRoles, DropMenus,
            RebindMenus, TrimMenus, CountAccounts, DeleteRows, DeleteHolders, DeleteLinks, Goto, TypeOK
    <3>2. CASE c # e
      BY <1>0, <2>1, <3>2 DEF Alone
    <3> QED BY <3>1, <3>2
  <2>3. \A d \in Call \ {c} : Running(d)' => Running(d) /\ (pc[d] = "package" => d # e)
    BY <1>0, <1>1
  <2> QED BY <1>0, <1>1, <2>1, <2>2, <2>3 DEF Alone
<1>2. CASE pc[e] = "package" /\ op[e] # "sync"
  <2>1. ReadPackage(e) /\ c \in calm /\ Alone(c)
    BY <1>0, <1>2, StepMoves DEF ReadPackage, Calm
  <2>2. c # e
    BY <1>2, <2>1 DEF Alone
  <2> QED BY <1>0, <1>2, <2>1, <2>2 DEF Alone
<1>3. CASE pc[e] = "package" /\ op[e] = "sync"
  <2>1. /\ menus'[e] = Split(package) /\ pc'[e] = "roles"
        /\ calm' = {d \in calm : menus[d] = Split(package)} \cup
                   {d \in {e} : \A x \in Call \ {e} : ~Differs(x, Split(package))}
    BY <1>0, <1>3, StepMoves DEF ReadPackage, Goto, TypeOK
  <2>2. CASE c = e
    <3>1. e \notin calm
      BY <1>3 DEF Calm, Alone
    <3>2. \A x \in Call \ {e} : ~Differs(x, Split(package))
      BY <2>1, <2>2, <3>1
    <3> QED BY <1>0, <1>3, <2>1, <2>2, <3>2 DEF Alone, Differs
  <2>3. CASE c # e
    <3>1. c \in calm /\ menus[c] = Split(package) /\ Alone(c)
      BY <2>1, <2>3 DEF Calm
    <3> QED BY <1>0, <1>3, <2>1, <2>3, <3>1 DEF Alone
  <2> QED BY <2>2, <2>3
<1> QED BY <1>1, <1>2, <1>3

\* Beside a calm synchronisation, menus are written only by those with the same ones.
LEMMA Writers ==
  ASSUME Structure, Calm, NEW c \in calm, NEW e \in Call, Step(e), e # c \/ pc[e] # "package"
  PROVE  /\ op[e] = "sync"
         /\ UNCHANGED <<bound, why>> \/ DropMenus(e) \/ RebindMenus(e) \/ TrimMenus(e)
         /\ pc[e] # "package" => menus[e] = menus[c] /\ menus[e] # {} /\ pc[e] \in {"roles", "drop", "rebind"}
<1>0. TypeOK /\ Shape /\ Running(e) /\ Alone(c) /\ c \in Call
  BY StepMoves DEF Structure, Calm, TypeOK
<1>1. op[e] = "sync" /\ (pc[e] # "package" => menus[e] = menus[c])
  BY <1>0 DEF Alone
<1>2. pc[e] \in {"package", "roles", "drop", "rebind"} /\ (pc[e] # "package" => menus[e] # {})
  BY <1>0, <1>1 DEF Shape, ShapeOf, Running, Over
<1>3. ~BindMenus(e) /\ ~DeleteLinks(e)
  BY <1>2 DEF BindMenus, DeleteLinks
<1> QED BY <1>0, <1>1, <1>2, <1>3, StepWrites

LEMMA StepClean ==
  ASSUME Structure, Calm, NEW e \in Call, Step(e), NEW c \in calm' PROVE Clean(c)'
<1>0. TypeOK /\ Shape /\ Running(e) /\ c \in Call
  BY StepMoves, StepAlone DEF Structure
<1> SUFFICES ASSUME pc'[c] = "rebind" PROVE bound'[on'[c]] \in {{}, menus'[c]}
  BY DEF Clean
<1>1. CASE c = e
  <2>1. DropMenus(e)
    BY <1>0, <1>1 DEF Step, CheckKey, InsertRole, UpdateRole, CountMenus, BindMenus, InsertTenant, AddDept,
       CheckName, InsertUser, GrantRole, ReadPackage, ReadRoles, RebindMenus, TrimMenus, CountAccounts,
       DeleteRows, DeleteHolders, DeleteLinks, OnlyMove, Goto, TypeOK
  <2> QED BY <1>0, <1>1, <2>1 DEF DropMenus, TypeOK
<1>2. CASE c # e
  <2>1. /\ c \in calm /\ menus'[c] = menus[c] /\ pc[c] = "rebind" /\ on'[c] = on[c] /\ on[c] \in Role
        /\ bound[on[c]] \in {{}, menus[c]} /\ bound[on[c]] \in SUBSET Bindable
    BY <1>0, <1>2, StepAlone, StepMoves DEF Calm, Clean, TypeOK
  <2>2. CASE UNCHANGED bound
    BY <2>1, <2>2
  <2>3. CASE DropMenus(e)
    BY <1>0, <2>1, <2>3 DEF DropMenus, TypeOK
  <2>4. CASE RebindMenus(e)
    <3>1. menus[e] = menus[c] /\ menus[e] # {} /\ Insert(e, on[e], bound[on[e]])
      BY <1>2, <2>1, <2>4, Writers DEF RebindMenus
    <3>2. CASE on[e] = on[c]
      BY <1>0, <2>1, <3>1, <3>2 DEF Insert, TypeOK
    <3>3. CASE on[e] # on[c]
      BY <1>0, <2>1, <3>1, <3>3 DEF Insert, TypeOK
    <3> QED BY <3>2, <3>3
  <2>5. CASE TrimMenus(e)
    <3>1. menus[e] = menus[c]
      BY <1>2, <2>1, <2>5, Writers DEF TrimMenus
    <3>2. bound'[on[c]] \in {bound[on[c]], bound[on[c]] \cap menus[c]}
      BY <2>1, <2>5, <3>1 DEF TrimMenus
    <3> QED BY <2>1, <3>2
  <2> QED BY <1>2, <2>1, <2>2, <2>3, <2>4, <2>5, Writers
<1> QED BY <1>1, <1>2

\* A role with the menus keeps them but while somebody inserts them again.
LEMMA StepSettled ==
  ASSUME Structure, Calm, NEW e \in Call, Step(e), NEW c \in calm, c # e \/ pc[e] # "package",
         NEW r \in Role, Settled(c, r), menus'[c] = menus[c]
  PROVE  Settled(c, r)'
<1>0. TypeOK /\ Shape /\ \A d \in Call \ {e} : Between(d, r) => Between(d, r)'
  BY StepMoves DEF Structure, Between
<1>1. CASE DropMenus(e)
  <2>1. PICK s \in todo[e] : on' = [on EXCEPT ![e] = s] /\ bound' = [bound EXCEPT ![s] = {}]
    BY <1>1 DEF DropMenus
  <2>2. pc[e] = "drop" /\ pc'[e] = "rebind" /\ why' = why
    BY <1>0, <1>1 DEF DropMenus, Goto, TypeOK
  <2>3. CASE s = r
    BY <1>0, <2>1, <2>2, <2>3 DEF Settled, Between, TypeOK
  <2>4. CASE s # r
    BY <1>0, <2>1, <2>2, <2>4 DEF Settled, Between, TypeOK
  <2> QED BY <2>3, <2>4
<1>2. CASE RebindMenus(e)
  <2>1. menus[e] = menus[c] /\ menus[e] # {} /\ Insert(e, on[e], bound[on[e]])
    BY <1>2, Writers DEF RebindMenus
  <2>2. CASE on[e] = r
    BY <1>0, <2>1, <2>2 DEF Insert, Settled, TypeOK
  <2>3. CASE on[e] # r
    BY <1>0, <2>1, <2>3 DEF Insert, Settled, Between, TypeOK
  <2> QED BY <2>2, <2>3
<1>3. CASE TrimMenus(e)
  <2>1. menus[e] = menus[c] /\ pc[e] = "drop"
    BY <1>3, Writers DEF TrimMenus
  <2>2. bound'[r] \in {bound[r], bound[r] \cap menus[c]} /\ (bound[r] = {} => why'[r] = why[r])
    BY <1>3, <2>1 DEF TrimMenus
  <2> QED BY <1>0, <2>1, <2>2 DEF Settled, Between
<1>4. CASE UNCHANGED <<bound, why>> /\ ~RebindMenus(e)
  <2>1. pc[e] # "rebind"
    BY <1>4 DEF Step, CheckKey, InsertRole, UpdateRole, CountMenus, BindMenus, InsertTenant, AddDept,
                CheckName, InsertUser, GrantRole, ReadPackage, ReadRoles, DropMenus, TrimMenus,
                CountAccounts, DeleteRows, DeleteHolders, DeleteLinks
  <2> QED BY <1>0, <1>4, <2>1 DEF Settled, Between
<1> QED BY <1>1, <1>2, <1>3, <1>4, Writers

LEMMA StepAgree ==
  ASSUME Structure, Calm, SyncsAgree, NEW e \in Call, Step(e), NEW c \in calm'
  PROVE  /\ \A r \in done'[c] : Settled(c, r)'
         /\ pc'[c] = "synced" => \A r \in rest'[c] : bound'[r] \subseteq menus'[c]
<1>0. TypeOK /\ Shape /\ Running(e) /\ c \in Call
  BY StepMoves, StepAlone DEF Structure
<1>1. CASE c = e /\ pc[e] = "package"
  <2>1. ReadPackage(e)
    BY <1>0, <1>1, StepMoves
  <2>2. done'[c] = {} /\ pc'[c] # "synced"
    BY <1>0, <1>1, <2>1 DEF ReadPackage, Goto, Shape, ShapeOf, TypeOK
  <2> QED BY <2>2
<1>2. CASE c # e \/ pc[e] # "package"
  <2>1. /\ c \in calm /\ menus'[c] = menus[c] /\ Alone(c) /\ Clean(c)
        /\ done[c] \subseteq Role /\ rest[c] \subseteq Role
    BY <1>0, <1>2, StepAlone DEF Calm, TypeOK
  <2>2. \A r \in done[c] : Settled(c, r)
    BY <2>1 DEF SyncsAgree, Settled
  <2>3. \A r \in done[c] : Settled(c, r)'
    BY <1>2, <2>1, <2>2, StepSettled
  <2>4. ASSUME NEW r \in done'[c], r \notin done[c] PROVE Settled(c, r)'
    <3>1. RebindMenus(e) /\ c = e
      BY <1>0, <2>4, StepMoves, StepWrites
    <3>2. r = on[c] /\ r \in Role
      BY <1>0, <2>4, <3>1 DEF RebindMenus, TypeOK
    <3>3. /\ bound[r] \in {{}, menus[c]} /\ menus[c] # {} /\ Insert(c, r, bound[r])
      BY <1>0, <2>1, <3>1, <3>2 DEF RebindMenus, Clean, Shape, ShapeOf
    <3>4. bound'[r] = menus[c]
      BY <1>0, <3>2, <3>3 DEF Insert, TypeOK
    <3> QED BY <2>1, <3>4 DEF Settled
  <2>5. ASSUME pc'[c] = "synced", NEW r \in rest'[c] PROVE bound'[r] \subseteq menus'[c]
    <3>1. CASE c = e
      <4>1. TrimMenus(e)
        BY <1>0, <2>5, <3>1 DEF Step, CheckKey, InsertRole, UpdateRole, CountMenus, BindMenus, InsertTenant,
           AddDept, CheckName, InsertUser, GrantRole, ReadPackage, ReadRoles, DropMenus, RebindMenus,
           CountAccounts, DeleteRows, DeleteHolders, DeleteLinks, OnlyMove, Goto, TypeOK
      <4> QED BY <2>1, <2>5, <3>1, <4>1 DEF TrimMenus, Locally
    <3>2. CASE c # e
      <4>1. rest'[c] = rest[c] /\ pc[c] = "synced"
        BY <1>0, <2>5, <3>2, StepMoves
      <4>2. r \in rest[c] /\ r \in Role /\ bound[r] \subseteq menus[c]
        BY <2>1, <2>5, <4>1 DEF SyncsAgree
      <4>3. CASE UNCHANGED bound
        BY <2>1, <4>2, <4>3
      <4>4. CASE DropMenus(e)
        BY <1>0, <2>1, <4>2, <4>4 DEF DropMenus, TypeOK
      <4>5. CASE RebindMenus(e)
        BY <1>0, <1>2, <2>1, <4>2, <4>5, Writers DEF RebindMenus, Insert, TypeOK
      <4>6. CASE TrimMenus(e)
        BY <2>1, <4>2, <4>6 DEF TrimMenus
      <4> QED BY <1>2, <2>1, <4>3, <4>4, <4>5, <4>6, Writers
    <3> QED BY <3>1, <3>2
  <2> QED BY <2>3, <2>4, <2>5
<1> QED BY <1>1, <1>2

LEMMA StepCalm ==
  ASSUME Structure, Calm, SyncsAgree, NEW e \in Call, Step(e) PROVE (Calm /\ SyncsAgree)'
<1>1. Calm'
  BY StepAlone, StepClean DEF Calm
<1>2. SyncsAgree'
  BY StepAgree DEF SyncsAgree, Settled
<1> QED BY <1>1, <1>2

LEMMA QuietCalm ==
  ASSUME TypeOK, Calm, SyncsAgree, UNCHANGED <<bound, why, calm, op, pc, on, menus, done, rest>>
  PROVE  (Calm /\ SyncsAgree)'
<1>1. ASSUME NEW c \in calm PROVE Alone(c)' /\ Clean(c)'
  <2>1. Alone(c) /\ Clean(c)
    BY DEF Calm
  <2>2. Alone(c)'
    BY <2>1 DEF Alone, Running
  <2>3. Clean(c)'
    BY <2>1 DEF Clean
  <2> QED BY <2>2, <2>3
<1>2. \A d \in Call : \A r : Between(d, r)' = Between(d, r)
  BY DEF Between
<1>3. ASSUME NEW c \in calm, NEW r \in done[c] PROVE Settled(c, r)'
  <2>1. Settled(c, r)
    BY DEF SyncsAgree, Settled
  <2> QED BY <1>2, <2>1 DEF Settled
<1>4. ASSUME NEW c \in calm, pc[c] = "synced", NEW r \in rest[c] PROVE bound[r] \subseteq menus[c]
  BY <1>4 DEF SyncsAgree
<1>5. SyncsAgree'
  BY <1>3, <1>4 DEF SyncsAgree, Settled
<1> QED BY <1>1, <1>5 DEF Calm

LEMMA BegunCalm ==
  ASSUME Structure, Calm, SyncsAgree, NEW e \in Call, Begun(e) PROVE (Calm /\ SyncsAgree)'
<1>0. TypeOK /\ UNCHANGED <<bound, why>> /\ pc[e] = "idle"
  BY DEF Begun, Structure
<1>1. ASSUME NEW c \in calm'
      PROVE  /\ c \in calm /\ c \in Call /\ c # e /\ op'[e] = "sync" /\ pc'[e] = "package" /\ Alone(c) /\ Clean(c)
             /\ pc'[c] = pc[c] /\ on'[c] = on[c] /\ menus'[c] = menus[c] /\ done'[c] = done[c] /\ rest'[c] = rest[c]
  <2>1. c \in calm /\ op'[e] = "sync" /\ pc'[e] = "package"
    BY DEF Begun
  <2>2. c \in Call /\ Alone(c) /\ Clean(c) /\ c # e
    BY <1>0, <2>1 DEF Calm, Alone, TypeOK
  <2> QED BY <2>1, <2>2 DEF Begun
<1>2. \A d \in Call : \A r : Between(d, r) => Between(d, r)'
  BY <1>0 DEF Begun, Between
<1>3. \A d \in Call \ {e} : pc'[d] = pc[d] /\ menus'[d] = menus[d] /\ op'[d] = op[d] /\ Running(d)' = Running(d)
  BY DEF Begun, Running
<1>4. \A c \in calm' : Alone(c)' /\ Clean(c)'
  BY <1>0, <1>1, <1>3 DEF Alone, Clean
<1>5. ASSUME NEW c \in calm', NEW r \in done[c] PROVE Settled(c, r)'
  <2>1. Settled(c, r) /\ menus'[c] = menus[c]
    BY <1>1 DEF SyncsAgree, Settled
  <2> QED BY <1>0, <1>2, <2>1 DEF Settled
<1>6. ASSUME NEW c \in calm', pc[c] = "synced", NEW r \in rest[c] PROVE bound'[r] \subseteq menus'[c]
  BY <1>0, <1>1, <1>6 DEF SyncsAgree
<1>7. SyncsAgree'
  <2>1. \A c \in calm' : \A r \in done'[c] : Settled(c, r)'
    BY <1>1, <1>5
  <2>2. \A c \in calm' : pc'[c] = "synced" => \A r \in rest'[c] : bound'[r] \subseteq menus'[c]
    BY <1>1, <1>6
  <2> QED BY <2>1, <2>2 DEF SyncsAgree, Settled
<1> QED BY <1>4, <1>7 DEF Calm

LEMMA FailCalm ==
  ASSUME Structure, Calm, SyncsAgree, NEW e \in Call, Fail(e) PROVE (Calm /\ SyncsAgree)'
<1>0. /\ TypeOK /\ UNCHANGED <<bound, op, on>> /\ calm' = calm \ {e}
      /\ why' = [r \in Role |-> IF Between(e, r) /\ bound[r] = {} THEN "gave up" ELSE why[r]]
      /\ pc' = [pc EXCEPT ![e] = "over"]
      /\ \A d \in Call \ {e} : menus'[d] = menus[d] /\ done'[d] = done[d] /\ rest'[d] = rest[d]
  BY DEF Fail, Goto, Structure, TypeOK
<1>1. ASSUME NEW c \in calm'
      PROVE  c \in calm /\ c \in Call /\ c # e /\ Alone(c) /\ Clean(c) /\ pc'[c] = pc[c]
  BY <1>0 DEF Calm, TypeOK
<1>2. \A d \in Call : Running(d)' => Running(d) /\ d # e /\ pc'[d] = pc[d]
  BY <1>0 DEF Running, Over, TypeOK
<1>3. ASSUME NEW c \in calm' PROVE Alone(c)' /\ Clean(c)'
  <2>0. menus'[c] = menus[c] /\ pc'[c] = pc[c] /\ Alone(c)
    BY <1>0, <1>1
  <2>1. Alone(c)'
    <3>1. op'[c] = "sync" /\ pc'[c] \in {"roles", "drop", "rebind", "synced"}
      BY <1>0, <2>0 DEF Alone
    <3>2. ASSUME NEW d \in Call \ {c}, Running(d)'
          PROVE  op'[d] = "sync" /\ (pc'[d] = "package" \/ menus'[d] = menus'[c])
      <4>1. Running(d) /\ d # e /\ pc'[d] = pc[d] /\ menus'[d] = menus[d]
        BY <1>0, <1>2, <3>2
      <4> QED BY <1>0, <2>0, <4>1 DEF Alone
    <3> QED BY <3>1, <3>2 DEF Alone
  <2>2. bound[on[c]] \in {{}, menus[c]} \/ pc[c] # "rebind"
    BY <1>1 DEF Clean
  <2>3. bound'[on'[c]] = bound[on[c]] /\ menus'[c] = menus[c]
    BY <1>0, <1>1
  <2> QED BY <1>1, <2>1, <2>2, <2>3 DEF Clean
<1>4. ASSUME NEW c \in calm', NEW r \in done'[c] PROVE Settled(c, r)'
  <2>1. Settled(c, r) /\ r \in Role /\ menus'[c] = menus[c]
    BY <1>0, <1>1 DEF SyncsAgree, Settled, TypeOK
  <2>2. \A d \in Call \ {e} : Between(d, r) => Between(d, r)'
    BY <1>0 DEF Between, TypeOK
  <2>3. Between(e, r) /\ bound[r] = {} => why'[r] = "gave up"
    BY <1>0, <2>1
  <2>4. why[r] = "gave up" => why'[r] = "gave up"
    BY <1>0, <2>1
  <2> QED BY <1>0, <2>1, <2>2, <2>3, <2>4 DEF Settled
<1>5. ASSUME NEW c \in calm', pc'[c] = "synced", NEW r \in rest'[c] PROVE bound'[r] \subseteq menus'[c]
  <2>1. pc[c] = "synced" /\ r \in rest[c] /\ menus'[c] = menus[c] /\ c \in calm
    BY <1>0, <1>1, <1>5
  <2>2. bound[r] \subseteq menus[c]
    BY <2>1 DEF SyncsAgree
  <2> QED BY <1>0, <2>1, <2>2
<1>6. SyncsAgree'
  BY <1>4, <1>5 DEF SyncsAgree, Settled
<1> QED BY <1>3, <1>6 DEF Calm

LEMMA EditCalm ==
  ASSUME Structure, Calm, SyncsAgree, Edit, edits' = edits + 1 PROVE (Calm /\ SyncsAgree)'
<1>0. TypeOK /\ UNCHANGED <<op, pc, on, menus, done, rest>>
  BY EditTyped DEF Structure
<1>1. \A d \in Call, r \in Role : Between(d, r)' = Between(d, r) /\ Running(d)' = Running(d)
  BY <1>0 DEF Between, Running
<1>2. CASE UNCHANGED <<bound, why, calm>>
  BY <1>0, <1>2, QuietCalm
<1>3. ASSUME NEW ms \in SUBSET Menu, DeleteMenus(ms) PROVE (Calm /\ SyncsAgree)'
  <2>1. /\ \A r \in Role : /\ bound'[r] = bound[r] \ ms
                           /\ bound[r] = {} => why'[r] = why[r]
        /\ calm' = {c \in calm : menus[c] \cap ms = {}}
    BY <1>3 DEF DeleteMenus
  <2>2. ASSUME NEW c \in calm'
        PROVE  /\ c \in calm /\ c \in Call /\ Alone(c) /\ Clean(c) /\ menus[c] \ ms = menus[c]
               /\ on[c] \in Role /\ done[c] \subseteq Role /\ rest[c] \subseteq Role
    BY <1>0, <2>1 DEF Calm, TypeOK
  <2>3. ASSUME NEW c \in calm' PROVE Alone(c)' /\ Clean(c)'
    <3>1. Alone(c)'
      BY <1>0, <2>2 DEF Alone, Running
    <3>2. bound[on[c]] \in {{}, menus[c]} \/ pc[c] # "rebind"
      BY <2>2 DEF Clean
    <3>3. bound'[on[c]] \in {{}, menus[c]} \/ pc[c] # "rebind"
      BY <2>1, <2>2, <3>2
    <3> QED BY <1>0, <3>1, <3>3 DEF Clean
  <2>4. ASSUME NEW c \in calm', NEW r \in done[c] PROVE Settled(c, r)'
    <3>1. Settled(c, r) /\ r \in Role
      BY <2>2 DEF SyncsAgree, Settled
    <3> QED BY <1>0, <1>1, <2>1, <2>2, <3>1 DEF Settled
  <2>5. ASSUME NEW c \in calm', pc[c] = "synced", NEW r \in rest[c] PROVE bound'[r] \subseteq menus[c]
    BY <2>1, <2>2, <2>5 DEF SyncsAgree
  <2> QED BY <1>0, <2>3, <2>4, <2>5 DEF Calm, SyncsAgree, Settled
<1> QED BY <1>2, <1>3 DEF Edit, EditPackage, DeleteTenant, EditTenant, DeleteUser, TakeRole, GiveRole

-----------------------------------------------------------------------------
(* All together.                                                           *)

LEMMA NextIInv == IInv /\ [Next]_vars => IInv'
<1> SUFFICES ASSUME IInv, [Next]_vars PROVE IInv'
  OBVIOUS
<1>0. Structure /\ Placed /\ Equipped /\ Calm /\ SyncsAgree /\ TypeOK /\ Shape
  BY DEF IInv, Structure
<1>1. CASE Request /\ UNCHANGED edits
  <2>1. PICK c \in Call : Begun(c) /\ TypeOK'
    BY <1>0, <1>1, RequestBegun
  <2> QED BY <1>0, <2>1, BegunStructure, BegunPlaced, BegunEquipped, BegunCalm DEF IInv
<1>2. ASSUME NEW c \in Call, Step(c), UNCHANGED edits PROVE IInv'
  <2>1. Structure'
    BY <1>0, <1>2, StepTyped, StepShape, StepCounted DEF Structure
  <2> QED BY <1>0, <1>2, <2>1, StepPlaced, StepEquipped, StepCalm DEF IInv
<1>3. ASSUME NEW c \in Call, Fail(c), UNCHANGED edits PROVE IInv'
  BY <1>0, <1>3, FailStructure, FailPlaced, FailEquipped, FailCalm DEF IInv
<1>4. CASE Edit /\ edits' = edits + 1
  BY <1>0, <1>4, EditStructure, EditPlaced, EditEquipped, EditCalm DEF IInv
<1>5. CASE UNCHANGED vars
  <2>1. Structure' /\ Placed'
    BY <1>0, <1>5 DEF vars, Structure, TypeOK, Shape, ShapeOf, Counted, Placed, Distinct, Rooted
  <2>2. Equipped'
    BY <1>0, <1>5 DEF vars, Equipped, Manned, Kept, Armed, Between
  <2>3. Calm' /\ SyncsAgree'
    BY <1>0, <1>5, QuietCalm DEF vars
  <2> QED BY <2>1, <2>2, <2>3 DEF IInv
<1> QED BY <1>1, <1>2, <1>3, <1>4, <1>5 DEF Next

LEMMA SpecIInv == Spec => []IInv
  BY InitIInv, NextIInv, PTL DEF Spec

(* The rows of tenants, roles, menus and accounts, and what the requests   *)
(* carry, stay of their types.                                             *)
THEOREM ProvisioningTypeOK == Spec => []TypeOK
<1>1. IInv => TypeOK
  BY DEF IInv, Structure
<1> QED BY <1>1, SpecIInv, PTL

(* For any number of requests that add tenants, add, change and remove     *)
(* roles and synchronise menus, wherever they stop, and any deletions of   *)
(* menus, accounts and tenants in between: an administrator's account that *)
(* has its role finds the role's row, but for roles that a removal found   *)
(* no account to have, and at least one menu, but for those, for one that  *)
(* a synchronisation is rebinding or gave up on, for one whose menus it    *)
(* cleared, and for one whose last menus were deleted.                     *)
THEOREM ProvisioningAdministratorEquipped == Spec => []AdministratorEquipped
<1>1. ASSUME IInv, NEW r \in held \ free
      PROVE  /\ owner[r] # None
             /\ bound[r] = {} => why[r] \in Causes \ {"nothing"} \/ \E c \in Call : Between(c, r)
  <2>1. r \in Role /\ Kept(r) /\ Armed(r) /\ why[r] \in Causes
    BY <1>1 DEF IInv, Structure, TypeOK, Equipped, Manned
  <2> QED BY <1>1, <2>1 DEF Kept, Armed
<1>2. IInv => AdministratorEquipped
  BY <1>1 DEF AdministratorEquipped, Causes
<1> QED BY <1>2, SpecIInv, PTL

(* A tenant reported as added has its row, its role and its account, and   *)
(* the account has the role, until somebody changes or deletes one of them. *)
THEOREM ProvisioningAddedIsWhole == Spec => []AddedIsWhole
<1>1. ASSUME IInv, NEW c \in Call \ undone, pc[c] = "added"
      PROVE  at[c] \in tenant /\ owner[on[c]] = at[c] /\ user[on[c]] = name[c] /\ on[c] \in held
  <2>1. op[c] = "tenant"
    BY <1>1 DEF IInv, Structure, TypeOK, Shape, ShapeOf
  <2> QED BY <1>1, <2>1 DEF IInv, Placed, Rooted, Late
<1>2. IInv => AddedIsWhole
  BY <1>1 DEF AddedIsWhole
<1> QED BY <1>2, SpecIInv, PTL

(* Synchronisations with the same package, however many run together,      *)
(* leave the roles of their tenants with the menus of the package.         *)
THEOREM ProvisioningSyncsAgree == Spec => []SyncsAgree
<1>1. IInv => SyncsAgree
  BY DEF IInv
<1> QED BY <1>1, SpecIInv, PTL
=============================================================================
