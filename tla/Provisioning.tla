------------------------------ MODULE Provisioning ------------------------------
(***************************************************************************)
(* Tenants, their administrators and the menus of their roles.  Adding a   *)
(* tenant, adding, changing or removing a role, and giving a tenant the    *)
(* menus of the package are sequences of statements, each committed on its *)
(* own, with no transaction around them: other requests run in between,    *)
(* and a failure or a crash leaves what was done.  The replacement of the  *)
(* menus of a role (AddSysRoleMenus) is a transaction, but decides whether *)
(* there is anything to delete from a count read without a lock; deleting  *)
(* menus, deleting accounts and giving accounts roles are transactions or  *)
(* single statements, one step each.                                       *)
(*                                                                         *)
(* Which rows of roles and users a statement sees depends on the tenant    *)
(* plugin: enabled, it adds the caller's own tenant to every condition.    *)
(* etc/dev has it disabled, the Helm chart enabled.                        *)
(***************************************************************************)
EXTENDS Integers, FiniteSets

CONSTANTS
    Call,       \* requests, which may all run together
    Tenant,     \* tenant numbers, the platform's 000000 among them
    Role,       \* role ids; an administrator's account goes by its role
    Seed,       \* the administrator's role of a tenant that may be there at the start
    Menu,       \* menus
    Lists,      \* the sets of menus that packages and forms hold
    Blank,      \* the menu id "" that splitting an empty list yields
    Name,       \* user names
    None,       \* no tenant, no name
    MaxEdits    \* bound: operations of one statement in a behaviour

Key == {"admin", "clerk"}    \* the administrator's role_key, and any other

ASSUME ProvisioningTyped ==
    /\ Seed \in Role
    /\ None \notin Tenant \cup Name
    /\ Blank \notin Menu /\ Lists \subseteq SUBSET Menu
    /\ MaxEdits \in Nat

VARIABLES
    enabled,    \* whether the tenant plugin is enabled
    tenant,     \* the numbers that rows of sys_tenant have
    package,    \* menu_ids of the package
    owner,      \* Role -> the tenant of its row in sys_role
    key,        \* Role -> the role_key of that row
    bound,      \* Role -> its rows in sys_role_menu
    user,       \* Role -> the name of the account made with it
    held,       \* roles whose account has them in sys_user_role
    op,         \* Call -> what it does
    pc,         \* Call -> its next statement, or how it ended
    home,       \* Call -> the tenant its caller works in
    at,         \* Call -> the tenant it is about, or that a role's form sends
    form,       \* Call -> the role_key that a role's form sends
    name,       \* Call -> the user name of a new tenant's administrator
    on,         \* Call -> the role it writes
    menus,      \* Call -> the menus it was given or read in the package
    had,        \* Call -> whether it counted menus of the role
    todo,       \* Call -> administrators' roles a synchronisation has yet to bind anew
    done,       \* Call -> and those it has bound
    rest,       \* Call -> the other roles it found; the roles a removal is given
    edits,      \* how many operations of one statement there were
    calm,       \* history: synchronisations that ran beside none with other menus
    free,       \* history: roles that a removal found no account to have
    undone,     \* history: requests of whose rows another one changed or deleted some
    why         \* history: Role -> what took the last of its menus

tables  == <<enabled, tenant, package, owner, key, bound, user, held>>
inputs  == <<op, home, at, form, name>>
locals  == <<on, menus, had, todo, done, rest>>
history == <<calm, free, undone, why>>
vars    == <<tables, inputs, pc, locals, history, edits>>

Bindable == Menu \cup {Blank}

\* strings.Split of the stored list, which is never empty.
Split(list) == IF list = {} THEN {Blank} ELSE list

\* The rows of tenant t are among those that a statement of call c sees.
Visible(c, t) == ~enabled \/ home[c] = t

\* SelectByRoleKeyExit; a role that is being changed is left out.
KeyTaken(c, k, mine) ==
    \E r \in Role \ mine : owner[r] # None /\ key[r] = k /\ Visible(c, owner[r])

\* SelectByUserNameExit; an account it does not see is as one whose query failed.
NameTaken(n) == \E r \in Role : user[r] = n

Over == {"idle", "added", "synced", "over"}
Steps == {"tenant", "package", "key", "role", "update", "count", "bind", "dept", "name",
          "user", "grant", "roles", "drop", "rebind", "accounts", "rows", "holders", "links"}
Running(c) == pc[c] \notin Over

\* A synchronisation has deleted the menus of role r and not yet inserted them.
Between(c, r) == pc[c] = "rebind" /\ on[c] = r

\* What may have taken the last menu of a role: a synchronisation that gave up,
\* one that cleared what the package does not have, or the deletion of menus.
Causes == {"nothing", "gave up", "cleared", "menus deleted"}

Init ==
    /\ enabled \in BOOLEAN
    /\ package \in Lists
    /\ \E t \in Tenant, n \in Name, m \in Lists \ {{}}, k \in Key, there \in BOOLEAN :
          /\ tenant = IF there THEN {t} ELSE {}
          /\ owner = [r \in Role |-> IF there /\ r = Seed THEN t ELSE None]
          /\ key = [r \in Role |-> IF there /\ r = Seed THEN k ELSE "admin"]
          /\ bound = [r \in Role |-> IF there /\ r = Seed THEN m ELSE {}]
          /\ user = [r \in Role |-> IF there /\ r = Seed THEN n ELSE None]
          /\ held = IF there THEN {Seed} ELSE {}
          /\ home = [c \in Call |-> t]
          /\ at = [c \in Call |-> t]
          /\ name = [c \in Call |-> n]
    /\ op = [c \in Call |-> "sync"]
    /\ pc = [c \in Call |-> "idle"]
    /\ form = [c \in Call |-> "admin"]
    /\ on = [c \in Call |-> Seed]
    /\ menus = [c \in Call |-> {}]
    /\ had = [c \in Call |-> FALSE]
    /\ todo = [c \in Call |-> {}]
    /\ done = [c \in Call |-> {}]
    /\ rest = [c \in Call |-> {}]
    /\ calm = {} /\ free = {} /\ undone = {}
    /\ why = [r \in Role |-> "nothing"]
    /\ edits = 0

----------------------------------------------------------------------------
(* How a call begins, moves on and ends.                                   *)

Goto(c, label) == pc' = [pc EXCEPT ![c] = label]
OnlyMove(c, label) == Goto(c, label) /\ UNCHANGED <<tables, inputs, locals, history>>

\* A statement that only writes tables.
Locally == UNCHANGED <<inputs, locals, history>>

\* A request arrives.  One that is not a synchronisation ends the calm of those.
Begin(c, o, label, t, r, k, n, ms, rs) ==
    /\ pc[c] = "idle"
    /\ Goto(c, label)
    /\ op' = [op EXCEPT ![c] = o]
    /\ \E h \in IF enabled THEN Tenant ELSE {home[c]} : home' = [home EXCEPT ![c] = h]
    /\ at' = [at EXCEPT ![c] = t]
    /\ form' = [form EXCEPT ![c] = k]
    /\ name' = [name EXCEPT ![c] = n]
    /\ on' = [on EXCEPT ![c] = r]
    /\ menus' = [menus EXCEPT ![c] = ms]
    /\ rest' = [rest EXCEPT ![c] = rs]
    /\ calm' = IF o = "sync" THEN calm ELSE {}
    /\ UNCHANGED <<tables, had, todo, done, free, undone, why>>

\* A statement fails, or the process stops: what was done before stays.
Fail(c) ==
    /\ Running(c)
    /\ Goto(c, "over")
    /\ why' = [r \in Role |-> IF Between(c, r) /\ bound[r] = {} THEN "gave up" ELSE why[r]]
    /\ calm' = calm \ {c}
    /\ menus' = [menus EXCEPT ![c] = {}]
    /\ had' = [had EXCEPT ![c] = FALSE]
    /\ todo' = [todo EXCEPT ![c] = {}]
    /\ done' = [done EXCEPT ![c] = {}]
    /\ rest' = [rest EXCEPT ![c] = {}]
    /\ UNCHANGED <<tables, inputs, on, free, undone>>

----------------------------------------------------------------------------
(* The requests.                                                           *)

\* A number no tenant has, and an id that was not drawn before and that nothing
\* refers to.
Fresh(t, r) ==
    /\ t \notin tenant /\ owner[r] = None /\ user[r] = None /\ bound[r] = {} /\ r \notin held
    /\ \A c \in Call :
          /\ op[c] = "tenant" => on[c] # r
          /\ Running(c) => at[c] # t /\ on[c] # r /\ r \notin rest[c]

AddTenant(c, t, r, n) ==
    /\ Fresh(t, r)
    /\ Begin(c, "tenant", "tenant", t, r, "admin", n, {}, {})

AddRole(c, t, r, k, ms) ==
    /\ t \in tenant /\ owner[r] = None
    /\ \A d \in Call : Running(d) => on[d] # r
    /\ Begin(c, "role", "key", t, r, k, name[c], ms, {})

\* A form for a role that is there; it may send no tenant and no menus.
ChangeRole(c, r, t, k, ms) ==
    /\ owner[r] # None
    /\ Begin(c, "change", "key", t, r, k, name[c], ms, {})

RemoveRoles(c, rs) ==
    /\ rs # {}
    /\ Begin(c, "remove", "accounts", at[c], on[c], form[c], name[c], {}, rs)

SyncTenantPackage(c, t) ==
    /\ t \in tenant
    /\ Begin(c, "sync", "package", t, on[c], form[c], name[c], {}, {})

----------------------------------------------------------------------------
(* Operations that are one statement, or one transaction without a step to *)
(* tell apart.                                                             *)

\* A form without menus writes none; an edit that changes nothing is no step.
EditPackage(ms) ==
    /\ ms \notin {{}, package} /\ package' = ms
    /\ UNCHANGED <<enabled, tenant, owner, key, bound, user, held>>
    /\ UNCHANGED <<inputs, pc, locals, history>>

\* Delete and DeleteBatch: the menus and their rows of sys_role_menu.
DeleteMenus(ms) ==
    /\ \E r \in Role : bound[r] \cap ms # {}
    /\ bound' = [r \in Role |-> bound[r] \ ms]
    /\ why' = [r \in Role |-> IF bound[r] # {} /\ bound[r] \subseteq ms
                              THEN "menus deleted" ELSE why[r]]
    /\ calm' = {c \in calm : menus[c] \cap ms = {}}
    /\ UNCHANGED <<enabled, tenant, package, owner, key, user, held>>
    /\ UNCHANGED <<inputs, pc, locals, free, undone>>

\* The requests that write role r.
WritersOf(rs) == {c \in Call : on[c] \in rs}

DeleteTenant(t) ==
    /\ t \in tenant
    /\ tenant' = tenant \ {t}
    /\ undone' = undone \cup {c \in Call : at[c] = t}
    /\ UNCHANGED <<enabled, package, owner, key, bound, user, held>>
    /\ UNCHANGED <<inputs, pc, locals, calm, free, why>>

\* The form of a tenant may send another number, one that a tenant has included.
EditTenant(t, n) ==
    /\ t \in tenant /\ n # t
    /\ tenant' = (tenant \ {t}) \cup {n}
    /\ undone' = undone \cup {c \in Call : at[c] = t}
    /\ UNCHANGED <<enabled, package, owner, key, bound, user, held>>
    /\ UNCHANGED <<inputs, pc, locals, calm, free, why>>

\* SysUserDal.DeleteBatch deletes the account and the roles it has.
DeleteUser(r) ==
    /\ user[r] # None
    /\ user' = [user EXCEPT ![r] = None]
    /\ held' = held \ {r}
    /\ undone' = undone \cup WritersOf({r})
    /\ UNCHANGED <<enabled, tenant, package, owner, key, bound>>
    /\ UNCHANGED <<inputs, pc, locals, calm, free, why>>

\* Cancel and CancelAll, or another choice of roles or of accounts.
TakeRole(r) ==
    /\ r \in held
    /\ held' = held \ {r}
    /\ undone' = undone \cup WritersOf({r})
    /\ UNCHANGED <<enabled, tenant, package, owner, key, bound, user>>
    /\ UNCHANGED <<inputs, pc, locals, calm, free, why>>

\* SelectAll, or AddSysUserRoles for a changed account; whether the role is
\* there is not looked at.
GiveRole(r) ==
    /\ user[r] # None /\ r \notin held
    /\ held' = held \cup {r}
    /\ UNCHANGED <<enabled, tenant, package, owner, key, bound, user>>
    /\ UNCHANGED <<inputs, pc, locals, history>>

----------------------------------------------------------------------------
(* The statements that adding a tenant, adding a role and changing one     *)
(* share.                                                                  *)

\* The key is looked for; an error of the query counts as "not taken".
CheckKey(c) ==
    /\ pc[c] = "key"
    /\ \/ /\ KeyTaken(c, form[c], IF op[c] = "change" THEN {on[c]} ELSE {})
          /\ OnlyMove(c, "over")
       \/ OnlyMove(c, IF op[c] = "change" THEN "update" ELSE "role")

\* A row with this id is an error, which Fail has.
InsertRole(c) ==
    /\ pc[c] = "role" /\ owner[on[c]] = None
    /\ owner' = [owner EXCEPT ![on[c]] = at[c]]
    /\ key' = [key EXCEPT ![on[c]] = form[c]]
    /\ Goto(c, IF menus[c] = {} THEN "over" ELSE "count")
    /\ UNCHANGED <<enabled, tenant, package, bound, user, held>> /\ Locally

\* The form's key and tenant are written; a row that is gone, or that the
\* statement does not see, is no error.
UpdateRole(c) ==
    /\ pc[c] = "update"
    /\ LET r == on[c]
           seen == owner[r] # None /\ Visible(c, owner[r])
       IN  /\ key' = [key EXCEPT ![r] = IF seen THEN form[c] ELSE @]
           /\ owner' = [owner EXCEPT ![r] = IF seen /\ at[c] # None THEN at[c] ELSE @]
           /\ undone' = undone \cup (WritersOf({r}) \ {c})
    /\ Goto(c, IF menus[c] = {} THEN "over" ELSE "count")
    /\ UNCHANGED <<enabled, tenant, package, bound, user, held>>
    /\ UNCHANGED <<inputs, locals, calm, free, why>>

\* AddSysRoleMenus counts the rows first; an error of the query counts as none.
CountMenus(c) ==
    /\ pc[c] = "count"
    /\ \E found \in {FALSE, bound[on[c]] # {}} : had' = [had EXCEPT ![c] = found]
    /\ Goto(c, "bind")
    /\ UNCHANGED <<tables, inputs, on, menus, todo, done, rest, history>>

\* Rows that are already there make an INSERT fail as a whole.
Insert(c, r, left) ==
    /\ menus[c] \cap left = {}
    /\ bound' = [bound EXCEPT ![r] = left \cup menus[c]]
    /\ why' = [why EXCEPT ![r] = "nothing"]
    /\ UNCHANGED <<enabled, tenant, package, owner, key, user, held>>

\* Mutant: the error of binding is overwritten, as that of the department is.
BindMenusOrNot(c) ==
    /\ pc[c] = "bind"
    /\ \/ Insert(c, on[c], IF had[c] THEN {} ELSE bound[on[c]])
       \/ UNCHANGED <<tables, why>>
    /\ had' = [had EXCEPT ![c] = FALSE]
    /\ Goto(c, IF op[c] = "tenant" THEN "dept" ELSE "over")
    /\ UNCHANGED <<inputs, on, menus, todo, done, rest, calm, free, undone>>

\* ... and deletes what it counted and inserts the new ones in its transaction.
BindMenus(c) ==
    /\ pc[c] = "bind"
    /\ Insert(c, on[c], IF had[c] THEN {} ELSE bound[on[c]])
    /\ had' = [had EXCEPT ![c] = FALSE]
    /\ Goto(c, IF op[c] = "tenant" THEN "dept" ELSE "over")
    /\ UNCHANGED <<inputs, on, menus, todo, done, rest, calm, free, undone>>

----------------------------------------------------------------------------
(* Adding a tenant: its row, its role and menus as above, its department,  *)
(* the account of its administrator and the role of the account.           *)

InsertTenant(c) ==
    /\ pc[c] = "tenant"
    /\ tenant' = tenant \cup {at[c]}
    /\ Goto(c, "package")
    /\ UNCHANGED <<enabled, package, owner, key, bound, user, held>> /\ Locally

\* The error of the department is overwritten: the account is made all the same.
AddDept(c) ==
    /\ pc[c] = "dept"
    /\ OnlyMove(c, "name")

CheckName(c) ==
    /\ pc[c] = "name"
    /\ \/ NameTaken(name[c]) /\ OnlyMove(c, "over")
       \/ OnlyMove(c, "user")

\* Mutant: the error of inserting the account is overwritten.
InsertUserOrNot(c) ==
    /\ pc[c] = "user"
    /\ user' \in {user, [user EXCEPT ![on[c]] = name[c]]}
    /\ Goto(c, "grant")
    /\ UNCHANGED <<enabled, tenant, package, owner, key, bound, held>> /\ Locally

InsertUser(c) ==
    /\ pc[c] = "user"
    /\ user' = [user EXCEPT ![on[c]] = name[c]]
    /\ Goto(c, "grant")
    /\ UNCHANGED <<enabled, tenant, package, owner, key, bound, held>> /\ Locally

\* AddSysUserRoles: the role takes the place of those the account has.
GrantRole(c) ==
    /\ pc[c] = "grant"
    /\ held' = held \cup {on[c]}
    /\ Goto(c, "added")
    /\ UNCHANGED <<enabled, tenant, package, owner, key, bound, user>> /\ Locally

----------------------------------------------------------------------------
(* Giving a tenant the menus of the package.                               *)

\* Call d is writing roles, or menus other than ms.
Differs(d, ms) == Running(d) /\ (op[d] = "sync" => pc[d] # "package" /\ menus[d] # ms)

\* Adding a tenant and a synchronisation both read the package.
ReadPackage(c) ==
    /\ pc[c] = "package"
    /\ menus' = [menus EXCEPT ![c] = Split(package)]
    /\ Goto(c, IF op[c] = "sync" THEN "roles" ELSE "key")
    /\ calm' = IF op[c] = "sync"
               THEN {d \in calm : menus[d] = Split(package)} \cup
                    {d \in {c} : \A e \in Call \ {c} : ~Differs(e, Split(package))}
               ELSE calm
    /\ UNCHANGED <<tables, inputs, on, had, todo, done, rest, free, undone, why>>

\* Mutant: the roles' tenant_id is collected, not their id.
ReadRolesTenants(c) ==
    /\ pc[c] = "roles"
    /\ LET found == {r \in Role : owner[r] = at[c] /\ Visible(c, at[c])}
       IN  /\ todo' = [todo EXCEPT ![c] = {owner[r] : r \in {x \in found : key[x] = "admin"}}]
           /\ rest' = [rest EXCEPT ![c] = {r \in found : key[r] # "admin"}]
    /\ Goto(c, "drop")
    /\ UNCHANGED <<tables, inputs, on, menus, had, done, history>>

ReadRoles(c) ==
    /\ pc[c] = "roles"
    /\ LET found == {r \in Role : owner[r] = at[c] /\ Visible(c, at[c])}
       IN  /\ todo' = [todo EXCEPT ![c] = {r \in found : key[r] = "admin"}]
           /\ rest' = [rest EXCEPT ![c] = {r \in found : key[r] # "admin"}]
    /\ Goto(c, "drop")
    /\ UNCHANGED <<tables, inputs, on, menus, had, done, history>>

\* Mutant: the old menus are not deleted.
DropMenusNot(c) ==
    /\ pc[c] = "drop"
    /\ \E r \in todo[c] : on' = [on EXCEPT ![c] = r]
    /\ Goto(c, "rebind")
    /\ UNCHANGED <<tables, inputs, menus, had, todo, done, rest, history>>

DropMenus(c) ==
    /\ pc[c] = "drop"
    /\ \E r \in todo[c] :
          /\ on' = [on EXCEPT ![c] = r]
          /\ bound' = [bound EXCEPT ![r] = {}]
    /\ Goto(c, "rebind")
    /\ UNCHANGED <<enabled, tenant, package, owner, key, user, held>>
    /\ UNCHANGED <<inputs, menus, had, todo, done, rest, history>>

RebindMenus(c) ==
    /\ pc[c] = "rebind"
    /\ Insert(c, on[c], bound[on[c]])
    /\ todo' = [todo EXCEPT ![c] = @ \ {on[c]}]
    /\ done' = [done EXCEPT ![c] = @ \cup {on[c]}]
    /\ Goto(c, "drop")
    /\ UNCHANGED <<inputs, on, menus, had, rest, calm, free, undone>>

\* The other roles lose what the package does not have.
TrimMenus(c) ==
    /\ pc[c] = "drop" /\ todo[c] = {}
    /\ bound' = [r \in Role |-> IF r \in rest[c] THEN bound[r] \cap menus[c] ELSE bound[r]]
    /\ why' = [r \in Role |-> IF bound[r] # {} /\ bound'[r] = {} THEN "cleared" ELSE why[r]]
    /\ Goto(c, "synced")
    /\ UNCHANGED <<enabled, tenant, package, owner, key, user, held>>
    /\ UNCHANGED <<inputs, locals, calm, free, undone>>

----------------------------------------------------------------------------
(* Removing roles.                                                         *)

\* Mutant: whether accounts have one of the roles is not looked at.
CountNoAccounts(c) ==
    /\ pc[c] = "accounts"
    /\ Goto(c, "rows") /\ free' = free \cup (rest[c] \ held)
    /\ UNCHANGED <<tables, inputs, locals, calm, undone, why>>

\* Accounts that are not modelled may have one, too.
CountAccounts(c) ==
    /\ pc[c] = "accounts"
    /\ \/ OnlyMove(c, "over")
       \/ /\ rest[c] \cap held = {}
          /\ Goto(c, "rows") /\ free' = free \cup rest[c]
          /\ UNCHANGED <<tables, inputs, locals, calm, undone, why>>

DeleteRows(c) ==
    /\ pc[c] = "rows"
    /\ owner' = [r \in Role |-> IF r \in rest[c] /\ owner[r] # None /\ Visible(c, owner[r])
                                THEN None ELSE owner[r]]
    /\ undone' = undone \cup WritersOf(rest[c])
    /\ Goto(c, "holders")
    /\ UNCHANGED <<enabled, tenant, package, key, bound, user, held>>
    /\ UNCHANGED <<inputs, locals, calm, free, why>>

DeleteHolders(c) ==
    /\ pc[c] = "holders"
    /\ held' = held \ rest[c]
    /\ undone' = undone \cup WritersOf(rest[c])
    /\ Goto(c, "links")
    /\ UNCHANGED <<enabled, tenant, package, owner, key, bound, user>>
    /\ UNCHANGED <<inputs, locals, calm, free, why>>

DeleteLinks(c) ==
    /\ pc[c] = "links"
    /\ bound' = [r \in Role |-> IF r \in rest[c] THEN {} ELSE bound[r]]
    /\ Goto(c, "over")
    /\ UNCHANGED <<enabled, tenant, package, owner, key, user, held>> /\ Locally

----------------------------------------------------------------------------

Step(c) ==
    \/ CheckKey(c) \/ InsertRole(c) \/ UpdateRole(c) \/ CountMenus(c) \/ BindMenus(c)
    \/ InsertTenant(c) \/ AddDept(c) \/ CheckName(c) \/ InsertUser(c) \/ GrantRole(c)
    \/ ReadPackage(c) \/ ReadRoles(c) \/ DropMenus(c) \/ RebindMenus(c) \/ TrimMenus(c)
    \/ CountAccounts(c) \/ DeleteRows(c) \/ DeleteHolders(c) \/ DeleteLinks(c)

Request ==
    \/ \E c \in Call, t \in Tenant, r \in Role, n \in Name : AddTenant(c, t, r, n)
    \/ \E c \in Call, t \in Tenant, r \in Role, k \in Key, ms \in Lists : AddRole(c, t, r, k, ms)
    \/ \E c \in Call, r \in Role, t \in Tenant \cup {None}, k \in Key, ms \in Lists :
          ChangeRole(c, r, t, k, ms)
    \/ \E c \in Call, rs \in SUBSET Role : RemoveRoles(c, rs)
    \/ \E c \in Call, t \in Tenant : SyncTenantPackage(c, t)

Edit ==
    \/ \E ms \in Lists : EditPackage(ms)
    \/ \E ms \in SUBSET Menu : DeleteMenus(ms)
    \/ \E t \in Tenant : DeleteTenant(t) \/ \E n \in Tenant : EditTenant(t, n)
    \/ \E r \in Role : DeleteUser(r) \/ TakeRole(r) \/ GiveRole(r)

Next ==
    \/ (Request \/ \E c \in Call : Step(c) \/ Fail(c)) /\ UNCHANGED edits
    \/ Edit /\ edits < MaxEdits /\ edits' = edits + 1

Spec == Init /\ [][Next]_vars

----------------------------------------------------------------------------

TypeOK ==
    /\ enabled \in BOOLEAN
    /\ tenant \subseteq Tenant
    /\ package \in Lists
    /\ owner \in [Role -> Tenant \cup {None}]
    /\ key \in [Role -> Key]
    /\ bound \in [Role -> SUBSET Bindable]
    /\ user \in [Role -> Name \cup {None}]
    /\ held \subseteq Role
    /\ op \in [Call -> {"tenant", "role", "change", "remove", "sync"}]
    /\ pc \in [Call -> Over \cup Steps]
    /\ home \in [Call -> Tenant] /\ at \in [Call -> Tenant \cup {None}]
    /\ form \in [Call -> Key] /\ name \in [Call -> Name]
    /\ on \in [Call -> Role]
    /\ menus \in [Call -> SUBSET Bindable]
    /\ had \in [Call -> BOOLEAN]
    /\ todo \in [Call -> SUBSET Role] /\ done \in [Call -> SUBSET Role]
    /\ rest \in [Call -> SUBSET Role]
    /\ calm \subseteq Call /\ undone \subseteq Call
    /\ free \subseteq Role /\ edits \in Nat
    /\ why \in [Role -> Causes]

(* An administrator's account that has its role finds the role's row, and, *)
(* while the role's key is the administrator's, at least one menu: however *)
(* many requests add, change and synchronise the role together, and        *)
(* wherever they stop.  Only these take that away: a removal that found    *)
(* no account to have the role, though one has got it since; a             *)
(* synchronisation between its DELETE and its INSERT, or that gave up      *)
(* there; one that found the role with another key and cleared its menus;  *)
(* the deletion of its last menus.                                         *)
AdministratorEquipped ==
    \A r \in held \ free :
       /\ owner[r] # None
       /\ key[r] = "admin" /\ bound[r] = {} =>
             why[r] \in {"gave up", "cleared", "menus deleted"} \/ \E c \in Call : Between(c, r)

(* A tenant that was reported as added is whole but for its department, as *)
(* long as nobody changes or deletes what the request made: its row, its   *)
(* role, the account and the account's role are there.                     *)
AddedIsWhole ==
    \A c \in Call \ undone : pc[c] = "added" =>
       /\ at[c] \in tenant
       /\ owner[on[c]] = at[c]
       /\ user[on[c]] = name[c]
       /\ on[c] \in held

(* Synchronisations with the same package do not disturb one another: once *)
(* one that ran beside no others has bound an administrator's role, the    *)
(* role has exactly the menus of the package, unless another one is about  *)
(* to insert them again or gave up; and once it is done, the other roles   *)
(* it found have no menu beyond the package.                               *)
SyncsAgree ==
    \A c \in calm :
       /\ \A r \in done[c] :
             \/ bound[r] = menus[c]
             \/ bound[r] = {} /\ (why[r] = "gave up" \/ \E d \in Call : Between(d, r))
       /\ pc[c] = "synced" => \A r \in rest[c] : bound[r] \subseteq menus[c]

=============================================================================
