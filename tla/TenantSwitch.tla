----------------------------- MODULE TenantSwitch -----------------------------
(***************************************************************************)
(* The tenant a super administrator works in.  Redis holds one hash        *)
(* tenant:<userId> without expiry: ot, the tenant the user came from, and  *)
(* nt, the tenant chosen.  ExecHandle asks GetTenantId on every request;   *)
(* Dynamic, Clear and GetUserInfo change the hash.                         *)
(*                                                                         *)
(* Every Redis command is a step, since none of the operations is a        *)
(* transaction and the browser sends several requests at once.  A hash     *)
(* without fields does not exist.                                          *)
(***************************************************************************)
CONSTANTS
    Client,     \* requests of one user that may be in flight together
    Tenant,     \* tenants
    Own,        \* the tenant in the user's token
    None,       \* a field the hash does not have
    Faults      \* whether a command may fail or the server stop

Ops == {"page", "set", "clear", "info"}

ASSUME TenantsTyped ==
    /\ Own \in Tenant
    /\ None \notin Tenant
    /\ Faults \in BOOLEAN

VARIABLES
    ot,         \* field ot of the hash
    nt,         \* field nt of the hash
    req,        \* Client -> the request being served
    stranded    \* history: the last DEL left a request behind in a foreign tenant

vars == <<ot, nt, req, stranded>>

Pc == {"idle", "resolve", "handle", "setOld", "setNew", "clearDel", "infoRead", "infoWrite", "lookup"}

\* tenant is the tenant in the request's context, to the one it asks for.
Request == [pc : Pc, op : Ops, tenant : Tenant, to : Tenant]
Idle == [pc |-> "idle", op |-> "page", tenant |-> Own, to |-> Own]

Exists == ot # None \/ nt # None

At(c, pc, op) == req[c].pc = pc /\ req[c].op = op
Goto(c, pc)   == req' = [req EXCEPT ![c].pc = pc]
Finish(c)     == req' = [req EXCEPT ![c] = Idle]

-----------------------------------------------------------------------------
(* ExecHandle and GetTenantId *)

\* EXISTS: without a hash the tenant is the one in the token.
Arrive(c, op, t) ==
    /\ req[c].pc = "idle"
    /\ req' = [req EXCEPT ![c] =
                 [pc |-> IF Exists THEN "resolve" ELSE "handle", op |-> op, tenant |-> Own, to |-> t]]
    /\ UNCHANGED <<ot, nt, stranded>>

\* Mutant: the error of HGET is dropped.
ResolveAnyway(c) ==
    /\ req[c].pc = "resolve"
    /\ req' = [req EXCEPT ![c].pc = "handle", ![c].tenant = nt]
    /\ UNCHANGED <<ot, nt, stranded>>

\* HGET nt
Resolve(c) ==
    /\ req[c].pc = "resolve"
    /\ nt # None
    /\ req' = [req EXCEPT ![c].pc = "handle", ![c].tenant = nt]
    /\ UNCHANGED <<ot, nt, stranded>>

\* HGET of a missing field is an error and ExecHandle answers 401.
Refuse(c) ==
    /\ req[c].pc = "resolve"
    /\ nt = None
    /\ Finish(c)
    /\ UNCHANGED <<ot, nt, stranded>>

\* A request that has nothing to do with the hash.
Serve(c) ==
    /\ At(c, "handle", "page")
    /\ Finish(c)
    /\ UNCHANGED <<ot, nt, stranded>>

-----------------------------------------------------------------------------
(* SetTenantId *)

\* Mutant: ot is written whether or not the hash exists.
SetExistsNot(c) ==
    /\ At(c, "handle", "set")
    /\ Goto(c, "setOld")
    /\ UNCHANGED <<ot, nt, stranded>>

\* EXISTS
SetExists(c) ==
    /\ At(c, "handle", "set")
    /\ Goto(c, IF Exists THEN "setNew" ELSE "setOld")
    /\ UNCHANGED <<ot, nt, stranded>>

\* HSET ot
SetOld(c) ==
    /\ At(c, "setOld", "set")
    /\ ot' = req[c].tenant
    /\ Goto(c, "setNew")
    /\ UNCHANGED <<nt, stranded>>

\* HSET nt
SetNew(c) ==
    /\ At(c, "setNew", "set")
    /\ nt' = req[c].to
    /\ Finish(c)
    /\ UNCHANGED <<ot, stranded>>

-----------------------------------------------------------------------------
(* Clear *)

\* EXISTS
ClearExists(c) ==
    /\ At(c, "handle", "clear")
    /\ IF Exists THEN Goto(c, "clearDel") ELSE Finish(c)
    /\ UNCHANGED <<ot, nt, stranded>>

\* A switch or a load that works in a tenant other than the user's own and has
\* yet to look for the hash, or to use the tenant where it found none.
Stranded(r) ==
    /\ r.tenant # Own
    /\ \/ r.pc = "handle" /\ r.op \in {"set", "info"}
       \/ r.pc \in {"setOld", "infoWrite", "lookup"}

\* DEL
ClearDel(c) ==
    /\ At(c, "clearDel", "clear")
    /\ ot' = None /\ nt' = None
    /\ stranded' = \E d \in Client \ {c} : Stranded(req[d])
    /\ Finish(c)

-----------------------------------------------------------------------------
(* GetUserInfo: the user returns to the tenant ot and is looked up there *)

\* EXISTS
InfoExists(c) ==
    /\ At(c, "handle", "info")
    /\ Goto(c, IF Exists THEN "infoRead" ELSE "lookup")
    /\ UNCHANGED <<ot, nt, stranded>>

\* Mutant: the context of the request still names the tenant.
InfoReadNot(c) ==
    /\ At(c, "infoRead", "info")
    /\ Goto(c, "infoWrite")
    /\ UNCHANGED <<ot, nt, stranded>>

\* HGET ot
InfoRead(c) ==
    /\ At(c, "infoRead", "info")
    /\ IF ot = None THEN Finish(c)
       ELSE req' = [req EXCEPT ![c].pc = "infoWrite", ![c].tenant = ot]
    /\ UNCHANGED <<ot, nt, stranded>>

\* HSET nt
InfoWrite(c) ==
    /\ At(c, "infoWrite", "info")
    /\ nt' = req[c].tenant
    /\ Goto(c, "lookup")
    /\ UNCHANGED <<ot, stranded>>

\* SELECT ... WHERE user_id = ? AND tenant_id = ?
Lookup(c) ==
    /\ At(c, "lookup", "info")
    /\ Finish(c)
    /\ UNCHANGED <<ot, nt, stranded>>

-----------------------------------------------------------------------------
\* A failing command ends the handler; so does a server that stops.
Fail(c) ==
    /\ Faults
    /\ req[c].pc # "idle"
    /\ Finish(c)
    /\ UNCHANGED <<ot, nt, stranded>>

Init ==
    /\ ot = None /\ nt = None
    /\ req = [c \in Client |-> Idle]
    /\ stranded = FALSE

Next == \E c \in Client :
    \/ \E op \in Ops, t \in Tenant : Arrive(c, op, t)
    \/ Resolve(c) \/ Refuse(c) \/ Serve(c)
    \/ SetExists(c) \/ SetOld(c) \/ SetNew(c)
    \/ ClearExists(c) \/ ClearDel(c)
    \/ InfoExists(c) \/ InfoRead(c) \/ InfoWrite(c) \/ Lookup(c)
    \/ Fail(c)

Spec == Init /\ [][Next]_vars

-----------------------------------------------------------------------------
(* Properties *)

\* Every variable keeps its type.
TypeOK ==
    /\ ot \in Tenant \cup {None}
    /\ nt \in Tenant \cup {None}
    /\ req \in [Client -> Request]
    /\ stranded \in BOOLEAN

\* ot never names a tenant the user merely switched to, however many switches,
\* loads and Clears overlap and wherever they fail, with one exception: the
\* last Clear deleted the hash under a switch or a load that had taken the
\* tenant from it and not looked for it yet.  The next Clear that does not
\* overlap such a request puts this right.
OriginalKept == ~stranded => ot \in {None, Own}

\* GetUserInfo looks the user up in the tenant the user belongs to, but for the
\* same exception; in any other it answers that the user does not exist.
UserInfoAtHome == ~stranded =>
    \A c \in Client : req[c].pc = "lookup" => req[c].tenant = Own

-----------------------------------------------------------------------------
(* The inductive invariant behind OriginalKept and UserInfoAtHome *)

\* Who works in another tenant took it from the hash, which is still there when
\* the request looks for it; whoever found none works in the user's own.
Knows(r) == r.tenant # Own =>
    /\ r.pc \notin {"setOld", "infoWrite", "lookup"}
    /\ r.pc = "handle" /\ r.op \in {"set", "info"} => Exists

KeptInv == ~stranded => ot \in {None, Own} /\ \A c \in Client : Knows(req[c])

SwitchInv == TypeOK /\ KeptInv
=============================================================================
