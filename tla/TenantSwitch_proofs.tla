-------------------------- MODULE TenantSwitch_proofs --------------------------
(* Theorems about TenantSwitch for any number of requests and tenants. *)
EXTENDS TenantSwitch, TLAPS

\* The tenant hash and every request keep their types.
THEOREM TypeCorrect == Spec => []TypeOK
  <1>1. Init => TypeOK
    <2> SUFFICES ASSUME Init PROVE TypeOK
      OBVIOUS
    <2>1. Idle \in Request
      BY TenantsTyped DEF Idle, Request, Pc, Ops
    <2>2. ot \in Tenant \cup {None} /\ nt \in Tenant \cup {None} /\ req \in [Client -> Request]
      BY <2>1 DEF Init
    <2>3. stranded \in BOOLEAN
      BY DEF Init
    <2> QED
      BY <2>2, <2>3 DEF TypeOK
  <1>2. TypeOK /\ [Next]_vars => TypeOK'
    <2> SUFFICES ASSUME TypeOK, [Next]_vars PROVE TypeOK'
      OBVIOUS
    <2> USE TenantsTyped DEF TypeOK, Request, Pc, Idle, At, Goto, Finish, Ops
    <2>1. CASE UNCHANGED vars
      BY <2>1 DEF vars
    <2>2. ASSUME NEW c \in Client, NEW op \in Ops, NEW t \in Tenant, Arrive(c, op, t)
          PROVE  TypeOK'
      BY <2>2 DEF Arrive
    <2>3. ASSUME NEW c \in Client, Resolve(c) \/ Refuse(c) \/ Serve(c) PROVE TypeOK'
      BY <2>3 DEF Resolve, Refuse, Serve
    <2>4. ASSUME NEW c \in Client, SetExists(c) \/ SetOld(c) \/ SetNew(c) PROVE TypeOK'
      BY <2>4 DEF SetExists, SetOld, SetNew
    <2>5. ASSUME NEW c \in Client, ClearExists(c) PROVE TypeOK'
      BY <2>5 DEF ClearExists
    <2>6. ASSUME NEW c \in Client, ClearDel(c) PROVE TypeOK'
      <3>1. stranded' \in BOOLEAN
        <4>1. stranded' = \E d \in Client \ {c} : Stranded(req[d])
          BY <2>6 DEF ClearDel
        <4> QED
          BY <4>1, Zenon
      <3>2. ot' = None /\ nt' = None /\ req' = [req EXCEPT ![c] = Idle]
        BY <2>6 DEF ClearDel
      <3> QED
        BY <3>1, <3>2
    <2>7. ASSUME NEW c \in Client, InfoExists(c) \/ InfoRead(c) PROVE TypeOK'
      BY <2>7 DEF InfoExists, InfoRead
    <2>8. ASSUME NEW c \in Client, InfoWrite(c) \/ Lookup(c) PROVE TypeOK'
      BY <2>8 DEF InfoWrite, Lookup
    <2>9. ASSUME NEW c \in Client, Fail(c) PROVE TypeOK'
      BY <2>9 DEF Fail
    <2> QED
      BY <2>1, <2>2, <2>3, <2>4, <2>5, <2>6, <2>7, <2>8, <2>9 DEF Next
  <1> QED
    BY <1>1, <1>2, PTL DEF Spec

-----------------------------------------------------------------------------
(* The user's own tenant survives, unless a Clear strands a request *)

LEMMA KeptInit == Init => KeptInv
  BY TenantsTyped DEF Init, KeptInv, Knows, Idle

\* A step of one request keeps the invariant if it deletes nothing, writes no
\* foreign tenant into ot, and the request still knows what its place in the
\* code says.
LEMMA KeptStep ==
    ASSUME KeptInv, NEW c \in Client, \A d \in Client : d # c => req'[d] = req[d],
           stranded' = stranded,
           ~stranded => ot' = ot \/ ot' = Own,
           ~stranded /\ Exists => Exists',
           ~stranded => Knows(req[c])'
    PROVE  KeptInv'
  <1>1. ASSUME ~stranded, NEW d \in Client PROVE Knows(req[d])'
    <2>1. Knows(req[d])
      BY <1>1 DEF KeptInv
    <2> QED
      BY <1>1, <2>1 DEF Knows
  <1>2. ~stranded => ot' \in {None, Own}
    BY DEF KeptInv
  <1> QED
    BY <1>1, <1>2 DEF KeptInv

LEMMA KeptNext == TypeOK /\ KeptInv /\ [Next]_vars => KeptInv'
  <1> SUFFICES ASSUME TypeOK, KeptInv, [Next]_vars PROVE KeptInv'
    OBVIOUS
  <1> USE DEF At, Goto, Finish
  <1>1. ~stranded => ot \in {None, Own} /\ \A d \in Client : Knows(req[d])
    BY DEF KeptInv
  <1>2. CASE UNCHANGED vars
    BY <1>2 DEF vars, KeptInv, Knows, Exists
  <1>3. ASSUME NEW c \in Client, NEW op \in Ops, NEW t \in Tenant, Arrive(c, op, t)
        PROVE  KeptInv'
    <2>1. /\ req'[c].tenant = Own /\ \A d \in Client : d # c => req'[d] = req[d]
          /\ UNCHANGED <<ot, nt, stranded>>
      BY <1>3 DEF Arrive, TypeOK
    <2>2. Knows(req[c])' /\ (Exists => Exists')
      BY <2>1 DEF Knows, Exists
    <2> QED
      BY <2>1, <2>2, KeptStep
  <1>4. ASSUME NEW c \in Client, Resolve(c) PROVE KeptInv'
    <2>1. /\ req'[c].pc = "handle" /\ nt # None /\ UNCHANGED <<ot, nt, stranded>>
          /\ \A d \in Client : d # c => req'[d] = req[d]
      BY <1>4 DEF Resolve, TypeOK, Request
    <2>2. Knows(req[c])' /\ (Exists => Exists')
      BY <2>1 DEF Knows, Exists
    <2> QED
      BY <2>1, <2>2, KeptStep
  <1>5. ASSUME NEW c \in Client, req' = [req EXCEPT ![c] = Idle], UNCHANGED <<ot, stranded>>,
               Exists => Exists'
        PROVE  KeptInv'
    <2>1. req'[c] = Idle /\ \A d \in Client : d # c => req'[d] = req[d]
      BY <1>5 DEF TypeOK
    <2>2. Knows(req[c])'
      BY <2>1 DEF Knows, Idle
    <2> QED
      BY <1>5, <2>1, <2>2, KeptStep
  <1>6. ASSUME NEW c \in Client, SetExists(c) PROVE KeptInv'
    <2>1. /\ req[c].pc = "handle" /\ req[c].op = "set"
          /\ req'[c].pc = (IF Exists THEN "setNew" ELSE "setOld")
          /\ req'[c].tenant = req[c].tenant /\ UNCHANGED <<ot, nt, stranded>>
          /\ \A d \in Client : d # c => req'[d] = req[d]
      BY <1>6 DEF SetExists, TypeOK, Request
    <2>2. Exists => Exists'
      BY <2>1 DEF Exists
    <2>3. ~stranded => Knows(req[c])'
      BY <1>1, <2>1 DEF Knows
    <2> QED
      BY <2>1, <2>2, <2>3, KeptStep
  <1>7. ASSUME NEW c \in Client, SetOld(c) PROVE KeptInv'
    <2>1. /\ req[c].pc = "setOld" /\ req'[c].pc = "setNew" /\ req'[c].tenant = req[c].tenant
          /\ ot' = req[c].tenant /\ ot' \in Tenant /\ UNCHANGED <<nt, stranded>>
          /\ \A d \in Client : d # c => req'[d] = req[d]
      BY <1>7 DEF SetOld, TypeOK, Request
    <2>2. Exists'
      BY <2>1, TenantsTyped DEF Exists
    <2>3. ~stranded => ot' = Own
      BY <1>1, <2>1 DEF Knows
    <2>4. Knows(req[c])'
      BY <2>1 DEF Knows
    <2> QED
      BY <2>1, <2>2, <2>3, <2>4, KeptStep
  <1>8. ASSUME NEW c \in Client, SetNew(c) PROVE KeptInv'
    <2>1. nt' \in Tenant /\ UNCHANGED <<ot, stranded>> /\ req' = [req EXCEPT ![c] = Idle]
      BY <1>8 DEF SetNew, TypeOK, Request
    <2>2. Exists'
      BY <2>1, TenantsTyped DEF Exists
    <2> QED
      BY <1>5, <2>1, <2>2
  <1>9. ASSUME NEW c \in Client, ClearExists(c) PROVE KeptInv'
    <2>1. Exists => Exists'
      BY <1>9 DEF ClearExists, Exists
    <2>2. CASE Exists
      <3>1. /\ req'[c].pc = "clearDel" /\ UNCHANGED <<ot, nt, stranded>>
            /\ \A d \in Client : d # c => req'[d] = req[d]
        BY <1>9, <2>2 DEF ClearExists, TypeOK, Request
      <3>2. Knows(req[c])'
        BY <3>1 DEF Knows
      <3> QED
        BY <2>1, <3>1, <3>2, KeptStep
    <2>3. CASE ~Exists
      BY <1>5, <1>9, <2>1, <2>3 DEF ClearExists
    <2> QED
      BY <2>2, <2>3
  <1>10. ASSUME NEW c \in Client, InfoExists(c) PROVE KeptInv'
    <2>1. /\ req[c].pc = "handle" /\ req[c].op = "info"
          /\ req'[c].pc = (IF Exists THEN "infoRead" ELSE "lookup")
          /\ req'[c].tenant = req[c].tenant /\ UNCHANGED <<ot, nt, stranded>>
          /\ \A d \in Client : d # c => req'[d] = req[d]
      BY <1>10 DEF InfoExists, TypeOK, Request
    <2>2. Exists => Exists'
      BY <2>1 DEF Exists
    <2>3. ~stranded => Knows(req[c])'
      BY <1>1, <2>1 DEF Knows
    <2> QED
      BY <2>1, <2>2, <2>3, KeptStep
  <1>11. ASSUME NEW c \in Client, InfoRead(c) PROVE KeptInv'
    <2>1. Exists => Exists'
      BY <1>11 DEF InfoRead, Exists
    <2>2. CASE ot = None
      BY <1>5, <1>11, <2>1, <2>2 DEF InfoRead
    <2>3. CASE ot # None
      <3>1. /\ req'[c].tenant = ot /\ UNCHANGED <<ot, nt, stranded>>
            /\ \A d \in Client : d # c => req'[d] = req[d]
        BY <1>11, <2>3 DEF InfoRead, TypeOK, Request
      <3>2. ~stranded => Knows(req[c])'
        BY <1>1, <2>3, <3>1 DEF Knows
      <3> QED
        BY <2>1, <3>1, <3>2, KeptStep
    <2> QED
      BY <2>2, <2>3
  <1>12. ASSUME NEW c \in Client, InfoWrite(c) PROVE KeptInv'
    <2>1. /\ req[c].pc = "infoWrite" /\ req'[c].tenant = req[c].tenant
          /\ nt' \in Tenant /\ UNCHANGED <<ot, stranded>>
          /\ \A d \in Client : d # c => req'[d] = req[d]
      BY <1>12 DEF InfoWrite, TypeOK, Request
    <2>2. Exists'
      BY <2>1, TenantsTyped DEF Exists
    <2>3. ~stranded => Knows(req[c])'
      BY <1>1, <2>1 DEF Knows
    <2> QED
      BY <2>1, <2>2, <2>3, KeptStep
  <1>13. ASSUME NEW c \in Client, Refuse(c) \/ Serve(c) \/ Lookup(c) \/ Fail(c) PROVE KeptInv'
    <2>1. req' = [req EXCEPT ![c] = Idle] /\ UNCHANGED <<ot, nt, stranded>>
      BY <1>13 DEF Refuse, Serve, Lookup, Fail
    <2>2. Exists => Exists'
      BY <2>1 DEF Exists
    <2> QED
      BY <1>5, <2>1, <2>2
  <1>14. ASSUME NEW c \in Client, ClearDel(c) PROVE KeptInv'
    <2>1. /\ req'[c] = Idle /\ ot' = None
          /\ \A d \in Client : d # c => req'[d] = req[d]
          /\ stranded' = \E d \in Client \ {c} : Stranded(req[d])
      BY <1>14 DEF ClearDel, TypeOK
    <2>2. ASSUME ~stranded', NEW d \in Client PROVE Knows(req[d])'
      <3>1. CASE d = c
        BY <2>1, <3>1 DEF Knows, Idle
      <3>2. CASE d # c
        BY <2>1, <2>2, <3>2 DEF Knows, Stranded
      <3> QED
        BY <3>1, <3>2
    <2> QED
      BY <2>1, <2>2 DEF KeptInv
  <1>15. CASE Next
    BY <1>3, <1>4, <1>6, <1>7, <1>8, <1>9, <1>10, <1>11, <1>12, <1>13, <1>14, <1>15 DEF Next
  <1> QED
    BY <1>2, <1>15

LEMMA KeptAlways == Spec => []KeptInv
  BY KeptInit, KeptNext, TypeCorrect, PTL DEF Spec

\* However many switches, loads, Clears and other requests overlap, and
\* wherever they fail, ot is the user's own tenant unless the last Clear
\* stranded a request.
THEOREM HomeRemembered == Spec => []OriginalKept
  <1>1. KeptInv => OriginalKept
    BY DEF KeptInv, OriginalKept
  <1> QED
    BY <1>1, KeptAlways, PTL

\* With the same exception, and no other, GetUserInfo looks every user up in the
\* tenant it belongs to.
THEOREM FoundAtHome == Spec => []UserInfoAtHome
  <1>1. KeptInv => UserInfoAtHome
    BY DEF KeptInv, Knows, UserInfoAtHome
  <1> QED
    BY <1>1, KeptAlways, PTL
=============================================================================
