---------------------------- MODULE Session_proofs ----------------------------
(* Theorems about Session for any tokens, keys, requests and timeouts. *)
EXTENDS Session, TLAPS

-----------------------------------------------------------------------------
(* Types *)

\* What TypeOK says of one hash and of one request at time n.
HashTyped(h, n) ==
    /\ h \in [Fields -> Token \cup Int \cup {None}]
    /\ h["token"] \in Token \cup {None} /\ h["loginInfoId"] \in Token \cup {None}
    /\ h["currentTime"] \in 1..n \cup {None}
    /\ h["activeTimeout"] \in {ActiveTimeout, None}

ReqTyped(r, n) ==
    /\ r \in Request
    /\ r.pc # "idle" =>
        /\ r.tok \in Token /\ r.key \in Key
        /\ r.pc \in {"login", "timeout", "refresh"} => r.at \in 1..n

RestTyped ==
    /\ now \in Times
    /\ until \in [Key -> Int \cup {None}]
    /\ exp \in [Token -> Int \cup {None}]
    /\ given \subseteq Token /\ ended \subseteq Token
    /\ active \in [Key -> 0..now]

LEMMA TypesApart ==
    TypeOK <=> /\ RestTyped
               /\ hash \in [Key -> [Fields -> Token \cup Int \cup {None}]]
               /\ \A k \in Key : HashTyped(hash[k], now)
               /\ req \in [Client -> Request]
               /\ \A c \in Client : ReqTyped(req[c], now)
  BY DEF TypeOK, RestTyped, HashTyped, ReqTyped

LEMMA EmptyHash == \A n \in Nat : HashTyped(NoHash, n)
  BY DEF HashTyped, NoHash, Fields

\* One field of one hash, one request, changed.
LEMMA FieldSet ==
    ASSUME NEW h, NEW n \in Nat, HashTyped(h, n), NEW f \in Fields, NEW v,
           f \in {"token", "loginInfoId"} => v \in Token,
           f = "currentTime" => v \in 1..n,
           f = "activeTimeout" => v = ActiveTimeout
    PROVE  HashTyped([h EXCEPT ![f] = v], n)
  BY TimesTyped DEF HashTyped, Fields
\* A step that changes one request and leaves the hashes and the clock alone.
LEMMA TypesOfRequest ==
    ASSUME TypeOK, NEW c \in Client, NEW r, req' = [req EXCEPT ![c] = r], ReqTyped(r, now),
           UNCHANGED <<now, hash>>, RestTyped'
    PROVE  TypeOK'
  <1>1. \A d \in Client : ReqTyped(req'[d], now)
    BY TypesApart
  <1>2. req' \in [Client -> Request]
    BY TypesApart DEF ReqTyped
  <1>3. hash' = hash /\ now' = now /\ hash \in [Key -> [Fields -> Token \cup Int \cup {None}]]
        /\ \A k \in Key : HashTyped(hash[k], now)
    BY TypesApart
  <1> QED
    BY <1>1, <1>2, <1>3 DEF TypeOK, RestTyped, HashTyped, ReqTyped

LEMMA IdleTyped == \A n \in Nat : ReqTyped(Idle, n)
  BY DEF ReqTyped, Idle, At, Request, Pc

\* A step that ends one request, too.
LEMMA TypesOfFinish ==
    ASSUME TypeOK, NEW c \in Client, Finish(c), UNCHANGED <<now, hash>>, RestTyped'
    PROVE  TypeOK'
  <1>1. ReqTyped(Idle, now)
    BY IdleTyped DEF TypeOK, Times
  <1> QED
    BY <1>1, TypesOfRequest DEF Finish

\* A step that moves one request on.
LEMMA TypesOfGoto ==
    ASSUME TypeOK, NEW c \in Client, NEW pc \in {"time"}, req[c].pc # "idle", Goto(c, pc),
           UNCHANGED <<now, hash>>, RestTyped'
    PROVE  TypeOK'
  <1>1. ReqTyped([req[c] EXCEPT !.pc = pc], now)
    BY TypesApart DEF ReqTyped, Request, Pc
  <1> QED
    BY <1>1, TypesOfRequest DEF Goto

LEMMA AgainTyped == \A n, r : \A t \in Token : ReqTyped(r, n) => ReqTyped(Again(r, t), n)
  BY DEF ReqTyped, Again, At, Request

LEMMA TypeInit == Init => TypeOK
  <1> SUFFICES ASSUME Init PROVE TypeOK
    OBVIOUS
  <1>1. RestTyped
    BY TimesTyped DEF Init, RestTyped, Times
  <1>2. \A k \in Key : HashTyped(hash[k], now)
    BY EmptyHash DEF Init
  <1>3. \A c \in Client : ReqTyped(req[c], now)
    BY IdleTyped DEF Init
  <1>4. hash \in [Key -> [Fields -> Token \cup Int \cup {None}]] /\ req \in [Client -> Request]
    BY <1>2, <1>3 DEF Init, HashTyped, ReqTyped
  <1> QED
    BY <1>1, <1>2, <1>3, <1>4, TypesApart

LEMMA TypeNext == TypeOK /\ [Next]_vars => TypeOK'
  <1> SUFFICES ASSUME TypeOK, [Next]_vars PROVE TypeOK'
    OBVIOUS
  <1>1. /\ RestTyped /\ now \in Nat /\ now \in 1..now
        /\ \A c \in Client : ReqTyped(req[c], now)
        /\ \A k \in Key : HashTyped(hash[k], now)
    BY TypesApart DEF Times, RestTyped
  <1>2. CASE UNCHANGED vars
    BY <1>2 DEF vars, TypeOK
  <1>3. ASSUME NEW c \in Client, NEW t \in Token, Login(c, t) PROVE TypeOK'
    <2> DEFINE older == {u \in given : u # t /\ KeyOf[u] = KeyOf[t]
                                         /\ \A d \in Client : ~LoggingIn(d, u)}
               new == At("login", t, KeyOf[t], now, FALSE, Fields, older)
    <2>1. ReqTyped(new, now)
      BY <1>1, TimesTyped DEF ReqTyped, At, Request, Pc, RestTyped
    <2>2. \A d \in Client : ReqTyped(Again(req[d], t), now)
      BY <1>1, AgainTyped
    <2>3. req' = [d \in Client |-> IF d = c THEN new ELSE Again(req[d], t)]
      BY <1>3 DEF Login
    <2>4. \A d \in Client : ReqTyped(req'[d], now)
      <3> HIDE DEF new
      <3> QED BY <2>1, <2>2, <2>3
    <2>5. req' \in [Client -> Request]
      <3> HIDE DEF new
      <3> QED BY <2>1, <2>2, <2>3 DEF ReqTyped
    <2>6. RestTyped' /\ UNCHANGED <<now, hash>>
      BY <1>1, <1>3, TimesTyped DEF Login, RestTyped, Times
    <2> QED
      BY <1>1, <2>4, <2>5, <2>6, TypesApart DEF TypeOK, RestTyped, HashTyped, ReqTyped
  <1>4. ASSUME NEW c \in Client, NEW f \in Fields, SetField(c, f) PROVE TypeOK'
    <2> DEFINE k == req[c].key
               v == CASE f = "token" -> req[c].tok
                      [] f = "loginInfoId" -> req[c].tok
                      [] f = "currentTime" -> req[c].at
                      [] f = "activeTimeout" -> ActiveTimeout
    <2>1. k \in Key /\ req[c].tok \in Token /\ req[c].at \in 1..now /\ f \in req[c].todo
      BY <1>1, <1>4 DEF SetField, ReqTyped
    <2>2. HashTyped([hash[k] EXCEPT ![f] = v], now)
      <3>1. f \in {"token", "loginInfoId"} => v \in Token
        BY <2>1
      <3>2. f = "currentTime" => v \in 1..now
        BY <2>1
      <3>3. f = "activeTimeout" => v = ActiveTimeout
        OBVIOUS
      <3> HIDE DEF v
      <3> QED
        BY <1>1, <2>1, <3>1, <3>2, <3>3, FieldSet
    <2>3. hash' = [hash EXCEPT ![k] = [hash[k] EXCEPT ![f] = v]] /\ now' = now
      BY <1>4 DEF SetField, Set
    <2>4. /\ hash' \in [Key -> [Fields -> Token \cup Int \cup {None}]]
          /\ \A x \in Key : HashTyped(hash'[x], now)
      <3> HIDE DEF v
      <3> QED
        BY <1>1, <2>1, <2>2, <2>3 DEF HashTyped, TypeOK
    <2>5. ReqTyped([req[c] EXCEPT !.todo = @ \ {f}], now)
      BY <1>1, <2>1 DEF ReqTyped, Request
    <2>6. req' \in [Client -> Request] /\ \A d \in Client : ReqTyped(req'[d], now)
      BY <1>1, <1>4, <2>5 DEF SetField, TypeOK, ReqTyped
    <2>7. RestTyped'
      BY <1>1, <1>4, <2>1 DEF SetField, RestTyped
    <2> QED
      BY <2>3, <2>4, <2>6, <2>7 DEF TypeOK, RestTyped, HashTyped, ReqTyped
  <1>5. ASSUME NEW c \in Client, SetExpire(c) PROVE TypeOK'
    <2>1. RestTyped'
      BY <1>1, <1>5, TimesTyped DEF SetExpire, RestTyped, ReqTyped, Request
    <2> QED
      BY <1>5, <2>1, TypesOfFinish DEF SetExpire
  <1>6. ASSUME NEW c \in Client, NEW t \in Token, NEW k \in Key, CheckExists(c, t, k) PROVE TypeOK'
    <2>1. ReqTyped(At("token", t, k, None, t \in ended, {}, {}), now)
      BY DEF ReqTyped, At, Request, Pc
    <2>2. RestTyped'
      BY <1>1, <1>6 DEF CheckExists, RestTyped
    <2> QED
      BY <1>6, <2>1, <2>2, TypesOfRequest DEF CheckExists
  <1>7. ASSUME NEW c \in Client, CheckToken(c) PROVE TypeOK'
    <2>1. RestTyped' /\ UNCHANGED <<now, hash>> /\ req[c].pc # "idle"
      BY <1>1, <1>7 DEF CheckToken, RestTyped
    <2> QED
      BY <1>7, <2>1, TypesOfFinish, TypesOfGoto DEF CheckToken
  <1>8. ASSUME NEW c \in Client, CheckTime(c) PROVE TypeOK'
    <2> DEFINE cur == hash[req[c].key]["currentTime"]
    <2>1. RestTyped' /\ UNCHANGED <<now, hash>>
      BY <1>1, <1>8 DEF CheckTime, RestTyped
    <2>2. CASE cur # None
      <3>1. req[c].key \in Key /\ cur \in 1..now
        BY <1>1, <1>8, <2>2 DEF CheckTime, ReqTyped, HashTyped
      <3>2. ReqTyped(At("timeout", req[c].tok, req[c].key, cur, req[c].late, {}, {}), now)
        <4> HIDE DEF cur
        <4> QED BY <1>1, <1>8, <3>1 DEF ReqTyped, Request, Pc, At, CheckTime
      <3> QED
        BY <1>8, <2>1, <2>2, <3>2, TypesOfRequest DEF CheckTime
    <2> QED
      BY <1>8, <2>1, <2>2, TypesOfFinish DEF CheckTime
  <1>9. ASSUME NEW c \in Client, CheckTimeout(c) PROVE TypeOK'
    <2>1. RestTyped' /\ UNCHANGED <<now, hash>>
      BY <1>1, <1>9 DEF CheckTimeout, RestTyped
    <2>2. ReqTyped(At("refresh", req[c].tok, req[c].key, now, req[c].late, {}, {}), now)
      BY <1>1, <1>9 DEF ReqTyped, Request, Pc, At, CheckTimeout
    <2> QED
      BY <1>9, <2>1, <2>2, TypesOfFinish, TypesOfRequest DEF CheckTimeout
  <1>10. ASSUME NEW c \in Client, Refresh(c) PROVE TypeOK'
    <2> DEFINE k == req[c].key
    <2>1. k \in Key /\ req[c].at \in 1..now
      BY <1>1, <1>10 DEF Refresh, ReqTyped
    <2>2. HashTyped([hash[k] EXCEPT !["currentTime"] = req[c].at], now)
      BY <1>1, <2>1, FieldSet DEF Fields
    <2>3. hash' = [hash EXCEPT ![k] = [hash[k] EXCEPT !["currentTime"] = req[c].at]] /\ now' = now
      BY <1>10 DEF Refresh, Set
    <2>4. /\ hash' \in [Key -> [Fields -> Token \cup Int \cup {None}]]
          /\ \A x \in Key : HashTyped(hash'[x], now)
      BY <1>1, <2>1, <2>2, <2>3 DEF HashTyped, TypeOK
    <2>5. req' \in [Client -> Request] /\ \A d \in Client : ReqTyped(req'[d], now)
      BY <1>1, <1>10, IdleTyped DEF Refresh, Finish, TypeOK, ReqTyped
    <2>6. RestTyped'
      BY <1>1, <1>10, <2>1 DEF Refresh, RestTyped
    <2> QED
      BY <2>3, <2>4, <2>5, <2>6 DEF TypeOK, RestTyped, HashTyped, ReqTyped
  <1>11. ASSUME NEW t \in Token, Logout(t) PROVE TypeOK'
    <2>1. hash' = [hash EXCEPT ![KeyOf[t]] = NoHash] /\ UNCHANGED <<now, req>>
      BY <1>11 DEF Logout, Del
    <2>2. /\ hash' \in [Key -> [Fields -> Token \cup Int \cup {None}]]
          /\ \A x \in Key : HashTyped(hash'[x], now)
      BY <1>1, <2>1, EmptyHash, TimesTyped DEF HashTyped, TypeOK
    <2>3. RestTyped'
      BY <1>1, <1>11, TimesTyped DEF Logout, Del, RestTyped
    <2>4. req' \in [Client -> Request] /\ \A d \in Client : ReqTyped(req'[d], now)
      BY <1>1, <2>1 DEF TypeOK
    <2> QED
      BY <2>1, <2>2, <2>3, <2>4 DEF TypeOK, RestTyped, HashTyped, ReqTyped
  <1>12. ASSUME NEW c \in Client, Fail(c) PROVE TypeOK'
    <2>1. RestTyped' /\ UNCHANGED <<now, hash>>
      BY <1>1, <1>12 DEF Fail, RestTyped
    <2> QED
      BY <1>12, <2>1, TypesOfFinish DEF Fail
  <1>13. CASE Tick
    <2>1. now' = now + 1 /\ now' \in Times /\ 0..now \subseteq 0..now' /\ 1..now \subseteq 1..now'
      BY <1>1, <1>13, TimesTyped DEF Tick, RestTyped, Times
    <2>2. RestTyped'
      BY <1>1, <1>13, <2>1 DEF Tick, RestTyped
    <2>3. \A k \in Key : hash'[k] \in {NoHash, hash[k]}
      BY <1>13 DEF Tick
    <2>4. hash' \in [Key -> [Fields -> Token \cup Int \cup {None}]]
      BY <1>1, <1>13, EmptyHash DEF Tick, HashTyped
    <2>5. \A k \in Key : HashTyped(hash'[k], now')
      BY <1>1, <2>1, <2>3, EmptyHash DEF HashTyped
    <2>6. req' = req
      BY <1>13 DEF Tick
    <2>7. req' \in [Client -> Request] /\ \A d \in Client : ReqTyped(req'[d], now')
      BY <1>1, <2>1, <2>6 DEF TypeOK, ReqTyped
    <2> QED
      BY <2>2, <2>4, <2>5, <2>7 DEF TypeOK, RestTyped, HashTyped, ReqTyped
  <1> QED
    BY <1>2, <1>3, <1>4, <1>5, <1>6, <1>7, <1>8, <1>9, <1>10, <1>11, <1>12, <1>13 DEF Next

\* Hashes, requests and clocks keep their types; no time in a hash or in a
\* request lies ahead of the clock.
THEOREM TypeCorrect == Spec => []TypeOK
  BY TypeInit, TypeNext, PTL DEF Spec
-----------------------------------------------------------------------------
(* Ended sessions *)

\* A step after which no login is further than before, no hash has a new token
\* and every check that began late is still to be refused.
LEMMA QuietStep ==
    ASSUME TypeOK, SessionInv, UNCHANGED ended,
           \A k \in Key : hash'[k]["token"] \in {hash[k]["token"], None},
           \A c \in Client : \/ req'[c] = req[c]
                             \/ /\ req'[c].pc # "login"
                                /\ req'[c].late => req'[c].pc \in {"idle", "token"}
                                /\ req'[c].late /\ req'[c].pc = "token" => req'[c].tok \in ended
    PROVE  SessionInv'
  <1> USE DEF SessionInv
  <1>1. \A c \in Client : \A t : LoggingIn(c, t)' => LoggingIn(c, t)
    BY DEF LoggingIn
  <1>2. \A c \in Client : req'[c].pc = "login" => req'[c] = req[c] /\ req[c].key \in Key
    BY DEF TypeOK
  <1>3. None \notin Token
    BY TimesTyped
  <1>4. LoginsInPlace'
    BY <1>2, <1>3 DEF LoginsInPlace
  <1>5. OlderDrivenOut'
    BY <1>1, <1>2, <1>3 DEF OlderDrivenOut, LoginsInPlace
  <1>6. EndedIsGone'
    BY <1>1, <1>3, TimesTyped DEF EndedIsGone, TypeOK
  <1>7. LateIsEnded' /\ EndedStaysOut'
    BY DEF LateIsEnded, EndedStaysOut
  <1> QED
    BY <1>4, <1>5, <1>6, <1>7

\* A step that ends a request and writes no token.
LEMMA FinishStep ==
    ASSUME TypeOK, SessionInv, UNCHANGED ended, NEW c \in Client, Finish(c),
           \A k \in Key : hash'[k]["token"] = hash[k]["token"]
    PROVE  SessionInv'
  <1>1. req'[c].pc = "idle" /\ \A d \in Client : d # c => req'[d] = req[d]
    BY DEF Finish, TypeOK, Idle, At
  <1> QED
    BY <1>1, QuietStep

LEMMA AgainFields ==
    ASSUME NEW r, NEW t
    PROVE  /\ Again(r, t).pc = r.pc /\ Again(r, t).tok = r.tok /\ Again(r, t).key = r.key
           /\ Again(r, t).at = r.at /\ Again(r, t).todo = r.todo
           /\ Again(r, t).older = r.older \ {t}
           /\ Again(r, t).late => r.late /\ r.tok # t
  <1>1. Again(r, t).late = (r.late /\ r.tok # t)
    BY DEF Again, At
  <1> QED
    BY <1>1 DEF Again, At

LEMMA LoginStep ==
    ASSUME TypeOK, SessionInv, NEW c \in Client, NEW t \in Token, Login(c, t)
    PROVE  SessionInv'
  <1> USE DEF SessionInv
  <1> DEFINE older == {u \in given : u # t /\ KeyOf[u] = KeyOf[t]
                                       /\ \A d \in Client : ~LoggingIn(d, u)}
  <1>1. /\ req'[c] = At("login", t, KeyOf[t], now, FALSE, Fields, older)
        /\ \A d \in Client : d # c => req'[d] = Again(req[d], t)
        /\ hash' = hash /\ ended' = ended \ {t} /\ given \subseteq Token
    BY DEF Login, TypeOK
  <1> HIDE DEF older
  <1>2. /\ req'[c].pc = "login" /\ req'[c].tok = t /\ req'[c].key = KeyOf[t] /\ ~req'[c].late
        /\ req'[c].todo = Fields /\ req'[c].older = older
    BY <1>1 DEF At
  <1>3. \A d \in Client : d # c =>
          /\ req'[d].pc = req[d].pc /\ req'[d].tok = req[d].tok /\ req'[d].key = req[d].key
          /\ req'[d].todo = req[d].todo /\ req'[d].older = req[d].older \ {t}
          /\ req'[d].late => req[d].late /\ req[d].tok # t
    BY <1>1, AgainFields
  <1>4. \A d \in Client : \A u : LoggingIn(d, u)' => LoggingIn(d, u) \/ u = t
    BY <1>2, <1>3 DEF LoggingIn
  <1>5. \A u \in older : u \in Token /\ u # t /\ KeyOf[u] = KeyOf[t] /\ \A d \in Client : ~LoggingIn(d, u)
    BY <1>1 DEF older
  <1>6. LoginsInPlace'
    <2>1. \A d \in Client : req'[d].pc = "login" =>
            /\ req'[d].key = KeyOf[req'[d].tok]
            /\ \A u \in req'[d].older : u \in Token /\ KeyOf[u] = req'[d].key
      BY <1>2, <1>3, <1>5 DEF LoginsInPlace
    <2> QED
      BY <1>1, <2>1 DEF LoginsInPlace
  <1>7. OlderDrivenOut'
    <2> SUFFICES ASSUME NEW d \in Client, req'[d].pc = "login"
                 PROVE  /\ \A u \in req'[d].older : \A e \in Client : ~LoggingIn(e, u)'
                        /\ "token" \notin req'[d].todo => hash'[req'[d].key]["token"] \notin req'[d].older
      BY DEF OlderDrivenOut
    <2>1. CASE d = c
      BY <1>2, <1>4, <1>5, <2>1 DEF Fields
    <2>2. CASE d # c
      BY <1>1, <1>3, <1>4, <2>2 DEF OlderDrivenOut
    <2> QED
      BY <2>1, <2>2
  <1>8. EndedIsGone'
    BY <1>1, <1>4 DEF EndedIsGone
  <1>9. LateIsEnded' /\ EndedStaysOut'
    BY <1>1, <1>2, <1>3 DEF LateIsEnded, EndedStaysOut
  <1> QED
    BY <1>6, <1>7, <1>8, <1>9

LEMMA SetFieldStep ==
    ASSUME TypeOK, SessionInv, NEW c \in Client, NEW f \in Fields, SetField(c, f)
    PROVE  SessionInv'
  <1> USE DEF SessionInv
  <1>1. /\ req[c].pc = "login" /\ req[c].key \in Key /\ req[c].tok \in Token
        /\ LoggingIn(c, req[c].tok) /\ ended' = ended
    BY DEF SetField, TypeOK, LoggingIn
  <1>2. /\ \A d \in Client : d # c => req'[d] = req[d]
        /\ req'[c].pc = "login" /\ req'[c].tok = req[c].tok /\ req'[c].key = req[c].key
        /\ req'[c].late = req[c].late /\ req'[c].older = req[c].older
        /\ req'[c].todo = req[c].todo \ {f}
    BY DEF SetField, TypeOK, Request
  <1>3. \A d \in Client : \A t : LoggingIn(d, t)' <=> LoggingIn(d, t)
    BY <1>1, <1>2 DEF LoggingIn
  <1>4. /\ \A k \in Key : k # req[c].key => hash'[k]["token"] = hash[k]["token"]
        /\ hash'[req[c].key]["token"] = IF f = "token" THEN req[c].tok ELSE hash[req[c].key]["token"]
    BY <1>1 DEF SetField, Set, TypeOK, Fields
  <1>5. LoginsInPlace'
    <2>1. \A d \in Client : req'[d].pc = "login" =>
            /\ req'[d].key = KeyOf[req'[d].tok]
            /\ \A u \in req'[d].older : u \in Token /\ KeyOf[u] = req'[d].key
      BY <1>1, <1>2 DEF LoginsInPlace
    <2>2. \A k \in Key : \A t \in Token : hash'[k]["token"] = t => KeyOf[t] = k
      BY <1>1, <1>4 DEF LoginsInPlace
    <2> QED
      BY <2>1, <2>2 DEF LoginsInPlace
  <1>6. OlderDrivenOut'
    <2> SUFFICES ASSUME NEW d \in Client, req'[d].pc = "login"
                 PROVE  /\ \A u \in req'[d].older : \A e \in Client : ~LoggingIn(e, u)'
                        /\ "token" \notin req'[d].todo => hash'[req'[d].key]["token"] \notin req'[d].older
      BY DEF OlderDrivenOut
    <2>1. /\ req[d].pc = "login" /\ req'[d].key = req[d].key /\ req'[d].older = req[d].older
          /\ req[d].key \in Key /\ \A u \in req[d].older : \A e \in Client : ~LoggingIn(e, u)
      BY <1>1, <1>2 DEF OlderDrivenOut, TypeOK
    <2>2. ASSUME "token" \notin req'[d].todo PROVE hash'[req[d].key]["token"] \notin req[d].older
      <3>1. CASE f = "token" /\ req[d].key = req[c].key
        BY <1>1, <1>4, <2>1, <3>1
      <3>2. CASE ~(f = "token" /\ req[d].key = req[c].key)
        <4>1. hash'[req[d].key]["token"] = hash[req[d].key]["token"]
          BY <1>4, <2>1, <3>2
        <4>2. "token" \notin req[d].todo
          BY <1>2, <2>2, <3>2
        <4> QED
          BY <2>1, <4>1, <4>2 DEF OlderDrivenOut
      <3> QED
        BY <3>1, <3>2
    <2> QED
      BY <1>3, <2>1, <2>2
  <1>7. EndedIsGone'
    <2>1. \A t \in ended : t \in Token /\ KeyOf[t] \in Key /\ t # req[c].tok
      BY <1>1, TimesTyped DEF EndedIsGone, TypeOK
    <2> QED
      BY <1>1, <1>3, <1>4, <2>1 DEF EndedIsGone
  <1>8. LateIsEnded' /\ EndedStaysOut'
    BY <1>1, <1>2 DEF LateIsEnded, EndedStaysOut
  <1> QED
    BY <1>5, <1>6, <1>7, <1>8

LEMMA SetExpireStep ==
    ASSUME TypeOK, SessionInv, NEW c \in Client, SetExpire(c)
    PROVE  SessionInv'
  <1> USE DEF SessionInv
  <1>1. /\ req[c].pc = "login" /\ "token" \notin req[c].todo
        /\ ended' = ended \cup req[c].older /\ hash' = hash
    BY DEF SetExpire
  <1>2. /\ req'[c].pc = "idle" /\ ~req'[c].late
        /\ \A d \in Client : d # c => req'[d] = req[d]
    BY DEF SetExpire, Finish, TypeOK, Idle, At
  <1>3. \A d \in Client : \A t : LoggingIn(d, t)' => LoggingIn(d, t)
    BY <1>2 DEF LoggingIn
  <1>4. \A d \in Client : req'[d].pc = "login" => req'[d] = req[d]
    BY <1>2
  <1>5. LoginsInPlace'
    BY <1>1, <1>4 DEF LoginsInPlace
  <1>6. OlderDrivenOut'
    BY <1>1, <1>3, <1>4 DEF OlderDrivenOut
  <1>7. EndedIsGone'
    <2>1. \A u \in req[c].older : /\ KeyOf[u] = req[c].key /\ hash[req[c].key]["token"] # u
                                  /\ \A d \in Client : ~LoggingIn(d, u)
      BY <1>1 DEF OlderDrivenOut, LoginsInPlace
    <2> QED
      BY <1>1, <1>3, <2>1 DEF EndedIsGone
  <1>8. LateIsEnded' /\ EndedStaysOut'
    BY <1>1, <1>2 DEF LateIsEnded, EndedStaysOut
  <1> QED
    BY <1>5, <1>6, <1>7, <1>8

LEMMA LogoutStep ==
    ASSUME TypeOK, SessionInv, NEW t \in Token, Logout(t)
    PROVE  SessionInv'
  <1> USE DEF SessionInv
  <1>1. /\ \A u \in ended' : u \in ended \/ (u = t /\ \A c \in Client : ~LoggingIn(c, t))
        /\ ended \subseteq ended' /\ req' = req /\ KeyOf[t] \in Key
    BY TimesTyped DEF Logout
  <1>2. /\ hash'[KeyOf[t]]["token"] = None
        /\ \A k \in Key : hash'[k]["token"] \in {hash[k]["token"], None}
    BY <1>1 DEF Logout, Del, NoHash, Fields, TypeOK
  <1>3. None \notin Token /\ ended \subseteq Token
    BY TimesTyped DEF TypeOK
  <1>4. LoginsInPlace'
    BY <1>1, <1>2, <1>3 DEF LoginsInPlace
  <1>5. OlderDrivenOut'
    BY <1>1, <1>2, <1>3, SMTT(30) DEF OlderDrivenOut, LoginsInPlace, TypeOK, LoggingIn
  <1>6. EndedIsGone'
    BY <1>1, <1>2, <1>3, TimesTyped DEF EndedIsGone, LoggingIn
  <1>7. LateIsEnded' /\ EndedStaysOut'
    BY <1>1 DEF LateIsEnded, EndedStaysOut
  <1> QED
    BY <1>4, <1>5, <1>6, <1>7

LEMMA SessionInit == Init => SessionInv
  BY TimesTyped DEF Init, SessionInv, LoginsInPlace, OlderDrivenOut, EndedIsGone,
                    LateIsEnded, EndedStaysOut, LoggingIn, NoHash, Fields, Idle, At

LEMMA SessionNext == TypeOK /\ SessionInv /\ [Next]_vars => SessionInv'
  <1> SUFFICES ASSUME TypeOK, SessionInv, [Next]_vars PROVE SessionInv'
    OBVIOUS
  <1>1. LateIsEnded /\ EndedStaysOut /\ EndedIsGone /\ LoginsInPlace
    BY DEF SessionInv
  <1>2. CASE UNCHANGED vars
    BY <1>2, QuietStep DEF vars
  <1>3. ASSUME NEW c \in Client, NEW t \in Token, NEW k \in Key, CheckExists(c, t, k)
        PROVE  SessionInv'
    <2>1. /\ req'[c].pc = "token" /\ req'[c].tok = t /\ (req'[c].late => t \in ended)
          /\ \A d \in Client : d # c => req'[d] = req[d]
      BY <1>3 DEF CheckExists, TypeOK, At
    <2> QED
      BY <1>3, <2>1, QuietStep DEF CheckExists
  <1>4. ASSUME NEW c \in Client, CheckToken(c) PROVE SessionInv'
    <2>1. req[c].tok \in Token /\ req[c].key \in Key
      BY <1>4 DEF CheckToken, TypeOK
    <2>2. CASE hash[req[c].key]["token"] = req[c].tok
      <3>1. ~req[c].late
        BY <1>1, <1>4, <2>1, <2>2 DEF CheckToken, LateIsEnded, EndedIsGone, LoginsInPlace
      <3>2. /\ req'[c].pc = "time" /\ ~req'[c].late
            /\ \A d \in Client : d # c => req'[d] = req[d]
        BY <1>4, <2>2, <3>1 DEF CheckToken, Goto, TypeOK, Request
      <3> QED
        BY <1>4, <3>2, QuietStep DEF CheckToken
    <2>3. CASE hash[req[c].key]["token"] # req[c].tok
      BY <1>4, <2>3, FinishStep DEF CheckToken
    <2> QED
      BY <2>2, <2>3
  <1>5. ASSUME NEW c \in Client, CheckTime(c) PROVE SessionInv'
    <2> DEFINE cur == hash[req[c].key]["currentTime"]
    <2>1. CASE cur = None
      BY <1>5, <2>1, FinishStep DEF CheckTime
    <2>2. CASE cur # None
      <3>1. /\ req'[c].pc = "timeout" /\ ~req'[c].late
            /\ \A d \in Client : d # c => req'[d] = req[d]
        BY <1>1, <1>5, <2>2 DEF CheckTime, At, TypeOK, Request, EndedStaysOut
      <3> QED
        BY <1>5, <3>1, QuietStep DEF CheckTime
    <2> QED
      BY <2>1, <2>2
  <1>6. ASSUME NEW c \in Client, CheckTimeout(c) PROVE SessionInv'
    <2> DEFINE next == At("refresh", req[c].tok, req[c].key, now, req[c].late, {}, {})
    <2>1. Finish(c) \/ req' = [req EXCEPT ![c] = next]
      BY <1>6 DEF CheckTimeout
    <2>2. CASE req' = [req EXCEPT ![c] = next]
      <3>1. /\ req'[c].pc = "refresh" /\ ~req'[c].late
            /\ \A d \in Client : d # c => req'[d] = req[d]
        BY <1>1, <1>6, <2>2 DEF CheckTimeout, At, TypeOK, Request, EndedStaysOut
      <3> QED
        BY <1>6, <3>1, QuietStep DEF CheckTimeout
    <2> QED
      BY <1>6, <2>1, <2>2, FinishStep DEF CheckTimeout
  <1>7. ASSUME NEW c \in Client, Refresh(c) PROVE SessionInv'
    <2>1. \A k \in Key : hash'[k]["token"] = hash[k]["token"]
      BY <1>7 DEF Refresh, Set, TypeOK, Fields
    <2> QED
      BY <1>7, <2>1, FinishStep DEF Refresh
  <1>8. ASSUME NEW c \in Client, Fail(c) PROVE SessionInv'
    BY <1>8, FinishStep DEF Fail
  <1>9. CASE Tick
    <2>1. \A k \in Key : hash'[k]["token"] \in {hash[k]["token"], None}
      BY <1>9 DEF Tick, NoHash, Fields
    <2> QED
      BY <1>9, <2>1, QuietStep DEF Tick
  <1> QED
    BY <1>2, <1>3, <1>4, <1>5, <1>6, <1>7, <1>8, <1>9,
       LoginStep, SetFieldStep, SetExpireStep, LogoutStep DEF Next

\* For any tokens, keys and requests in flight: after its session has ended, by
\* a logout, a forced logout or the answer to a later login with its key, a
\* token is accepted by no check that begins then.
THEOREM EndedSessions == Spec => []EndedStaysOut
  <1>1. TypeOK /\ SessionInv /\ [Next]_vars => (TypeOK /\ SessionInv)'
    BY TypeNext, SessionNext
  <1>2. SessionInv => EndedStaysOut
    BY DEF SessionInv
  <1> QED
    BY TypeInit, SessionInit, <1>1, <1>2, PTL DEF Spec
-----------------------------------------------------------------------------
(* Idle sessions *)

\* A step after which the last use of every key is no earlier, no hash has a
\* new currentTime and no request has read another one.
LEMMA NoNewTime ==
    ASSUME TypeOK, TypeOK', NotAhead,
           \A k \in Key : active[k] <= active'[k],
           \A k \in Key : hash'[k]["currentTime"] \in {hash[k]["currentTime"], None},
           \A c \in Client : \/ req'[c] = req[c] \/ req'[c].pc # "timeout"
                             \/ /\ req'[c].at = req[c].at /\ req'[c].key = req[c].key
                                /\ req'[c].pc = req[c].pc
    PROVE  NotAhead'
  <1>1. \A k \in Key : hash'[k]["currentTime"] # None => hash'[k]["currentTime"] <= active'[k]
    <2> SUFFICES ASSUME NEW k \in Key, hash'[k]["currentTime"] # None
                 PROVE  hash'[k]["currentTime"] <= active'[k]
      OBVIOUS
    <2>1. hash'[k]["currentTime"] = hash[k]["currentTime"]
      OBVIOUS
    <2>2. hash[k]["currentTime"] \in Int /\ active[k] \in Int /\ active'[k] \in Int
      BY <2>1 DEF TypeOK, Times
    <2> QED
      BY <2>1, <2>2 DEF NotAhead
  <1>2. \A c \in Client : req'[c].pc = "timeout" => req'[c].at <= active'[req'[c].key]
    <2> SUFFICES ASSUME NEW c \in Client, req'[c].pc = "timeout"
                 PROVE  req'[c].at <= active'[req'[c].key]
      OBVIOUS
    <2>1. req[c].pc = "timeout" /\ req'[c].at = req[c].at /\ req'[c].key = req[c].key
          /\ req[c].key \in Key
      BY DEF TypeOK
    <2>2. req[c].at \in Int /\ active[req[c].key] \in Int /\ active'[req[c].key] \in Int
      BY <2>1 DEF TypeOK, Times
    <2> QED
      BY <2>1, <2>2 DEF NotAhead
  <1> QED
    BY <1>1, <1>2 DEF NotAhead

\* A step that writes a time no later than now into one hash and remembers that
\* its key was used now.
LEMMA NewTime ==
    ASSUME TypeOK, TypeOK', NotAhead, NEW k \in Key, now' = now,
           active' = [active EXCEPT ![k] = now],
           \A x \in Key : x # k => hash'[x]["currentTime"] = hash[x]["currentTime"],
           \A c \in Client : \/ req'[c].pc # "timeout"
                             \/ /\ req'[c].at = req[c].at /\ req'[c].key = req[c].key
                                /\ req'[c].pc = req[c].pc
    PROVE  NotAhead'
  <1>1. now \in Int /\ \A x \in Key : active[x] \in Int /\ active[x] <= now
    BY DEF TypeOK, Times
  <1>2. active'[k] = now /\ \A x \in Key : x # k => active'[x] = active[x]
    BY DEF TypeOK
  <1>3. \A x \in Key : hash'[x]["currentTime"] # None => hash'[x]["currentTime"] <= active'[x]
    <2> SUFFICES ASSUME NEW x \in Key, hash'[x]["currentTime"] # None
                 PROVE  hash'[x]["currentTime"] <= active'[x]
      OBVIOUS
    <2>1. hash'[x]["currentTime"] \in 1..now
      BY DEF TypeOK
    <2> QED
      BY <1>2, <2>1 DEF NotAhead
  <1>4. \A c \in Client : req'[c].pc = "timeout" => req'[c].at <= active'[req'[c].key]
    <2> SUFFICES ASSUME NEW c \in Client, req'[c].pc = "timeout"
                 PROVE  req'[c].at <= active'[req'[c].key]
      OBVIOUS
    <2>1. req[c].pc = "timeout" /\ req'[c].at = req[c].at /\ req'[c].key = req[c].key
          /\ req[c].key \in Key
      BY DEF TypeOK
    <2>2. req[c].at \in 1..now
      BY <2>1 DEF TypeOK
    <2> QED
      BY <1>1, <1>2, <2>1, <2>2 DEF NotAhead
  <1> QED
    BY <1>3, <1>4 DEF NotAhead

LEMMA AheadInit == Init => NotAhead
  BY DEF Init, NotAhead, NoHash, Fields, Idle, At

LEMMA AheadNext == TypeOK /\ TypeOK' /\ NotAhead /\ [Next]_vars => NotAhead'
  <1> SUFFICES ASSUME TypeOK, TypeOK', NotAhead, [Next]_vars PROVE NotAhead'
    OBVIOUS
  <1>1. \A k \in Key : active[k] \in Int /\ active[k] <= active[k]
    BY DEF TypeOK, Times
  <1>2. CASE UNCHANGED vars
    BY <1>1, <1>2, NoNewTime DEF vars
  <1>3. ASSUME NEW c \in Client, Finish(c), UNCHANGED <<hash, active>> PROVE NotAhead'
    <2>1. \A d \in Client : req'[d] = req[d] \/ req'[d].pc # "timeout"
      BY <1>3 DEF Finish, TypeOK, Idle, At
    <2> QED
      BY <1>1, <1>3, <2>1, NoNewTime
  <1>4. ASSUME NEW c \in Client, NEW t \in Token, Login(c, t) PROVE NotAhead'
    <2>1. \A d \in Client : \/ req'[d].pc # "timeout"
                            \/ /\ req'[d].at = req[d].at /\ req'[d].key = req[d].key
                               /\ req'[d].pc = req[d].pc
      BY <1>4 DEF Login, Again, At
    <2> QED
      BY <1>1, <1>4, <2>1, NoNewTime DEF Login
  <1>5. ASSUME NEW c \in Client, NEW f \in Fields, SetField(c, f) PROVE NotAhead'
    <2>1. req[c].key \in Key /\ now' = now
      BY <1>5 DEF SetField, TypeOK
    <2>2. /\ \A d \in Client : d # c => req'[d] = req[d]
          /\ req'[c].pc = "login"
      BY <1>5 DEF SetField, TypeOK, Request
    <2>3. \A x \in Key : x # req[c].key \/ f # "currentTime" =>
            hash'[x]["currentTime"] = hash[x]["currentTime"]
      BY <1>5, <2>1 DEF SetField, Set, TypeOK, Fields
    <2>4. CASE f = "currentTime"
      BY <1>5, <2>1, <2>2, <2>3, <2>4, NewTime DEF SetField
    <2>5. CASE f # "currentTime"
      <3>1. active' = active
        BY <1>5, <2>1, <2>5 DEF SetField, TypeOK
      <3> QED
        BY <1>1, <2>2, <2>3, <2>5, <3>1, NoNewTime
    <2> QED
      BY <2>4, <2>5
  <1>6. ASSUME NEW c \in Client, NEW t \in Token, NEW k \in Key, CheckExists(c, t, k)
        PROVE  NotAhead'
    <2>1. \A d \in Client : req'[d] = req[d] \/ req'[d].pc # "timeout"
      BY <1>6 DEF CheckExists, TypeOK, At
    <2> QED
      BY <1>1, <1>6, <2>1, NoNewTime DEF CheckExists
  <1>7. ASSUME NEW c \in Client, CheckToken(c) PROVE NotAhead'
    <2>1. CASE Goto(c, "time")
      <3>1. \A d \in Client : req'[d] = req[d] \/ req'[d].pc # "timeout"
        BY <2>1 DEF Goto, TypeOK, Request
      <3> QED
        BY <1>1, <1>7, <3>1, NoNewTime DEF CheckToken
    <2> QED
      BY <1>3, <1>7, <2>1 DEF CheckToken
  <1>8. ASSUME NEW c \in Client, CheckTime(c) PROVE NotAhead'
    <2> DEFINE k == req[c].key
               cur == hash[k]["currentTime"]
    <2>1. CASE cur # None
      <3>1. /\ req'[c].pc = "timeout" /\ req'[c].at = cur /\ req'[c].key = k
            /\ \A d \in Client : d # c => req'[d] = req[d]
            /\ k \in Key
        BY <1>8, <2>1 DEF CheckTime, At, TypeOK, Request
      <3> QED
        BY <1>8, <2>1, <3>1 DEF CheckTime, NotAhead
    <2> QED
      BY <1>3, <1>8, <2>1 DEF CheckTime
  <1>9. ASSUME NEW c \in Client, CheckTimeout(c) PROVE NotAhead'
    <2> DEFINE next == At("refresh", req[c].tok, req[c].key, now, req[c].late, {}, {})
    <2>1. CASE req' = [req EXCEPT ![c] = next]
      <3>1. \A d \in Client : req'[d] = req[d] \/ req'[d].pc # "timeout"
        BY <2>1 DEF TypeOK, At
      <3> QED
        BY <1>1, <1>9, <3>1, NoNewTime DEF CheckTimeout
    <2> QED
      BY <1>3, <1>9, <2>1 DEF CheckTimeout
  <1>10. ASSUME NEW c \in Client, Refresh(c) PROVE NotAhead'
    <2>1. req[c].key \in Key
      BY <1>10 DEF Refresh, TypeOK
    <2>2. \A d \in Client : req'[d] = req[d] \/ req'[d].pc # "timeout"
      BY <1>10 DEF Refresh, Finish, TypeOK, Idle, At
    <2>3. \A x \in Key : x # req[c].key => hash'[x]["currentTime"] = hash[x]["currentTime"]
      BY <1>10, <2>1 DEF Refresh, Set, TypeOK
    <2> QED
      BY <1>10, <2>1, <2>2, <2>3, NewTime DEF Refresh
  <1>11. ASSUME NEW t \in Token, Logout(t) PROVE NotAhead'
    <2>1. \A k \in Key : hash'[k]["currentTime"] \in {hash[k]["currentTime"], None}
      BY <1>11, TimesTyped DEF Logout, Del, NoHash, Fields, TypeOK
    <2> QED
      BY <1>1, <1>11, <2>1, NoNewTime DEF Logout
  <1>12. CASE Tick
    <2>1. \A k \in Key : hash'[k]["currentTime"] \in {hash[k]["currentTime"], None}
      BY <1>12 DEF Tick, NoHash, Fields
    <2> QED
      BY <1>1, <1>12, <2>1, NoNewTime DEF Tick
  <1> QED
    BY <1>2, <1>3, <1>4, <1>5, <1>6, <1>7, <1>8, <1>9, <1>10, <1>11, <1>12
       DEF Next, SetExpire, Fail

\* For any number of requests in flight, whatever they write back late: where the
\* client has an active timeout, a check accepts a token only if its session was
\* used at most that long before.
THEOREM IdleSessions == Spec => IdleSessionsEnd
  <1> DEFINE InTime == \A c \in Client :
        ActiveTimeout > 0 /\ req[c].pc = "timeout" /\ req'[c].pc = "refresh" =>
            now <= active[req[c].key] + ActiveTimeout
  <1>1. TypeOK /\ NotAhead /\ [Next]_vars => (TypeOK /\ NotAhead)'
    BY TypeNext, AheadNext
  <1>2. TypeOK /\ NotAhead /\ [Next]_vars => [InTime]_vars
    <2> SUFFICES ASSUME TypeOK, NotAhead, Next, NEW c \in Client,
                        ActiveTimeout > 0, req[c].pc = "timeout", req'[c].pc = "refresh"
                 PROVE  now <= active[req[c].key] + ActiveTimeout
      OBVIOUS
    <2>1. \A d \in Client : Finish(d) => req'[d].pc = "idle" /\ (d # c => req'[c] = req[c])
      BY DEF Finish, TypeOK, Idle, At
    <2>2. CheckTimeout(c) /\ ~Finish(c)
      <3>1. \A d \in Client : \A t \in Token : ~Login(d, t)
        BY DEF Login, At, Again
      <3>2. \A d \in Client : \A f \in Fields : ~SetField(d, f)
        BY DEF SetField, TypeOK, Request
      <3>3. \A d \in Client : \A t \in Token, k \in Key : ~CheckExists(d, t, k)
        BY DEF CheckExists, At, TypeOK
      <3>4. \A d \in Client : ~CheckToken(d)
        BY <2>1 DEF CheckToken, Goto, TypeOK, Request
      <3>5. \A d \in Client : ~CheckTime(d)
        BY <2>1 DEF CheckTime, At, TypeOK, Request
      <3>6. \A d \in Client : ~SetExpire(d) /\ ~Refresh(d) /\ ~Fail(d)
        BY <2>1 DEF SetExpire, Refresh, Fail
      <3>7. ~Tick /\ \A t \in Token : ~Logout(t)
        BY DEF Tick, Logout
      <3>8. \A d \in Client : CheckTimeout(d) => d = c
        BY <2>1 DEF CheckTimeout, TypeOK
      <3> QED
        BY <2>1, <3>1, <3>2, <3>3, <3>4, <3>5, <3>6, <3>7, <3>8 DEF Next
    <2>3. /\ req[c].key \in Key /\ req[c].at \in 1..now /\ now \in Int
          /\ hash[req[c].key]["activeTimeout"] \in {ActiveTimeout, None}
          /\ active[req[c].key] \in Int /\ req[c].at <= active[req[c].key]
      BY DEF TypeOK, NotAhead, Times
    <2>4. ~(now > req[c].at + ActiveTimeout)
      BY <2>2, <2>3 DEF CheckTimeout
    <2> QED
      BY <2>3, <2>4, TimesTyped
  <1> QED
    BY TypeInit, AheadInit, <1>1, <1>2, PTL DEF Spec, IdleSessionsEnd
=============================================================================
