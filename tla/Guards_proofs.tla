------------------------------ MODULE Guards_proofs ------------------------------
(***************************************************************************)
(* Proofs about Guards for every set of operations, messages and requests, *)
(* every expiry and window, and a timeout shorter than the expiry.         *)
(***************************************************************************)
EXTENDS Guards, TLAPS

Past(d) == pc[d] \in {"sign", "nonce", "handler"}
Key(d) == OpOf[of[d]]

\* A request past the idempotency middleware has the key of its operation, until
\* its context has ended ...
Kept == \A d \in Delivery :
    Past(d) /\ Key(d) \in Keyed /\ Alive(d) => idem[Key(d)] >= at[d] + Expire
\* ... and is the only one.
Alone == \A d, e \in Delivery :
    /\ Past(d) /\ Past(e) /\ Alive(d) /\ Alive(e)
    /\ Key(d) = Key(e) /\ Key(d) \in Keyed
    => d = e
\* A request past the look at the timestamp arrived within the window.
InTime == \A d \in Delivery :
    pc[d] \in {"nonce", "handler"} /\ Key(d) \in Signed => at[d] <= stamp[of[d]] + Window
\* Keys expire when they should, no later ...
KeysDue ==
    /\ \A o \in Op : idem[o] # 0 => idem[o] = taken[o] + Expire /\ now <= idem[o]
    /\ \A m \in Message : nonce[m] # 0 => nonce[m] = marked[m] + Window /\ now <= nonce[m]
\* ... and no sooner.
NonceKept == \A m \in Message :
    marked[m] # 0 /\ nonce[m] = 0 => now >= marked[m] + Window
\* The middleware for signatures stands only before its own routes.
OwnRoute == \A d \in Delivery : pc[d] \in {"sign", "nonce"} => Key(d) \in Signed

IInv == TypeOK /\ Kept /\ Alone /\ InTime /\ KeysDue /\ NonceKept /\ OwnRoute

-----------------------------------------------------------------------------
LEMMA InitIInv == Init => IInv
<1> SUFFICES ASSUME Init PROVE IInv
  OBVIOUS
<1>1. TypeOK
  <2>1. now \in Nat \ {0} /\ 0 \in 0..now
    BY DEF Init
  <2>4. stamp \in [Message -> Int]
    <3>1. stamp \in [Message -> Stamps] /\ Stamps \subseteq Int
      BY GuardsTyped DEF Init
    <3> QED BY <3>1
  <2>2. /\ idem \in [Op -> Nat] /\ nonce \in [Message -> Nat]
        /\ at \in [Delivery -> 0..now] /\ taken \in [Op -> 0..now] /\ marked \in [Message -> 0..now]
    BY <2>1 DEF Init
  <2>3. /\ \A d \in Delivery : pc[d] = "idle" /\ of[d] = None
        /\ pc \in [Delivery -> {"idle", "idempotency", "sign", "nonce", "handler"}]
        /\ of \in [Delivery -> Message \cup {None}]
    BY DEF Init
  <2> QED BY <2>1, <2>2, <2>3, <2>4 DEF TypeOK
<1>2. Kept /\ Alone /\ InTime /\ OwnRoute
  BY DEF Init, Kept, Alone, InTime, OwnRoute, Past
<1>3. KeysDue /\ NonceKept
  BY DEF Init, KeysDue, NonceKept
<1> QED BY <1>1, <1>2, <1>3 DEF IInv

\* What each action leaves to do is the same for each part of the invariant, so
\* every action has one step for each part it can disturb.
LEMMA StepIInv == IInv /\ [Next]_vars => IInv'
<1> SUFFICES ASSUME IInv, [Next]_vars PROVE IInv'
  OBVIOUS
<1> USE GuardsTyped, TimeoutShort
<1>1. CASE UNCHANGED vars
  <2>1. (TypeOK /\ KeysDue /\ NonceKept)'
    BY <1>1 DEF vars, IInv, TypeOK, KeysDue, NonceKept
  <2>2. (Kept /\ Alone)'
    BY <1>1 DEF vars, IInv, Kept, Alone, Past, Key, Alive
  <2>3. (InTime /\ OwnRoute)'
    BY <1>1 DEF vars, IInv, InTime, OwnRoute, Key
  <2> QED BY <2>1, <2>2, <2>3 DEF IInv
<1>2. ASSUME NEW d \in Delivery, NEW m \in Message, Deliver(d, m) PROVE IInv'
  <2>1. TypeOK'
    BY <1>2 DEF IInv, TypeOK, Deliver
  <2>2. (Kept /\ Alone)'
    BY <1>2 DEF IInv, TypeOK, Deliver, Kept, Alone, Past, Key, Alive
  <2>3. (InTime /\ KeysDue /\ NonceKept /\ OwnRoute)'
    BY <1>2 DEF IInv, TypeOK, Deliver, InTime, KeysDue, NonceKept, OwnRoute, Key
  <2> QED BY <2>1, <2>2, <2>3 DEF IInv
<1>3. ASSUME NEW d \in Delivery, Unguarded(d) PROVE IInv'
  <2>1. TypeOK'
    BY <1>3 DEF IInv, TypeOK, Unguarded, Goto, Onward
  <2>2. (Kept /\ Alone)'
    BY <1>3 DEF IInv, TypeOK, Unguarded, Goto, Onward, Kept, Alone, Past, Key, Alive
  <2>3. (InTime /\ KeysDue /\ NonceKept /\ OwnRoute)'
    BY <1>3 DEF IInv, TypeOK, Unguarded, Goto, Onward, InTime, KeysDue, NonceKept, OwnRoute, Key
  <2> QED BY <2>1, <2>2, <2>3 DEF IInv
<1>4. ASSUME NEW d \in Delivery, Idempotency(d) PROVE IInv'
  <2> DEFINE o == Key(d)
  <2>0. o \in Op /\ of[d] \in Message /\ o \in Keyed /\ Alive(d) /\ pc[d] = "idempotency"
    BY <1>4 DEF IInv, TypeOK, Idempotency, Key
  <2>1. CASE idem[o] = 0 /\ Goto(d, Onward(d))
    <3>1. /\ idem' = [idem EXCEPT ![o] = now + Expire] /\ taken' = [taken EXCEPT ![o] = now]
          /\ pc' = [pc EXCEPT ![d] = Onward(d)]
          /\ UNCHANGED <<now, stamp, nonce, of, at, marked>>
      BY <1>4, <2>1 DEF Idempotency, Goto, Key, End
    <3>2. TypeOK'
      BY <2>0, <3>1 DEF IInv, TypeOK, Onward
    <3>3. ASSUME NEW e \in Delivery, e # d, Past(e), Key(e) = o PROVE ~Alive(e)
      BY <2>0, <2>1, <3>3 DEF IInv, TypeOK, Kept
    <3>4. \A e \in Delivery : /\ (Alive(e))' = Alive(e) /\ (Key(e))' = Key(e)
                              /\ e # d => (Past(e))' = Past(e)
      BY <3>1 DEF IInv, TypeOK, Alive, Key, Past
    <3>5. idem'[o] >= at[d] + Expire
      BY <2>0, <3>1 DEF IInv, TypeOK
    <3>6. Kept'
      BY <2>0, <3>1, <3>3, <3>4, <3>5 DEF IInv, TypeOK, Kept
    <3>7. Alone'
      BY <2>0, <3>1, <3>3, <3>4 DEF IInv, TypeOK, Alone
    <3>8. (InTime /\ KeysDue /\ NonceKept /\ OwnRoute)'
      BY <2>0, <3>1 DEF IInv, TypeOK, InTime, KeysDue, NonceKept, OwnRoute, Key, Onward
    <3> QED BY <3>2, <3>6, <3>7, <3>8 DEF IInv
  <2>2. CASE End(d)
    <3>1. /\ pc' = [pc EXCEPT ![d] = "idle"] /\ of' = [of EXCEPT ![d] = None] /\ at' = [at EXCEPT ![d] = 0]
          /\ \/ UNCHANGED <<idem, taken>>
             \/ /\ idem[o] = 0
                /\ idem' = [idem EXCEPT ![o] = now + Expire] /\ taken' = [taken EXCEPT ![o] = now]
          /\ UNCHANGED <<now, stamp, nonce, marked>>
      BY <1>4, <2>2 DEF Idempotency, Key, End
    <3>2. TypeOK'
      BY <2>0, <3>1 DEF IInv, TypeOK
    <3>3. \A e \in Delivery : /\ e # d => (Alive(e))' = Alive(e) /\ (Key(e))' = Key(e) /\ (Past(e))' = Past(e)
                              /\ e = d => ~(Past(e))'
      BY <3>1 DEF IInv, TypeOK, Alive, Key, Past
    <3>4. Kept'
      BY <2>0, <3>1, <3>3 DEF IInv, TypeOK, Kept
    <3>5. Alone'
      BY <3>1, <3>3 DEF IInv, TypeOK, Alone
    <3>6. (InTime /\ KeysDue /\ NonceKept /\ OwnRoute)'
      BY <2>0, <3>1 DEF IInv, TypeOK, InTime, KeysDue, NonceKept, OwnRoute, Key
    <3> QED BY <3>2, <3>4, <3>5, <3>6 DEF IInv
  <2> QED BY <1>4, <2>1, <2>2 DEF Idempotency, Key
<1>5. ASSUME NEW d \in Delivery, SignTime(d) PROVE IInv'
  <2>1. TypeOK'
    BY <1>5 DEF IInv, TypeOK, SignTime, Goto, End
  <2>2. (Kept /\ Alone)'
    BY <1>5 DEF IInv, TypeOK, SignTime, Goto, End, Kept, Alone, Past, Key, Alive
  <2>3. InTime'
    BY <1>5 DEF IInv, TypeOK, SignTime, Goto, End, InTime, Key, Distance
  <2>4. (KeysDue /\ NonceKept /\ OwnRoute)'
    BY <1>5 DEF IInv, TypeOK, SignTime, Goto, End, KeysDue, NonceKept, OwnRoute, Key
  <2> QED BY <2>1, <2>2, <2>3, <2>4 DEF IInv
<1>6. ASSUME NEW d \in Delivery, MarkNonceUsed(d) PROVE IInv'
  <2>1. TypeOK'
    BY <1>6 DEF IInv, TypeOK, MarkNonceUsed, Goto, End
  <2>2. (Kept /\ Alone)'
    BY <1>6 DEF IInv, TypeOK, MarkNonceUsed, Goto, End, Kept, Alone, Past, Key, Alive
  <2>3. (InTime /\ OwnRoute)'
    BY <1>6 DEF IInv, TypeOK, MarkNonceUsed, Goto, End, InTime, OwnRoute, Key
  <2>4. (KeysDue /\ NonceKept)'
    BY <1>6 DEF IInv, TypeOK, MarkNonceUsed, Goto, End, KeysDue, NonceKept
  <2> QED BY <2>1, <2>2, <2>3, <2>4 DEF IInv
<1>7. ASSUME NEW d \in Delivery, Drop(d) PROVE IInv'
  <2>1. TypeOK'
    BY <1>7 DEF IInv, TypeOK, Drop, End
  <2>2. (Kept /\ Alone)'
    BY <1>7 DEF IInv, TypeOK, Drop, End, Kept, Alone, Past, Key, Alive
  <2>3. (InTime /\ KeysDue /\ NonceKept /\ OwnRoute)'
    BY <1>7 DEF IInv, TypeOK, Drop, End, InTime, KeysDue, NonceKept, OwnRoute, Key
  <2> QED BY <2>1, <2>2, <2>3 DEF IInv
<1>8. ASSUME NEW o \in Op, ExpireIdem(o) PROVE IInv'
  <2>1. (TypeOK /\ Alone /\ InTime /\ NonceKept /\ OwnRoute)'
    BY <1>8 DEF IInv, TypeOK, ExpireIdem, Alone, InTime, NonceKept, OwnRoute, Past, Key, Alive
  <2>2. Kept'
    \* The key expires Expire after it was taken: the context has ended by then.
    BY <1>8 DEF IInv, TypeOK, ExpireIdem, Kept, Past, Key, Alive
  <2>3. KeysDue'
    BY <1>8 DEF IInv, TypeOK, ExpireIdem, KeysDue
  <2> QED BY <2>1, <2>2, <2>3 DEF IInv
<1>9. ASSUME NEW m \in Message, ExpireNonce(m) PROVE IInv'
  <2>1. (TypeOK /\ Kept /\ Alone /\ InTime /\ OwnRoute)'
    BY <1>9 DEF IInv, TypeOK, ExpireNonce, Kept, Alone, InTime, OwnRoute, Past, Key, Alive
  <2>2. (KeysDue /\ NonceKept)'
    BY <1>9 DEF IInv, TypeOK, ExpireNonce, KeysDue, NonceKept
  <2> QED BY <2>1, <2>2 DEF IInv
<1>10. CASE Tick
  <2>1. (TypeOK /\ InTime /\ NonceKept /\ OwnRoute)'
    BY <1>10 DEF IInv, TypeOK, Tick, InTime, NonceKept, OwnRoute, Key
  <2>2. (Kept /\ Alone)'
    BY <1>10 DEF IInv, TypeOK, Tick, Kept, Alone, Past, Key, Alive
  <2>3. KeysDue'
    <3>1. ASSUME NEW o \in Op, idem[o] # 0 PROVE now + 1 <= idem[o]
      <4>1. idem[o] # now /\ now <= idem[o]
        BY <1>10, <3>1 DEF IInv, Tick, KeysDue
      <4>2. idem[o] \in Nat /\ now \in Nat
        BY DEF IInv, TypeOK
      <4> QED BY <4>1, <4>2
    <3>2. ASSUME NEW m \in Message, nonce[m] # 0 PROVE now + 1 <= nonce[m]
      <4>1. nonce[m] # now /\ now <= nonce[m]
        BY <1>10, <3>2 DEF IInv, Tick, KeysDue
      <4>2. nonce[m] \in Nat /\ now \in Nat
        BY DEF IInv, TypeOK
      <4> QED BY <4>1, <4>2
    <3> QED BY <1>10, <3>1, <3>2 DEF IInv, Tick, KeysDue
  <2> QED BY <2>1, <2>2, <2>3 DEF IInv
<1> QED BY <1>1, <1>2, <1>3, <1>4, <1>5, <1>6, <1>7, <1>8, <1>9, <1>10 DEF Next

THEOREM IInvHolds == Spec => []IInv
  BY InitIInv, StepIInv, PTL DEF Spec

-----------------------------------------------------------------------------
\* Type correctness, which includes that nothing is dated in the future.
THEOREM GuardsTypeOK == Spec => []TypeOK
  BY IInvHolds, PTL DEF IInv

\* Of the handlers of one keyed operation at most one can still write.
THEOREM GuardsOneHandler == Spec => []OneHandler
<1>1. IInv => OneHandler
  BY DEF IInv, Alone, OneHandler, InHandler, Past, Key
<1> QED BY <1>1, IInvHolds, PTL

\* A signed message has no effect after its window and one timeout.
THEOREM GuardsNoLateEffect == Spec => []NoLateEffect
<1>1. IInv => NoLateEffect
  BY GuardsTyped DEF IInv, TypeOK, InTime, NoLateEffect, InHandler, Key, Alive
<1> QED BY <1>1, IInvHolds, PTL

\* Both keys are gone in time, however many retries found them.
THEOREM GuardsKeysRunOut == Spec => []KeysRunOut
<1>1. IInv => KeysRunOut
  BY GuardsTyped DEF IInv, TypeOK, KeysDue, KeysRunOut
<1> QED BY <1>1, IInvHolds, PTL

\* A message gets through again only if it was young when it was marked.
THEOREM GuardsRepeatsOnlyYoung == Spec => RepeatsOnlyYoung
<1>1. IInv /\ [Next]_vars => [RepeatYoung]_vars
  <2> SUFFICES ASSUME IInv, Next, NEW d \in Delivery, Through(d), marked[of[d]] # 0
               PROVE  marked[of[d]] <= stamp[of[d]] + Timeout /\ now >= marked[of[d]] + Window
    BY DEF RepeatYoung
  <2> USE GuardsTyped
  <2>1. of[d] \in Message /\ pc[d] = "nonce" /\ pc'[d] = "handler"
    BY DEF IInv, TypeOK, Through
  <2>2. MarkNonceUsed(d)
    BY <2>1 DEF IInv, TypeOK, Next, Deliver, Unguarded, Idempotency, SignTime, MarkNonceUsed, Drop,
        ExpireIdem, ExpireNonce, Tick, Goto, End, Onward
  <2>3. nonce[of[d]] = 0 /\ Alive(d)
    BY <2>1, <2>2 DEF IInv, TypeOK, MarkNonceUsed, End
  <2>4. now >= marked[of[d]] + Window
    BY <2>1, <2>3 DEF IInv, NonceKept
  <2>5. at[d] <= stamp[of[d]] + Window /\ now <= at[d] + Timeout
    BY <2>1, <2>3 DEF IInv, InTime, OwnRoute, Alive, Key
  <2>6. /\ marked[of[d]] \in Int /\ stamp[of[d]] \in Int /\ at[d] \in Int /\ now \in Int
    BY <2>1 DEF IInv, TypeOK
  <2> QED BY <2>4, <2>5, <2>6
<1> QED BY <1>1, IInvHolds, PTL DEF Spec, RepeatsOnlyYoung
-----------------------------------------------------------------------------
(* How often an operation is let through *)

\* A key that was taken is there until it is due.
IdemKept == \A o \in Op : taken[o] # 0 /\ idem[o] = 0 => now >= taken[o] + Expire

TakenApart == [][\A o \in Op :
    taken'[o] # taken[o] /\ taken[o] # 0 => taken'[o] >= taken[o] + Expire]_vars

\* Of however many repeats of an operation, on however many servers, one at most
\* passes in any Expire seconds: neither a lost answer of Redis, nor a request
\* that ends early, nor a refused repeat gives the key free or makes it last.
\* (This does not need the timeout to be short.)
THEOREM GuardsTakenApart == Spec => TakenApart
<1>1. Init => IdemKept
  BY DEF Init, IdemKept
<1>2. TypeOK /\ KeysDue /\ IdemKept /\ [Next]_vars =>
        IdemKept' /\ [\A o \in Op : taken'[o] # taken[o] /\ taken[o] # 0 =>
                          taken'[o] >= taken[o] + Expire]_vars
  <2> SUFFICES ASSUME TypeOK, KeysDue, IdemKept, [Next]_vars, NEW o \in Op
               PROVE  /\ taken'[o] # 0 /\ idem'[o] = 0 => now' >= taken'[o] + Expire
                      /\ taken'[o] # taken[o] /\ taken[o] # 0 => taken'[o] >= taken[o] + Expire
    BY DEF IdemKept
  <2> USE GuardsTyped
  <2>0. /\ now \in Nat \ {0} /\ idem \in [Op -> Nat] /\ taken \in [Op -> 0..now] /\ Expire \in Nat \ {0}
        /\ taken[o] \in Nat
    BY DEF TypeOK
  <2>a. taken[o] # 0 /\ idem[o] = 0 => now >= taken[o] + Expire
    BY DEF IdemKept
  <2>1. CASE now' = now /\ UNCHANGED <<idem, taken>>
    BY <2>1, <2>a
  <2>2. ASSUME NEW d \in Delivery, Idempotency(d) PROVE
           \/ now' = now /\ UNCHANGED <<idem, taken>>
           \/ /\ now' = now /\ idem[OpOf[of[d]]] = 0
              /\ idem' = [idem EXCEPT ![OpOf[of[d]]] = now + Expire]
              /\ taken' = [taken EXCEPT ![OpOf[of[d]]] = now]
    BY <2>2 DEF Idempotency
  <2>3. ASSUME NEW p, now' = now, idem[p] = 0,
               idem' = [idem EXCEPT ![p] = now + Expire], taken' = [taken EXCEPT ![p] = now]
        PROVE  /\ taken'[o] # 0 /\ idem'[o] = 0 => now' >= taken'[o] + Expire
               /\ taken'[o] # taken[o] /\ taken[o] # 0 => taken'[o] >= taken[o] + Expire
    <3>1. CASE p = o
      BY <2>0, <2>3, <2>a, <3>1
    <3>2. CASE p # o
      BY <2>0, <2>3, <2>a, <3>2
    <3> QED BY <3>1, <3>2
  <2>4. ASSUME NEW p \in Op, ExpireIdem(p)
        PROVE  /\ now' = now /\ taken' = taken /\ idem[p] = now /\ idem[p] # 0
               /\ idem' = [idem EXCEPT ![p] = 0]
    BY <2>4 DEF ExpireIdem
  <2>5. ASSUME NEW p \in Op, ExpireIdem(p)
        PROVE  /\ taken'[o] # 0 /\ idem'[o] = 0 => now' >= taken'[o] + Expire
               /\ taken'[o] # taken[o] /\ taken[o] # 0 => taken'[o] >= taken[o] + Expire
    <3>1. CASE p = o
      <4>1. idem[o] = taken[o] + Expire
        BY <2>4, <2>5, <3>1 DEF KeysDue
      <4> QED BY <2>0, <2>4, <2>5, <3>1, <4>1
    <3>2. CASE p # o
      <4>1. idem'[o] = idem[o] /\ taken'[o] = taken[o] /\ now' = now
        BY <2>0, <2>4, <2>5, <3>2
      <4> QED BY <2>a, <4>1
    <3> QED BY <3>1, <3>2
  <2>6. CASE Tick
    <3>1. now' = now + 1 /\ UNCHANGED <<idem, taken>>
      BY <2>6 DEF Tick
    <3> QED BY <2>0, <2>a, <3>1
  <2>7. CASE UNCHANGED vars
    BY <2>1, <2>7 DEF vars
  <2>8. ASSUME NEW d \in Delivery,
               (\E m \in Message : Deliver(d, m)) \/ Unguarded(d) \/ SignTime(d) \/ MarkNonceUsed(d) \/ Drop(d)
        PROVE  now' = now /\ UNCHANGED <<idem, taken>>
    BY <2>8 DEF Deliver, Unguarded, SignTime, MarkNonceUsed, Drop
  <2>9. ASSUME NEW m \in Message, ExpireNonce(m) PROVE now' = now /\ UNCHANGED <<idem, taken>>
    BY <2>9 DEF ExpireNonce
  <2>10. ASSUME NEW d \in Delivery, Idempotency(d)
         PROVE  /\ taken'[o] # 0 /\ idem'[o] = 0 => now' >= taken'[o] + Expire
                /\ taken'[o] # taken[o] /\ taken[o] # 0 => taken'[o] >= taken[o] + Expire
    BY <2>1, <2>2, <2>3, <2>10
  <2> QED BY <2>1, <2>5, <2>6, <2>7, <2>8, <2>9, <2>10 DEF Next
<1>3. IInv => TypeOK /\ KeysDue
  BY DEF IInv
<1> QED BY <1>1, <1>2, <1>3, IInvHolds, PTL DEF Spec, TakenApart
=============================================================================
