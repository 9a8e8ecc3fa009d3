--------------------------------- MODULE Guards ---------------------------------
(***************************************************************************)
(* What stands between a request and its handler: the idempotency          *)
(* middleware, which takes a Redis key for the operation, and the          *)
(* signature middleware, which looks at the timestamp and takes a key for  *)
(* the nonce.  Clients and proxies send a request again, servers share the *)
(* keys, an answer of Redis may be lost after the command took effect, and *)
(* keys expire while requests are under way.                               *)
(*                                                                         *)
(* Time is counted in whole seconds, on one clock for Redis and the        *)
(* servers; the client's clock, which makes the timestamp, may be off.     *)
(* Handlers run under the context of the request, which ends Timeout after *)
(* the request arrived: after that their statements fail.                  *)
(***************************************************************************)
EXTENDS Integers

CONSTANTS
    Op,         \* what makes the idempotency key: owner, method, path and body or header
    Message,    \* requests as the client wrote them, with timestamp and nonce
    OpOf,       \* Message -> Op; a client that signs anew makes another message
    Keyed,      \* operations the idempotency middleware keeps a key for
    Signed,     \* operations whose route has the signature middleware
    Delivery,   \* requests under way
    Stamps,     \* timestamps a message may carry
    Expire,     \* Idempotency.ExpireSeconds
    Window,     \* signWindowSeconds
    Timeout,    \* RestConf.Timeout
    MaxTime,    \* bound: the clock
    None        \* no message

ASSUME GuardsTyped ==
    /\ OpOf \in [Message -> Op] /\ Keyed \subseteq Op /\ Signed \subseteq Op
    /\ Stamps \subseteq Int /\ None \notin Message
    /\ Expire \in Nat \ {0} /\ Window \in Nat \ {0} /\ Timeout \in Nat /\ MaxTime \in Nat

\* 3 seconds unless RestConf says otherwise, against 10.
ASSUME TimeoutShort == Timeout < Expire

VARIABLES
    now,        \* the clock
    stamp,      \* Message -> X-Timestamp
    idem,       \* Op -> when the key idempotency:* expires; 0: there is none
    nonce,      \* Message -> when the key sign:nonce:* expires; 0: there is none
    pc,         \* Delivery -> what it comes to next
    of,         \* Delivery -> the message
    at,         \* Delivery -> when it arrived
    taken,      \* history: Op -> when its key was taken last
    marked      \* history: Message -> when its nonce was marked last

vars == <<now, stamp, idem, nonce, pc, of, at, taken, marked>>

\* The context of the request has not ended.
Alive(d) == now <= at[d] + Timeout

\* The request goes on; or it ends, and its place is free for another.
Goto(d, to) == pc' = [pc EXCEPT ![d] = to] /\ UNCHANGED <<of, at>>
End(d) ==
    /\ pc' = [pc EXCEPT ![d] = "idle"]
    /\ of' = [of EXCEPT ![d] = None]
    /\ at' = [at EXCEPT ![d] = 0]
Distance(t, u) == IF t > u THEN t - u ELSE u - t

-----------------------------------------------------------------------------
\* Mutant: the client's timestamp is taken for the time of arrival.
DeliverStamped(d, m) ==
    /\ pc[d] = "idle"
    /\ pc' = [pc EXCEPT ![d] = "idempotency"]
    /\ of' = [of EXCEPT ![d] = m]
    /\ at' = [at EXCEPT ![d] = stamp[m]]
    /\ UNCHANGED <<now, stamp, idem, nonce, taken, marked>>

\* A message arrives, for the first time or once more.
Deliver(d, m) ==
    /\ pc[d] = "idle"
    /\ pc' = [pc EXCEPT ![d] = "idempotency"]
    /\ of' = [of EXCEPT ![d] = m]
    /\ at' = [at EXCEPT ![d] = now]
    /\ UNCHANGED <<now, stamp, idem, nonce, taken, marked>>

\* After the idempotency middleware: the route's own.
Onward(d) == IF OpOf[of[d]] \in Signed THEN "sign" ELSE "handler"

\* Disabled, a read, an excluded path, a multipart or oversized body: no key.
Unguarded(d) ==
    /\ pc[d] = "idempotency" /\ OpOf[of[d]] \notin Keyed
    /\ Goto(d, Onward(d))
    /\ UNCHANGED <<now, stamp, idem, nonce, taken, marked>>

\* SetnxExCtx takes the key of the operation, or finds it taken; if its answer is
\* lost the request ends all the same.
Idempotency(d) ==
    LET o == OpOf[of[d]]
    IN  /\ pc[d] = "idempotency" /\ o \in Keyed /\ Alive(d)
        /\ IF idem[o] = 0
             THEN /\ idem' = [idem EXCEPT ![o] = now + Expire]
                  /\ taken' = [taken EXCEPT ![o] = now]
                  /\ Goto(d, Onward(d)) \/ End(d)
             ELSE End(d) /\ UNCHANGED <<idem, taken>>
        /\ UNCHANGED <<now, stamp, nonce, marked>>

\* Mutant: only timestamps ahead of the clock are refused.
SignTimeAhead(d) ==
    /\ pc[d] = "sign"
    /\ IF stamp[of[d]] - now > Window THEN End(d) ELSE Goto(d, "nonce")
    /\ UNCHANGED <<now, stamp, idem, nonce, taken, marked>>

\* The timestamp lies within the window.  (The secret is read and the signature
\* compared after that; either may end the request, see Drop.)
SignTime(d) ==
    /\ pc[d] = "sign"
    /\ IF Distance(now, stamp[of[d]]) > Window THEN End(d) ELSE Goto(d, "nonce")
    /\ UNCHANGED <<now, stamp, idem, nonce, taken, marked>>

\* Mutant: the nonce is marked for one second less.
MarkNonceUsedBriefly(d) ==
    LET m == of[d]
    IN  /\ pc[d] = "nonce" /\ Alive(d)
        /\ IF nonce[m] = 0
             THEN /\ nonce' = [nonce EXCEPT ![m] = now + Window - 1]
                  /\ marked' = [marked EXCEPT ![m] = now]
                  /\ Goto(d, "handler") \/ End(d)
             ELSE End(d) /\ UNCHANGED <<nonce, marked>>
        /\ UNCHANGED <<now, stamp, idem, taken>>

\* markNonceUsed: SetnxExCtx again, for the nonce.
MarkNonceUsed(d) ==
    LET m == of[d]
    IN  /\ pc[d] = "nonce" /\ Alive(d)
        /\ IF nonce[m] = 0
             THEN /\ nonce' = [nonce EXCEPT ![m] = now + Window]
                  /\ marked' = [marked EXCEPT ![m] = now]
                  /\ Goto(d, "handler") \/ End(d)
             ELSE End(d) /\ UNCHANGED <<nonce, marked>>
        /\ UNCHANGED <<now, stamp, idem, taken>>

\* Mutant: the key of the operation is given back when the request ends.
DropAndRelease(d) ==
    /\ pc[d] # "idle"
    /\ End(d)
    /\ idem' = [idem EXCEPT ![OpOf[of[d]]] = 0]
    /\ UNCHANGED <<now, stamp, nonce, taken, marked>>

\* The request ends: the handler returns, a middleware between refuses, Redis
\* fails, the server stops.  Neither key is given back.
Drop(d) ==
    /\ pc[d] # "idle"
    /\ End(d)
    /\ UNCHANGED <<now, stamp, idem, nonce, taken, marked>>

-----------------------------------------------------------------------------
(* Redis and the clock.  A key taken within a second expires within another *)

ExpireIdem(o) ==
    /\ idem[o] # 0 /\ idem[o] = now
    /\ idem' = [idem EXCEPT ![o] = 0]
    /\ UNCHANGED <<now, stamp, nonce, pc, of, at, taken, marked>>

ExpireNonce(m) ==
    /\ nonce[m] # 0 /\ nonce[m] = now
    /\ nonce' = [nonce EXCEPT ![m] = 0]
    /\ UNCHANGED <<now, stamp, idem, pc, of, at, taken, marked>>

Tick ==
    /\ now < MaxTime
    /\ \A o \in Op : idem[o] # now
    /\ \A m \in Message : nonce[m] # now
    /\ now' = now + 1
    /\ UNCHANGED <<stamp, idem, nonce, pc, of, at, taken, marked>>

Init ==
    /\ now = 1
    /\ stamp \in [Message -> Stamps]
    /\ idem = [o \in Op |-> 0]
    /\ nonce = [m \in Message |-> 0]
    /\ pc = [d \in Delivery |-> "idle"]
    /\ of = [d \in Delivery |-> None]
    /\ at = [d \in Delivery |-> 0]
    /\ taken = [o \in Op |-> 0]
    /\ marked = [m \in Message |-> 0]

Next ==
    \/ \E d \in Delivery :
        \/ \E m \in Message : Deliver(d, m)
        \/ Unguarded(d) \/ Idempotency(d) \/ SignTime(d) \/ MarkNonceUsed(d) \/ Drop(d)
    \/ \E o \in Op : ExpireIdem(o)
    \/ \E m \in Message : ExpireNonce(m)
    \/ Tick

Spec == Init /\ [][Next]_vars

-----------------------------------------------------------------------------
(* Properties *)

\* Every variable keeps its type, and nothing was done in the future.
TypeOK ==
    /\ now \in Nat \ {0} /\ stamp \in [Message -> Int]
    /\ idem \in [Op -> Nat] /\ nonce \in [Message -> Nat]
    /\ pc \in [Delivery -> {"idle", "idempotency", "sign", "nonce", "handler"}]
    /\ \A d \in Delivery : IF pc[d] = "idle" THEN of[d] = None ELSE of[d] \in Message
    /\ of \in [Delivery -> Message \cup {None}] /\ at \in [Delivery -> 0..now]
    /\ taken \in [Op -> 0..now] /\ marked \in [Message -> 0..now]

InHandler(d) == pc[d] = "handler" /\ Alive(d)

\* However often and however late an operation is sent again, on whichever
\* server: while one of its handlers can still write, no other can.  The key is
\* not given back, and outlives the context of the request that took it.
OneHandler == \A d, e \in Delivery :
    /\ InHandler(d) /\ InHandler(e)
    /\ OpOf[of[d]] = OpOf[of[e]] /\ OpOf[of[d]] \in Keyed
    => d = e

\* A signed message that was delayed on its way, or in the middlewares, has no
\* effect later than its window and one timeout allow.
NoLateEffect == \A d \in Delivery :
    InHandler(d) /\ OpOf[of[d]] \in Signed => now <= stamp[of[d]] + Window + Timeout

\* A retry is not refused for ever: however many were refused in between, a key
\* is gone when Expire or Window have passed since it was taken.
KeysRunOut ==
    /\ \A o \in Op : idem[o] # 0 => now <= taken[o] + Expire
    /\ \A m \in Message : nonce[m] # 0 => now <= marked[m] + Window

Through(d) == pc[d] = "nonce" /\ pc'[d] = "handler"
RepeatYoung == \A d \in Delivery :
    Through(d) /\ marked[of[d]] # 0 =>
        /\ marked[of[d]] <= stamp[of[d]] + Timeout
        /\ now >= marked[of[d]] + Window

\* A message reaches its handler a second time only if it was marked young, within
\* one timeout of its timestamp or before it (a client whose clock is ahead), and
\* a whole window ago: the nonce is kept as long as the window is wide, and not
\* as long as a timestamp may be acceptable.
RepeatsOnlyYoung == [][RepeatYoung]_vars
=============================================================================
