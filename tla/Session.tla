-------------------------------- MODULE Session --------------------------------
(***************************************************************************)
(* Login sessions.  A login is a signed token, which says itself when it   *)
(* expires, and a Redis hash token:<client>:<user>[:<device>] with the     *)
(* fields token, activeTimeout, currentTime and loginInfoId.               *)
(*                                                                         *)
(* SetToken writes the fields one by one, in the random order Go ranges    *)
(* over a map, and gives the hash its expiry last; CheckToken reads them   *)
(* one by one and writes currentTime back; logout and the forced logout of *)
(* the online page delete the hash.  Each Redis command is a step.         *)
(* With MultipleLoginDevices off every login of a user has the same key.   *)
(***************************************************************************)
EXTENDS Integers

CONSTANTS
    Token,          \* tokens a login may be given
    Key,            \* Redis keys
    KeyOf,          \* the key a token's login writes
    Client,         \* requests that may be in flight together
    None,           \* a field the hash does not have; no expiry
    ActiveTimeout,  \* sys_client.active_timeout; 0 or less: a session may be idle
    Ttl,            \* sys_client.timeout, of the token and of the hash
    MaxTime,        \* bound of the clock
    Faults          \* whether a command may fail or the server stop

ASSUME TimesTyped ==
    /\ ActiveTimeout \in Int /\ Ttl \in Nat \ {0} /\ MaxTime \in Nat \ {0}
    /\ KeyOf \in [Token -> Key]
    /\ None \notin Token \cup Int
    /\ Faults \in BOOLEAN

VARIABLES
    now,            \* the clock, in seconds
    hash,           \* Key -> the Redis hash
    until,          \* Key -> when the hash expires
    exp,            \* Token -> when the token itself expires; None: not made yet
    given,          \* tokens a login has answered with
    req,            \* Client -> the request being served
    ended,          \* history: tokens a logout or a later login has ended
    active          \* history: Key -> the last login or accepted check

vars == <<now, hash, until, exp, given, req, ended, active>>

Times == 1..MaxTime
Fields == {"token", "loginInfoId", "currentTime", "activeTimeout"}
NoHash == [f \in Fields |-> None]
Exists(k) == hash[k] # NoHash

\* at is the time a login writes or a check read; todo what a login has to
\* write, older (history) the tokens of its key given out before it; late
\* (history) whether the token's session had ended when the check began.
At(pc, t, k, n, late, F, O) ==
    [pc |-> pc, tok |-> t, key |-> k, at |-> n, late |-> late, todo |-> F, older |-> O]
Idle == At("idle", None, None, None, FALSE, {}, {})
Pc == {"idle", "login", "token", "time", "timeout", "refresh"}
Request == [pc : Pc, tok : Token \cup {None}, key : Key \cup {None}, at : Int \cup {None},
            late : BOOLEAN, todo : SUBSET Fields, older : SUBSET Token]

Goto(c, pc) == req' = [req EXCEPT ![c].pc = pc]
Finish(c)   == req' = [req EXCEPT ![c] = Idle]
Set(k, f, v) == hash' = [hash EXCEPT ![k][f] = v]
Del(k) == /\ hash' = [hash EXCEPT ![k] = NoHash]
          /\ until' = [until EXCEPT ![k] = None]

-----------------------------------------------------------------------------
(* Login: pcLogin and SetToken *)

\* Request c is the login of token t.
LoggingIn(c, t) == req[c].pc = "login" /\ req[c].tok = t

\* The history of a request whose token a login makes again.
Again(r, t) == At(r.pc, r.tok, r.key, r.at, r.late /\ r.tok # t, r.todo, r.older \ {t})

\* A token is the user, the device and the second it expires, signed: a login of
\* the device in the same second makes it again, and starts its session again.
\* The fields are computed before the first HSET.
Login(c, t) ==
    LET older == {u \in given : u # t /\ KeyOf[u] = KeyOf[t] /\ \A d \in Client : ~LoggingIn(d, u)}
    IN  /\ req[c].pc = "idle"
        /\ exp[t] \in {None, now + Ttl}
        /\ exp' = [exp EXCEPT ![t] = now + Ttl]
        /\ req' = [d \in Client |-> IF d = c THEN At("login", t, KeyOf[t], now, FALSE, Fields, older)
                                    ELSE Again(req[d], t)]
        /\ ended' = ended \ {t}
        /\ UNCHANGED <<now, hash, until, given, active>>

\* HSET of one of the fields.
SetField(c, f) ==
    /\ req[c].pc = "login"
    /\ f \in req[c].todo
    /\ Set(req[c].key, f, CASE f = "token" -> req[c].tok
                            [] f = "loginInfoId" -> req[c].tok
                            [] f = "currentTime" -> req[c].at
                            [] f = "activeTimeout" -> ActiveTimeout)
    /\ req' = [req EXCEPT ![c].todo = @ \ {f}]
    /\ active' = [active EXCEPT ![req[c].key] = IF f = "currentTime" THEN now ELSE @]
    /\ UNCHANGED <<now, until, exp, given, ended>>

\* EXPIRE, and the answer that gives the token to the user.
SetExpire(c) ==
    LET k == req[c].key
    IN  /\ req[c].pc = "login"
        /\ req[c].todo = {}
        /\ until' = [until EXCEPT ![k] = IF Exists(k) THEN now + Ttl ELSE None]
        /\ given' = given \cup {req[c].tok}
        /\ ended' = ended \cup req[c].older
        /\ Finish(c)
        /\ UNCHANGED <<now, hash, exp, active>>

-----------------------------------------------------------------------------
(* ExecHandle: AnalyseToken and CheckToken *)

Valid(t) == exp[t] # None /\ now < exp[t]

\* EXISTS.  k is the key of the device the request comes from.
CheckExists(c, t, k) ==
    /\ req[c].pc = "idle"
    /\ t \in given /\ Valid(t)
    /\ Exists(k)
    /\ req' = [req EXCEPT ![c] = At("token", t, k, None, t \in ended, {}, {})]
    /\ UNCHANGED <<now, hash, until, exp, given, ended, active>>

\* Mutant: any token will do where there is a session.
CheckTokenAny(c) ==
    /\ req[c].pc = "token"
    /\ IF hash[req[c].key]["token"] # None THEN Goto(c, "time") ELSE Finish(c)
    /\ UNCHANGED <<now, hash, until, exp, given, ended, active>>

\* HGET token; a missing field is an error, another token is refused.
CheckToken(c) ==
    /\ req[c].pc = "token"
    /\ IF hash[req[c].key]["token"] = req[c].tok THEN Goto(c, "time") ELSE Finish(c)
    /\ UNCHANGED <<now, hash, until, exp, given, ended, active>>

\* HGET currentTime
CheckTime(c) ==
    LET cur == hash[req[c].key]["currentTime"]
    IN  /\ req[c].pc = "time"
        /\ IF cur = None THEN Finish(c)
           ELSE req' = [req EXCEPT ![c] = At("timeout", @.tok, @.key, cur, @.late, {}, {})]
        /\ UNCHANGED <<now, hash, until, exp, given, ended, active>>

\* Mutant: the session is refreshed without asking how long it was idle.
CheckTimeoutNot(c) ==
    /\ req[c].pc = "timeout"
    /\ req' = [req EXCEPT ![c] = At("refresh", @.tok, @.key, now, @.late, {}, {})]
    /\ UNCHANGED <<now, hash, until, exp, given, ended, active>>

\* Mutant: currentTime becomes the end of the window.
CheckTimeoutEnd(c) ==
    LET act == hash[req[c].key]["activeTimeout"]
    IN  /\ req[c].pc = "timeout"
        /\ IF act = None \/ (req[c].at > 0 /\ act > 0 /\ now > req[c].at + act)
             THEN Finish(c)
             ELSE req' = [req EXCEPT ![c] = At("refresh", @.tok, @.key, now + act, @.late, {}, {})]
        /\ UNCHANGED <<now, hash, until, exp, given, ended, active>>

\* HGET activeTimeout and the comparison; the session was idle for too long, or
\* it will be refreshed at the time just taken.
CheckTimeout(c) ==
    LET act == hash[req[c].key]["activeTimeout"]
    IN  /\ req[c].pc = "timeout"
        /\ IF act = None \/ (req[c].at > 0 /\ act > 0 /\ now > req[c].at + act)
             THEN Finish(c)
             ELSE req' = [req EXCEPT ![c] = At("refresh", @.tok, @.key, now, @.late, {}, {})]
        /\ UNCHANGED <<now, hash, until, exp, given, ended, active>>

\* HSET currentTime, and the handler runs.
Refresh(c) ==
    LET k == req[c].key
    IN  /\ req[c].pc = "refresh"
        /\ Set(k, "currentTime", req[c].at)
        /\ active' = [active EXCEPT ![k] = now]
        /\ Finish(c)
        /\ UNCHANGED <<now, until, exp, given, ended>>

-----------------------------------------------------------------------------
(* Logout and Offline: both delete the key the token names *)

\* The online page lists a session as soon as its token and its login are
\* written.
Listed(t) == hash[KeyOf[t]]["token"] = t /\ hash[KeyOf[t]]["loginInfoId"] # None

\* Mutant: the session is only taken off the online page.
LogoutField(t) ==
    /\ Valid(t)
    /\ t \in given \/ Listed(t)
    /\ Set(KeyOf[t], "loginInfoId", None)
    /\ ended' = ended \cup {u \in {t} : \A c \in Client : ~LoggingIn(c, u)}
    /\ UNCHANGED <<now, until, exp, given, req, active>>

\* With the token the user was given, or one the online page lists.  It ends the
\* session, unless a login that makes the same token is still under way.
Logout(t) ==
    /\ Valid(t)
    /\ t \in given \/ Listed(t)
    /\ Del(KeyOf[t])
    /\ ended' = ended \cup {u \in {t} : \A c \in Client : ~LoggingIn(c, u)}
    /\ UNCHANGED <<now, exp, given, req, active>>

-----------------------------------------------------------------------------
\* A failing command ends the handler; so does a server that stops.
Fail(c) ==
    /\ Faults
    /\ req[c].pc # "idle"
    /\ Finish(c)
    /\ UNCHANGED <<now, hash, until, exp, given, ended, active>>

\* Redis removes what expires.
Tick ==
    LET over(k) == until[k] # None /\ until[k] <= now + 1
    IN  /\ now < MaxTime
        /\ now' = now + 1
        /\ hash' = [k \in Key |-> IF over(k) THEN NoHash ELSE hash[k]]
        /\ until' = [k \in Key |-> IF over(k) THEN None ELSE until[k]]
        /\ UNCHANGED <<exp, given, req, ended, active>>

Init ==
    /\ now = 1
    /\ hash = [k \in Key |-> NoHash]
    /\ until = [k \in Key |-> None]
    /\ exp = [t \in Token |-> None]
    /\ given = {}
    /\ req = [c \in Client |-> Idle]
    /\ ended = {}
    /\ active = [k \in Key |-> 0]

Next ==
    \/ \E c \in Client :
        \/ \E t \in Token : Login(c, t)
        \/ \E f \in Fields : SetField(c, f)
        \/ SetExpire(c)
        \/ \E t \in Token, k \in Key : CheckExists(c, t, k)
        \/ CheckToken(c) \/ CheckTime(c) \/ CheckTimeout(c) \/ Refresh(c)
        \/ Fail(c)
    \/ \E t \in Token : Logout(t)
    \/ Tick

Spec == Init /\ [][Next]_vars

-----------------------------------------------------------------------------
(* Properties *)

\* Every variable keeps its type; no time written or read lies ahead.
TypeOK ==
    /\ now \in Times
    /\ hash \in [Key -> [Fields -> Token \cup Int \cup {None}]]
    /\ \A k \in Key :
        /\ hash[k]["token"] \in Token \cup {None} /\ hash[k]["loginInfoId"] \in Token \cup {None}
        /\ hash[k]["currentTime"] \in 1..now \cup {None}
        /\ hash[k]["activeTimeout"] \in {ActiveTimeout, None}
    /\ until \in [Key -> Int \cup {None}]
    /\ exp \in [Token -> Int \cup {None}]
    /\ given \subseteq Token /\ ended \subseteq Token
    /\ req \in [Client -> Request]
    /\ \A c \in Client : req[c].pc # "idle" =>
        /\ req[c].tok \in Token /\ req[c].key \in Key
        /\ req[c].pc \in {"login", "timeout", "refresh"} => req[c].at \in 1..now
    /\ active \in [Key -> 0..now]

\* Once a session has ended, by a logout, by a forced logout or because a later
\* login with the same key was answered, no check that begins afterwards
\* accepts its token until a login makes it again, whatever half-done logins and
\* checks of that key still write.  With MultipleLoginDevices off this is what
\* keeps an account to one device.
EndedStaysOut == \A c \in Client : req[c].late => req[c].pc \in {"idle", "token"}

\* Where the client has an active timeout, a check accepts a token only if the
\* session was used, by a login or an accepted check, at most that long before:
\* currentTime, which several checks write back late and out of order, is never
\* ahead of the last use.
IdleSessionsEnd == [][\A c \in Client :
    ActiveTimeout > 0 /\ req[c].pc = "timeout" /\ req'[c].pc = "refresh" =>
        now <= active[req[c].key] + ActiveTimeout]_vars

-----------------------------------------------------------------------------
(* The inductive invariants behind EndedStaysOut and IdleSessionsEnd *)

\* A login and the token in a hash belong to the key.
LoginsInPlace ==
    /\ \A c \in Client : req[c].pc = "login" =>
        /\ req[c].key = KeyOf[req[c].tok]
        /\ \A u \in req[c].older : u \in Token /\ KeyOf[u] = req[c].key
    /\ \A k \in Key : \A t \in Token : hash[k]["token"] = t => KeyOf[t] = k

\* A login that wrote its token has driven the older ones out for good.
OlderDrivenOut == \A c \in Client : req[c].pc = "login" =>
    /\ \A u \in req[c].older : \A d \in Client : ~LoggingIn(d, u)
    /\ "token" \notin req[c].todo => hash[req[c].key]["token"] \notin req[c].older

\* The token of an ended session is in no hash and nobody will write it.
EndedIsGone == \A t \in ended :
    /\ hash[KeyOf[t]]["token"] # t
    /\ \A c \in Client : ~LoggingIn(c, t)

\* A check that began late is refused because its token is still ended.
LateIsEnded == \A c \in Client : req[c].pc = "token" /\ req[c].late => req[c].tok \in ended

SessionInv == LoginsInPlace /\ OlderDrivenOut /\ EndedIsGone /\ LateIsEnded /\ EndedStaysOut

\* currentTime, in the hash or read from it, is not ahead of the last use.
NotAhead ==
    /\ \A k \in Key : hash[k]["currentTime"] # None => hash[k]["currentTime"] <= active[k]
    /\ \A c \in Client : req[c].pc = "timeout" => req[c].at <= active[req[c].key]
=============================================================================
