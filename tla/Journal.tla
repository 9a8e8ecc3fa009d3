-------------------------------- MODULE Journal --------------------------------
(***************************************************************************)
(* What the ledger promises, without requests, locks or tables: accounts   *)
(* that are open or closed, a balance that only postings move, and a set   *)
(* of business numbers each of which is posted at most once.               *)
(***************************************************************************)
EXTENDS Integers

CONSTANTS Account, BusinessNo, Booking(_, _)
    \* Booking(no, x): the amounts number no may book on account x

VARIABLES open, bal, posted

jvars == <<open, bal, posted>>

JInit ==
    /\ open = [x \in Account |-> FALSE]
    /\ bal = [x \in Account |-> 0]
    /\ posted = {}

\* One posting: the number is new, the amount is the one the number stands
\* for, and the account does not go below zero.  A deposit may open the
\* account it is posted on.
Post(no, x, n) ==
    /\ no \notin posted
    /\ n \in Booking(no, x)
    /\ bal[x] + n >= 0
    /\ bal' = [bal EXCEPT ![x] = @ + n]
    /\ posted' = posted \cup {no}
    /\ \/ open[x] /\ UNCHANGED open
       \/ no[1] = "deposit" /\ open' = [open EXCEPT ![x] = TRUE]

\* Accounts are opened empty, and closed whatever they hold.
Open(X) ==
    /\ \A x \in X : ~open[x]
    /\ open' = [x \in Account |-> open[x] \/ x \in X]
    /\ UNCHANGED <<bal, posted>>

Close(X) ==
    /\ open' = [x \in Account |-> open[x] /\ x \notin X]
    /\ bal' = [x \in Account |-> IF x \in X THEN 0 ELSE bal[x]]
    /\ UNCHANGED posted

JNext ==
    \/ \E no \in BusinessNo, x \in Account : \E n \in Booking(no, x) : Post(no, x, n)
    \/ \E X \in SUBSET Account : Open(X) \/ Close(X)

JSpec == JInit /\ [][JNext]_jvars
=============================================================================
