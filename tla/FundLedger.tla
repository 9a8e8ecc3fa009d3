------------------------------ MODULE FundLedger ------------------------------
(***************************************************************************)
(* The money tables of the member back office and the requests that change *)
(* them: deposits (fb_deposits), withdrawals (fb_withdraws), wallet        *)
(* applications (fb_account_application), wallets (fb_user_wallets) and    *)
(* the statement (fb_account_flow_records).                                *)
(*                                                                         *)
(* A request is a go-zero handler goroutine.  A handler that opens a       *)
(* transaction holds the row locks of its SELECT ... FOR UPDATE from the   *)
(* read to the commit; a handler that does not reads the row first and     *)
(* updates it later.  Each lock acquisition, each unlocked read and each   *)
(* commit is a step, so requests interleave exactly where MySQL lets them. *)
(* What a transaction wrote becomes visible in its commit step.            *)
(***************************************************************************)
EXTENDS Integers, Sequences

CONSTANTS
    Admin,          \* back-office requests that may be in flight together
    Account,        \* wallet keys: (user_id, account_type, currency)
    Deposit,        \* rows of fb_deposits
    Withdraw,       \* rows of fb_withdraws
    App,            \* rows of fb_account_application
    AccountOf,      \* the wallet an order is booked on
    AmountOf,       \* the amount of an order, in cents
    WalletsOf,      \* the wallets an application opens
    Adjustment,     \* amounts an administrator adds (> 0) or takes (< 0)
    Generated,      \* numbers genWalletBusinessNo may draw; bounds the adjustments
    NoOrder,        \* obj of a request that works on no order row
    NoAccount,      \* acct of a request that works on no wallet
    MaxGen          \* bound: wallets of one key created by deletion

Order == Deposit \cup Withdraw
Row   == Order \cup App

ASSUME OrdersDisjoint ==
    /\ Deposit \cap Withdraw = {}
    /\ Order \cap App = {}
    /\ NoOrder \notin Row
    /\ NoAccount \notin Account

ASSUME OrdersTyped ==
    /\ AccountOf \in [Order -> Account]
    /\ AmountOf \in [Order -> Nat \ {0}]
    /\ WalletsOf \in [App -> SUBSET Account]
    /\ Adjustment \subseteq Int \ {0}
    /\ MaxGen \in Nat

VARIABLES
    wallet,         \* Account -> wallet row
    flow,           \* fb_account_flow_records in insertion order
    status,         \* Row -> status column
    req             \* Admin -> the request it is serving

vars == <<wallet, flow, status, req>>

-----------------------------------------------------------------------------
(* Rows and requests *)

\* gen numbers the rows a key has had: it stands for the AUTO_INCREMENT id.
WalletRow == [live: BOOLEAN, gen: Nat, bal: Int, frozen: BOOLEAN]
NoWallet  == [live |-> FALSE, gen |-> 0, bal |-> 0, frozen |-> FALSE]

\* The row createWalletTx inserts on key x; a row deleted, with its frozen flag
\* changed, with a new balance.
NewWallet(x) == [live |-> TRUE, gen |-> wallet[x].gen + 1, bal |-> 0, frozen |-> FALSE]
Deleted(row) == [live |-> FALSE, gen |-> row.gen, bal |-> 0, frozen |-> FALSE]
Toggled(row) == [live |-> row.live, gen |-> row.gen, bal |-> row.bal, frozen |-> ~row.frozen]
WithBalance(row, b) == [live |-> row.live, gen |-> row.gen, bal |-> b, frozen |-> row.frozen]

\* The business_no of a statement line: the order number, or the order number
\* with the refund suffix, or a generated number.
DepositNo(d)  == <<"deposit", d>>
RefundNo(w)   == <<"refund", w>>
WithdrawNo(w) == <<"withdraw", w>>
AdjustNo(g)   == <<"adjust", g>>
BusinessNo    == ({"deposit"} \X Deposit) \cup ({"refund", "withdraw"} \X Withdraw)
                    \cup ({"adjust"} \X Generated)

FlowLine == [no: BusinessNo, acct: Account, gen: Nat, before: Int, amt: Int, after: Int]

Pc == {"idle", "creditWallet", "creditCommit", "cancelWrite", "payWrite",
       "refundWallet", "refundCommit", "adjustCommit", "openCommit"}

\* seen is the wallet row the request read under its lock, need the wallets
\* an approval found missing.
Request == [pc: Pc, obj: Row \cup {NoOrder}, acct: Account \cup {NoAccount},
            amt: Int, seen: WalletRow, need: SUBSET Account]
At(pc, o, x, n, row, X) ==
    [pc |-> pc, obj |-> o, acct |-> x, amt |-> n, seen |-> row, need |-> X]
Idle == At("idle", NoOrder, NoAccount, 0, NoWallet, {})

Statuses == {"none", "PENDING", "REVIEWING", "SUCCESS", "CANCELLED", "REJECTED", "APPROVED"}

\* depositCanAudit
DepositCanAudit(s) == s \in {"PENDING", "REVIEWING"}

\* A statement line with this number is committed: what the COUNT(*) on
\* business_no sees, and what its unique index refuses a second time.
Posted(no) == \E i \in DOMAIN flow : flow[i].no = no

\* The statement line for amount n booked on key x whose row was read as row.
Line(no, x, row, n) ==
    [no |-> no, acct |-> x, gen |-> row.gen, before |-> row.bal, amt |-> n,
     after |-> row.bal + n]

-----------------------------------------------------------------------------
(* Row locks: held from the locking read to the end of the transaction *)

\* Mutants: the order row read without FOR UPDATE by ApproveDeposit, by
\* RejectWithdraw, by VerifyWalletApplication; the wallet row by depositCreditTx,
\* by addBalanceByUserIDTx and AddBalance.
LocksRowNotDeposit(a, o) ==
    req[a].pc \in {"refundWallet", "refundCommit", "openCommit"} /\ req[a].obj = o
LocksRowNotWithdraw(a, o) ==
    req[a].pc \in {"creditWallet", "creditCommit", "openCommit"} /\ req[a].obj = o
LocksRowNotApp(a, o) ==
    req[a].pc \in {"creditWallet", "creditCommit", "refundWallet", "refundCommit"} /\ req[a].obj = o
LocksWalletNotCredit(a, x) ==
    req[a].pc \in {"refundCommit", "adjustCommit"} /\ req[a].acct = x
LocksWalletNotAdd(a, x) ==
    req[a].pc = "creditCommit" /\ req[a].acct = x /\ req[a].seen.live

LocksRow(a, o) ==
    /\ req[a].pc \in {"creditWallet", "creditCommit", "refundWallet", "refundCommit", "openCommit"}
    /\ req[a].obj = o

LocksWallet(a, x) ==
    /\ req[a].pc \in {"creditCommit", "refundCommit", "adjustCommit"}
    /\ req[a].acct = x
    /\ req[a].seen.live

RowFree(o)    == \A a \in Admin : ~LocksRow(a, o)
WalletFree(x) == \A a \in Admin : ~LocksWallet(a, x)

\* Begin and end of a request; Finish is also what a rollback leaves.
Start(a, r) == req[a].pc = "idle" /\ req' = [req EXCEPT ![a] = r]
Finish(a)   == req' = [req EXCEPT ![a] = Idle]

-----------------------------------------------------------------------------
(* Deposits *)

\* ApproveDeposit: the locking read of the order, its status checks and the
\* duplicate check of depositCreditTx.
ApproveDeposit(a, d) ==
    /\ RowFree(d)
    /\ DepositCanAudit(status[d])
    /\ ~Posted(DepositNo(d))
    /\ Start(a, At("creditWallet", d, AccountOf[d], AmountOf[d], NoWallet, {}))
    /\ UNCHANGED <<wallet, flow, status>>

\* depositCreditTx: lockWalletByUserAccount, or the row it creates when the
\* locking read finds none; a frozen wallet rolls the transaction back.
LockCreditWallet(a) ==
    LET x == req[a].acct
    IN  /\ req[a].pc = "creditWallet"
        /\ WalletFree(x)
        /\ IF wallet[x].live /\ wallet[x].frozen
             THEN Finish(a)
             ELSE req' = [req EXCEPT ![a] = At("creditCommit", @.obj, x, @.amt, wallet[x], {})]
        /\ UNCHANGED <<wallet, flow, status>>

\* Mutant: a failed credit is logged and the order marked all the same.
CommitCreditAnyway(a) ==
    LET r   == req[a]
        row == IF r.seen.live THEN r.seen ELSE NewWallet(r.acct)
    IN  /\ r.pc = "creditCommit"
        /\ IF (wallet[r.acct].live /\ ~r.seen.live) \/ Posted(DepositNo(r.obj))
             THEN UNCHANGED <<wallet, flow>>
             ELSE /\ wallet' = [wallet EXCEPT ![r.acct] = WithBalance(row, row.bal + r.amt)]
                  /\ flow' = Append(flow, Line(DepositNo(r.obj), r.acct, row, r.amt))
        /\ status' = [status EXCEPT ![r.obj] = "SUCCESS"]
        /\ Finish(a)

\* The rest of depositCreditTx and of ApproveDeposit.  Inserting a wallet or
\* a statement line that another transaction inserted meanwhile violates a
\* unique index and rolls back.
CommitCredit(a) ==
    LET r   == req[a]
        x   == r.acct
        row == IF r.seen.live THEN r.seen ELSE NewWallet(x)
    IN  /\ r.pc = "creditCommit"
        /\ IF (wallet[x].live /\ ~r.seen.live) \/ Posted(DepositNo(r.obj))
             THEN UNCHANGED <<wallet, flow, status>>
             ELSE /\ wallet' = [wallet EXCEPT ![x] = WithBalance(row, row.bal + r.amt)]
                  /\ flow' = Append(flow, Line(DepositNo(r.obj), x, row, r.amt))
                  /\ status' = [status EXCEPT ![r.obj] = "SUCCESS"]
        /\ Finish(a)

\* RejectDeposit reads the order without a lock ...
RejectDeposit(a, d) ==
    /\ DepositCanAudit(status[d])
    /\ Start(a, At("cancelWrite", d, NoAccount, 0, NoWallet, {}))
    /\ UNCHANGED <<wallet, flow, status>>

\* Mutant: a status the other programs do not know.
CancelDepositMisspelt(a) ==
    /\ req[a].pc = "cancelWrite"
    /\ RowFree(req[a].obj)
    /\ status' = [status EXCEPT ![req[a].obj] = "CANCELED"]
    /\ Finish(a)
    /\ UNCHANGED <<wallet, flow>>

\* ... and updates it by id alone.
CancelDeposit(a) ==
    /\ req[a].pc = "cancelWrite"
    /\ RowFree(req[a].obj)
    /\ status' = [status EXCEPT ![req[a].obj] = "CANCELLED"]
    /\ Finish(a)
    /\ UNCHANGED <<wallet, flow>>

-----------------------------------------------------------------------------
(* Withdrawals *)

\* ApproveWithdraw reads the order without a lock and refuses only SUCCESS ...
ApproveWithdraw(a, w) ==
    /\ status[w] \notin {"none", "SUCCESS"}
    /\ Start(a, At("payWrite", w, NoAccount, 0, NoWallet, {}))
    /\ UNCHANGED <<wallet, flow, status>>

\* ... and updates it by id alone.
PayWithdraw(a) ==
    /\ req[a].pc = "payWrite"
    /\ RowFree(req[a].obj)
    /\ status' = [status EXCEPT ![req[a].obj] = "SUCCESS"]
    /\ Finish(a)
    /\ UNCHANGED <<wallet, flow>>

\* RejectWithdraw: the locking read, the status checks and the duplicate
\* check of addBalanceByUserIDTx.
RejectWithdraw(a, w) ==
    /\ RowFree(w)
    /\ status[w] = "PENDING"
    /\ ~Posted(RefundNo(w))
    /\ Start(a, At("refundWallet", w, AccountOf[w], AmountOf[w], NoWallet, {}))
    /\ UNCHANGED <<wallet, flow, status>>

\* Mutants: a missing wallet means there is nothing to refund; a missing wallet
\* is waited for.
LockRefundWalletOrSkip(a) ==
    LET x == req[a].acct
    IN  /\ req[a].pc = "refundWallet"
        /\ WalletFree(x)
        /\ IF wallet[x].live
             THEN /\ req' = [req EXCEPT ![a] = At("refundCommit", @.obj, x, @.amt, wallet[x], {})]
                  /\ UNCHANGED status
             ELSE /\ status' = [status EXCEPT ![req[a].obj] = "REJECTED"]
                  /\ Finish(a)
        /\ UNCHANGED <<wallet, flow>>
LockRefundWalletOrWait(a) ==
    LET x == req[a].acct
    IN  /\ req[a].pc = "refundWallet"
        /\ WalletFree(x) /\ wallet[x].live
        /\ req' = [req EXCEPT ![a] = At("refundCommit", @.obj, x, @.amt, wallet[x], {})]
        /\ UNCHANGED <<wallet, flow, status>>

\* addBalanceByUserIDTx: the wallet must exist; frozen is not looked at.
LockRefundWallet(a) ==
    LET x == req[a].acct
    IN  /\ req[a].pc = "refundWallet"
        /\ WalletFree(x)
        /\ IF wallet[x].live
             THEN req' = [req EXCEPT ![a] = At("refundCommit", @.obj, x, @.amt, wallet[x], {})]
             ELSE Finish(a)
        /\ UNCHANGED <<wallet, flow, status>>

\* The status update and the refund become visible together.
CommitRefund(a) ==
    LET r == req[a]
    IN  /\ r.pc = "refundCommit"
        /\ IF Posted(RefundNo(r.obj))
             THEN UNCHANGED <<wallet, flow, status>>
             ELSE /\ wallet' = [wallet EXCEPT ![r.acct] = WithBalance(@, r.seen.bal + r.amt)]
                  /\ flow' = Append(flow, Line(RefundNo(r.obj), r.acct, r.seen, r.amt))
                  /\ status' = [status EXCEPT ![r.obj] = "REJECTED"]
        /\ Finish(a)

-----------------------------------------------------------------------------
(* Wallets *)

\* Mutant: ReduceBalance without the balance check.
AdjustBalanceUnchecked(a, x, n) ==
    /\ wallet[x].live
    /\ WalletFree(x)
    /\ Start(a, At("adjustCommit", NoOrder, x, n, wallet[x], {}))
    /\ UNCHANGED <<wallet, flow, status>>

\* AddBalance and ReduceBalance: the locking read by wallet id and the
\* balance check.
AdjustBalance(a, x, n) ==
    /\ wallet[x].live
    /\ WalletFree(x)
    /\ n < 0 => wallet[x].bal >= -n
    /\ Start(a, At("adjustCommit", NoOrder, x, n, wallet[x], {}))
    /\ UNCHANGED <<wallet, flow, status>>

\* Mutant: no unique index on business_no.
CommitAdjustAgain(a, g) ==
    LET r == req[a]
    IN  /\ r.pc = "adjustCommit"
        /\ wallet' = [wallet EXCEPT ![r.acct] = WithBalance(@, r.seen.bal + r.amt)]
        /\ flow' = Append(flow, Line(AdjustNo(g), r.acct, r.seen, r.amt))
        /\ Finish(a)
        /\ UNCHANGED status

\* The number is drawn at random; a number drawn before rolls back.
CommitAdjust(a, g) ==
    LET r == req[a]
    IN  /\ r.pc = "adjustCommit"
        /\ IF Posted(AdjustNo(g))
             THEN UNCHANGED <<wallet, flow>>
             ELSE /\ wallet' = [wallet EXCEPT ![r.acct] = WithBalance(@, r.seen.bal + r.amt)]
                  /\ flow' = Append(flow, Line(AdjustNo(g), r.acct, r.seen, r.amt))
        /\ Finish(a)
        /\ UNCHANGED status

\* DeleteByIds: one DELETE over the listed rows, whatever they hold.
DeleteWallets(X) ==
    /\ \E x \in X : wallet[x].live
    /\ \A x \in X : WalletFree(x) /\ wallet[x].gen < MaxGen
    /\ wallet' = [x \in Account |-> IF x \in X THEN Deleted(wallet[x]) ELSE wallet[x]]
    /\ UNCHANGED <<flow, status, req>>

\* VerifyWalletApplication, approving: the locking read of the application and
\* the COUNT(*) of each ensureWalletTx.
ApproveApp(a, p) ==
    /\ RowFree(p)
    /\ status[p] = "PENDING"
    /\ Start(a, At("openCommit", p, NoAccount, 0, NoWallet,
                   {x \in WalletsOf[p] : ~wallet[x].live}))
    /\ UNCHANGED <<wallet, flow, status>>

\* createWalletTx for every missing wallet, then the audit columns; a wallet
\* created meanwhile violates the unique key and rolls everything back.
CommitOpen(a) ==
    LET r == req[a]
    IN  /\ r.pc = "openCommit"
        /\ IF \E x \in r.need : wallet[x].live
             THEN UNCHANGED <<wallet, status>>
             ELSE /\ wallet' = [x \in Account |->
                                  IF x \in r.need THEN NewWallet(x) ELSE wallet[x]]
                  /\ status' = [status EXCEPT ![r.obj] = "APPROVED"]
        /\ Finish(a)
        /\ UNCHANGED flow

\* VerifyWalletApplication, rejecting: one locked row, so one step.
RejectApp(a, p) ==
    /\ req[a].pc = "idle"
    /\ RowFree(p)
    /\ status[p] = "PENDING"
    /\ status' = [status EXCEPT ![p] = "REJECTED"]
    /\ UNCHANGED <<wallet, flow, req>>

-----------------------------------------------------------------------------
(* The database and the member application, which is not in this repository *)

\* A lost connection, a lock wait timeout or a crash: the transaction rolls
\* back, an unlocked handler just never writes.
Rollback(a) ==
    /\ req[a].pc # "idle"
    /\ Finish(a)
    /\ UNCHANGED <<wallet, flow, status>>

\* Members place orders and applications; a withdrawal debits the wallet as it
\* is placed, which is what RejectWithdraw returns.
PlaceDeposit(d) ==
    /\ status[d] = "none"
    /\ \E s \in {"PENDING", "REVIEWING"} : status' = [status EXCEPT ![d] = s]
    /\ UNCHANGED <<wallet, flow, req>>

PlaceWithdraw(w) ==
    LET x == AccountOf[w]
    IN  /\ status[w] = "none"
        /\ wallet[x].live /\ ~wallet[x].frozen
        /\ WalletFree(x)
        /\ wallet[x].bal >= AmountOf[w]
        /\ wallet' = [wallet EXCEPT ![x] = WithBalance(@, wallet[x].bal - AmountOf[w])]
        /\ flow' = Append(flow, Line(WithdrawNo(w), x, wallet[x], -AmountOf[w]))
        /\ status' = [status EXCEPT ![w] = "PENDING"]
        /\ UNCHANGED req

PlaceApp(p) ==
    /\ status[p] = "none"
    /\ status' = [status EXCEPT ![p] = "PENDING"]
    /\ UNCHANGED <<wallet, flow, req>>

\* The frozen flag is read here and set elsewhere.
SetFrozen(x) ==
    /\ wallet[x].live
    /\ WalletFree(x)
    /\ wallet' = [wallet EXCEPT ![x] = Toggled(@)]
    /\ UNCHANGED <<flow, status, req>>

-----------------------------------------------------------------------------
Init ==
    /\ wallet = [x \in Account |-> NoWallet]
    /\ flow = <<>>
    /\ status = [o \in Row |-> "none"]
    /\ req = [a \in Admin |-> Idle]

\* The steps a started request takes on its own.
Continue(a) ==
    \/ LockCreditWallet(a)
    \/ CommitCredit(a)
    \/ CancelDeposit(a)
    \/ PayWithdraw(a)
    \/ LockRefundWallet(a)
    \/ CommitRefund(a)
    \/ \E g \in Generated : CommitAdjust(a, g)
    \/ CommitOpen(a)

Next ==
    \/ \E a \in Admin :
        \/ \E d \in Deposit : ApproveDeposit(a, d) \/ RejectDeposit(a, d)
        \/ \E w \in Withdraw : ApproveWithdraw(a, w) \/ RejectWithdraw(a, w)
        \/ \E p \in App : ApproveApp(a, p) \/ RejectApp(a, p)
        \/ \E x \in Account, n \in Adjustment : AdjustBalance(a, x, n)
        \/ Continue(a)
        \/ Rollback(a)
    \/ \E X \in SUBSET Account : DeleteWallets(X)
    \/ \E d \in Deposit : PlaceDeposit(d)
    \/ \E w \in Withdraw : PlaceWithdraw(w)
    \/ \E p \in App : PlaceApp(p)
    \/ \E x \in Account : SetFrozen(x)

Spec == Init /\ [][Next]_vars

\* A handler goroutine runs on; a lock is granted to the waiters in the order
\* they asked, so none waits for ever while others take it in turn.
Fairness == \A a \in Admin : SF_vars(Continue(a))

FairSpec == Spec /\ Fairness
-----------------------------------------------------------------------------
(* Properties *)

\* Every variable keeps its type.
TypeOK ==
    /\ wallet \in [Account -> WalletRow]
    /\ flow \in Seq(FlowLine)
    /\ status \in [Row -> Statuses]
    /\ req \in [Admin -> Request]

\* Line i of statement f is on the wallet row gen of key x.
OnWallet(f, i, x, gen) == f[i].acct = x /\ f[i].gen = gen

\* before is what statement f says that wallet row held just before position n:
\* nothing, or what the last earlier line on it ended at.
StatementSays(f, before, n, x, gen) ==
    \/ before = 0 /\ \A j \in DOMAIN f : j < n => ~OnWallet(f, j, x, gen)
    \/ \E i \in DOMAIN f :
        /\ i < n /\ OnWallet(f, i, x, gen) /\ f[i].after = before
        /\ \A j \in DOMAIN f : i < j /\ j < n => ~OnWallet(f, j, x, gen)

\* The statement of a wallet replays to its balance: each line starts where
\* the line before it ended and the last one ends at the balance.  This is
\* what lockWallet ("row lock, so that concurrent adjustments do not
\* overwrite each other") is for: no credit, refund or adjustment is lost.
StatementReplays ==
    /\ \A n \in DOMAIN flow :
        /\ flow[n].after = flow[n].before + flow[n].amt
        /\ StatementSays(flow, flow[n].before, n, flow[n].acct, flow[n].gen)
    /\ \A x \in Account : wallet[x].live =>
        StatementSays(flow, wallet[x].bal, Len(flow) + 1, x, wallet[x].gen)

\* No wallet is overdrawn, however many reductions run together: the balance
\* ReduceBalance checked is still the balance when it writes.
NoOverdraft == \A x \in Account : wallet[x].bal >= 0

\* The order's amount stands in the statement under this number.
Booked(no, o) == \E i \in DOMAIN flow :
    flow[i].no = no /\ flow[i].acct = AccountOf[o] /\ flow[i].amt = AmountOf[o]

\* A deposit reported as successful was credited: ApproveDeposit credits
\* first and rolls both back when the wallet is frozen or a key conflicts.
SuccessMeansCredited == \A d \in Deposit :
    status[d] = "SUCCESS" => Booked(DepositNo(d), d)

\* A rejected withdrawal was refunded, so RejectWithdraw never meets the case
\* it reports as "rejected, but the refund does not exist".
RejectedMeansRefunded == \A w \in Withdraw :
    status[w] = "REJECTED" => Booked(RefundNo(w), w)

\* Once a deposit is cancelled no approval credits it any more: the approval
\* locked the order before it read the status.
NoCreditAfterCancel == [][\A d \in Deposit :
    status[d] = "CANCELLED" /\ ~Posted(DepositNo(d)) => ~Posted(DepositNo(d))']_vars

\* A refund is booked only on a withdrawal that is still pending: a paid one
\* is never refunded afterwards, not even by a rejection that began before.
RefundOnlyFromPending == [][\A w \in Withdraw :
    ~Posted(RefundNo(w)) /\ Posted(RefundNo(w))' => status[w] = "PENDING"]_vars

\* A wallet that is frozen takes no deposit: it cannot be frozen between the
\* check of depositCreditTx and its update.
FrozenTakesNoDeposit == [][\A d \in Deposit :
    ~Posted(DepositNo(d)) /\ Posted(DepositNo(d))' => ~wallet[AccountOf[d]].frozen]_vars

\* An application is decided once: of two reviewers who decide differently at
\* the same time, the second finds it no longer pending.
AuditIsFinal == [][\A p \in App :
    status[p] \in {"APPROVED", "REJECTED"} => status'[p] = status[p]]_vars

\* Every request ends although it waits for rows other requests lock: the
\* order row is always locked before the wallet row.
RequestsEnd == \A a \in Admin : req[a].pc # "idle" ~> req[a].pc = "idle"

\* biz-api.md on rejecting a deposit: "not credited, so nothing to refund".
CancelledNotCredited == \A d \in Deposit :
    status[d] = "CANCELLED" => ~Posted(DepositNo(d))

-----------------------------------------------------------------------------
(* The ledger implements the journal *)

\* The amounts a number books: a deposit and a refund book the order's amount
\* on the order's wallet, a withdrawal takes it, an adjustment is any one the
\* administrator may ask for.
Booking(no, x) ==
    IF no[1] = "adjust" THEN Adjustment
    ELSE IF AccountOf[no[2]] # x THEN {}
    ELSE IF no[1] = "withdraw" THEN {-AmountOf[no[2]]} ELSE {AmountOf[no[2]]}

J == INSTANCE Journal WITH
        open   <- [x \in Account |-> wallet[x].live],
        bal    <- [x \in Account |-> wallet[x].bal],
        posted <- {flow[i].no : i \in DOMAIN flow}

\* Requests, locks and rollbacks only ever amount to whole postings: each
\* number once, for its own amount, on its own wallet, never below zero.
ImplementsJournal == J!JSpec

-----------------------------------------------------------------------------
(* The inductive invariant behind the properties *)

\* What a request carries in each phase.
Shape(r) ==
    /\ r.pc \in {"creditWallet", "creditCommit"} =>
        r.obj \in Deposit /\ r.acct = AccountOf[r.obj] /\ r.amt = AmountOf[r.obj]
    /\ r.pc \in {"refundWallet", "refundCommit"} =>
        r.obj \in Withdraw /\ r.acct = AccountOf[r.obj] /\ r.amt = AmountOf[r.obj]
    /\ r.pc = "creditCommit" /\ r.seen.live => ~r.seen.frozen
    /\ r.pc = "refundCommit" => r.seen.live
    /\ r.pc = "adjustCommit" =>
        /\ r.acct \in Account /\ r.amt \in Adjustment /\ r.seen.live
        /\ r.amt < 0 => r.seen.bal + r.amt >= 0
    /\ r.pc = "cancelWrite" => r.obj \in Deposit
    /\ r.pc = "payWrite" => r.obj \in Withdraw
    /\ r.pc = "openCommit" => r.obj \in App

Shapes == \A a \in Admin : Shape(req[a])

\* No row is locked twice, and what was read under a lock is still so.
RowLocks == \A a, b \in Admin : \A o \in Row : LocksRow(a, o) /\ LocksRow(b, o) => a = b
WalletLocks ==
    /\ \A a, b \in Admin : \A x \in Account : LocksWallet(a, x) /\ LocksWallet(b, x) => a = b
    /\ \A a \in Admin : \A x \in Account : LocksWallet(a, x) => wallet[x] = req[a].seen
OrderOpen(r) ==
    /\ r.pc \in {"creditWallet", "creditCommit"} => DepositCanAudit(status[r.obj])
    /\ r.pc \in {"refundWallet", "refundCommit", "openCommit"} => status[r.obj] = "PENDING"
StillOpen == \A a \in Admin : OrderOpen(req[a])

Locks == RowLocks /\ WalletLocks /\ StillOpen

\* A key without a row holds nothing; generations never run ahead of the key.
Rows ==
    /\ \A x \in Account : ~wallet[x].live => wallet[x].bal = 0
    /\ \A i \in DOMAIN flow : flow[i].gen <= wallet[flow[i].acct].gen

\* A booked deposit is settled.
Settled == \A d \in Deposit : Posted(DepositNo(d)) => status[d] \in {"SUCCESS", "CANCELLED"}

TypeInv == TypeOK /\ Shapes
IInv == Locks /\ Rows /\ Settled /\ NoOverdraft /\ StatementReplays
            /\ SuccessMeansCredited /\ RejectedMeansRefunded

=============================================================================
