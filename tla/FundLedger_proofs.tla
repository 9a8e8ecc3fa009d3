--------------------------- MODULE FundLedger_proofs ---------------------------
(* Theorems about FundLedger, for any number of requests, orders and wallets. *)
EXTENDS FundLedger, TLAPS

-----------------------------------------------------------------------------
(* Types *)

LEMMA IdleType == Idle \in Request
  BY DEF Idle, At, Request, Pc, NoWallet, WalletRow

LEMMA AtType ==
  ASSUME NEW pc \in Pc, NEW o \in Row \cup {NoOrder}, NEW x \in Account \cup {NoAccount},
         NEW n \in Int, NEW row \in WalletRow, NEW X \in SUBSET Account
  PROVE  At(pc, o, x, n, row, X) \in Request
  BY DEF At, Request

LEMMA LineType ==
  ASSUME NEW no \in BusinessNo, NEW x \in Account, NEW row \in WalletRow, NEW n \in Int
  PROVE  Line(no, x, row, n) \in FlowLine
  BY DEF Line, FlowLine, WalletRow

LEMMA NumberType ==
  /\ \A d \in Deposit : DepositNo(d) \in BusinessNo
  /\ \A w \in Withdraw : RefundNo(w) \in BusinessNo /\ WithdrawNo(w) \in BusinessNo
  /\ \A g \in Generated : AdjustNo(g) \in BusinessNo
  BY DEF DepositNo, RefundNo, WithdrawNo, AdjustNo, BusinessNo

\* What the fields of a well-typed row and request are, without the records.
LEMMA RowFields ==
  ASSUME NEW row \in WalletRow, NEW b \in Int
  PROVE  /\ row.live \in BOOLEAN /\ row.gen \in Nat /\ row.bal \in Int /\ row.frozen \in BOOLEAN
         /\ WithBalance(row, b) \in WalletRow
         /\ Deleted(row) \in WalletRow
         /\ Toggled(row) \in WalletRow
  BY DEF WalletRow, WithBalance, Deleted, Toggled

LEMMA NoWalletType == NoWallet \in WalletRow
  BY DEF WalletRow, NoWallet

LEMMA RequestFields ==
  ASSUME NEW r \in Request
  PROVE  /\ r.pc \in Pc /\ r.obj \in Row \cup {NoOrder} /\ r.acct \in Account \cup {NoAccount}
         /\ r.amt \in Int /\ r.seen \in WalletRow /\ r.need \in SUBSET Account
  BY DEF Request

LEMMA NewWalletType ==
  ASSUME TypeOK, NEW x \in Account
  PROVE  NewWallet(x) \in WalletRow
  BY DEF TypeOK, WalletRow, NewWallet

LEMMA OrderFields ==
  ASSUME NEW o \in Order
  PROVE  AccountOf[o] \in Account /\ AmountOf[o] \in Int /\ AmountOf[o] > 0 /\ o \in Row
  BY OrdersTyped DEF Row

\* TypeOK says nothing of which fields a phase fills; with Shapes it is inductive.
LEMMA TypeInvStep == TypeInv /\ [Next]_vars => TypeInv'
<1> SUFFICES ASSUME TypeInv, [Next]_vars PROVE TypeInv'
  OBVIOUS
<1> USE DEF TypeInv
<1>t. /\ wallet \in [Account -> WalletRow]
      /\ flow \in Seq(FlowLine)
      /\ status \in [Row -> Statuses]
      /\ req \in [Admin -> Request]
      /\ \A a \in Admin : Shape(req[a])
  BY DEF TypeOK, Shapes
\* A request that moves to a well-formed one keeps the part about requests.
<1>m. ASSUME NEW a \in Admin, NEW r \in Request, Shape(r), req' = [req EXCEPT ![a] = r]
      PROVE  req' \in [Admin -> Request] /\ Shapes'
  BY <1>t, <1>m DEF Shapes
<1>i. ASSUME NEW a \in Admin, Finish(a)
      PROVE  req' \in [Admin -> Request] /\ Shapes'
  <2>1. Idle \in Request /\ Shape(Idle)
    BY IdleType DEF Shape, Idle, At
  <2>2. QED
    BY <1>i, <1>m, <2>1 DEF Finish
\* A statement line that is appended is a line.
<1>l. ASSUME NEW no \in BusinessNo, NEW x \in Account, NEW row \in WalletRow, NEW n \in Int,
             flow' = Append(flow, Line(no, x, row, n))
      PROVE  flow' \in Seq(FlowLine)
  BY <1>t, <1>l, LineType
\* A request that is only asking keeps everything else.
<1>k. ASSUME req' \in [Admin -> Request] /\ Shapes', UNCHANGED <<wallet, flow, status>>
      PROVE  TypeInv'
  BY <1>t, <1>k DEF TypeOK
<1>1. ASSUME NEW a \in Admin, NEW d \in Deposit, ApproveDeposit(a, d)
      PROVE  TypeInv'
  <2> DEFINE r == At("creditWallet", d, AccountOf[d], AmountOf[d], NoWallet, {})
  <2>1. r \in Request
    BY OrderFields, AtType, NoWalletType DEF Row, Order, Pc
  <2>2. Shape(r)
    BY DEF Shape, At
  <2>3. QED
    BY <1>1, <1>m, <1>k, <2>1, <2>2 DEF ApproveDeposit, Start
<1>2. ASSUME NEW a \in Admin, NEW d \in Deposit, RejectDeposit(a, d)
      PROVE  TypeInv'
  <2> DEFINE r == At("cancelWrite", d, NoAccount, 0, NoWallet, {})
  <2>1. r \in Request
    BY OrderFields, AtType, NoWalletType DEF Row, Order, Pc
  <2>2. Shape(r)
    BY DEF Shape, At
  <2>3. QED
    BY <1>2, <1>m, <1>k, <2>1, <2>2 DEF RejectDeposit, Start
<1>3. ASSUME NEW a \in Admin, NEW w \in Withdraw, ApproveWithdraw(a, w)
      PROVE  TypeInv'
  <2> DEFINE r == At("payWrite", w, NoAccount, 0, NoWallet, {})
  <2>1. r \in Request
    BY OrderFields, AtType, NoWalletType DEF Row, Order, Pc
  <2>2. Shape(r)
    BY DEF Shape, At
  <2>3. QED
    BY <1>3, <1>m, <1>k, <2>1, <2>2 DEF ApproveWithdraw, Start
<1>4. ASSUME NEW a \in Admin, NEW w \in Withdraw, RejectWithdraw(a, w)
      PROVE  TypeInv'
  <2> DEFINE r == At("refundWallet", w, AccountOf[w], AmountOf[w], NoWallet, {})
  <2>1. r \in Request
    BY OrderFields, AtType, NoWalletType DEF Row, Order, Pc
  <2>2. Shape(r)
    BY DEF Shape, At
  <2>3. QED
    BY <1>4, <1>m, <1>k, <2>1, <2>2 DEF RejectWithdraw, Start
<1>5. ASSUME NEW a \in Admin, NEW p \in App, ApproveApp(a, p)
      PROVE  TypeInv'
  <2> DEFINE X == {x \in WalletsOf[p] : ~wallet[x].live}
             r == At("openCommit", p, NoAccount, 0, NoWallet, X)
  <2>1. r \in Request
    <3>1. X \in SUBSET Account
      BY OrdersTyped
    <3>2. QED
      BY <3>1, AtType, NoWalletType DEF Row, Pc
  <2>2. Shape(r)
    BY DEF Shape, At
  <2>3. QED
    BY <1>5, <1>m, <1>k, <2>1, <2>2 DEF ApproveApp, Start
<1>6. ASSUME NEW a \in Admin, NEW p \in App, RejectApp(a, p)
      PROVE  TypeInv'
  BY <1>6, <1>t DEF RejectApp, TypeOK, Shapes, Statuses
<1>7. ASSUME NEW a \in Admin, NEW x \in Account, NEW n \in Adjustment, AdjustBalance(a, x, n)
      PROVE  TypeInv'
  <2> DEFINE r == At("adjustCommit", NoOrder, x, n, wallet[x], {})
  <2>1. n \in Int /\ wallet[x] \in WalletRow
    BY <1>t, OrdersTyped
  <2>2. r \in Request
    BY <2>1, AtType DEF Pc
  <2>b. wallet[x].bal \in Int
    BY <2>1 DEF WalletRow
  <2>3. Shape(r)
    BY <1>7, <2>1, <2>b DEF Shape, At, AdjustBalance
  <2>4. QED
    BY <1>7, <1>m, <1>k, <2>2, <2>3 DEF AdjustBalance, Start
<1>8. ASSUME NEW a \in Admin, LockCreditWallet(a)
      PROVE  TypeInv'
  <2> DEFINE x == req[a].acct
             r == At("creditCommit", req[a].obj, x, req[a].amt, wallet[x], {})
  <2>1. CASE Finish(a)
    BY <1>8, <2>1, <1>i, <1>k DEF LockCreditWallet
  <2>2. CASE ~(wallet[x].live /\ wallet[x].frozen) /\ req' = [req EXCEPT ![a] = r]
    <3>1. /\ req[a].obj \in Deposit /\ x = AccountOf[req[a].obj] /\ req[a].amt = AmountOf[req[a].obj]
          /\ x \in Account /\ req[a].amt \in Int /\ wallet[x] \in WalletRow
      BY <1>8, <1>t, OrderFields DEF LockCreditWallet, Shape, Order
    <3>2. r \in Request
      BY <3>1, AtType DEF Pc, Row, Order
    <3>3. Shape(r)
      BY <2>2, <3>1 DEF Shape, At
    <3>4. QED
      BY <1>8, <2>2, <3>2, <3>3, <1>m, <1>k DEF LockCreditWallet
  <2>3. QED
    BY <1>8, <2>1, <2>2 DEF LockCreditWallet
<1>9. ASSUME NEW a \in Admin, LockRefundWallet(a)
      PROVE  TypeInv'
  <2> DEFINE x == req[a].acct
             r == At("refundCommit", req[a].obj, x, req[a].amt, wallet[x], {})
  <2>1. CASE Finish(a)
    BY <1>9, <2>1, <1>i, <1>k DEF LockRefundWallet
  <2>2. CASE wallet[x].live /\ req' = [req EXCEPT ![a] = r]
    <3>1. /\ req[a].obj \in Withdraw /\ x = AccountOf[req[a].obj] /\ req[a].amt = AmountOf[req[a].obj]
          /\ x \in Account /\ req[a].amt \in Int /\ wallet[x] \in WalletRow
      BY <1>9, <1>t, OrderFields DEF LockRefundWallet, Shape, Order
    <3>2. r \in Request
      BY <3>1, AtType DEF Pc, Row, Order
    <3>3. Shape(r)
      BY <2>2, <3>1 DEF Shape, At
    <3>4. QED
      BY <1>9, <2>2, <3>2, <3>3, <1>m, <1>k DEF LockRefundWallet
  <2>3. QED
    BY <1>9, <2>1, <2>2 DEF LockRefundWallet
<1>10. ASSUME NEW a \in Admin, CommitCredit(a)
       PROVE  TypeInv'
  <2> DEFINE r == req[a]
             x == r.acct
             row == IF r.seen.live THEN r.seen ELSE NewWallet(x)
  <2>1. r \in Request /\ r.obj \in Deposit /\ x \in Account /\ r.amt \in Int
    BY <1>10, <1>t, OrderFields DEF CommitCredit, Shape, Order
  <2>2. row \in WalletRow
    BY <2>1, RequestFields, NewWalletType
  <2>3. Finish(a)
    BY <1>10 DEF CommitCredit
  <2>4. CASE UNCHANGED <<wallet, flow, status>>
    BY <2>3, <2>4, <1>i, <1>k
  <2>5. CASE /\ wallet' = [wallet EXCEPT ![x] = WithBalance(row, row.bal + r.amt)]
             /\ flow' = Append(flow, Line(DepositNo(r.obj), x, row, r.amt))
             /\ status' = [status EXCEPT ![r.obj] = "SUCCESS"]
    <3>1. wallet' \in [Account -> WalletRow]
      BY <1>t, <2>1, <2>2, <2>5, RowFields
    <3>2. flow' \in Seq(FlowLine)
      BY <2>1, <2>2, <2>5, <1>l, NumberType
    <3>3. status' \in [Row -> Statuses]
      BY <1>t, <2>5 DEF Statuses
    <3>4. QED
      BY <2>3, <1>i, <3>1, <3>2, <3>3 DEF TypeOK
  <2>6. QED
    BY <1>10, <2>4, <2>5 DEF CommitCredit
<1>11. ASSUME NEW a \in Admin, CommitRefund(a)
       PROVE  TypeInv'
  <2> DEFINE r == req[a]
  <2>1. r \in Request /\ r.obj \in Withdraw /\ r.acct \in Account /\ r.amt \in Int
    BY <1>11, <1>t, OrderFields DEF CommitRefund, Shape, Order
  <2>2. r.seen \in WalletRow /\ wallet[r.acct] \in WalletRow /\ r.seen.bal + r.amt \in Int
    BY <1>t, <2>1, RequestFields, RowFields
  <2>3. Finish(a)
    BY <1>11 DEF CommitRefund
  <2>4. CASE UNCHANGED <<wallet, flow, status>>
    BY <2>3, <2>4, <1>i, <1>k
  <2>5. CASE /\ wallet' = [wallet EXCEPT ![r.acct] = WithBalance(@, r.seen.bal + r.amt)]
             /\ flow' = Append(flow, Line(RefundNo(r.obj), r.acct, r.seen, r.amt))
             /\ status' = [status EXCEPT ![r.obj] = "REJECTED"]
    <3>1. wallet' \in [Account -> WalletRow]
      BY <1>t, <2>2, <2>5, RowFields
    <3>2. flow' \in Seq(FlowLine)
      BY <2>1, <2>2, <2>5, <1>l, NumberType
    <3>3. status' \in [Row -> Statuses]
      BY <1>t, <2>5 DEF Statuses
    <3>4. QED
      BY <2>3, <1>i, <3>1, <3>2, <3>3 DEF TypeOK
  <2>6. QED
    BY <1>11, <2>4, <2>5 DEF CommitRefund
<1>12. ASSUME NEW a \in Admin, NEW g \in Generated, CommitAdjust(a, g)
       PROVE  TypeInv'
  <2> DEFINE r == req[a]
  <2>1. r \in Request /\ r.acct \in Account /\ r.amt \in Int
    BY <1>12, <1>t, OrdersTyped DEF CommitAdjust, Shape
  <2>2. r.seen \in WalletRow /\ wallet[r.acct] \in WalletRow /\ r.seen.bal + r.amt \in Int
    BY <1>t, <2>1, RequestFields, RowFields
  <2>3. Finish(a) /\ UNCHANGED status
    BY <1>12 DEF CommitAdjust
  <2>4. CASE UNCHANGED <<wallet, flow>>
    BY <2>3, <2>4, <1>i, <1>k
  <2>5. CASE /\ wallet' = [wallet EXCEPT ![r.acct] = WithBalance(@, r.seen.bal + r.amt)]
             /\ flow' = Append(flow, Line(AdjustNo(g), r.acct, r.seen, r.amt))
    <3>1. wallet' \in [Account -> WalletRow]
      BY <1>t, <2>2, <2>5, RowFields
    <3>2. flow' \in Seq(FlowLine)
      BY <2>1, <2>2, <2>5, <1>l, NumberType
    <3>3. QED
      BY <1>t, <2>3, <1>i, <3>1, <3>2 DEF TypeOK
  <2>6. QED
    BY <1>12, <2>4, <2>5 DEF CommitAdjust
<1>13. ASSUME NEW a \in Admin, CancelDeposit(a) \/ PayWithdraw(a)
       PROVE  TypeInv'
  BY <1>13, <1>t, <1>i DEF CancelDeposit, PayWithdraw, TypeOK, Statuses
<1>14. ASSUME NEW a \in Admin, CommitOpen(a)
       PROVE  TypeInv'
  <2>1. wallet' \in [Account -> WalletRow]
    BY <1>14, <1>t, NewWalletType DEF CommitOpen
  <2>2. status' \in [Row -> Statuses]
    BY <1>14, <1>t DEF CommitOpen, Statuses
  <2>3. QED
    BY <1>14, <1>t, <1>i, <2>1, <2>2 DEF CommitOpen, TypeOK
<1>15. ASSUME NEW a \in Admin, Rollback(a)
       PROVE  TypeInv'
  BY <1>15, <1>i, <1>k DEF Rollback
<1>16. ASSUME NEW X \in SUBSET Account, DeleteWallets(X)
       PROVE  TypeInv'
  <2>1. wallet' \in [Account -> WalletRow]
    BY <1>16, <1>t, RowFields DEF DeleteWallets
  <2>2. QED
    BY <1>16, <1>t, <2>1 DEF DeleteWallets, TypeOK, Shapes
<1>17. ASSUME NEW d \in Deposit, PlaceDeposit(d)
       PROVE  TypeInv'
  BY <1>17, <1>t DEF PlaceDeposit, TypeOK, Shapes, Statuses
<1>18. ASSUME NEW w \in Withdraw, PlaceWithdraw(w)
       PROVE  TypeInv'
  <2> DEFINE x == AccountOf[w]
  <2>1. x \in Account /\ AmountOf[w] \in Int /\ wallet[x] \in WalletRow
    BY <1>t, OrderFields DEF Order
  <2>2. wallet' \in [Account -> WalletRow]
    BY <1>18, <1>t, <2>1, RowFields DEF PlaceWithdraw
  <2>3. flow' \in Seq(FlowLine)
    BY <1>18, <2>1, <1>l, NumberType DEF PlaceWithdraw
  <2>4. QED
    BY <1>18, <1>t, <2>2, <2>3 DEF PlaceWithdraw, TypeOK, Shapes, Statuses
<1>19. ASSUME NEW p \in App, PlaceApp(p)
       PROVE  TypeInv'
  BY <1>19, <1>t DEF PlaceApp, TypeOK, Shapes, Statuses
<1>20. ASSUME NEW x \in Account, SetFrozen(x)
       PROVE  TypeInv'
  <2>1. wallet' \in [Account -> WalletRow]
    BY <1>20, <1>t, RowFields DEF SetFrozen
  <2>2. QED
    BY <1>20, <1>t, <2>1 DEF SetFrozen, TypeOK, Shapes
<1>21. CASE UNCHANGED vars
  BY <1>21, <1>t DEF vars, TypeOK, Shapes
<1>22. QED
  BY <1>1, <1>2, <1>3, <1>4, <1>5, <1>6, <1>7, <1>8, <1>9, <1>10, <1>11, <1>12, <1>13,
     <1>14, <1>15, <1>16, <1>17, <1>18, <1>19, <1>20, <1>21 DEF Next, Continue

-----------------------------------------------------------------------------
(* The statement *)

\* What the rows and lines of a well-typed state hold.
LEMMA LinesTyped ==
  ASSUME TypeOK
  PROVE  /\ \A i \in DOMAIN flow : flow[i].acct \in Account /\ flow[i].gen \in Nat
         /\ \A x \in Account : wallet[x] \in WalletRow /\ wallet[x].gen \in Nat
                                 /\ wallet[x].bal \in Int
<1>1. flow \in Seq(FlowLine) /\ wallet \in [Account -> WalletRow]
  BY DEF TypeOK
<1>2. ASSUME NEW L \in FlowLine PROVE L.acct \in Account /\ L.gen \in Nat
  BY DEF FlowLine
<1>3. \A i \in DOMAIN flow : flow[i] \in FlowLine
  BY <1>1
<1>4. \A x \in Account : wallet[x] \in WalletRow
  BY <1>1
<1>5. QED
  BY <1>2, <1>3, <1>4, RowFields, 0 \in Int

\* What an append does to the statement and to the numbers posted.
LEMMA AppendLine ==
  ASSUME TypeOK, NEW L \in FlowLine, flow' = Append(flow, L)
  PROVE  /\ DOMAIN flow = 1..Len(flow)
         /\ Len(flow) \in Nat
         /\ Len(flow') = Len(flow) + 1
         /\ DOMAIN flow' = 1..(Len(flow) + 1)
         /\ \A i \in DOMAIN flow : flow'[i] = flow[i]
         /\ flow'[Len(flow) + 1] = L
         /\ \A no : Posted(no)' <=> Posted(no) \/ no = L.no
<1>1. flow \in Seq(FlowLine)
  BY DEF TypeOK
<1>2. /\ DOMAIN flow = 1..Len(flow)
      /\ Len(flow) \in Nat
      /\ Len(flow') = Len(flow) + 1
      /\ DOMAIN flow' = 1..(Len(flow) + 1)
      /\ \A i \in DOMAIN flow : flow'[i] = flow[i]
      /\ flow'[Len(flow) + 1] = L
  BY <1>1
<1>3. \A no : Posted(no)' <=> Posted(no) \/ no = L.no
  BY <1>2 DEF Posted
<1>4. QED
  BY <1>2, <1>3

\* What the statement says up to a position does not depend on later lines.
LEMMA SaysEarlier ==
  ASSUME TypeOK, NEW L \in FlowLine, flow' = Append(flow, L),
         NEW n \in 1..(Len(flow) + 1), NEW b, NEW x, NEW gen, StatementSays(flow, b, n, x, gen)
  PROVE  StatementSays(flow', b, n, x, gen)
<1>1. /\ \A j \in DOMAIN flow' : j < n => j \in DOMAIN flow
      /\ DOMAIN flow \subseteq DOMAIN flow'
      /\ \A i \in DOMAIN flow : flow'[i] = flow[i]
  BY AppendLine
<1>2. QED
  BY <1>1 DEF StatementSays, OnWallet

\* An appended line is the last line of its wallet, and leaves alone what the
\* statement says of the other wallets.
LEMMA SaysAppended ==
  ASSUME TypeOK, NEW L \in FlowLine, flow' = Append(flow, L)
  PROVE  /\ StatementSays(flow', L.after, Len(flow) + 2, L.acct, L.gen)
         /\ \A b, x, gen : /\ ~(L.acct = x /\ L.gen = gen)
                           /\ StatementSays(flow, b, Len(flow) + 1, x, gen)
                           => StatementSays(flow', b, Len(flow) + 2, x, gen)
<1> DEFINE k == Len(flow) + 1
<1>1. /\ DOMAIN flow = 1..Len(flow)
      /\ Len(flow) \in Nat
      /\ DOMAIN flow' = 1..k
      /\ \A i \in DOMAIN flow : flow'[i] = flow[i]
      /\ flow'[k] = L
  BY AppendLine
<1>2. StatementSays(flow', L.after, Len(flow) + 2, L.acct, L.gen)
  <2>1. k \in DOMAIN flow' /\ k < Len(flow) + 2 /\ \A j \in DOMAIN flow' : ~(k < j)
    BY <1>1
  <2>2. QED
    BY <1>1, <2>1 DEF StatementSays, OnWallet
<1>3. ASSUME NEW b, NEW x, NEW gen, ~(L.acct = x /\ L.gen = gen),
             StatementSays(flow, b, Len(flow) + 1, x, gen)
      PROVE  StatementSays(flow', b, Len(flow) + 2, x, gen)
  BY <1>1, <1>3 DEF StatementSays, OnWallet
<1>4. QED
  BY <1>2, <1>3

\* A posting on a wallet whose row is current, or on a row created for it,
\* keeps the statement in order: the lines of the wallet still chain, and the
\* last one ends at the new balance.
LEMMA PostingReplays ==
  ASSUME TypeOK, Rows, StatementReplays,
         NEW x \in Account, NEW row \in WalletRow, NEW no \in BusinessNo, NEW n \in Int,
         \/ wallet[x].live /\ row = wallet[x]
         \/ ~wallet[x].live /\ row = NewWallet(x),
         wallet' = [wallet EXCEPT ![x] = WithBalance(row, row.bal + n)],
         flow' = Append(flow, Line(no, x, row, n))
  PROVE  StatementReplays' /\ Rows'
<1> DEFINE L == Line(no, x, row, n)
           k == Len(flow) + 1
<1>1. /\ L \in FlowLine
      /\ L.no = no /\ L.acct = x /\ L.gen = row.gen /\ L.before = row.bal /\ L.amt = n
      /\ L.after = L.before + L.amt
  BY LineType DEF Line
<1>2. /\ DOMAIN flow = 1..Len(flow)
      /\ Len(flow) \in Nat
      /\ Len(flow') = k
      /\ DOMAIN flow' = 1..k
      /\ \A i \in DOMAIN flow : flow'[i] = flow[i]
      /\ flow'[k] = L
  BY <1>1, AppendLine
<1>3. /\ wallet \in [Account -> WalletRow]
      /\ \A y \in Account : wallet[y].gen \in Nat
      /\ \A i \in DOMAIN flow : flow[i].acct \in Account /\ flow[i].gen \in Nat
      /\ row.live /\ row.gen \in Nat /\ row.gen >= wallet[x].gen /\ row.bal \in Int
  <2>1. wallet \in [Account -> WalletRow] /\ \A y \in Account : wallet[y].gen \in Nat
    BY DEF TypeOK, WalletRow
  <2>2. \A i \in DOMAIN flow : flow[i].acct \in Account /\ flow[i].gen \in Nat
    BY LinesTyped
  <2>3. row.live /\ row.gen \in Nat /\ row.gen >= wallet[x].gen /\ row.bal \in Int
    BY <2>1 DEF NewWallet, WalletRow
  <2>4. QED
    BY <2>1, <2>2, <2>3
<1>4. /\ wallet'[x].live /\ wallet'[x].gen = row.gen /\ wallet'[x].bal = L.after
      /\ \A y \in Account : y # x => wallet'[y] = wallet[y]
  BY <1>1, <1>3 DEF WithBalance
\* The new line starts at the balance the statement ended at.
<1>5. StatementSays(flow, L.before, k, L.acct, L.gen)
  <2>1. CASE wallet[x].live /\ row = wallet[x]
    BY <1>1, <2>1 DEF StatementReplays
  <2>2. CASE ~wallet[x].live /\ row = NewWallet(x)
    <3>1. L.before = 0 /\ L.gen = wallet[x].gen + 1 /\ L.acct = x
      BY <1>1, <2>2 DEF NewWallet
    <3>2. \A j \in DOMAIN flow : ~(flow[j].acct = x /\ flow[j].gen = wallet[x].gen + 1)
      BY <1>3 DEF Rows
    <3>3. QED
      BY <3>1, <3>2 DEF StatementSays, OnWallet
  <2>3. QED
    BY <2>1, <2>2
<1>6. ASSUME NEW m \in DOMAIN flow'
      PROVE  /\ flow'[m].after = flow'[m].before + flow'[m].amt
             /\ StatementSays(flow', flow'[m].before, m, flow'[m].acct, flow'[m].gen)
  <2>1. m \in 1..(Len(flow) + 1)
    BY <1>2
  <2>2. \A b, y, g : StatementSays(flow, b, m, y, g) => StatementSays(flow', b, m, y, g)
    BY <1>1, <2>1, SaysEarlier
  <2>3. CASE m \in DOMAIN flow
    BY <1>2, <2>2, <2>3 DEF StatementReplays
  <2>4. CASE m = k
    BY <1>1, <1>2, <1>5, <2>2, <2>4
  <2>5. QED
    BY <1>2, <2>3, <2>4
<1>7. ASSUME NEW y \in Account, wallet'[y].live
      PROVE  StatementSays(flow', wallet'[y].bal, Len(flow') + 1, y, wallet'[y].gen)
  <2>1. Len(flow') + 1 = Len(flow) + 2
    BY <1>2
  <2>2. CASE y = x
    BY <1>1, <1>4, <2>1, <2>2, SaysAppended
  <2>3. CASE y # x
    <3>1. StatementSays(flow, wallet[y].bal, Len(flow) + 1, y, wallet[y].gen)
      BY <1>4, <1>7, <2>3 DEF StatementReplays
    <3>2. QED
      BY <1>1, <1>4, <2>1, <2>3, <3>1, SaysAppended
  <2>4. QED
    BY <2>2, <2>3
<1>8. Rows'
  <2>1. \A y \in Account : ~wallet'[y].live => wallet'[y].bal = 0
    BY <1>4 DEF Rows
  <2>2. \A i \in DOMAIN flow' : flow'[i].gen <= wallet'[flow'[i].acct].gen
    BY <1>1, <1>2, <1>3, <1>4 DEF Rows
  <2>3. QED
    BY <2>1, <2>2 DEF Rows
<1>9. QED
  BY <1>6, <1>7, <1>8 DEF StatementReplays

\* Wallet rows come and go, or change their flag, without a statement line.
LEMMA RowsReplay ==
  ASSUME TypeOK, Rows, StatementReplays, NoOverdraft, UNCHANGED flow,
         wallet' \in [Account -> WalletRow],
         \A x \in Account :
            \/ wallet'[x].live = wallet[x].live /\ wallet'[x].gen = wallet[x].gen
                 /\ wallet'[x].bal = wallet[x].bal
            \/ ~wallet'[x].live /\ wallet'[x].gen = wallet[x].gen /\ wallet'[x].bal = 0
            \/ ~wallet[x].live /\ wallet'[x] = NewWallet(x)
  PROVE  StatementReplays' /\ Rows' /\ NoOverdraft'
<1>1. /\ \A x \in Account : wallet[x].gen \in Nat
      /\ \A i \in DOMAIN flow : flow[i].acct \in Account /\ flow[i].gen \in Nat
  BY LinesTyped
<1>2. Rows' /\ NoOverdraft'
  BY <1>1 DEF Rows, NoOverdraft, NewWallet
<1>3. ASSUME NEW x \in Account, wallet'[x].live
      PROVE  StatementSays(flow, wallet'[x].bal, Len(flow) + 1, x, wallet'[x].gen)
  <2>1. CASE wallet'[x].live = wallet[x].live /\ wallet'[x].gen = wallet[x].gen
               /\ wallet'[x].bal = wallet[x].bal
    BY <1>3, <2>1 DEF StatementReplays
  <2>2. CASE ~wallet[x].live /\ wallet'[x] = NewWallet(x)
    <3>1. wallet'[x].bal = 0 /\ wallet'[x].gen = wallet[x].gen + 1
      BY <2>2 DEF NewWallet
    <3>2. \A j \in DOMAIN flow : ~(flow[j].acct = x /\ flow[j].gen = wallet[x].gen + 1)
      BY <1>1 DEF Rows
    <3>3. QED
      BY <3>1, <3>2 DEF StatementSays, OnWallet
  <2>3. QED
    BY <1>3, <2>1, <2>2
<1>4. QED
  BY <1>2, <1>3 DEF StatementReplays

-----------------------------------------------------------------------------
(* Locks *)

\* A step of request a keeps the locks in order when a only takes what is free
\* and changes nothing another request holds.
LEMMA LocksMove ==
  ASSUME TypeInv, Locks, NEW a \in Admin,
         \A b \in Admin : b # a => req'[b] = req[b],
         \A o \in Row : LocksRow(a, o)' => \A b \in Admin : b # a => ~LocksRow(b, o),
         \A x \in Account : LocksWallet(a, x)' =>
            wallet'[x] = req'[a].seen /\ \A b \in Admin : b # a => ~LocksWallet(b, x),
         OrderOpen(req[a])',
         \A b \in Admin : \A x \in Account : b # a /\ LocksWallet(b, x) => wallet'[x] = wallet[x],
         \A b \in Admin : \A o \in Row : b # a /\ LocksRow(b, o) => status'[o] = status[o]
  PROVE  Locks'
<1>1. \A b \in Admin : \A o \in Row : b # a => (LocksRow(b, o)' <=> LocksRow(b, o))
  BY DEF LocksRow
<1>2. \A b \in Admin : \A x \in Account : b # a => (LocksWallet(b, x)' <=> LocksWallet(b, x))
  BY DEF LocksWallet
<1>3. RowLocks'
  BY <1>1 DEF Locks, RowLocks
<1>4. WalletLocks'
  <2>1. \A b, c \in Admin : \A x \in Account : LocksWallet(b, x)' /\ LocksWallet(c, x)' => b = c
    BY <1>2 DEF Locks, WalletLocks
  <2>2. \A b \in Admin : \A x \in Account : LocksWallet(b, x)' => wallet'[x] = req'[b].seen
    BY <1>2 DEF Locks, WalletLocks
  <2>3. QED
    BY <2>1, <2>2 DEF WalletLocks
<1>5. ASSUME NEW b \in Admin, b # a
      PROVE  OrderOpen(req[b])'
  <2>1. req'[b] = req[b] /\ OrderOpen(req[b]) /\ Shape(req[b])
    BY <1>5 DEF Locks, StillOpen, TypeInv, Shapes
  <2>2. req[b].pc \in {"creditWallet", "creditCommit", "refundWallet", "refundCommit", "openCommit"}
        => req[b].obj \in Row /\ LocksRow(b, req[b].obj)
    BY <2>1 DEF Shape, LocksRow, Row, Order
  <2>3. req[b].pc \in {"creditWallet", "creditCommit", "refundWallet", "refundCommit", "openCommit"}
        => status'[req[b].obj] = status[req[b].obj]
    BY <1>5, <2>2
  <2>4. QED
    BY <2>1, <2>3 DEF OrderOpen
<1>6. QED
  BY <1>3, <1>4, <1>5 DEF Locks, StillOpen

\* A request that ends holds nothing afterwards.
LEMMA LocksReleased ==
  ASSUME TypeInv, Locks, NEW a \in Admin, Finish(a),
         \A b \in Admin : \A x \in Account : b # a /\ LocksWallet(b, x) => wallet'[x] = wallet[x],
         \A b \in Admin : \A o \in Row : b # a /\ LocksRow(b, o) => status'[o] = status[o]
  PROVE  Locks'
<1>1. req'[a].pc = "idle" /\ \A b \in Admin : b # a => req'[b] = req[b]
  BY DEF Finish, TypeInv, TypeOK, Idle, At
<1>2. /\ \A o \in Row : ~LocksRow(a, o)'
      /\ \A x \in Account : ~LocksWallet(a, x)'
      /\ OrderOpen(req[a])'
  BY <1>1 DEF LocksRow, LocksWallet, OrderOpen
<1>3. QED
  BY <1>1, <1>2, LocksMove

\* A step of nobody's request that respects the locks keeps them.
LEMMA LocksKept ==
  ASSUME TypeInv, Locks, UNCHANGED req,
         \A b \in Admin : \A x \in Account : LocksWallet(b, x) => wallet'[x] = wallet[x],
         \A b \in Admin : \A o \in Row : LocksRow(b, o) => status'[o] = status[o]
  PROVE  Locks'
<1>1. /\ \A b \in Admin : \A o \in Row : LocksRow(b, o)' <=> LocksRow(b, o)
      /\ \A b \in Admin : \A x \in Account : LocksWallet(b, x)' <=> LocksWallet(b, x)
  BY DEF LocksRow, LocksWallet
<1>2. RowLocks' /\ WalletLocks'
  BY <1>1 DEF Locks, RowLocks, WalletLocks
<1>3. ASSUME NEW b \in Admin
      PROVE  OrderOpen(req[b])'
  <2>1. OrderOpen(req[b]) /\ Shape(req[b])
    BY DEF Locks, StillOpen, TypeInv, Shapes
  <2>2. req[b].pc \in {"creditWallet", "creditCommit", "refundWallet", "refundCommit", "openCommit"}
        => req[b].obj \in Row /\ LocksRow(b, req[b].obj)
    BY <2>1 DEF Shape, LocksRow, Row, Order
  <2>3. QED
    BY <2>1, <2>2 DEF OrderOpen
<1>4. QED
  BY <1>2, <1>3 DEF Locks, StillOpen

\* A posting writes the row its request read, so that row is current; the row
\* a credit creates is on a key that still has none.
LEMMA SeenIsCurrent ==
  ASSUME TypeInv, Locks, NEW a \in Admin, NEW x \in Account, LocksWallet(a, x)
  PROVE  /\ wallet[x] = req[a].seen /\ wallet[x].live
         /\ \A b \in Admin : b # a => ~LocksWallet(b, x)
  BY DEF Locks, WalletLocks, LocksWallet

-----------------------------------------------------------------------------
(* Orders and their lines *)

LEMMA OrdersStep ==
  ASSUME TypeOK, Settled, SuccessMeansCredited, RejectedMeansRefunded,
         UNCHANGED flow \/ \E L \in FlowLine : flow' = Append(flow, L),
         \A d \in Deposit :
            /\ Posted(DepositNo(d))' => Posted(DepositNo(d)) \/ status'[d] = "SUCCESS"
            /\ \/ status'[d] = status[d] \/ status'[d] = "CANCELLED"
               \/ status'[d] = "SUCCESS" /\ Booked(DepositNo(d), d)'
               \/ status[d] = "none" /\ status'[d] \in {"PENDING", "REVIEWING"},
         \A w \in Withdraw :
            \/ status'[w] = status[w] \/ status'[w] # "REJECTED"
            \/ Booked(RefundNo(w), w)'
  PROVE  Settled' /\ SuccessMeansCredited' /\ RejectedMeansRefunded'
<1>1. \A no, o : Booked(no, o) => Booked(no, o)'
  <2>1. CASE UNCHANGED flow
    BY <2>1 DEF Booked
  <2>2. ASSUME NEW L \in FlowLine, flow' = Append(flow, L)
        PROVE  \A no, o : Booked(no, o) => Booked(no, o)'
    <3>1. DOMAIN flow \subseteq DOMAIN flow' /\ \A i \in DOMAIN flow : flow'[i] = flow[i]
      BY <2>2, AppendLine
    <3>2. QED
      BY <3>1 DEF Booked
  <2>3. QED
    BY <2>1, <2>2
<1>2. Settled'
  BY DEF Settled
<1>3. SuccessMeansCredited'
  BY <1>1 DEF SuccessMeansCredited
<1>4. RejectedMeansRefunded'
  BY <1>1 DEF RejectedMeansRefunded
<1>5. QED
  BY <1>2, <1>3, <1>4

\* Numbers of different kinds, and of different orders, are different.
LEMMA NumbersDiffer ==
  /\ \A d, e : DepositNo(d) = DepositNo(e) => d = e
  /\ \A w, v : RefundNo(w) = RefundNo(v) => w = v
  /\ \A d, w : DepositNo(d) # RefundNo(w) /\ DepositNo(d) # WithdrawNo(w) /\ DepositNo(d) # AdjustNo(w)
  BY DEF DepositNo, RefundNo, WithdrawNo, AdjustNo

-----------------------------------------------------------------------------
(* The ledger invariant *)

\* A step that leaves the tables alone only has to keep the locks.
LEMMA TablesKept ==
  ASSUME IInv, UNCHANGED <<wallet, flow, status>>, Locks'
  PROVE  IInv'
  BY DEF IInv, Rows, Settled, NoOverdraft, StatementReplays, SuccessMeansCredited,
         RejectedMeansRefunded, Posted, Booked

\* A request that takes an order row asks whether it is free first.
LEMMA StartKeeps ==
  ASSUME TypeInv, IInv, NEW a \in Admin, NEW r \in Request, Start(a, r),
         UNCHANGED <<wallet, flow, status>>, OrderOpen(r),
         \A o \in Row : LocksRow(a, o)' => RowFree(o),
         \A x \in Account : LocksWallet(a, x)' => WalletFree(x) /\ r.seen = wallet[x]
  PROVE  IInv'
<1>1. req'[a] = r /\ \A b \in Admin : b # a => req'[b] = req[b]
  BY DEF Start, TypeInv, TypeOK
<1>2. OrderOpen(req[a])'
  BY <1>1 DEF OrderOpen
<1>3. Locks'
  BY <1>1, <1>2, LocksMove DEF IInv, RowFree, WalletFree
<1>4. QED
  BY <1>3, TablesKept

\* A deleted row holds nothing, a toggled one what it held.
LEMMA RowChanges ==
  ASSUME NEW row \in WalletRow
  PROVE  /\ ~Deleted(row).live /\ Deleted(row).gen = row.gen /\ Deleted(row).bal = 0
         /\ Toggled(row).live = row.live /\ Toggled(row).gen = row.gen /\ Toggled(row).bal = row.bal
  BY DEF Deleted, Toggled, WalletRow

LEMMA IInvStep == TypeInv /\ IInv /\ [Next]_vars => IInv'
<1> SUFFICES ASSUME TypeInv, IInv, [Next]_vars PROVE IInv'
  OBVIOUS
<1>t. TypeOK /\ Locks /\ Rows /\ Settled /\ NoOverdraft /\ StatementReplays
        /\ SuccessMeansCredited /\ RejectedMeansRefunded
  BY DEF TypeInv, IInv
<1>o. TypeOK'
  BY TypeInvStep DEF TypeInv
\* A request that gives up.
<1>f. ASSUME NEW a \in Admin, Finish(a), UNCHANGED <<wallet, flow, status>>
      PROVE  IInv'
  BY <1>f, <1>t, LocksReleased, TablesKept
<1>1. ASSUME NEW a \in Admin, NEW d \in Deposit, ApproveDeposit(a, d)
      PROVE  IInv'
  <2> DEFINE r == At("creditWallet", d, AccountOf[d], AmountOf[d], NoWallet, {})
  <2>1. r \in Request
    BY OrderFields, AtType, NoWalletType DEF Row, Order, Pc
  <2>2. Start(a, r) /\ UNCHANGED <<wallet, flow, status>> /\ RowFree(d) /\ OrderOpen(r)
    BY <1>1 DEF ApproveDeposit, OrderOpen, At
  <2>3. req'[a] = r
    BY <2>2, <1>t DEF Start, TypeOK
  <2>4. /\ \A o \in Row : LocksRow(a, o)' => RowFree(o)
        /\ \A x \in Account : ~LocksWallet(a, x)'
    BY <2>2, <2>3 DEF LocksRow, LocksWallet, At
  <2>5. QED
    BY <2>1, <2>2, <2>4, StartKeeps
<1>2. ASSUME NEW a \in Admin, NEW d \in Deposit, RejectDeposit(a, d)
      PROVE  IInv'
  <2> DEFINE r == At("cancelWrite", d, NoAccount, 0, NoWallet, {})
  <2>1. r \in Request
    BY OrderFields, AtType, NoWalletType DEF Row, Order, Pc
  <2>2. Start(a, r) /\ UNCHANGED <<wallet, flow, status>> /\ OrderOpen(r)
    BY <1>2 DEF RejectDeposit, OrderOpen, At
  <2>3. req'[a] = r
    BY <2>2, <1>t DEF Start, TypeOK
  <2>4. (\A o \in Row : ~LocksRow(a, o)') /\ \A x \in Account : ~LocksWallet(a, x)'
    BY <2>3 DEF LocksRow, LocksWallet, At
  <2>5. QED
    BY <2>1, <2>2, <2>4, StartKeeps
<1>3. ASSUME NEW a \in Admin, NEW w \in Withdraw, ApproveWithdraw(a, w)
      PROVE  IInv'
  <2> DEFINE r == At("payWrite", w, NoAccount, 0, NoWallet, {})
  <2>1. r \in Request
    BY OrderFields, AtType, NoWalletType DEF Row, Order, Pc
  <2>2. Start(a, r) /\ UNCHANGED <<wallet, flow, status>> /\ OrderOpen(r)
    BY <1>3 DEF ApproveWithdraw, OrderOpen, At
  <2>3. req'[a] = r
    BY <2>2, <1>t DEF Start, TypeOK
  <2>4. (\A o \in Row : ~LocksRow(a, o)') /\ \A x \in Account : ~LocksWallet(a, x)'
    BY <2>3 DEF LocksRow, LocksWallet, At
  <2>5. QED
    BY <2>1, <2>2, <2>4, StartKeeps
<1>4. ASSUME NEW a \in Admin, NEW w \in Withdraw, RejectWithdraw(a, w)
      PROVE  IInv'
  <2> DEFINE r == At("refundWallet", w, AccountOf[w], AmountOf[w], NoWallet, {})
  <2>1. r \in Request
    BY OrderFields, AtType, NoWalletType DEF Row, Order, Pc
  <2>2. Start(a, r) /\ UNCHANGED <<wallet, flow, status>> /\ RowFree(w) /\ OrderOpen(r)
    BY <1>4 DEF RejectWithdraw, OrderOpen, At
  <2>3. req'[a] = r
    BY <2>2, <1>t DEF Start, TypeOK
  <2>4. /\ \A o \in Row : LocksRow(a, o)' => RowFree(o)
        /\ \A x \in Account : ~LocksWallet(a, x)'
    BY <2>2, <2>3 DEF LocksRow, LocksWallet, At
  <2>5. QED
    BY <2>1, <2>2, <2>4, StartKeeps
<1>5. ASSUME NEW a \in Admin, NEW p \in App, ApproveApp(a, p)
      PROVE  IInv'
  <2> DEFINE X == {x \in WalletsOf[p] : ~wallet[x].live}
             r == At("openCommit", p, NoAccount, 0, NoWallet, X)
  <2>1. r \in Request
    <3>1. X \in SUBSET Account
      BY OrdersTyped
    <3>2. QED
      BY <3>1, AtType, NoWalletType DEF Row, Pc
  <2>2. Start(a, r) /\ UNCHANGED <<wallet, flow, status>> /\ RowFree(p) /\ OrderOpen(r)
    BY <1>5 DEF ApproveApp, OrderOpen, At
  <2>3. req'[a] = r
    BY <2>2, <1>t DEF Start, TypeOK
  <2>4. /\ \A o \in Row : LocksRow(a, o)' => RowFree(o)
        /\ \A x \in Account : ~LocksWallet(a, x)'
    BY <2>2, <2>3 DEF LocksRow, LocksWallet, At
  <2>5. QED
    BY <2>1, <2>2, <2>4, StartKeeps
<1>6. ASSUME NEW a \in Admin, NEW p \in App, RejectApp(a, p)
      PROVE  IInv'
  <2>1. UNCHANGED <<wallet, flow, req>> /\ RowFree(p) /\ status' = [status EXCEPT ![p] = "REJECTED"]
    BY <1>6 DEF RejectApp
  <2>2. Locks'
    BY <1>t, <2>1, LocksKept DEF RowFree, TypeOK
  <2>3. /\ \A d \in Deposit : status'[d] = status[d]
        /\ \A w \in Withdraw : status'[w] = status[w]
    BY <1>t, <2>1, OrdersDisjoint DEF TypeOK, Order
  <2>4. \A no : Posted(no)' <=> Posted(no)
    BY <2>1 DEF Posted
  <2>5. Settled' /\ SuccessMeansCredited' /\ RejectedMeansRefunded'
    BY <1>t, <2>1, <2>3, <2>4, OrdersStep
  <2>6. Rows' /\ NoOverdraft' /\ StatementReplays'
    BY <1>t, <2>1 DEF Rows, NoOverdraft, StatementReplays
  <2>7. QED
    BY <2>2, <2>5, <2>6 DEF IInv
<1>7. ASSUME NEW a \in Admin, NEW x \in Account, NEW n \in Adjustment, AdjustBalance(a, x, n)
      PROVE  IInv'
  <2> DEFINE r == At("adjustCommit", NoOrder, x, n, wallet[x], {})
  <2>1. r \in Request
    <3>1. n \in Int /\ wallet[x] \in WalletRow
      BY <1>t, OrdersTyped, LinesTyped
    <3>2. QED
      BY <3>1, AtType DEF Pc
  <2>2. Start(a, r) /\ UNCHANGED <<wallet, flow, status>> /\ WalletFree(x) /\ OrderOpen(r)
    BY <1>7 DEF AdjustBalance, OrderOpen, At
  <2>3. req'[a] = r
    BY <2>2, <1>t DEF Start, TypeOK
  <2>4. /\ \A o \in Row : ~LocksRow(a, o)'
        /\ \A y \in Account : LocksWallet(a, y)' => WalletFree(y) /\ r.seen = wallet[y]
    BY <2>2, <2>3 DEF LocksRow, LocksWallet, At
  <2>5. QED
    BY <2>1, <2>2, <2>4, StartKeeps
\* A request that goes on to the wallet keeps the order row it holds.
<1>w. ASSUME NEW a \in Admin, NEW r \in Request, req' = [req EXCEPT ![a] = r],
             UNCHANGED <<wallet, flow, status>>, OrderOpen(r),
             \A o \in Row : LocksRow(a, o)' => LocksRow(a, o),
             \A x \in Account : LocksWallet(a, x)' => WalletFree(x) /\ r.seen = wallet[x]
      PROVE  IInv'
  <2>1. req'[a] = r /\ \A b \in Admin : b # a => req'[b] = req[b]
    BY <1>w, <1>t DEF TypeOK
  <2>2. OrderOpen(req[a])'
    BY <1>w, <2>1 DEF OrderOpen
  <2>3. Locks'
    BY <1>t, <1>w, <2>1, <2>2, LocksMove DEF Locks, RowLocks, WalletFree
  <2>4. QED
    BY <1>w, <2>3, TablesKept
<1>8. ASSUME NEW a \in Admin, LockCreditWallet(a)
      PROVE  IInv'
  <2> DEFINE x == req[a].acct
             r == At("creditCommit", req[a].obj, x, req[a].amt, wallet[x], {})
  <2>1. CASE Finish(a)
    BY <1>8, <2>1, <1>f DEF LockCreditWallet
  <2>2. CASE req' = [req EXCEPT ![a] = r]
    <3>1. /\ req[a].pc = "creditWallet" /\ req[a].obj \in Deposit /\ x \in Account
          /\ req[a].amt \in Int /\ wallet[x] \in WalletRow /\ WalletFree(x)
          /\ UNCHANGED <<wallet, flow, status>>
      BY <1>8, <1>t, OrderFields DEF LockCreditWallet, TypeInv, TypeOK, Shapes, Shape, Order
    <3>2. r \in Request
      BY <3>1, AtType DEF Pc, Row, Order
    <3>3. OrderOpen(r)
      BY <1>t, <3>1 DEF Locks, StillOpen, OrderOpen, At
    <3>4. req'[a] = r
      BY <1>t, <2>2 DEF TypeOK
    <3>5. /\ \A o \in Row : LocksRow(a, o)' => LocksRow(a, o)
          /\ \A y \in Account : LocksWallet(a, y)' => WalletFree(y) /\ r.seen = wallet[y]
      BY <3>1, <3>4 DEF LocksRow, LocksWallet, At
    <3>6. QED
      BY <2>2, <3>1, <3>2, <3>3, <3>5, <1>w
  <2>3. QED
    BY <1>8, <2>1, <2>2 DEF LockCreditWallet
<1>9. ASSUME NEW a \in Admin, LockRefundWallet(a)
      PROVE  IInv'
  <2> DEFINE x == req[a].acct
             r == At("refundCommit", req[a].obj, x, req[a].amt, wallet[x], {})
  <2>1. CASE Finish(a)
    BY <1>9, <2>1, <1>f DEF LockRefundWallet
  <2>2. CASE req' = [req EXCEPT ![a] = r]
    <3>1. /\ req[a].pc = "refundWallet" /\ req[a].obj \in Withdraw /\ x \in Account
          /\ req[a].amt \in Int /\ wallet[x] \in WalletRow /\ WalletFree(x)
          /\ UNCHANGED <<wallet, flow, status>>
      BY <1>9, <1>t, OrderFields DEF LockRefundWallet, TypeInv, TypeOK, Shapes, Shape, Order
    <3>2. r \in Request
      BY <3>1, AtType DEF Pc, Row, Order
    <3>3. OrderOpen(r)
      BY <1>t, <3>1 DEF Locks, StillOpen, OrderOpen, At
    <3>4. req'[a] = r
      BY <1>t, <2>2 DEF TypeOK
    <3>5. /\ \A o \in Row : LocksRow(a, o)' => LocksRow(a, o)
          /\ \A y \in Account : LocksWallet(a, y)' => WalletFree(y) /\ r.seen = wallet[y]
      BY <3>1, <3>4 DEF LocksRow, LocksWallet, At
    <3>6. QED
      BY <2>2, <3>1, <3>2, <3>3, <3>5, <1>w
  <2>3. QED
    BY <1>9, <2>1, <2>2 DEF LockRefundWallet
<1>10. ASSUME NEW a \in Admin, CommitCredit(a)
       PROVE  IInv'
  <2> DEFINE r == req[a]
             x == r.acct
             row == IF r.seen.live THEN r.seen ELSE NewWallet(x)
             L == Line(DepositNo(r.obj), x, row, r.amt)
  <2>1. /\ r \in Request /\ r.pc = "creditCommit" /\ r.obj \in Deposit /\ Finish(a)
        /\ x = AccountOf[r.obj] /\ r.amt = AmountOf[r.obj]
        /\ x \in Account /\ r.amt \in Int /\ r.amt > 0
    BY <1>10, <1>t, OrderFields DEF CommitCredit, TypeInv, TypeOK, Shapes, Shape, Order
  <2>2. row \in WalletRow
    BY <1>t, <2>1, RequestFields, NewWalletType
  <2>3. CASE UNCHANGED <<wallet, flow, status>>
    BY <2>1, <2>3, <1>f
  <2>4. CASE /\ ~(wallet[x].live /\ ~r.seen.live) /\ ~Posted(DepositNo(r.obj))
             /\ wallet' = [wallet EXCEPT ![x] = WithBalance(row, row.bal + r.amt)]
             /\ flow' = Append(flow, L)
             /\ status' = [status EXCEPT ![r.obj] = "SUCCESS"]
    <3>1. /\ \/ wallet[x].live /\ row = wallet[x]
             \/ ~wallet[x].live /\ row = NewWallet(x)
          /\ \A b \in Admin : b # a => ~LocksWallet(b, x)
      <4>1. CASE r.seen.live
        BY <1>t, <2>1, <4>1, SeenIsCurrent DEF LocksWallet
      <4>2. CASE ~r.seen.live
        BY <1>t, <2>1, <2>4, <4>2, SeenIsCurrent
      <4>3. QED
        BY <4>1, <4>2
    <3>2. StatementReplays' /\ Rows'
      BY <1>t, <2>1, <2>2, <2>4, <3>1, PostingReplays, NumberType
    <3>3. row.bal \in Int /\ row.bal >= 0
      BY <1>t, <2>1, <3>1, LinesTyped DEF NoOverdraft, NewWallet
    <3>4. NoOverdraft'
      BY <1>t, <2>1, <2>4, <3>3 DEF NoOverdraft, TypeOK, WithBalance
    <3>5. LocksRow(a, r.obj) /\ \A b \in Admin : b # a => ~LocksRow(b, r.obj)
      BY <1>t, <2>1 DEF Locks, RowLocks, LocksRow, Row, Order
    <3>6. Locks'
      BY <1>t, <2>1, <2>4, <3>1, <3>5, LocksReleased DEF TypeOK
    <3>7. /\ L \in FlowLine /\ L.no = DepositNo(r.obj) /\ L.acct = x /\ L.amt = r.amt
      BY <2>1, <2>2, LineType, NumberType DEF Line
    <3>8. ASSUME NEW d \in Deposit, d = r.obj
          PROVE  Booked(DepositNo(d), d)' /\ status'[d] = "SUCCESS"
      <4>1. Len(flow) + 1 \in DOMAIN flow' /\ flow'[Len(flow) + 1] = L
        BY <1>t, <2>4, <3>7, AppendLine, SMTT(30)
      <4>2. L.no = DepositNo(d) /\ L.acct = AccountOf[d] /\ L.amt = AmountOf[d]
        BY <2>1, <3>7, <3>8
      <4>3. QED
        BY <1>t, <2>4, <3>8, <4>1, <4>2 DEF Booked, TypeOK, Row, Order
    <3>9. \A o \in Row : o # r.obj => status'[o] = status[o]
      BY <1>t, <2>1, <2>4 DEF TypeOK, Row, Order
    <3>10. \A d \in Deposit : Posted(DepositNo(d))' => Posted(DepositNo(d)) \/ d = r.obj
      BY <1>t, <2>4, <3>7, AppendLine, NumbersDiffer, SMTT(30)
    <3>11. Settled' /\ SuccessMeansCredited' /\ RejectedMeansRefunded'
      <4>1. \A d \in Deposit :
              /\ Posted(DepositNo(d))' => Posted(DepositNo(d)) \/ status'[d] = "SUCCESS"
              /\ status'[d] = status[d] \/ (status'[d] = "SUCCESS" /\ Booked(DepositNo(d), d)')
        BY <3>8, <3>9, <3>10 DEF Row, Order
      <4>2. \A w \in Withdraw : status'[w] = status[w]
        BY <2>1, <3>9, OrdersDisjoint DEF Row, Order
      <4>3. QED
        BY <1>t, <2>4, <3>7, <4>1, <4>2, OrdersStep
    <3>12. QED
      BY <3>2, <3>4, <3>6, <3>11 DEF IInv
  <2>5. QED
    BY <1>10, <2>3, <2>4 DEF CommitCredit
<1>11. ASSUME NEW a \in Admin, CommitRefund(a)
       PROVE  IInv'
  <2> DEFINE r == req[a]
             x == r.acct
             L == Line(RefundNo(r.obj), x, r.seen, r.amt)
  <2>1. /\ r \in Request /\ r.pc = "refundCommit" /\ r.obj \in Withdraw /\ Finish(a)
        /\ x = AccountOf[r.obj] /\ r.amt = AmountOf[r.obj] /\ r.seen.live
        /\ x \in Account /\ r.amt \in Int /\ r.amt > 0 /\ r.seen \in WalletRow
    BY <1>11, <1>t, OrderFields, RequestFields
    DEF CommitRefund, TypeInv, TypeOK, Shapes, Shape, Order
  <2>2. CASE UNCHANGED <<wallet, flow, status>>
    BY <2>1, <2>2, <1>f
  <2>3. CASE /\ ~Posted(RefundNo(r.obj))
             /\ wallet' = [wallet EXCEPT ![x] = WithBalance(@, r.seen.bal + r.amt)]
             /\ flow' = Append(flow, L)
             /\ status' = [status EXCEPT ![r.obj] = "REJECTED"]
    <3>1. /\ wallet[x] = r.seen /\ wallet[x].live
          /\ \A b \in Admin : b # a => ~LocksWallet(b, x)
      BY <1>t, <2>1, SeenIsCurrent DEF LocksWallet
    <3>1a. wallet' = [wallet EXCEPT ![x] = WithBalance(r.seen, r.seen.bal + r.amt)]
      BY <2>3, <3>1
    <3>2. StatementReplays' /\ Rows'
      BY <1>t, <2>1, <2>3, <3>1, <3>1a, PostingReplays, NumberType, ZenonT(30)
    <3>3. r.seen.bal \in Int /\ r.seen.bal >= 0
      BY <1>t, <2>1, <3>1, LinesTyped DEF NoOverdraft
    <3>4. NoOverdraft'
      BY <1>t, <2>1, <3>1a, <3>3 DEF NoOverdraft, TypeOK, WithBalance
    <3>5. LocksRow(a, r.obj) /\ \A b \in Admin : b # a => ~LocksRow(b, r.obj)
      BY <1>t, <2>1 DEF Locks, RowLocks, LocksRow, Row, Order
    <3>6. Locks'
      BY <1>t, <2>1, <2>3, <3>1, <3>5, LocksReleased DEF TypeOK
    <3>7. L \in FlowLine /\ L.no = RefundNo(r.obj) /\ L.acct = x /\ L.amt = r.amt
      BY <2>1, LineType, NumberType DEF Line
    <3>8. ASSUME NEW w \in Withdraw, w = r.obj
          PROVE  Booked(RefundNo(w), w)'
      <4>1. Len(flow) + 1 \in DOMAIN flow' /\ flow'[Len(flow) + 1] = L
        BY <1>t, <2>3, <3>7, AppendLine
      <4>2. L.no = RefundNo(w) /\ L.acct = AccountOf[w] /\ L.amt = AmountOf[w]
        BY <2>1, <3>7, <3>8
      <4>3. QED
        BY <4>1, <4>2 DEF Booked
    <3>9. \A o \in Row : o # r.obj => status'[o] = status[o]
      BY <1>t, <2>1, <2>3 DEF TypeOK, Row, Order
    <3>10. \A d \in Deposit : Posted(DepositNo(d))' => Posted(DepositNo(d))
      BY <1>t, <2>3, <3>7, AppendLine, NumbersDiffer
    <3>11. Settled' /\ SuccessMeansCredited' /\ RejectedMeansRefunded'
      <4>1. \A d \in Deposit : status'[d] = status[d]
        BY <2>1, <3>9, OrdersDisjoint DEF Row, Order
      <4>2. \A w \in Withdraw : status'[w] = status[w] \/ Booked(RefundNo(w), w)'
        BY <3>8, <3>9 DEF Row, Order
      <4>3. QED
        BY <1>t, <2>3, <3>7, <3>10, <4>1, <4>2, OrdersStep
    <3>12. QED
      BY <3>2, <3>4, <3>6, <3>11 DEF IInv
  <2>4. QED
    BY <1>11, <2>2, <2>3 DEF CommitRefund
<1>12. ASSUME NEW a \in Admin, NEW g \in Generated, CommitAdjust(a, g)
       PROVE  IInv'
  <2> DEFINE r == req[a]
             x == r.acct
             L == Line(AdjustNo(g), x, r.seen, r.amt)
  <2>1. /\ r \in Request /\ r.pc = "adjustCommit" /\ Finish(a) /\ UNCHANGED status
        /\ r.seen.live /\ (r.amt < 0 => r.seen.bal + r.amt >= 0)
        /\ x \in Account /\ r.amt \in Int /\ r.seen \in WalletRow
    BY <1>12, <1>t, RequestFields DEF CommitAdjust, TypeInv, TypeOK, Shapes, Shape
  <2>2. CASE UNCHANGED <<wallet, flow>>
    BY <2>1, <2>2, <1>f
  <2>3. CASE /\ wallet' = [wallet EXCEPT ![x] = WithBalance(@, r.seen.bal + r.amt)]
             /\ flow' = Append(flow, L)
    <3>1. /\ wallet[x] = r.seen /\ wallet[x].live
          /\ \A b \in Admin : b # a => ~LocksWallet(b, x)
      BY <1>t, <2>1, SeenIsCurrent DEF LocksWallet
    <3>1a. wallet' = [wallet EXCEPT ![x] = WithBalance(r.seen, r.seen.bal + r.amt)]
      BY <2>3, <3>1
    <3>2. StatementReplays' /\ Rows'
      BY <1>t, <2>1, <2>3, <3>1, <3>1a, PostingReplays, NumberType
    <3>3. r.seen.bal \in Int /\ r.seen.bal >= 0
      BY <1>t, <2>1, <3>1, LinesTyped DEF NoOverdraft
    <3>4. NoOverdraft'
      BY <1>t, <2>1, <3>1a, <3>3 DEF NoOverdraft, TypeOK, WithBalance
    <3>5. Locks'
      BY <1>t, <2>1, <2>3, <3>1, LocksReleased DEF TypeOK
    <3>6. L \in FlowLine /\ L.no = AdjustNo(g)
      BY <2>1, LineType, NumberType DEF Line
    <3>7. \A d \in Deposit : Posted(DepositNo(d))' => Posted(DepositNo(d))
      BY <1>t, <2>3, <3>6, AppendLine, NumbersDiffer
    <3>8. Settled' /\ SuccessMeansCredited' /\ RejectedMeansRefunded'
      BY <1>t, <2>1, <2>3, <3>6, <3>7, OrdersStep
    <3>9. QED
      BY <3>2, <3>4, <3>5, <3>8 DEF IInv
  <2>4. QED
    BY <1>12, <2>2, <2>3 DEF CommitAdjust
\* Steps that only write the status of a row nobody holds.
<1>s. ASSUME NEW o \in Row, NEW s, status' = [status EXCEPT ![o] = s], RowFree(o),
             UNCHANGED <<wallet, flow>>, UNCHANGED req \/ \E a \in Admin : Finish(a),
             \/ o \in Deposit /\ (s = "CANCELLED" \/ (status[o] = "none" /\ s \in {"PENDING", "REVIEWING"}))
             \/ o \in Withdraw \cup App /\ s # "REJECTED"
      PROVE  IInv'
  <2>1. status'[o] = s /\ \A q \in Row : q # o => status'[q] = status[q]
    BY <1>s, <1>t DEF TypeOK
  <2>2. Locks'
    BY <1>s, <1>t, <2>1, LocksKept, LocksReleased DEF RowFree
  <2>3. \A no : Posted(no)' <=> Posted(no)
    BY <1>s DEF Posted
  <2>4. \A d \in Deposit :
          \/ status'[d] = status[d] \/ status'[d] = "CANCELLED"
          \/ status[d] = "none" /\ status'[d] \in {"PENDING", "REVIEWING"}
    BY <1>s, <2>1, OrdersDisjoint DEF Row, Order
  <2>5. \A w \in Withdraw : status'[w] = status[w] \/ status'[w] # "REJECTED"
    BY <1>s, <2>1, OrdersDisjoint DEF Row, Order
  <2>6. Settled' /\ SuccessMeansCredited' /\ RejectedMeansRefunded'
    BY <1>s, <1>t, <2>3, <2>4, <2>5, OrdersStep
  <2>7. Rows' /\ NoOverdraft' /\ StatementReplays'
    BY <1>s, <1>t DEF Rows, NoOverdraft, StatementReplays
  <2>8. QED
    BY <2>2, <2>6, <2>7 DEF IInv
<1>13. ASSUME NEW a \in Admin, CancelDeposit(a)
       PROVE  IInv'
  <2>1. req[a].obj \in Deposit
    BY <1>13, <1>t DEF CancelDeposit, TypeInv, Shapes, Shape
  <2>2. QED
    BY <1>13, <2>1, <1>s DEF CancelDeposit, Row, Order
<1>14. ASSUME NEW a \in Admin, PayWithdraw(a)
       PROVE  IInv'
  <2>1. req[a].obj \in Withdraw
    BY <1>14, <1>t DEF PayWithdraw, TypeInv, Shapes, Shape
  <2>2. QED
    BY <1>14, <2>1, <1>s DEF PayWithdraw, Row, Order
<1>15. ASSUME NEW a \in Admin, Rollback(a)
       PROVE  IInv'
  BY <1>15, <1>f DEF Rollback
\* A row nobody holds is one nobody else reads or writes yet.
<1>v. ASSUME NEW o \in Row, status[o] = "none"
      PROVE  RowFree(o)
  <2>1. ASSUME NEW a \in Admin, LocksRow(a, o) PROVE FALSE
    BY <1>t, <1>v, <2>1 DEF Locks, StillOpen, OrderOpen, LocksRow, DepositCanAudit
  <2>2. QED
    BY <2>1 DEF RowFree
<1>16. ASSUME NEW d \in Deposit, PlaceDeposit(d)
       PROVE  IInv'
  <2>1. PICK s \in {"PENDING", "REVIEWING"} : status' = [status EXCEPT ![d] = s]
    BY <1>16 DEF PlaceDeposit
  <2>2. QED
    BY <1>16, <2>1, <1>s, <1>v DEF PlaceDeposit, Row, Order
<1>17. ASSUME NEW p \in App, PlaceApp(p)
       PROVE  IInv'
  BY <1>17, <1>s, <1>v DEF PlaceApp, Row
<1>18. ASSUME NEW w \in Withdraw, PlaceWithdraw(w)
       PROVE  IInv'
  <2> DEFINE x == AccountOf[w]
             n == -AmountOf[w]
             L == Line(WithdrawNo(w), x, wallet[x], n)
  <2>1. x \in Account /\ n \in Int /\ wallet[x] \in WalletRow /\ wallet[x].bal \in Int
          /\ AmountOf[w] \in Int /\ w \in Row
    BY <1>t, OrderFields, LinesTyped DEF Order
  <2>2. /\ wallet[x].live /\ WalletFree(x) /\ wallet[x].bal >= AmountOf[w] /\ status[w] = "none"
        /\ wallet' = [wallet EXCEPT ![x] = WithBalance(wallet[x], wallet[x].bal + n)]
        /\ flow' = Append(flow, L)
        /\ status' = [status EXCEPT ![w] = "PENDING"] /\ UNCHANGED req
    BY <1>18, <2>1 DEF PlaceWithdraw
  <2>3. StatementReplays' /\ Rows'
    BY <1>t, <2>1, <2>2, PostingReplays, NumberType
  <2>4. NoOverdraft'
    BY <1>t, <2>1, <2>2 DEF NoOverdraft, TypeOK, WithBalance
  <2>5. Locks'
    BY <1>t, <1>v, <2>1, <2>2, LocksKept DEF WalletFree, RowFree, TypeOK
  <2>6. L \in FlowLine /\ L.no = WithdrawNo(w)
    BY <2>1, LineType, NumberType DEF Line
  <2>7. \A d \in Deposit : Posted(DepositNo(d))' => Posted(DepositNo(d))
    BY <1>t, <2>2, <2>6, AppendLine, NumbersDiffer
  <2>8. /\ \A d \in Deposit : status'[d] = status[d]
        /\ \A v \in Withdraw : status'[v] = status[v] \/ status'[v] # "REJECTED"
    BY <1>t, <2>1, <2>2, OrdersDisjoint DEF TypeOK, Row, Order
  <2>9. Settled' /\ SuccessMeansCredited' /\ RejectedMeansRefunded'
    BY <1>t, <2>2, <2>6, <2>7, <2>8, OrdersStep
  <2>10. QED
    BY <2>3, <2>4, <2>5, <2>9 DEF IInv
\* Steps that change wallet rows without a statement line.
<1>r. ASSUME UNCHANGED flow, \A no : Posted(no)' <=> Posted(no), Locks',
             \A x \in Account :
               \/ wallet'[x].live = wallet[x].live /\ wallet'[x].gen = wallet[x].gen
                    /\ wallet'[x].bal = wallet[x].bal
               \/ ~wallet'[x].live /\ wallet'[x].gen = wallet[x].gen /\ wallet'[x].bal = 0
               \/ ~wallet[x].live /\ wallet'[x] = NewWallet(x),
             \A o \in Order : status'[o] = status[o]
      PROVE  IInv'
  <2>1. StatementReplays' /\ Rows' /\ NoOverdraft'
    BY <1>r, <1>t, <1>o, RowsReplay DEF TypeOK
  <2>2. Settled' /\ SuccessMeansCredited' /\ RejectedMeansRefunded'
    BY <1>r, <1>t, OrdersStep DEF Order
  <2>3. QED
    BY <1>r, <2>1, <2>2 DEF IInv
<1>19. ASSUME NEW a \in Admin, CommitOpen(a)
       PROVE  IInv'
  <2> DEFINE r == req[a]
  <2>1. /\ r.pc = "openCommit" /\ r.obj \in App /\ Finish(a) /\ UNCHANGED flow
    BY <1>19, <1>t DEF CommitOpen, TypeInv, Shapes, Shape
  <2>2. CASE UNCHANGED <<wallet, status>>
    BY <2>1, <2>2, <1>f
  <2>3. CASE /\ \A x \in r.need : ~wallet[x].live
             /\ wallet' = [x \in Account |-> IF x \in r.need THEN NewWallet(x) ELSE wallet[x]]
             /\ status' = [status EXCEPT ![r.obj] = "APPROVED"]
    <3>1. \A x \in Account : \/ wallet'[x] = wallet[x]
                             \/ ~wallet[x].live /\ wallet'[x] = NewWallet(x)
      BY <2>3
    <3>2. \A b \in Admin : \A x \in Account : LocksWallet(b, x) => wallet'[x] = wallet[x]
      BY <1>t, <3>1, SeenIsCurrent
    <3>3. \A b \in Admin : b # a => ~LocksRow(b, r.obj)
      BY <1>t, <2>1 DEF Locks, RowLocks, LocksRow, Row
    <3>4. \A o \in Row : o # r.obj => status'[o] = status[o]
      BY <1>t, <2>3 DEF TypeOK
    <3>5. Locks'
      BY <1>t, <2>1, <3>2, <3>3, <3>4, LocksReleased
    <3>6. \A o \in Order : status'[o] = status[o]
      BY <2>1, <3>4, OrdersDisjoint DEF Row
    <3>7. \A no : Posted(no)' <=> Posted(no)
      BY <2>1 DEF Posted
    <3>8. QED
      BY <2>1, <3>1, <3>5, <3>6, <3>7, <1>r
  <2>4. QED
    BY <1>19, <2>2, <2>3 DEF CommitOpen
<1>20. ASSUME NEW X \in SUBSET Account, DeleteWallets(X)
       PROVE  IInv'
  <2>1. /\ \A x \in X : WalletFree(x)
        /\ \A x \in Account : wallet'[x] = wallet[x] \/ (x \in X /\ wallet'[x] = Deleted(wallet[x]))
        /\ UNCHANGED <<flow, status, req>>
    BY <1>20 DEF DeleteWallets
  <2>2. Locks'
    BY <1>t, <2>1, LocksKept DEF WalletFree
  <2>3. \A no : Posted(no)' <=> Posted(no)
    BY <2>1 DEF Posted
  <2>4. \A x \in Account :
          \/ wallet'[x] = wallet[x]
          \/ ~wallet'[x].live /\ wallet'[x].gen = wallet[x].gen /\ wallet'[x].bal = 0
    BY <1>t, <2>1, LinesTyped, RowChanges
  <2>5. QED
    BY <2>1, <2>2, <2>3, <2>4, <1>r, OrderFields
<1>21. ASSUME NEW x \in Account, SetFrozen(x)
       PROVE  IInv'
  <2>1. /\ WalletFree(x) /\ UNCHANGED <<flow, status, req>>
        /\ \A y \in Account : wallet'[y] = wallet[y] \/ (y = x /\ wallet'[y] = Toggled(wallet[y]))
    BY <1>21, <1>t DEF SetFrozen, TypeOK
  <2>2. Locks'
    BY <1>t, <2>1, LocksKept DEF WalletFree
  <2>3. \A no : Posted(no)' <=> Posted(no)
    BY <2>1 DEF Posted
  <2>4. \A y \in Account : /\ wallet'[y].live = wallet[y].live
                           /\ wallet'[y].gen = wallet[y].gen /\ wallet'[y].bal = wallet[y].bal
    BY <1>t, <2>1, LinesTyped, RowChanges
  <2>5. QED
    BY <2>1, <2>2, <2>3, <2>4, <1>r, OrderFields
<1>22. CASE UNCHANGED vars
  <2>1. UNCHANGED <<wallet, flow, status, req>>
    BY <1>22 DEF vars
  <2>2. QED
    BY <1>t, <2>1, LocksKept, TablesKept
<1>23. QED
  BY <1>1, <1>2, <1>3, <1>4, <1>5, <1>6, <1>7, <1>8, <1>9, <1>10, <1>11, <1>12, <1>13, <1>14,
     <1>15, <1>16, <1>17, <1>18, <1>19, <1>20, <1>21, <1>22 DEF Next, Continue

LEMMA IInvInit == Init => TypeInv /\ IInv
<1> SUFFICES ASSUME Init PROVE TypeInv /\ IInv
  OBVIOUS
<1>1. TypeInv
  <2>1. TypeOK
    BY IdleType DEF Init, TypeOK, NoWallet, WalletRow, Statuses
  <2>2. Shapes
    BY DEF Init, Shapes, Shape, Idle, At
  <2>3. QED
    BY <2>1, <2>2 DEF TypeInv
<1>2. Locks
  BY DEF Init, Idle, At, Locks, RowLocks, WalletLocks, StillOpen, OrderOpen, LocksRow, LocksWallet
<1>3. /\ DOMAIN flow = {}
      /\ \A x \in Account : wallet[x].bal = 0 /\ ~wallet[x].live
      /\ \A o \in Row : status[o] = "none"
  BY DEF Init, NoWallet
<1>4. Rows /\ NoOverdraft /\ StatementReplays
  BY <1>3 DEF Rows, NoOverdraft, StatementReplays
<1>5. Settled /\ SuccessMeansCredited /\ RejectedMeansRefunded
  BY <1>3 DEF Settled, SuccessMeansCredited, RejectedMeansRefunded, Posted, Row, Order
<1>6. QED
  BY <1>1, <1>2, <1>4, <1>5 DEF IInv

-----------------------------------------------------------------------------
(* Theorems *)

\* In every reachable state the tables are typed, the locks exclude each other
\* and protect what was read, and the statement and the order statuses agree.
THEOREM LedgerInvariant == Spec => [](TypeInv /\ IInv)
<1>1. TypeInv /\ IInv /\ [Next]_vars => (TypeInv /\ IInv)'
  BY TypeInvStep, IInvStep
<1>2. QED
  BY <1>1, IInvInit, PTL DEF Spec

\* Every variable keeps its type.
THEOREM TypeCorrect == Spec => []TypeOK
<1>1. TypeInv /\ IInv => TypeOK
  BY DEF TypeInv
<1>2. QED
  BY <1>1, LedgerInvariant, PTL

\* The statement of every wallet replays to its balance: no credit, refund,
\* adjustment or withdrawal is lost, however many requests run together.
THEOREM NothingLost == Spec => []StatementReplays
<1>1. TypeInv /\ IInv => StatementReplays
  BY DEF IInv
<1>2. QED
  BY <1>1, LedgerInvariant, PTL

\* The balance a reduction checked is still the balance when it writes.
THEOREM NeverOverdrawn == Spec => []NoOverdraft
<1>1. TypeInv /\ IInv => NoOverdraft
  BY DEF IInv
<1>2. QED
  BY <1>1, LedgerInvariant, PTL

\* A successful deposit was credited, with its own amount on its own wallet.
THEOREM DepositsCredited == Spec => []SuccessMeansCredited
<1>1. TypeInv /\ IInv => SuccessMeansCredited
  BY DEF IInv
<1>2. QED
  BY <1>1, LedgerInvariant, PTL

\* A rejected withdrawal was refunded, with its own amount on its own wallet.
THEOREM WithdrawalsRefunded == Spec => []RejectedMeansRefunded
<1>1. TypeInv /\ IInv => RejectedMeansRefunded
  BY DEF IInv
<1>2. QED
  BY <1>1, LedgerInvariant, PTL

-----------------------------------------------------------------------------
(* What a step may never do *)

\* A number enters the statement in the commit of a request, or as a withdrawal
\* is placed.
LEMMA WhoPosts ==
  ASSUME TypeInv, [Next]_vars, NEW no, ~Posted(no), Posted(no)'
  PROVE  \/ \E a \in Admin : /\ req[a].pc = "creditCommit" /\ no = DepositNo(req[a].obj)
                             /\ ~(wallet[req[a].acct].live /\ ~req[a].seen.live)
         \/ \E a \in Admin : req[a].pc = "refundCommit" /\ no = RefundNo(req[a].obj)
         \/ \E g \in Generated : no = AdjustNo(g)
         \/ \E w \in Withdraw : no = WithdrawNo(w) /\ PlaceWithdraw(w)
<1>t. TypeOK /\ flow \in Seq(FlowLine)
  BY DEF TypeInv, TypeOK
\* An append posts the number of its line only.
<1>a. ASSUME NEW L, flow' = Append(flow, L)
      PROVE  no = L.no
  BY <1>t, <1>a DEF Posted
<1>n. ~UNCHANGED flow
  BY DEF Posted
<1>1. ASSUME NEW a \in Admin, CommitCredit(a)
      PROVE  /\ req[a].pc = "creditCommit" /\ no = DepositNo(req[a].obj)
             /\ ~(wallet[req[a].acct].live /\ ~req[a].seen.live)
  BY <1>1, <1>a, <1>n DEF CommitCredit, Line
<1>2. ASSUME NEW a \in Admin, CommitRefund(a)
      PROVE  req[a].pc = "refundCommit" /\ no = RefundNo(req[a].obj)
  BY <1>2, <1>a, <1>n DEF CommitRefund, Line
<1>3. ASSUME NEW a \in Admin, NEW g \in Generated, CommitAdjust(a, g)
      PROVE  no = AdjustNo(g)
  BY <1>3, <1>a, <1>n DEF CommitAdjust, Line
<1>4. ASSUME NEW w \in Withdraw, PlaceWithdraw(w)
      PROVE  no = WithdrawNo(w)
  BY <1>4, <1>a DEF PlaceWithdraw, Line
<1>5. QED
  BY <1>n, <1>1, <1>2, <1>3, <1>4
  DEF Next, Continue, vars, ApproveDeposit, RejectDeposit, ApproveWithdraw, RejectWithdraw,
      ApproveApp, RejectApp, AdjustBalance, LockCreditWallet, CancelDeposit, PayWithdraw,
      LockRefundWallet, CommitOpen, Rollback, DeleteWallets, PlaceDeposit, PlaceApp, SetFrozen

\* A deposit or a refund that is booked is on an order the request has locked
\* and found open.
LEMMA DepositPosts ==
  ASSUME TypeInv, IInv, [Next]_vars, NEW d \in Deposit,
         ~Posted(DepositNo(d)), Posted(DepositNo(d))'
  PROVE  \E a \in Admin :
            /\ req[a].pc = "creditCommit" /\ req[a].obj = d /\ req[a].acct = AccountOf[d]
            /\ DepositCanAudit(status[d])
            /\ ~(wallet[AccountOf[d]].live /\ ~req[a].seen.live)
<1>1. PICK a \in Admin : /\ req[a].pc = "creditCommit" /\ DepositNo(d) = DepositNo(req[a].obj)
                         /\ ~(wallet[req[a].acct].live /\ ~req[a].seen.live)
  BY WhoPosts, NumbersDiffer
<1>2. d = req[a].obj /\ Shape(req[a]) /\ OrderOpen(req[a])
  BY <1>1, NumbersDiffer DEF TypeInv, Shapes, IInv, Locks, StillOpen
<1>3. QED
  BY <1>1, <1>2 DEF Shape, OrderOpen

LEMMA RefundPosts ==
  ASSUME TypeInv, IInv, [Next]_vars, NEW w \in Withdraw,
         ~Posted(RefundNo(w)), Posted(RefundNo(w))'
  PROVE  status[w] = "PENDING"
<1>1. \A v, g : RefundNo(v) # AdjustNo(g) /\ RefundNo(v) # WithdrawNo(g)
  BY DEF RefundNo, AdjustNo, WithdrawNo
<1>2. PICK a \in Admin : req[a].pc = "refundCommit" /\ RefundNo(w) = RefundNo(req[a].obj)
  BY <1>1, WhoPosts, NumbersDiffer
<1>3. w = req[a].obj /\ OrderOpen(req[a])
  BY <1>2, NumbersDiffer DEF IInv, Locks, StillOpen
<1>4. QED
  BY <1>2, <1>3 DEF OrderOpen

\* A key without a row is not frozen, so the row a credit creates never is.
NoRowNotFrozen == \A x \in Account : ~wallet[x].live => ~wallet[x].frozen

LEMMA NoRowNotFrozenStep ==
  TypeInv /\ IInv /\ NoRowNotFrozen /\ [Next]_vars => NoRowNotFrozen'
<1> SUFFICES ASSUME TypeInv, IInv, NoRowNotFrozen, [Next]_vars PROVE NoRowNotFrozen'
  OBVIOUS
<1>t. /\ wallet \in [Account -> WalletRow] /\ Locks
      /\ \A a \in Admin : Shape(req[a])
  BY DEF TypeInv, TypeOK, Shapes, IInv
<1>1. ASSUME NEW a \in Admin, CommitCredit(a)
      PROVE  NoRowNotFrozen'
  <2> DEFINE x == req[a].acct
             row == IF req[a].seen.live THEN req[a].seen ELSE NewWallet(x)
  <2>1. CASE UNCHANGED wallet
    BY <2>1 DEF NoRowNotFrozen
  <2>2. CASE wallet' = [wallet EXCEPT ![x] = WithBalance(row, row.bal + req[a].amt)]
    <3>1. row.live
      BY DEF NewWallet
    <3>2. QED
      BY <1>t, <2>2, <3>1 DEF NoRowNotFrozen, WithBalance
  <2>3. QED
    BY <1>1, <2>1, <2>2 DEF CommitCredit
\* A refund and an adjustment write a row that is there.
<1>2. ASSUME NEW a \in Admin, NEW x \in Account, NEW b, LocksWallet(a, x),
             wallet' = [wallet EXCEPT ![x] = WithBalance(@, b)]
      PROVE  NoRowNotFrozen'
  <2>1. wallet[x].live
    BY <1>t, <1>2, SeenIsCurrent
  <2>2. QED
    BY <1>t, <1>2, <2>1 DEF NoRowNotFrozen, WithBalance
<1>3. ASSUME NEW a \in Admin, CommitRefund(a)
      PROVE  NoRowNotFrozen'
  <2>1. req[a].acct \in Account /\ LocksWallet(a, req[a].acct)
    BY <1>3, <1>t, OrderFields DEF CommitRefund, Shape, LocksWallet, Order
  <2>2. CASE UNCHANGED wallet
    BY <2>2 DEF NoRowNotFrozen
  <2>3. QED
    BY <1>3, <1>2, <2>1, <2>2 DEF CommitRefund
<1>4. ASSUME NEW a \in Admin, NEW g \in Generated, CommitAdjust(a, g)
      PROVE  NoRowNotFrozen'
  <2>1. req[a].acct \in Account /\ LocksWallet(a, req[a].acct)
    BY <1>4, <1>t DEF CommitAdjust, Shape, LocksWallet
  <2>2. CASE UNCHANGED wallet
    BY <2>2 DEF NoRowNotFrozen
  <2>3. QED
    BY <1>4, <1>2, <2>1, <2>2 DEF CommitAdjust
<1>5. ASSUME NEW a \in Admin, CommitOpen(a)
      PROVE  NoRowNotFrozen'
  <2>1. \A x \in Account : wallet'[x] = wallet[x] \/ wallet'[x] = NewWallet(x)
    BY <1>5 DEF CommitOpen
  <2>2. \A x \in Account : NewWallet(x).live
    BY DEF NewWallet
  <2>3. QED
    BY <2>1, <2>2 DEF NoRowNotFrozen
<1>6. ASSUME NEW X \in SUBSET Account, DeleteWallets(X)
      PROVE  NoRowNotFrozen'
  <2>1. \A x \in Account : wallet'[x] = wallet[x] \/ wallet'[x] = Deleted(wallet[x])
    BY <1>6 DEF DeleteWallets
  <2>2. \A x \in Account : ~Deleted(wallet[x]).frozen
    BY DEF Deleted
  <2>3. QED
    BY <2>1, <2>2 DEF NoRowNotFrozen
<1>7. ASSUME NEW w \in Withdraw, PlaceWithdraw(w)
      PROVE  NoRowNotFrozen'
  BY <1>7, <1>t, OrderFields DEF PlaceWithdraw, NoRowNotFrozen, WithBalance, Order
<1>8. ASSUME NEW x \in Account, SetFrozen(x)
      PROVE  NoRowNotFrozen'
  BY <1>8, <1>t DEF SetFrozen, NoRowNotFrozen, Toggled
<1>9. CASE UNCHANGED wallet
  BY <1>9 DEF NoRowNotFrozen
<1>10. QED
  BY <1>1, <1>3, <1>4, <1>5, <1>6, <1>7, <1>8, <1>9
  DEF Next, Continue, vars, ApproveDeposit, RejectDeposit, ApproveWithdraw, RejectWithdraw,
      ApproveApp, RejectApp, AdjustBalance, LockCreditWallet, CancelDeposit, PayWithdraw,
      LockRefundWallet, Rollback, PlaceDeposit, PlaceApp

\* An application that was decided stays as it was decided.
LEMMA DecidedStays ==
  ASSUME TypeInv, IInv, [Next]_vars, NEW p \in App, status[p] \in {"APPROVED", "REJECTED"}
  PROVE  status'[p] = status[p]
<1>t. /\ status \in [Row -> Statuses]
      /\ \A a \in Admin : Shape(req[a]) /\ OrderOpen(req[a])
      /\ p \in Row /\ p \notin Deposit /\ p \notin Withdraw
  BY OrdersDisjoint DEF TypeInv, TypeOK, Shapes, IInv, Locks, StillOpen, Row, Order
<1>1. ASSUME NEW o \in Row, o # p, NEW s, status' = [status EXCEPT ![o] = s]
      PROVE  status'[p] = status[p]
  BY <1>t, <1>1
<1>2. ASSUME NEW a \in Admin, CommitCredit(a) \/ CancelDeposit(a) \/ PayWithdraw(a) \/ CommitRefund(a)
      PROVE  status'[p] = status[p]
  <2>1. req[a].obj \in Row /\ req[a].obj # p
    BY <1>2, <1>t DEF CommitCredit, CancelDeposit, PayWithdraw, CommitRefund, Shape, Row, Order
  <2>2. QED
    BY <1>1, <1>2, <2>1 DEF CommitCredit, CancelDeposit, PayWithdraw, CommitRefund
<1>3. ASSUME NEW a \in Admin, CommitOpen(a)
      PROVE  status'[p] = status[p]
  <2>1. req[a].obj \in Row /\ status[req[a].obj] = "PENDING"
    BY <1>3, <1>t DEF CommitOpen, Shape, OrderOpen, Row
  <2>2. QED
    BY <1>1, <1>3, <2>1 DEF CommitOpen
<1>4. ASSUME NEW a \in Admin, NEW q \in App, RejectApp(a, q)
      PROVE  status'[p] = status[p]
  BY <1>1, <1>4 DEF RejectApp, Row
<1>5. ASSUME NEW o \in Row, status[o] = "none", NEW s, status' = [status EXCEPT ![o] = s]
      PROVE  status'[p] = status[p]
  BY <1>1, <1>5
<1>6. ASSUME (\E d \in Deposit : PlaceDeposit(d)) \/ (\E w \in Withdraw : PlaceWithdraw(w))
               \/ (\E q \in App : PlaceApp(q))
      PROVE  status'[p] = status[p]
  BY <1>5, <1>6 DEF PlaceDeposit, PlaceWithdraw, PlaceApp, Row, Order
<1>7. CASE UNCHANGED status
  BY <1>7
<1>8. QED
  BY <1>2, <1>3, <1>4, <1>6, <1>7
  DEF Next, Continue, vars, ApproveDeposit, RejectDeposit, ApproveWithdraw, RejectWithdraw,
      ApproveApp, AdjustBalance, LockCreditWallet, LockRefundWallet, CommitAdjust, Rollback,
      DeleteWallets, SetFrozen

\* No approval credits a deposit that is cancelled already.
THEOREM CancelledStaysUnbooked == Spec => NoCreditAfterCancel
<1>1. TypeInv /\ IInv /\ [Next]_vars =>
        [\A d \in Deposit : status[d] = "CANCELLED" /\ ~Posted(DepositNo(d)) => ~Posted(DepositNo(d))']_vars
  BY DepositPosts DEF DepositCanAudit
<1>2. QED
  BY <1>1, LedgerInvariant, PTL DEF Spec, NoCreditAfterCancel

\* No rejection refunds a withdrawal that is no longer pending.
THEOREM RefundsArePending == Spec => RefundOnlyFromPending
<1>1. TypeInv /\ IInv /\ [Next]_vars =>
        [\A w \in Withdraw : ~Posted(RefundNo(w)) /\ Posted(RefundNo(w))' => status[w] = "PENDING"]_vars
  BY RefundPosts
<1>2. QED
  BY <1>1, LedgerInvariant, PTL DEF Spec, RefundOnlyFromPending

\* No deposit is booked on a wallet that is frozen as it is booked.
THEOREM FrozenStaysUntouched == Spec => FrozenTakesNoDeposit
<1>1. ASSUME TypeInv, IInv, NoRowNotFrozen, [Next]_vars, NEW d \in Deposit,
             ~Posted(DepositNo(d)), Posted(DepositNo(d))'
      PROVE  ~wallet[AccountOf[d]].frozen
  <2>1. PICK a \in Admin : /\ req[a].pc = "creditCommit" /\ req[a].acct = AccountOf[d]
                           /\ ~(wallet[AccountOf[d]].live /\ ~req[a].seen.live)
    BY <1>1, DepositPosts
  <2>2. AccountOf[d] \in Account /\ Shape(req[a]) /\ Locks
    BY <1>1, OrderFields DEF TypeInv, Shapes, IInv, Order
  <2>3. CASE req[a].seen.live
    <3>1. wallet[AccountOf[d]] = req[a].seen
      BY <1>1, <2>1, <2>2, <2>3, SeenIsCurrent DEF LocksWallet
    <3>2. QED
      BY <2>1, <2>2, <2>3, <3>1 DEF Shape
  <2>4. CASE ~req[a].seen.live
    BY <1>1, <2>1, <2>2, <2>4 DEF NoRowNotFrozen
  <2>5. QED
    BY <2>3, <2>4
<1>2. TypeInv /\ IInv /\ NoRowNotFrozen /\ [Next]_vars =>
        [\A d \in Deposit : ~Posted(DepositNo(d)) /\ Posted(DepositNo(d))'
                              => ~wallet[AccountOf[d]].frozen]_vars
  BY <1>1
<1>3. Init => NoRowNotFrozen
  BY DEF Init, NoRowNotFrozen, NoWallet
<1>4. QED
  BY <1>2, <1>3, NoRowNotFrozenStep, LedgerInvariant, PTL DEF Spec, FrozenTakesNoDeposit

\* An application is decided once.
THEOREM AuditsAreFinal == Spec => AuditIsFinal
<1>1. TypeInv /\ IInv /\ [Next]_vars =>
        [\A p \in App : status[p] \in {"APPROVED", "REJECTED"} => status'[p] = status[p]]_vars
  BY DecidedStays
<1>2. QED
  BY <1>1, LedgerInvariant, PTL DEF Spec, AuditIsFinal

-----------------------------------------------------------------------------
(* The ledger implements the journal *)

\* A step that moves no balance, opens and closes no row and posts nothing.
LEMMA JournalStutters ==
  ASSUME UNCHANGED flow,
         \A x \in Account : wallet'[x].live = wallet[x].live /\ wallet'[x].bal = wallet[x].bal
  PROVE  UNCHANGED J!jvars
  BY DEF J!jvars

\* A step that posts line L on a row of its account and brings the row to the
\* balance the line ends at.
LEMMA PostRefines ==
  ASSUME TypeOK, NEW L \in FlowLine, NEW row \in WalletRow,
         flow' = Append(flow, L), ~Posted(L.no),
         wallet' = [wallet EXCEPT ![L.acct] = row],
         row.live, row.bal = wallet[L.acct].bal + L.amt, row.bal >= 0,
         L.amt \in Booking(L.no, L.acct),
         wallet[L.acct].live \/ L.no[1] = "deposit"
  PROVE  J!JNext
<1> DEFINE x == L.acct
<1>1. x \in Account /\ L.no \in BusinessNo /\ L.amt \in Int
  BY DEF FlowLine
<1>2. /\ wallet'[x] = row /\ \A y \in Account : y # x => wallet'[y] = wallet[y]
      /\ \A y \in Account : wallet[y].live \in BOOLEAN /\ wallet[y].bal \in Int
      /\ row.live \in BOOLEAN
  BY <1>1, RowFields, 0 \in Int DEF TypeOK
<1>3. L.no \notin {flow[i].no : i \in DOMAIN flow}
  BY DEF Posted
<1>4. {flow[i].no : i \in DOMAIN flow}' = {flow[i].no : i \in DOMAIN flow} \cup {L.no}
  <2>1. \A no : Posted(no)' <=> Posted(no) \/ no = L.no
    BY AppendLine
  <2>2. QED
    BY <2>1 DEF Posted
<1>5. [y \in Account |-> wallet[y].bal]'
        = [[y \in Account |-> wallet[y].bal] EXCEPT ![x] = @ + L.amt]
  BY <1>1, <1>2
<1>6. \/ wallet[x].live /\ UNCHANGED [y \in Account |-> wallet[y].live]
      \/ /\ L.no[1] = "deposit"
         /\ [y \in Account |-> wallet[y].live]'
              = [[y \in Account |-> wallet[y].live] EXCEPT ![x] = TRUE]
  <2>1. row.live = TRUE
    BY <1>2
  <2>2. CASE wallet[x].live
    <3>1. wallet[x].live = TRUE
      BY <1>1, <1>2, <2>2
    <3>2. \A y \in Account : wallet'[y].live = wallet[y].live
      BY <1>2, <2>1, <3>1
    <3>3. QED
      BY <2>2, <3>2
  <2>3. CASE L.no[1] = "deposit"
    <3> DEFINE f == [y \in Account |-> wallet[y].live]
               g == [y \in Account |-> wallet'[y].live]
    <3>1. g[x] = TRUE /\ \A y \in Account : y # x => g[y] = f[y]
      BY <1>1, <1>2, <2>1
    <3>2. f = [y \in Account |-> f[y]] /\ g = [y \in Account |-> g[y]]
      OBVIOUS
    <3> HIDE DEF f, g
    <3>3. g = [f EXCEPT ![x] = TRUE]
      BY <1>1, <3>1, <3>2
    <3>4. QED
      BY <2>3, <3>3 DEF f, g
  <2>4. QED
    BY <2>2, <2>3
<1>7. J!Post(L.no, x, L.amt)
  BY <1>1, <1>2, <1>3, <1>4, <1>5, <1>6 DEF J!Post
<1>8. QED
  BY <1>1, <1>7 DEF J!JNext

\* What an order's number books on the order's wallet.
LEMMA BookingOf ==
  /\ \A d \in Deposit : DepositNo(d)[1] = "deposit"
                          /\ AmountOf[d] \in Booking(DepositNo(d), AccountOf[d])
  /\ \A w \in Withdraw : /\ AmountOf[w] \in Booking(RefundNo(w), AccountOf[w])
                         /\ -AmountOf[w] \in Booking(WithdrawNo(w), AccountOf[w])
  /\ \A g \in Generated : \A x \in Account : Booking(AdjustNo(g), x) = Adjustment
  BY DEF Booking, DepositNo, RefundNo, WithdrawNo, AdjustNo

\* A row with a new balance, and the line that says so.
LEMMA BookedRow ==
  ASSUME NEW row \in WalletRow, NEW n \in Int, NEW x \in Account, NEW no \in BusinessNo
  PROVE  /\ WithBalance(row, row.bal + n) \in WalletRow
         /\ WithBalance(row, row.bal + n).live = row.live
         /\ WithBalance(row, row.bal + n).bal = row.bal + n
         /\ Line(no, x, row, n) \in FlowLine
         /\ Line(no, x, row, n).no = no /\ Line(no, x, row, n).acct = x
         /\ Line(no, x, row, n).amt = n
<1>1. row.bal + n \in Int
  BY RowFields
<1>2. QED
  BY <1>1, RowFields, LineType DEF WithBalance, Line

\* The number of a withdrawal is not in the statement before it is placed.
UnplacedUnposted == \A w \in Withdraw : status[w] = "none" => ~Posted(WithdrawNo(w))

LEMMA UnplacedUnpostedStep ==
  TypeInv /\ UnplacedUnposted /\ [Next]_vars => UnplacedUnposted'
<1> SUFFICES ASSUME TypeInv, UnplacedUnposted, [Next]_vars,
                    NEW w \in Withdraw, status'[w] = "none"
             PROVE  ~Posted(WithdrawNo(w))'
  BY DEF UnplacedUnposted
<1>t. status \in [Row -> Statuses] /\ w \in Row
  BY DEF TypeInv, TypeOK, Row, Order
\* No status is set back to none.
<1>1. status[w] = "none"
  <2>1. ASSUME NEW o, NEW s, s # "none", status' = [status EXCEPT ![o] = s]
        PROVE  status[w] = "none"
    BY <1>t, <2>1
  <2>2. QED
    BY <2>1
    DEF Next, Continue, vars, ApproveDeposit, RejectDeposit, ApproveWithdraw, RejectWithdraw,
        ApproveApp, RejectApp, AdjustBalance, LockCreditWallet, CommitCredit, CancelDeposit,
        PayWithdraw, LockRefundWallet, CommitRefund, CommitAdjust, CommitOpen, Rollback,
        DeleteWallets, PlaceDeposit, PlaceWithdraw, PlaceApp, SetFrozen
<1>2. ASSUME Posted(WithdrawNo(w))'
      PROVE  FALSE
  <2>1. ~Posted(WithdrawNo(w))
    BY <1>1 DEF UnplacedUnposted
  <2>2. PICK v \in Withdraw : WithdrawNo(w) = WithdrawNo(v) /\ PlaceWithdraw(v)
    <3>1. \A u, g : /\ WithdrawNo(u) # DepositNo(g) /\ WithdrawNo(u) # RefundNo(g)
                    /\ WithdrawNo(u) # AdjustNo(g)
      BY DEF WithdrawNo, DepositNo, RefundNo, AdjustNo
    <3>2. QED
      BY <1>2, <2>1, <3>1, WhoPosts
  <2>3. v = w
    BY <2>2 DEF WithdrawNo
  <2>4. status'[w] = "PENDING"
    BY <1>t, <2>2, <2>3 DEF PlaceWithdraw
  <2>5. QED
    BY <2>4
<1>3. QED
  BY <1>2

\* Every step of the ledger is a posting, an opening, a closing or nothing.
LEMMA LedgerStepRefines ==
  TypeInv /\ IInv /\ UnplacedUnposted /\ [Next]_vars => [J!JNext]_J!jvars
<1> SUFFICES ASSUME TypeInv, IInv, UnplacedUnposted, [Next]_vars PROVE [J!JNext]_J!jvars
  OBVIOUS
<1>t. /\ TypeOK /\ wallet \in [Account -> WalletRow] /\ Locks /\ Rows /\ NoOverdraft
      /\ \A a \in Admin : req[a] \in Request /\ Shape(req[a])
      /\ \A x \in Account : wallet[x] \in WalletRow /\ wallet[x].bal \in Int
  BY LinesTyped DEF TypeInv, TypeOK, Shapes, IInv
<1>1. ASSUME NEW a \in Admin, CommitCredit(a)
      PROVE  [J!JNext]_J!jvars
  <2> DEFINE r == req[a]
             x == r.acct
             row == IF r.seen.live THEN r.seen ELSE NewWallet(x)
  <2>1. /\ r \in Request /\ r.pc = "creditCommit" /\ r.obj \in Deposit
        /\ x = AccountOf[r.obj] /\ r.amt = AmountOf[r.obj]
        /\ x \in Account /\ r.amt \in Int /\ r.amt > 0
    BY <1>1, <1>t, OrderFields DEF CommitCredit, Shape, Order
  <2>2. CASE UNCHANGED <<wallet, flow, status>>
    BY <2>2, JournalStutters
  <2>3. CASE /\ ~(wallet[x].live /\ ~r.seen.live) /\ ~Posted(DepositNo(r.obj))
             /\ wallet' = [wallet EXCEPT ![x] = WithBalance(row, row.bal + r.amt)]
             /\ flow' = Append(flow, Line(DepositNo(r.obj), x, row, r.amt))
    <3>1. row \in WalletRow /\ row.live
      BY <1>t, <2>1, RequestFields, NewWalletType DEF NewWallet
    <3>2. row.bal = wallet[x].bal
      <4>1. CASE r.seen.live
        BY <1>t, <2>1, <4>1, SeenIsCurrent DEF LocksWallet
      <4>2. CASE ~r.seen.live
        BY <1>t, <2>1, <2>3, <4>2 DEF Rows, NewWallet
      <4>3. QED
        BY <4>1, <4>2
    <3>3. wallet[x].bal + r.amt >= 0
      BY <1>t, <2>1 DEF NoOverdraft
    <3>4. DepositNo(r.obj)[1] = "deposit" /\ r.amt \in Booking(DepositNo(r.obj), x)
      BY <2>1, BookingOf
    <3>5. DepositNo(r.obj) \in BusinessNo
      BY <2>1, NumberType
    <3> DEFINE L == Line(DepositNo(r.obj), x, row, r.amt)
               new == WithBalance(row, row.bal + r.amt)
    <3>6. /\ new \in WalletRow /\ new.live = row.live /\ new.bal = row.bal + r.amt
          /\ L \in FlowLine /\ L.no = DepositNo(r.obj) /\ L.acct = x /\ L.amt = r.amt
      BY <2>1, <3>1, <3>5, BookedRow
    <3> HIDE DEF L, new
    <3>7. wallet' = [wallet EXCEPT ![L.acct] = new] /\ flow' = Append(flow, L) /\ ~Posted(L.no)
      BY <2>3, <3>6 DEF L, new
    <3>8. new.live /\ new.bal = wallet[L.acct].bal + L.amt /\ new.bal >= 0
      BY <3>1, <3>2, <3>3, <3>6
    <3>9. L.amt \in Booking(L.no, L.acct) /\ L.no[1] = "deposit"
      BY <3>4, <3>6
    <3>10. QED
      BY <1>t, <3>6, <3>7, <3>8, <3>9, PostRefines
  <2>4. QED
    BY <1>1, <2>2, <2>3 DEF CommitCredit
\* A posting on a row that is there.
<1>p. ASSUME NEW x \in Account, NEW no \in BusinessNo, NEW n \in Int,
             wallet[x].live, wallet[x].bal + n >= 0, n \in Booking(no, x), ~Posted(no),
             wallet' = [wallet EXCEPT ![x] = WithBalance(@, wallet[x].bal + n)],
             flow' = Append(flow, Line(no, x, wallet[x], n))
      PROVE  J!JNext
  <2> DEFINE L == Line(no, x, wallet[x], n)
             new == WithBalance(wallet[x], wallet[x].bal + n)
  <2>1. /\ new \in WalletRow /\ new.live = wallet[x].live /\ new.bal = wallet[x].bal + n
        /\ L \in FlowLine /\ L.no = no /\ L.acct = x /\ L.amt = n
    BY <1>t, BookedRow
  <2>2. wallet' = [wallet EXCEPT ![x] = new] /\ flow' = Append(flow, L)
    BY <1>t, <1>p
  <2> HIDE DEF L, new
  <2>3. QED
    BY <1>t, <1>p, <2>1, <2>2, PostRefines
<1>2. ASSUME NEW a \in Admin, CommitRefund(a)
      PROVE  [J!JNext]_J!jvars
  <2> DEFINE r == req[a]
             x == r.acct
  <2>1. /\ r.pc = "refundCommit" /\ r.obj \in Withdraw /\ x = AccountOf[r.obj]
        /\ r.amt = AmountOf[r.obj] /\ x \in Account /\ r.amt \in Int /\ r.amt > 0 /\ r.seen.live
    BY <1>2, <1>t, OrderFields DEF CommitRefund, Shape, Order
  <2>2. wallet[x] = r.seen /\ wallet[x].live
    BY <1>t, <2>1, SeenIsCurrent DEF LocksWallet
  <2>3. wallet[x].bal + r.amt >= 0 /\ r.amt \in Booking(RefundNo(r.obj), x)
    BY <1>t, <2>1, BookingOf DEF NoOverdraft
  <2>4. CASE UNCHANGED <<wallet, flow, status>>
    BY <2>4, JournalStutters
  <2>5. CASE /\ ~Posted(RefundNo(r.obj))
             /\ wallet' = [wallet EXCEPT ![x] = WithBalance(@, r.seen.bal + r.amt)]
             /\ flow' = Append(flow, Line(RefundNo(r.obj), x, r.seen, r.amt))
    BY <2>1, <2>2, <2>3, <2>5, <1>p, NumberType
  <2>6. QED
    BY <1>2, <2>4, <2>5 DEF CommitRefund
<1>3. ASSUME NEW a \in Admin, NEW g \in Generated, CommitAdjust(a, g)
      PROVE  [J!JNext]_J!jvars
  <2> DEFINE r == req[a]
             x == r.acct
  <2>1. /\ r.pc = "adjustCommit" /\ x \in Account /\ r.amt \in Adjustment /\ r.amt \in Int
        /\ r.seen.live /\ (r.amt < 0 => r.seen.bal + r.amt >= 0)
    BY <1>3, <1>t, OrdersTyped DEF CommitAdjust, Shape
  <2>2. wallet[x] = r.seen /\ wallet[x].live
    BY <1>t, <2>1, SeenIsCurrent DEF LocksWallet
  <2>3. wallet[x].bal + r.amt >= 0 /\ r.amt \in Booking(AdjustNo(g), x)
    <3>1. wallet[x].bal \in Int /\ wallet[x].bal >= 0
      BY <1>t, <2>1 DEF NoOverdraft
    <3>2. wallet[x].bal + r.amt >= 0
      BY <2>1, <2>2, <3>1
    <3>3. QED
      BY <2>1, <3>2, BookingOf
  <2>4. CASE UNCHANGED <<wallet, flow>>
    BY <2>4, JournalStutters
  <2>5. CASE /\ ~Posted(AdjustNo(g))
             /\ wallet' = [wallet EXCEPT ![x] = WithBalance(@, r.seen.bal + r.amt)]
             /\ flow' = Append(flow, Line(AdjustNo(g), x, r.seen, r.amt))
    BY <2>1, <2>2, <2>3, <2>5, <1>p, NumberType
  <2>6. QED
    BY <1>3, <2>4, <2>5 DEF CommitAdjust
<1>4. ASSUME NEW a \in Admin, CommitOpen(a)
      PROVE  [J!JNext]_J!jvars
  <2>0. PICK X \in SUBSET Account : X = req[a].need
    BY <1>t, RequestFields
  <2>1. CASE UNCHANGED <<wallet, status>>
    BY <1>4, <2>1, JournalStutters DEF CommitOpen
  <2>2. CASE /\ \A x \in X : ~wallet[x].live
             /\ wallet' = [x \in Account |-> IF x \in X THEN NewWallet(x) ELSE wallet[x]]
    <3>1. \A x \in Account : NewWallet(x).live = TRUE /\ NewWallet(x).bal = 0
      BY DEF NewWallet
    <3>2. \A x \in Account : x \in X => wallet[x].bal = 0
      BY <1>t, <2>2 DEF Rows
    <3>3. \A x \in Account : /\ wallet'[x].bal = wallet[x].bal
                             /\ wallet'[x].live = (wallet[x].live \/ x \in X)
      <4>1. \A x \in Account : wallet[x].live \in BOOLEAN
        BY <1>t, RowFields, 0 \in Int
      <4>2. \A x \in Account : x \in X => wallet'[x] = NewWallet(x)
        BY <2>2
      <4>3. \A x \in Account : x \notin X => wallet'[x] = wallet[x]
        BY <2>2
      <4>4. QED
        BY <3>1, <3>2, <4>1, <4>2, <4>3
    <3>4. UNCHANGED flow
      BY <1>4 DEF CommitOpen
    <3>5. J!Open(X)
      <4>1. [x \in Account |-> wallet[x].bal]' = [x \in Account |-> wallet[x].bal]
        BY <3>3
      <4>2. [x \in Account |-> wallet[x].live]'
              = [x \in Account |-> [y \in Account |-> wallet[y].live][x] \/ x \in X]
        BY <3>3
      <4>3. \A x \in X : ~[y \in Account |-> wallet[y].live][x]
        BY <2>2
      <4>4. QED
        BY <3>4, <4>1, <4>2, <4>3 DEF J!Open
    <3>6. QED
      BY <3>5 DEF J!JNext
  <2>3. QED
    BY <1>4, <2>0, <2>1, <2>2 DEF CommitOpen
<1>5. ASSUME NEW X \in SUBSET Account, DeleteWallets(X)
      PROVE  [J!JNext]_J!jvars
  <2>1. /\ \A x \in Account : x \in X => wallet'[x] = Deleted(wallet[x])
        /\ \A x \in Account : x \notin X => wallet'[x] = wallet[x]
        /\ UNCHANGED flow
    BY <1>5 DEF DeleteWallets
  <2>2. \A x \in Account : Deleted(wallet[x]).live = FALSE /\ Deleted(wallet[x]).bal = 0
    BY DEF Deleted
  <2>3. \A x \in Account : wallet[x].live \in BOOLEAN
    BY <1>t, RowFields, 0 \in Int
  <2>4. [x \in Account |-> wallet[x].live]'
          = [x \in Account |-> [y \in Account |-> wallet[y].live][x] /\ x \notin X]
    BY <2>1, <2>2, <2>3
  <2>5. [x \in Account |-> wallet[x].bal]'
          = [x \in Account |-> IF x \in X THEN 0 ELSE [y \in Account |-> wallet[y].bal][x]]
    BY <2>1, <2>2
  <2>6. J!Close(X)
    BY <2>1, <2>4, <2>5 DEF J!Close
  <2>7. QED
    BY <2>6 DEF J!JNext
<1>6. ASSUME NEW w \in Withdraw, PlaceWithdraw(w)
      PROVE  [J!JNext]_J!jvars
  <2>1. AccountOf[w] \in Account /\ AmountOf[w] \in Int
    BY OrderFields DEF Order
  <2>2. /\ wallet[AccountOf[w]].live /\ wallet[AccountOf[w]].bal >= AmountOf[w]
        /\ wallet' = [wallet EXCEPT ![AccountOf[w]] =
                        WithBalance(@, wallet[AccountOf[w]].bal - AmountOf[w])]
        /\ flow' = Append(flow, Line(WithdrawNo(w), AccountOf[w], wallet[AccountOf[w]], -AmountOf[w]))
        /\ status[w] = "none"
    BY <1>6 DEF PlaceWithdraw
  <2>3. wallet[AccountOf[w]].bal - AmountOf[w] = wallet[AccountOf[w]].bal + (-AmountOf[w])
        /\ wallet[AccountOf[w]].bal + (-AmountOf[w]) >= 0 /\ -AmountOf[w] \in Int
    BY <1>t, <2>1, <2>2
  <2>4. ~Posted(WithdrawNo(w))
    BY <2>2 DEF UnplacedUnposted
  <2>5. QED
    BY <2>1, <2>2, <2>3, <2>4, <1>p, NumberType, BookingOf
<1>7. ASSUME NEW x \in Account, SetFrozen(x)
      PROVE  [J!JNext]_J!jvars
  <2>1. \A y \in Account : wallet'[y] = wallet[y] \/ wallet'[y] = Toggled(wallet[y])
    BY <1>7, <1>t DEF SetFrozen
  <2>2. QED
    BY <1>7, <1>t, <2>1, RowChanges, JournalStutters DEF SetFrozen
<1>8. CASE UNCHANGED <<wallet, flow>>
  BY <1>8, JournalStutters
<1>9. QED
  BY <1>1, <1>2, <1>3, <1>4, <1>5, <1>6, <1>7, <1>8
  DEF Next, Continue, vars, ApproveDeposit, RejectDeposit, ApproveWithdraw, RejectWithdraw,
      ApproveApp, RejectApp, AdjustBalance, LockCreditWallet, CancelDeposit, PayWithdraw,
      LockRefundWallet, Rollback, PlaceDeposit, PlaceApp

LEMMA LedgerInitRefines == Init => J!JInit
<1> SUFFICES ASSUME Init PROVE J!JInit
  OBVIOUS
<1>1. flow = <<>> /\ \A x \in Account : wallet[x].live = FALSE /\ wallet[x].bal = 0
  BY DEF Init, NoWallet
<1>2. {flow[i].no : i \in DOMAIN flow} = {}
  BY <1>1
<1>3. QED
  BY <1>1, <1>2 DEF J!JInit

\* Requests, locks, rollbacks and deletions only ever amount to whole postings:
\* each business number once, for its own amount, on its own wallet.
THEOREM LedgerImplementsJournal == Spec => ImplementsJournal
<1>1. TypeInv /\ IInv /\ UnplacedUnposted /\ [Next]_vars => [J!JNext]_J!jvars
  BY LedgerStepRefines
<1>2. Init => UnplacedUnposted
  BY DEF Init, UnplacedUnposted, Posted
<1>3. QED
  BY <1>1, <1>2, UnplacedUnpostedStep, LedgerInitRefines, LedgerInvariant, PTL
  DEF Spec, ImplementsJournal, J!JSpec

-----------------------------------------------------------------------------
(* Requests do not wait in a circle *)

\* Waits(a, b): the next step of a needs a row that b has locked.
Waits(a, b) ==
    \/ req[a].pc \in {"creditWallet", "refundWallet"} /\ LocksWallet(b, req[a].acct)
    \/ req[a].pc \in {"cancelWrite", "payWrite"} /\ LocksRow(b, req[a].obj)

\* How many steps a request is from its end.
StepsLeft(r) == IF r.pc = "idle" THEN 0
                ELSE IF r.pc \in {"creditWallet", "refundWallet"} THEN 2 ELSE 1

\* A started request moves on by its own steps and by nobody else's.
LEMMA RequestStep ==
  ASSUME TypeOK, [Next]_vars, NEW a \in Admin, req[a].pc # "idle", req'[a] # req[a]
  PROVE  StepsLeft(req'[a]) < StepsLeft(req[a])
<1> DEFINE Goal == StepsLeft(req'[a]) < StepsLeft(req[a])
<1>t. req \in [Admin -> Request] /\ Idle.pc = "idle"
  BY DEF TypeOK, Idle, At
<1>1. ASSUME NEW b \in Admin, Finish(b) PROVE Goal
  BY <1>1, <1>t DEF Finish, StepsLeft
<1>2. ASSUME NEW b \in Admin, NEW r, Start(b, r) PROVE Goal
  BY <1>2, <1>t DEF Start
<1>3. ASSUME NEW b \in Admin, LockCreditWallet(b) PROVE Goal
  <2>1. CASE Finish(b)
    BY <1>1, <2>1
  <2>2. CASE ~Finish(b)
    <3>1. /\ req[b].pc = "creditWallet"
          /\ req' = [req EXCEPT ![b] = At("creditCommit", req[b].obj, req[b].acct, req[b].amt,
                                          wallet[req[b].acct], {})]
      BY <1>3, <2>2 DEF LockCreditWallet
    <3> QED
      BY <3>1, <1>t DEF StepsLeft, At
  <2> QED
    BY <2>1, <2>2
<1>4. ASSUME NEW b \in Admin, LockRefundWallet(b) PROVE Goal
  <2>1. CASE Finish(b)
    BY <1>1, <2>1
  <2>2. CASE ~Finish(b)
    <3>1. /\ req[b].pc = "refundWallet"
          /\ req' = [req EXCEPT ![b] = At("refundCommit", req[b].obj, req[b].acct, req[b].amt,
                                          wallet[req[b].acct], {})]
      BY <1>4, <2>2 DEF LockRefundWallet
    <3> QED
      BY <3>1, <1>t DEF StepsLeft, At
  <2> QED
    BY <2>1, <2>2
<1>5. ASSUME NEW b \in Admin, Continue(b) PROVE Goal
  BY <1>1, <1>3, <1>4, <1>5 DEF Continue, CommitCredit, CancelDeposit, PayWithdraw,
     CommitRefund, CommitAdjust, CommitOpen
<1>6. ASSUME NEW b \in Admin,
             \/ \E d \in Deposit : ApproveDeposit(b, d) \/ RejectDeposit(b, d)
             \/ \E w \in Withdraw : ApproveWithdraw(b, w) \/ RejectWithdraw(b, w)
             \/ \E p \in App : ApproveApp(b, p)
             \/ \E x \in Account, n \in Adjustment : AdjustBalance(b, x, n)
      PROVE  Goal
  BY <1>2, <1>6 DEF ApproveDeposit, RejectDeposit, ApproveWithdraw, RejectWithdraw, ApproveApp,
     AdjustBalance
<1>7. ASSUME NEW b \in Admin, Rollback(b) PROVE Goal
  BY <1>1, <1>7 DEF Rollback
<1> HIDE DEF Goal
<1>8. ASSUME UNCHANGED req PROVE FALSE
  BY <1>8
<1>9. QED
  BY <1>5, <1>6, <1>7, <1>8 DEF Goal, Next, vars, RejectApp, DeleteWallets, PlaceDeposit,
     PlaceWithdraw, PlaceApp, SetFrozen

\* A request that takes its step waited for nobody.
LEMMA ContinueIsFree ==
  ASSUME NEW a \in Admin, NEW b \in Admin, Continue(a) PROVE ~Waits(a, b)
<1>1. CASE LockCreditWallet(a) \/ LockRefundWallet(a)
  BY <1>1 DEF LockCreditWallet, LockRefundWallet, WalletFree, Waits
<1>2. CASE CancelDeposit(a) \/ PayWithdraw(a)
  BY <1>2 DEF CancelDeposit, PayWithdraw, RowFree, Waits
<1> QED
  BY <1>1, <1>2 DEF Continue, CommitCredit, CommitRefund, CommitAdjust, CommitOpen, Waits

\* Who holds a wallet waits for nobody, and who holds an order waits for a
\* wallet at most: a set of requests has one that waits for none of them.
LEMMA NoCircle ==
  ASSUME NEW X \in (SUBSET Admin) \ {{}} PROVE \E a \in X : \A b \in X : ~Waits(a, b)
<1>1. PICK a \in X : TRUE
  OBVIOUS
<1>2. \A b, d \in Admin : Waits(a, b) => ~Waits(b, d) \/ LocksRow(b, req[a].obj)
  BY DEF Waits, LocksWallet
<1>3. \A b, d, e \in Admin : LocksRow(b, req[a].obj) /\ Waits(b, d) => ~Waits(d, e)
  BY DEF Waits, LocksRow, LocksWallet
<1> QED
  BY <1>1, <1>2, <1>3

RequestsAdvance ==
    /\ [](\A X \in (SUBSET Admin) \ {{}} : \E a \in X : \A b \in X : ~Waits(a, b))
    /\ [][\A a, b \in Admin : Continue(a) => ~Waits(a, b)]_vars
    /\ [][\A a \in Admin : req[a].pc # "idle" /\ req'[a] # req[a] =>
              StepsLeft(req'[a]) < StepsLeft(req[a])]_vars

\* The safety half of RequestsEnd, for any number of requests.  Among requests
\* that wait for rows there is always one that waits for none of the others,
\* because order rows are locked before wallet rows; its own steps bring a
\* request nearer to its end, at most two of them, and no other step sets it
\* back.
THEOREM RequestsDoAdvance == Spec => RequestsAdvance
<1>1. \A X \in (SUBSET Admin) \ {{}} : \E a \in X : \A b \in X : ~Waits(a, b)
  BY NoCircle
<1>2. [Next]_vars => [\A a, b \in Admin : Continue(a) => ~Waits(a, b)]_vars
  BY ContinueIsFree
<1>3. TypeOK /\ [Next]_vars => [\A a \in Admin : req[a].pc # "idle" /\ req'[a] # req[a] =>
                                    StepsLeft(req'[a]) < StepsLeft(req[a])]_vars
  BY RequestStep
<1>4. QED
  BY <1>1, <1>2, <1>3, TypeCorrect, PTL DEF Spec, RequestsAdvance
=============================================================================
