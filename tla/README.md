# A verification project for ovra-zero

`ovra-zero` is a Go (go-zero) back office: a RuoYi-style administration system
(users, roles, tenants, menus, sessions) with a member and finance domain
(`fb_*` tables: members, teams, wallets, deposits, withdrawals, contracts,
funds).  State lives in MySQL, reached through GORM, and in Redis.  The modules
here model the parts whose behaviour depends on the order in which concurrent
requests, other programs on the same database, and failures interleave.

## Inventory

| Component | State | Operations | What is hard | What makes it correct |
|---|---|---|---|---|
| Fund ledger (`dal/fb_user_wallet.go`, `fb_deposit.go`, `fb_withdraw.go`, `fb_wallet_apply.go`) | wallets, statement lines, order and application statuses | approve and reject deposits and withdrawals, adjust a balance, delete wallets, decide applications | row locks in some handlers, unlocked check-then-update in others; rollback of a half-done booking | statement replays to the balance; an order is booked once, with its amount, exactly when its status says so |
| Team tree (`dal/fb_team.go`) | `fb_users.parent_id`, `flag` (1: deleted), `agent_level` | change the parent of a member, list a subtree, cap the agent level | no lock between the cycle check and the update; depth limit of the check; deleted members are skipped by it | a cycle of parents can arise in known ways only; deleted members keep their row |
| Sessions (`toolkit/auth`, `auth/logic`, `monitor/online`) | a Redis hash per user, or per user and device, and its expiry | login, check a token, logout, force offline | several Redis commands per operation, no transaction | a token that was logged out is not accepted; keys expire |
| Tenant switch (`toolkit/tenant`, `tenant/clear_logic.go`, `user/get_user_info_logic.go`) | a Redis hash per user: the tenant it came from and the one chosen | set, read, clear | EXISTS followed by HSET or HGET | the user's own tenant is never forgotten; the hash never locks the user out |
| Request guards (`toolkit/middlewares`) | nonces and idempotency keys in Redis | idempotency, signature, encryption | retries, delays, expiry while a handler runs; clocks that differ | one handler per operation; no late effect; what a repeated message can still do |
| Contract control (`dal/fb_contract_order.go`) | control columns of open orders | set the control, switch direction, batch control | conditional updates racing settlement | a settled order is not controlled |
| Fund profit (`dal/fb_fund_position.go`, `fb_fund.go`) | positions, daily profit log | overwrite the profit of a day, products | update or insert without a lock | total profit is the sum of the log |
| KYC (`dal/fb_member.go`) | identity requests; `verified`, `verification_status`, `id_card` and `flag` of members | decide a request, edit form, delete, restore | two tables, one decision; a stale form writes the same columns; a unique index over cards | a decision is final; a verified member has an approved card |
| Tenants and packages (`logic/system/tenant*`) | tenants, packages, roles and their menus, accounts, dictionaries | add a tenant, add or change a role, apply a package, copy dictionaries | many statements without a transaction, and menus, roles, accounts and tenants that others delete in between | what was reported as added is whole; administrators have their role and its menus, but for known causes; synchronisations agree |
| Users, roles, departments, menus, posts (`logic/system/*`) | `sys_*` tables | create, change, delete with existence checks | check-then-act without unique keys | names are unique; trees have no cycle |
| Configuration and releases (`dal/app_config.go`, `toolkit/upload`) | one branding row, one release row, files | branding, release, upload of an application package | an upload reads the release row and writes all of it back | no edit is lost |
| Streams (`toolkit/stream`) | a slice, a mutex; channels and goroutines of an operation | filter, for each, distinct, map, sort | goroutines that do not hold the mutex read the slice; cancellation while a producer sends | each operation gives what a loop gives, ends, and leaves no goroutine |
| Reports, dashboards, monitors, notices, news, dictionaries, files | none of their own | queries and single-row writes | little | not modelled |

The components call each other only through the database and Redis: a handler
goroutine runs one request, and what it read stays true only while it holds a
row lock.  The member application (which places orders, freezes wallets,
settles contracts) is another program on the same tables; it is modelled as
external actions.

## Modules

| Module | What it models |
|---|---|
| `FundLedger` | the fund ledger: tables, requests in flight, row locks |
| `Journal` | the abstract ledger `FundLedger` implements: accounts, balances, numbers posted once |
| `TeamTree` | the team of a member and everything that rearranges it |
| `Session` | login sessions in Redis, command by command |
| `TenantSwitch` | the tenant hash of an administrator in Redis, command by command |
| `Guards` | the idempotency and signature middlewares, their keys and a clock |
| `Kyc` | identity checks: a decision over two tables, the edit form, deletion |
| `Register` | the register of identities `Kyc` implements: reviews and edits one at a time |
| `Provisioning` | tenants, roles and their menus, statement by statement |
| `Stream` | operations on a stream as goroutines and channels |
| `Pipeline` | the sequential operations `Stream` implements |
| `MC...` | the instances of each that TLC checks |
| `..._proofs` | the theorems about each |

A request passes `Guards` (idempotency), `Session` and `TenantSwitch` (both in
`ExecHandle`), again `Guards` (signature), and then runs the handler that
`FundLedger`, `TeamTree`, `Kyc` or `Provisioning` models.  They share no
variable: a guard refuses a request or lets it through, and every module of a
handler admits any number of requests, repeated ones included, in any order.  So
what holds of a handler's module holds behind the guards too, and composing them
would check nothing more.  `Kyc` and `TeamTree` are two views of `fb_users`, with
disjoint columns but for `flag`, which each changes freely.

### FundLedger

A request is a record in `req[a]`; its `pc` says which lock it waits for or
which commit it is about to make.  Locks are not stored: `LocksRow` and
`LocksWallet` derive them from `pc`, because a transaction holds a lock from
the step that read the row to the step that ends it.  A handler without a
transaction (`RejectDeposit`, `ApproveWithdraw`) holds nothing between its read
and its write.  The writes of a transaction appear together in its commit step,
as other transactions see them; `Rollback` ends any request before that.

| Code | Actions |
|---|---|
| `ApproveDeposit` with `depositCreditTx` | `ApproveDeposit`, `LockCreditWallet`, `CommitCredit` |
| `RejectDeposit` | `RejectDeposit` (read), `CancelDeposit` (write) |
| `ApproveWithdraw` | `ApproveWithdraw` (read), `PayWithdraw` (write) |
| `RejectWithdraw` with `addBalanceByUserIDTx` | `RejectWithdraw`, `LockRefundWallet`, `CommitRefund` |
| `AddBalance`, `ReduceBalance` | `AdjustBalance`, `CommitAdjust` |
| `DeleteByIds` | `DeleteWallets` |
| `VerifyWalletApplication` with `ensureWalletTx` | `ApproveApp`, `CommitOpen`, `RejectApp` |
| the member application | `PlaceDeposit`, `PlaceWithdraw`, `PlaceApp`, `SetFrozen` |

Amounts are whole cents.  A wallet row has a generation number in place of its
AUTO_INCREMENT id, so that a deleted and re-created wallet is a new row.

`Journal` is what the ledger promises: an account is opened empty, a posting
adds the amount its number stands for, under a number that was never used and
never below zero, an account is closed with whatever it holds.  `ImplementsJournal` is the refinement: the balances of the wallet
rows and the set of statement numbers are a `Journal`, so every history of
concurrent requests, failures and repeats is one of whole postings.

### TeamTree

`ChangeTeamParentByUsername` runs four statements without a transaction; each
is a step of a request in `req[a]`.

| Code | Actions and operators |
|---|---|
| `ChangeTeamParentByUsername` | `FindParent` (both look-ups), `CheckParent`, `SetParent` |
| `isUserInSubtree`, `teamTreeCTESQL` | `IsUserInSubtree`, `TeamTree`, `Level` |
| `GetTeamStatsByUserID` (five left joins), `ApplyTeamStatsAgentLevelCap` | `Joined`, `TeamStats`, `CappedStats` |
| `UpdateUser` (the edit form) | `UpdateUser` |
| `SoftDeleteUsers`, `RestoreUsers` | the same names |
| `UpdateTeamAgentLevel` | `UpdateTeamAgentLevel` |

The two look-ups of `FindParent` are one step, since neither decides anything
the other depends on.  A request that never takes its next step stands for one
that failed.  `Acyclic` says that every set of members has one whose parent is
outside it, which on finite sets is the absence of a cycle and needs no closure.

The code does not keep `Acyclic`.  What can be said of it, with every overlap of
changes, deletions, restorations and the edit form, is `CycleCauses`: a cycle is
closed by the edit form; by a change whose check was overtaken, that is, would
now refuse it; or by one whose check overlooks the new parent (`Overlooked`),
because a member on the way up from it is deleted or because the member is not
among its next five.  `overtaken` is history: the requests whose tree has
changed since they checked it (`Overtake`, a conjunct of `Next`).

### Session

A token is the signed user, device and second of expiry: two logins of one
device in one second get the same token, so `Login` takes a new token or makes
one again.  `SetToken` writes the four fields in the random order in which Go
ranges over a map, then the expiry.

| Code | Actions |
|---|---|
| `pcLogin`, `GenerateToken`, `SetToken` | `Login`, `SetField` (four times), `SetExpire` with the answer |
| `ExecHandle`, `CheckToken` | `CheckExists`, `CheckToken`, `CheckTime`, `CheckTimeout`, `Refresh` |
| `Logout`, `Offline` | `Logout`, guarded by what the user holds or the online page lists |
| Redis | `Tick` removes what expires; `Fail` is a command or a server that fails |

`KeyOf` is one key for all tokens when `MultipleLoginDevices` is off, a key per
device when it is on; a check uses the key of the device it comes from, which
need not be the one in the token.  `ended`, `active` and the fields `late` and
`older` of a request are history: they record which sessions are over and when a
key was last used, and no guard reads them.

### TenantSwitch

| Code | Actions |
|---|---|
| `GetTenantId` in `ExecHandle` | `Arrive` (EXISTS), `Resolve`, `Refuse` (HGET), `Serve` |
| `SetTenantId` (Dynamic) | `SetExists`, `SetOld`, `SetNew` |
| `Clear` | `ClearExists`, `ClearDel` |
| `GetUserInfo` | `InfoExists`, `InfoRead`, `InfoWrite`, `Lookup` |

The requests are those of one user, since no two users share a hash, and any of
them may overlap.  A Clear does harm in one way: it deletes the hash under a
switch, or a load of the user, that has taken the tenant from it and has yet to
look for it (`Stranded`).  That request then finds no hash, takes the tenant it
works in for the user's own, and writes it into `ot` or looks the user up there.
`stranded` is history: whether the last DEL did this.  `OriginalKept` and
`UserInfoAtHome` hold whenever it did not, so they also say that a switch that
half failed, a Clear that overlaps anything else, or two Clears do no harm, and
that the next Clear that strands nobody puts things right.  No document says what
a Clear that overlaps a switch does, so this is an exception that the properties
name and not a finding.

### Guards

| Code | Actions |
|---|---|
| a request arrives, once or again | `Deliver` |
| `IdempotencyMiddleware` | `Unguarded` (no key), `Idempotency` (`SetnxExCtx`) |
| `SignExecHandle`, `markNonceUsed` | `SignTime`, `MarkNonceUsed` |
| a refusal, a failure of Redis, the handler's return | `Drop` |
| Redis, the clock | `ExpireIdem`, `ExpireNonce`, `Tick` |

A message is a request as the client wrote it, with its timestamp and nonce; a
client that signs its retry anew makes another message of the same operation.
What an idempotency key is made of is `OpOf`: the middleware runs before the one
that authenticates, so its owner is in practice the Authorization header.  A
command whose answer is lost may have taken the key, hence both outcomes of
`Idempotency`.  A handler writes only while the request's context lives
(`Alive`), which go-zero ends after `Timeout`; the assumption `TimeoutShort` (3
seconds by default against 10) is what `OneHandler` rests on, and a longer
timeout in a configuration breaks it.  `RepeatsOnlyYoung` states how far the
signature protects: the nonce is kept for 300 seconds, but a message stamped
ahead of the server's clock is acceptable for longer, and then passes again.

### Kyc

| Code | Actions |
|---|---|
| `VerifyKyc` | `Call`, `LockRecord` (FOR UPDATE), `WriteMember` (waits for the row and the card), `Commit`; `Abort` |
| `GetUserInfo`, the form, `UpdateUser` | `Open`, `Type`, `CheckForm`, `SaveForm` |
| `SoftDeleteUsers`, `RestoreUsers` | the same names |
| the member application | `File` |

A form may be opened on a member without a card; `UpdateUser` refuses it until
one is typed in.  As in `FundLedger` locks are derived from where a transaction is.  A transaction
also holds the place of the card in the unique index `id_id_card`, so that two
members who show one card wait for each other and the second is refused.
`typed`, `reverted` and `missed` are history: whose identity an administrator
typed in, whose approval a form opened before it wrote back, and which records
were approved while the member was deleted.  The last two are what the code
permits against `ApprovalLasts`, which names them and excludes every other way.

`Register` is the same tables without locks and transactions: a record is
approved or rejected at once, a form is written at once, and a card that belongs
to another member is not written.  `ImplementsRegister` is the refinement, with
the five tables as they are: a `Commit` is an `Approve` or a `Reject`, a saved
form an `Edit`, and the waiting, the refusals and the rollbacks are stutters.
That a record is decided once (`DecisionFinal`) is part of it.

### Provisioning

| Code | Actions |
|---|---|
| tenant `Add`, `createAdminUser` | `AddTenant`, `InsertTenant`, `ReadPackage`, `CheckKey`, `InsertRole`, `CountMenus`, `BindMenus`, `AddDept`, `CheckName`, `InsertUser`, `GrantRole` |
| role `Add`, `Update` | `AddRole`, `ChangeRole`, `CheckKey`, `InsertRole`, `UpdateRole`, `CountMenus`, `BindMenus` |
| role `Remove` | `RemoveRoles`, `CountAccounts`, `DeleteRows`, `DeleteHolders`, `DeleteLinks` |
| `SyncTenantPackage` | `SyncTenantPackage`, `ReadPackage`, `ReadRoles`, `DropMenus`, `RebindMenus` for each administrator, `TrimMenus` |
| package `Update`; tenant `Update`, `Delete` | `EditPackage`; `EditTenant` (another number), `DeleteTenant` |
| `SysMenuDal.Delete`, `DeleteBatch` | `DeleteMenus`, with their rows of `sys_role_menu` |
| account `Delete`; giving and taking roles | `DeleteUser`; `GiveRole`, `TakeRole` |
| any error, or the end of the process | `Fail`, between any two statements |

The first four run statement by statement: only `AddSysRoleMenus` and
`AddSysUserRoles` are transactions.  The others are one transaction, or one
statement that matters here, hence one step; `edits` counts them, up to
`MaxEdits`.  Errors that the code drops are outcomes of the step:
`SelectByRoleKeyExit` and the counts ignore a failed query, and the error of the
department is overwritten.  `enabled` is the switch of the tenant plugin and
`Visible` the condition it adds; both settings are checked, since `etc/dev` has
the plugin off and the Helm chart
(`deploy/helm/ovra-zero/files/config/system.yaml.gotmpl`) has it on.  With the
plugin off the role key "admin" of the first tenant makes every further `Add` end
after its tenant row with "角色编码已存在".

`AdministratorEquipped` says that an account with its administrator's role finds
the role's row and, while the key of the role is the administrator's, at least
one menu.  Four things break this, and the property names them: a removal that
counted the accounts of the role before one got it (`free`); a synchronisation
between its DELETE and its INSERT, or one that gave up there; one that found the
role under another key and cleared its menus; and the deletion of its last
menus.  `why` remembers, of each role, by which of the last three its menus went.
`undone` are the additions of which somebody changed or deleted something
afterwards, and `calm` the synchronisations that no writer with other menus, and
no deletion of menus, overlapped.  All four are history.

### Stream

| Code | Actions |
|---|---|
| a call, `mu.Lock`, the return | `Call`, `Lock`, `Return` |
| producers of `Filter` and `ForEach` | `Range`, `Advance`, `Send` (both ends of the unbuffered channel) |
| consumer of `ForEach` | `Send`, `Select`, `Act`, `Drained`; `CancelContext` |
| `Map` | `Work` per element, `Join` closes the channel, `Receive`, `Drained` |
| `Distinct`, `Sort` | `Rearrange` |

`Pipeline` says what each operation gives when it takes effect at once;
`ImplementsPipeline` is the refinement, with `data`, `result` and `cancelled`
as they are.  A `ForEach` that was cancelled leaves its producer in the middle
of a send, for ever: `wg.Wait` counts the consumer alone, whatever the comment
beside it says.  It delivers nothing any more, but it holds the slice, which a
later in-place `Sort` rearranges.

## What the runs show

| Run | Instance | Shows |
|---|---|---|
| `ledger` | two requests, a main and a sub wallet, one deposit, one withdrawal, one application, two generated numbers, two generations | balances, statement and statuses agree; refinement of `Journal` |
| `ledger_live` | the same with one generated number, `FairSpec` | every request ends: nobody waits for ever for a row |
| `ledger_cancelled` | the same with one generated number | a rejection can cancel a deposit that was credited, see below |
| `team_writers` | three members, two administrators, edit form, deletion | the two tree queries agree; deleted members stay as they are; a cycle has one of three causes |
| `team_race` | three members | two changes at once close a cycle |
| `session` | two tokens, one key, two requests, failures, clock 1 to 3 | ended and idle sessions are not accepted |
| `tenant_switch` | three requests, three tenants, failures | the own tenant is kept and the user is found, unless a Clear stranded a request |
| `guards` | three messages of two operations, one of them with a key, two requests at a time, clock 1 to 5, expiry and window 2, timeout 1 | one handler per operation, no late effect, which repeats pass |
| `kyc` | two reviewers, two members, three records, two cards, two forms | refinement of `Register`; verified members are backed |
| `kyc_live` | two records of one card, one form, `FairSpec` | every review and every save ends |
| `provisioning` | two requests, a tenant that is there or not, one to be added, two roles whose key may change, one menu, one edit or deletion, plugin on and off | administrators have their role and menus but for four causes, added tenants are whole, synchronisations agree |
| `stream` | two callers, three elements or none, `FairSpec` | refinement of `Pipeline`; every call returns |

Bounds.  Two requests are enough for every conflict of a pair of handlers over
one row or hash; three in `tenant_switch` let a third observe two switches.
Deposits, withdrawals, applications and wallets do not share rows beyond those
of one member.  Two generations let a wallet be deleted and opened again under
a request that knows the old row; two generated numbers let two adjustments run
together.  In `team_writers` the edit form may write any parent, so the two
queries are also compared on members that are their own ancestors.  Three members
are enough for every cause of a cycle but the depth of the check, for which it
takes seven (`SevenInLine`); that `CycleCauses` is complete there too is proved.  The clock of `session` runs from 1 to 3 with an idle time of 1, so
that a session idles out while its token and its hash live on; two tokens
make one login older than the other and, in one second, the same.  Requests,
tokens that share a key, foreign tenants and generated numbers are
interchangeable, which the runs without liveness properties use as symmetry.

The two messages of one operation in `guards` are a request and its retry signed
anew, the third is an operation without a key; the clock passes an expiry twice,
so that a key is taken, lost and taken again while a request is under way.  In
`kyc` one member has two records, so that a rejection can follow an approval,
and the other shows the card of one of them, so that the index refuses; two forms
let one write back what the other replaced.  In
`provisioning` every request runs once; two are enough for a synchronisation
against another, a change or a removal of a role.  A role has its one menu or
none, which is what the properties ask of it; one edit or deletion lands between
any two statements, and the proofs are for any number.  Three elements in `stream`, two of them equal to
`Distinct` and one refused by `Filter`, let a later element overtake an earlier
one; the empty slice is the other end.

`CHECK_DEADLOCK FALSE` in the configurations of `FundLedger`, `Session` and
`Provisioning`: the supply of orders and numbers, the clock, and the requests and
edits are bounded, and when they are used up the system stops.

Fairness.  `FairSpec` in `FundLedger` asks strong fairness of `Continue(a)`, the
steps a request takes after it has arrived, and nothing of arrivals.  A handler
is a goroutine that runs on; waiting for a row means queueing in InnoDB, which
grants a lock in order of arrival, so a request whose lock is free again and
again gets it.  Weak fairness would not do, since other requests take and
release the lock in between.  `FairSpec` in `Kyc` asks the same of the steps that
wait for a row or a card, weak fairness of the commit, and nothing of an
administrator who has a form open.  `FairSpec` in `Stream` asks weak fairness of
every goroutine, which the Go scheduler gives as long as predicates and actions
return, and strong fairness of taking the mutex: `sync.Mutex` hands itself to a
goroutine that has waited for a millisecond.  The other runs need no fairness.

### Where code and documentation disagree

- A rejection can cancel a deposit that an approval has credited meanwhile
  (`ledger_cancelled`).
- The parent relation can get a cycle by two concurrent changes (`team_race`).
- `docs/biz-api.md:439` says that a passed review sets `verified` to 1.  It does
  not when the member is deleted at that moment, and a restored member then has
  an approved record and is not verified.  `ApprovalLasts` names the case
  (`missed`), so it has no run of its own.

Plain in the code and without a run of their own:

- `ApproveWithdraw` turns a withdrawal that was rejected and refunded into
  SUCCESS; it refuses only SUCCESS itself.
- A cycle of parents also arises through a member that was deleted and restored,
  through a team deeper than the five levels `isUserInSubtree` looks down, which
  its comment takes for the full depth (`SevenInLine` is a theorem), and through
  the edit form.
- The write-back of `CheckToken` after a logout makes a session hash with one
  field and no expiry.
- A first tenant switch that fails half-way leaves a hash with which every
  request of the user is refused, with the advice to log in again, which does
  not help.
- A body of more than one MiB reaches the handler truncated
  (`readRequestBody`); the limit of the middleware is meant for its key alone.
- A synchronisation that stops between DELETE and INSERT leaves an administrator
  without menus; two that overlap an edit of the package can leave a mixture.
- A removal of a role that runs between the INSERT of the role and that of its
  holder leaves an account with a role that has no row; the other causes that
  `AdministratorEquipped` names are as plain.

## What is proved

All theorems hold for every value of the constants that satisfies the named
assumptions of the module (the constants have their types; `None` and the like
are not among the values; times are positive, but for the active timeout of a
session, which may be any integer).

- `FundLedger`: types, `StatementReplays`, `NoOverdraft`, `SuccessMeansCredited`,
  `RejectedMeansRefunded`.  None is inductive.  `IInv` adds what the code relies
  on between the read and the write of a transaction: at most one request holds
  a row (`RowLocks`) or a wallet, and the wallet it holds is as it read it
  (`WalletLocks`), the order of a request that holds it still has the status it
  read (`StillOpen`), a key without a row holds nothing and no statement line is
  ahead of its wallet (`Rows`), and a deposit that is not settled has no line
  under its number (`Settled`).
  The action properties follow from the same invariant: `WhoPosts` says that a
  number enters the statement only in a commit or as a withdrawal is placed, so
  that what `IInv` says of the committing request holds of every new line.
  `FrozenTakesNoDeposit` also needs that a key without a row is not frozen, so
  that the row a credit creates is not (`NoRowNotFrozen`).
  The refinement `ImplementsJournal` maps each commit to a `Post`, the opening of
  an approved application to an `Open`, a deletion to a `Close` and every other
  step to a stutter; that a withdrawal's number is new when it is placed is
  `UnplacedUnposted`.
  `RequestsAdvance` is the safety half of `RequestsEnd`: an order row is locked
  before a wallet row and never after, so requests do not wait in a circle; the
  next step of a request waits for nobody else when it is taken, no other step
  sets a request back, and two of its own end it.
- `TeamTree`: types; a deleted member keeps its row (`DeletedKept`), because
  every write repeats `flag = 0`; and `ChangeOutsideTeam`: if the new parent
  lies outside a set that contains the member and, with every member, its
  children, then the write keeps `Acyclic`.  A set without an exit after the
  write would have had one before, at the member itself, and would be inside
  that set.  This is what the check would have to ensure; the violations are
  ways in which it does not.
  `StatsMatch` proves `StatsMatchTree` for all members, in trees and in cycles:
  a level is what the chain of joins reaches (`LevelIsEnds`, `JoinsAreLevels`,
  each of the five levels from the one before, without an induction), and the
  rows of a level are as many as its members (`RowsCounted`).
  `CyclesCaused` proves `CycleCauses`, with no condition on the trees, on how many
  requests run or on what is deleted and edited.  `CheckedInv` says that between
  the check and the write the new parent is still not below the member as the
  check looks (`StillChecked`), unless the request was overtaken; and
  `CycleOverlooked` follows the parents from the new parent upwards.  A cycle
  leads through the member, so they come to it: within five steps, and then one
  of them is deleted, since otherwise the check would have seen the way
  (`CheckSeesPaths`, `UpwardIsBelow`); or not within five, and then they are all
  different, since the tree had no cycle before.  `SevenInLine` shows that the
  depth is a real cause.
- `Session`: types; `EndedStaysOut` and `IdleSessionsEnd`.  The first needs
  `SessionInv`: the token of an ended session is in no hash and no login that
  could write it is under way (`EndedIsGone`); a login that has written its
  token has thereby removed the older ones of its key, which nobody writes again
  (`OlderDrivenOut`); a late check still carries an ended token (`LateIsEnded`).
  The second needs `NotAhead`: a `currentTime`, stored or read, is at most the
  last use of its key.
- `TenantSwitch`: types; `OriginalKept` and `UserInfoAtHome`, for any overlap.
  `KeptInv` is the reason: unless the last Clear stranded a request, whoever
  works in another tenant took it from a hash that is still there when it looks
  for it, and whoever found none works in the user's own (`Knows`).
- `Guards`: types; `OneHandler`, `NoLateEffect`, `RepeatsOnlyYoung`, and
  `KeysRunOut`, a bound on the life of a key that has no run, and `TakenApart`, which
  has none either: an operation passes at most once in `Expire` seconds.  A request past the
  middleware has the key until its context ends (`Kept`) and is the only one
  (`Alone`); keys expire no later and no sooner than they should (`KeysDue`,
  `NonceKept`).
- `Kyc`: types; `Backed`, `ApprovalLasts`, `DecisionFinal`, and `DeletedKept`,
  which has no run: a deleted member's identity is left as it was by reviews and
  forms under way.  `KycImplementsRegister` is the refinement `ImplementsRegister`.
  It and `KycCardsUnique` (no two members have one card) rest on `Reserved`: from
  the UPDATE to its commit a transaction has the member's row to itself, and its
  card is no other member's and in no other transaction.  `KycReviewsAdvance` is
  the safety half of `AllEnd`: whoever waits, waits for a review nearer to its
  end, and no review is set back.
  `Locked` says that a record under review is pending and under
  one review; `FormsBacked` that what an open form holds is backed as the row is,
  which is why a stale form cannot verify anybody.
- `Provisioning`: types; `AdministratorEquipped`, `AddedIsWhole`, `SyncsAgree`,
  with any number of edits and deletions.  `Structure` says which rows and menus
  a request has at each statement (`Shape`, `Counted`), `Placed` that two
  additions do not work on one role (`Distinct`) and what an addition has made so
  far (`Rooted`).  `Equipped` extends the first property to roles whose account is
  not yet made (`Manned`): they keep their row (`Kept`) and their menus (`Armed`)
  but for the named causes.  `Calm` says that beside a calm synchronisation of a
  tenant run only writers of the same menus (`Alone`), and what they leave
  (`Clean`).
- `Stream`: types; `ReadsUnderLock`, `CancelStops`, `NothingLeftBehind`, and the
  refinement `ImplementsPipeline`, for data of any length.  `Sound` describes
  each kind of operation in the middle: `Filter` has the kept positions before
  the producer's, in order (`Filtering`), `ForEach` the positions themselves
  (`Traversing`), `Map` has every position in a goroutine, in the channel or in
  its place (`Mapping`).  Each step is then a stutter or, at the return, the
  operation of `Pipeline`.
  `StepsCounted` is the safety half of `CallsReturn`: while an operation holds
  the mutex one of its goroutines, or the caller, can go on, cancelled or not,
  and `Left` counts down from at most 4n + 4 for n elements.

Only model-checked: `RequestsEnd`, `AllEnd` and `CallsReturn`.  Liveness under
fairness and ENABLED are outside what the proof system handles; their safety
halves, no circular wait and a measure that the own steps bring down, are proved
as said above.

A note for whoever changes these modules: the proof system reads
`SUBSET A \ B` as `SUBSET (A \ B)` and TLC as `(SUBSET A) \ B`, and they differ on
`UNION` and on `%` beside `-` as well.  Such terms carry parentheses, without
which a theorem would speak of something else than the runs.

## Not modelled

Nothing in them depends on order or failure: reports, dashboards and monitors
(read-only queries), notices, news, dictionaries and clients (single-row
writes), request encryption and file storage, start-up and wiring, the demo.
Generated code (types, handlers, GORM models and queries, protobuf) is the
larger part of the repository's lines and decides nothing.

- Contract control and fund profit: each write is one conditional statement on
  one row; what the written columns mean is decided by the settlement program
  and the scheduled job, which are not in this repository.  A batch that writes
  a control for a direction changed meanwhile is listed as a hazard.
- The captcha and the password of a login: one Redis key and one comparison.
- The configuration and the release row: whole-row writes by forms.
- Of KYC: password resets and the columns of the edit form that no review
  writes.
- Of tenants, users and roles: the synchronisation of dictionaries (two steps,
  DELETE and INSERT, of the same shape as that of menus), the status of tenants,
  packages, roles and accounts, the renaming of accounts, the deletion of
  packages, adding and moving menus, and departments and posts.  None of them
  writes a row that a property is about.  Most look something up and then write
  in a statement or transaction of its own, which no unique key backs, so that
  names can be doubled and a child can be added to a menu that is being deleted;
  there is no property of the kind to check, since the code has nothing that
  would make it hold.
- Of the team tree: the sums per member, the search and the global statistics,
  which write nothing.
