# Verification of neo-os-web

TLA+ models of the parts of the platform that move value and run concurrently,
TLC configurations that check them on small instances, and TLAPS proofs for
every value of the constants.

## 1. The system

The repository is a mini-app platform for Neo N3: a host application (Next.js),
edge functions (Deno, on Supabase), SQL migrations that hold most of the
transactional logic, an SDK, an admin console and some hundred mini-apps. The
source of truth is PostgreSQL for off-chain state and the Neo chain for the rest.
Chain transactions are signed and broadcast by TxProxy, a service outside this
repository, which refuses a `request_id` it has seen.

| Part | State it keeps | Operations | Talks to |
| --- | --- | --- | --- |
| Credits ledger (`deploy/migrations/078`, `credits-ledger`) | `credit_balances`, append-only `credit_events`, its id sequence and two unique indexes | `credits_spend`, `credits_credit_purchase`, `credits_apply_exit`, read | called by clients and by the indexer |
| Credits indexer (`credits-indexer`) | `credit_indexer_state` (cursor) | one cron run: load cursor, scan blocks, post notes, save cursor | Neo RPC, ledger |
| Credits settler (`credits-settler`) | `credit_epochs` | one cron run: read chain epoch, reconcile, prepare a window, post it, record it | Neo RPC, ledger, TxProxy, contract |
| OneGate vault (`lib/onegate-vault.ts`, migrations 063-074) | claim keys, campaign pools | claim, pay, mark, poll status | TxProxy, Neo RPC |
| GAS sponsorship (`gas-sponsor-request`, `lib/sponsor-quota.ts`, migrations 024, 039, 040, 077) | per-user quotas, global budget, rate limits | bump, release, transfer, sign | TxProxy |
| GasBank (migrations 041, 052, `gasbank-*`) | balance, reserved, transactions | deduct, credit, reserve, release | services outside the repository |
| Publish approval (`admin/publish-requests.ts`, `miniapp-versioning.ts`, migrations 053-055) | request status, versions, release pointers, hash-chained audit | submit, review, apply, roll back, verify | admin console |
| Wallet login (`auth-wallet-nonce`, `auth-wallet`, `wallet-nonce`, `wallet-bind`) | `users` with one nonce column, `user_wallets` | issue nonce, log in, bind | wallets, auth service |
| Replay protection, usage caps, rate limits, policy cache | counters, seen requests | bump, check | all of the above |
| Notifications, SDK, bridges, UI | client-side lists and connection records | - | host app |

What is hard in it: database transactions interleave under READ COMMITTED; cron
runs may overlap because nothing keeps them apart; every HTTP, RPC or SQL call
may fail, and may take effect although its reply is lost; a serverless function
may die between two statements; a transaction sent to the chain may land, fault,
or vanish long after the code has given up on it; ids are drawn before commit.

What makes each part correct:

* ledger - balances are the fold of the log, one debit per idempotency key, one
  posting per notification, true answers, every call answered;
* indexer - nothing falls behind the cursor, chain order, everything is posted;
* settler - each spend reaches the contract exactly once, windows are exact,
  confirmed means settled;
* vault - one payment per claim key, the pool is conserved, paid means paid;
* sponsorship - usage never above the limit, each reservation released at most
  once and on its own day;
* GasBank - 0 <= reserved <= balance, the log folds to the balance, one credit
  per deposit;
* credits as a whole - when all is indexed and settled, database and contract agree;
* publish approval - versions are numbered in order, an active app is what its
  release says, a request is decided once and applied only when its version is
  published, the audit chain verifies;
* wallet login - a nonce is good for one login and one binding, a login owns the
  wallet it signed with.

## 2. Modules

| Module | Models |
| --- | --- |
| `CreditsTypes` | constants shared by ledger, book and indexer |
| `CreditsBook` | abstract specification of the ledger: every operation atomic |
| `CreditsLedger` | the SQL transactions with row locks, indexes, sequence, commit and abort |
| `CreditsIndexer` | overlapping cron runs over the book |
| `CreditsSettler` | overlapping cron runs, `credit_epochs`, TxProxy, mempool and contract |
| `OneGateVault` | claim calls, status polls, TxProxy's replay protection, the fate of payments |
| `CreditsSystem` | contract and database balances, and what ledger, indexer and settler move between them |
| `GasBank` | the SQL functions of prepaid accounts and the two edge functions that write |
| `Sponsorship` | both ways to get GAS sponsored, access by access, over days |
| `PublishApproval` | the admin API on one app: saving, requests, reviews, status, rollback, audit log |
| `WalletLogin` | nonces, logins and bindings of wallets |
| `Services` | the five modules above side by side, for one run |
| `MC...` | instances for TLC |
| `FiniteSums` | lemmas about sums of functions over finite sets |
| `..._proofs` | theorems and their proofs (`Services_proofs`: those of `CreditsSystem`, `Sponsorship`, `GasBank` and `Services`) |

`CreditsLedger` implements `CreditsBook` (property `ImplementsBook`, theorem
`Refinement`), and `CreditsIndexer` is written on top of `CreditsBook`, so what
is shown of the indexer holds with the SQL transactions underneath. The settler
sees the ledger only as events that appear when they commit, with an id drawn
before, which is the part of `CreditsLedger` its queries depend on.

### CreditsLedger

A session is one database connection. `req[s]` is a spend past its first SELECT,
waiting for `FOR UPDATE`; `staged[s]` is the event an open transaction has
written, which also stands for the lock of its wallet's row (`Locked`). `Commit`
makes balance, totals and event visible at once; `Abort` is a dropped
connection, a statement timeout or a database crash. `known` are the wallets
that have a balance row: a wallet without one takes another path in
`credits_spend`. The answer of a committed transaction may be lost
(`Commit`, second disjunct), and a client may retry at any time with the same key.

Left out: the network column (every table, index and query is keyed by it), the
`miniapp_id` metadata, the read handler, the request's amount echoed in answers.

### CreditsIndexer

`run[r].at` is the call a run makes next. Each of them can fail (`ScanFails`,
`Crash`) or take effect with its reply lost (`ApplyReplyLost`,
`BootstrapReplyLost`). Parsing of application logs is abstracted to the notes of
each block. The first cursor is an upsert, and `SaveCursor` is unconditional,
as in the code. `start` is a history variable: the first cursor ever written.

### CreditsSettler

`epochs` is the `credit_epochs` table, `txs` the settlements broadcast with
their fate. A batch is the set of events whose amounts its deltas add up, which
is what lets the properties say "once". A run reads the chain epoch, loads the
submitted rows, reconciles them one by one by the transaction it loaded,
prepares the next window, posts it, and records the result. Resolving an epoch
updates by status alone, as the code does: the row may hold another transaction
by then. Where the application log cannot be fetched, the chain epoch that the run has
read decides, and where that is behind, the timeout, although the settlement may have
landed meanwhile. A confirmation timeout that strikes before the transaction's fate is known
counts as a fault. `credits_prepare_epoch` is one step.

Two history variables name what the code cannot see. `late` are the spends that
committed below a window already cut; `onRecord` are the settlements that
`credit_epochs` accounts for, up to the moment a row gives them up although they
are still alive. The history field `by` of a row and of a settlement is the run that
has prepared or posted it: `Owned` are the settlements on record whose row is still
the one their own run has prepared. The two differ when runs overlap. A run may
prepare an epoch over another's row, the row may be submitted, fail, and be prepared
again with the first window by a third run that has read the chain long before; the
first run then records its settlement in a row that is not its own, while a fourth
has started its window above the row that failed in between. What that row held is
never posted, though a later window is confirmed.

### OneGateVault

`row` is the table of claim keys, `remaining` and `claimed` the campaign's
columns. `call[c]` is a claim call between two of its awaits: it has reserved
(`pay`), sent the payment (`wait`), is about to record it (`mark`) or is in the
`catch` block (`fail`). `poll[p]` is a status call between its read and its
update. `onegate_vault_reserve_claim` runs under the locks of the key and the
campaign and is one step in three forms: `Bind` an unused key, `Retry` a failed
one under a new request id, `Rejoin` a pending one under the old id. `seen` is
TxProxy's memory of request ids, which forgets after its window
(`SeenExpires`, migration 042); `txs` are the payments with their fate.
The updates of `markSubmitted`, `markPaid` and `markFailed` match request id and
status, and an update that matches nothing throws inside the same `try` as the
payment, which is why `MarkConflicts` ends in `MarkFailed`.

`writtenOff` is a history variable: the payments that a row has given up, or
that its row never waited for, although they have landed or may still land.

Left out: the network column and the checks of pool, app and launch ids, which
only reject; seeding of campaigns and keys; the audit log, filled by a
trigger; two claims of one key in the same millisecond, whose request ids are
equal. A paused or expired campaign binds no key, which the model covers by
never obliging `Bind` to happen.

### CreditsSystem

The composition of the three credits functions with the contract, at the level at
which their own modules leave them: `SpendCredits` and `IndexNote` are operations
of `CreditsBook`, the notes are posted in order and once (`InOrder`,
`MirrorsChain`), and one settlement is under way that holds each spend once
(`NeverPreparedAgain`, `ExactWindows`). It has no faults, since the question is
another: both sides clamp debits at zero, the contract those of settlements, the
database those of exits, each in an order of its own. `rebought` is a history
variable: wallets that bought while an exit was not indexed yet, or after an exit
that had paid out credits already spent. For them the books may stay apart, in the
wallet's favour (`NoCreditLost`).

### GasBank

Each SQL function locks the account's row first, so it is one action. `committed`
is a history variable, what `gasbank_atomic_release` has taken with `p_commit`: it
writes no transaction row, so nothing else in the database tells. Amounts are
positive by assumption; the functions do not check, and their callers are not in
the repository.

### Sponsorship

`sponsorCall[c].at` is the access a call makes next. The first call of a day finds
no row to lock, so `Bump` and `InsertUsage` are two steps, with another call's
insert possible between them. `tally` is a history variable per scope and day:
what was signed or sent (`spent`), counted for nothing (`leaked`), or given back
on a later day than it was counted on (`late`).

### PublishApproval

The handlers make fixed lists of database accesses without a transaction; `todo`
holds those a call has still to make, and one action is one access, so that any two
calls interleave at any access and may fail at any. `past` is a history variable
with what the properties excuse: calls that changed the app overlapped or failed
half way (`mixed`), two reviews held one request (`contested`), two calls appended
to one log or one did not see its head (`forked`), a review failed in its middle
(`abandoned`). `AppliedIsPublished` needs none of them: a request that says applied
names the version that its own review has published, whatever overlaps or fails. An audit row names the place of its predecessor in the place of the
hash.

### WalletLogin

Login and binding keep their nonces in the one `nonce` column of `users`, and
write `users` and `user_wallets` access by access, mostly without a look at the
error. Ids are pairs: `Wallet(a)` is the account the auth service derives from an
address, `Temp(a)` the row a first login's nonce is kept in, `Social(x)` another
account. A row for a new address is made first (`CreateAccount`) and the nonce written
by a later upsert on the address (`IssueLoginNonce`), which may find another row there. `logins` and `binds` count what a nonce was good for; `troubled` are the
addresses at which another call, or a fault nobody looked at, came between the
writes of a login; `doubled` the nonces that two bindings held at once or that
one that died had used.

### Services

The five modules share no state, so a behaviour is of one of them, the `focus`,
and the others rest. They are checked by one run; each remains a specification of
its own (`SystemSpec`, `BankSpec`, `SponsorSpec`, `PublishSpec`, `LoginSpec`). `MCServices` gives
their calls and values from the same sets, so that one symmetry serves all.

## 3. Runs

| Run | Checks | Instance |
| --- | --- | --- |
| `ledger` | `TypeOK`, `LedgerChain`, `LoggedOnce`, `AnswersBacked`, `TotalsAccount`, `SpendsAnswered`, `ImplementsBook` | 2 sessions, 2 wallets, 2 keys, amounts 0..2, 2 purchases and an exit, ids up to 5 |
| `ledger_retry` | `RetryGetsOriginalOutcome` is violated | 1 key |
| `indexer` | `TypeOK`, `CursorSound`, `InOrder`, `MirrorsChain`, `EventuallyPosted` | 2 runs, 4 blocks, 4 notes, 2 faults, 2 blocks per run, a start block |
| `indexer_first_runs` | `CursorSound` is violated | the same without a start block |
| `settler` | `TypeOK`, `ConfirmedSettled`, `ExactWindows`, `NeverPreparedAgain` | 2 runs, 2 spends, 1 wallet per batch, 3 settlements, 1 fault |
| `settler_retries` | `SpendsSettled` | 1 run, 4 settlements, 2 faults |
| `settler_unrecorded` | `NoDoubleSettlement` is violated | 1 run, 1 spend, 1 fault |
| `settler_gap` | `NoSpendLeftBehind` is violated | 1 run, no fault, 2 wallets |
| `vault` | `TypeOK`, `PoolConserved`, `RowsTruthful`, `NoSecondPayment`, `PaidIsFinal`, `EventuallyPaid` | 2 keys, a pool of 2, rewards 1..2, 2 claim calls, 1 poll, 3 request ids, 2 payments, 1 fault |
| `vault_reclick` | `PaidOnce` is violated | 1 key, no fault |
| `services` | `TypeOK`, `BooksConverge`, `NoCreditLost`, `BankSolvent`, `EntriesExplainBalance`, `CreditedOnce`, `VersionsNumbered`, `ActiveIsReleased`, `ApprovedMeansApplying`, `AppliedIsPublished`, `AuditVerifies`, `DecidedOnce`, `BudgetKept`, `BudgetBalances`, `OneLoginPerNonce`, `LoginOwnsWallet`, `OneBindingPerNonce` | see below |
| `approval` | `ApprovalPublishesRequest` is violated | the publish part of `services`, no fault |

Why the bounds are enough. *Ledger*: two sessions are what it takes for a lost
update, a retry that overlaps its original and a queue for a row lock; five ids
allow a purchase, an exit that is clamped, a spend, its retry and an id lost to a
rollback; the amounts hold an invalid one and one that exceeds the balance.
*Indexer*: two runs overlap in every order; ranges of two blocks over a chain of
four make a run end in the middle of the chain and another continue; block 3 has
two notes, so that it can be posted in part; two faults allow a failure during
the recovery from another. *Settler*: two spends of two wallets with one wallet
per batch make a batch leave spends for the next; three settlements allow one to
be retried while another run still holds the first. What takes more runs, such as
a settlement recorded in a row that is not its own, is beyond the instance; the
theorems of `CreditsSettler_proofs` state all three of its properties for any number
of runs. Runs are interchangeable, and so are wallets, since the cap cuts a batch by
the order of ids: nothing refers to one by name, which makes the symmetry of `settler`
(`Alike`) sound; the runs with liveness properties use none. *Vault*: two calls and a poll are
what it takes for a reply that comes late, a poll that outlives a retry and a
second click; the pool of two with rewards up to two makes the second key take
what is left or find the pool empty; three request ids allow a retry of each
key or two of one.

*Services*: one wallet, 4 notes and 3 spends of 1 or 2 credits let it buy, spend,
exit, spend again before the exit is indexed, and buy again (wallets do not
share anything in `CreditsSystem`); one account with 3 entries, a
reference and NULL (the account's row is all that the functions touch); two
overlapping calls of three, and one fault, in each of the others: two is what
every hazard of theirs takes, the third call meets what the two have left. Two
days and a limit of 2 with fees of 1 or 2 make a budget run out and a release
cross midnight. Two manifests tell an old app from a new one; two admins, one of
them the API key that may review its own requests. Two addresses and a social
account let a binding meet a login of the same address and an account have a
second wallet. Calls, manifests and addresses are interchangeable, and there is
no liveness property in the run, so its symmetry (`Alike`) is sound.

The history variables of `services` appear in properties as what they excuse:
outside of them no order of accesses and no fault breaks the property. Each excuse
is one the code gives rise to, and so names a weakness that the property does not
rule out; the hazards of PROJECT.json say so where they are listed:

| Excused | By | What the code does there |
| --- | --- | --- |
| `rebought` | `BooksConverge` | the contract takes a spend from a later purchase, the ledger has taken it from an earlier one; `NoCreditLost` still holds |
| `late` | `BudgetKept` | a reservation released after midnight lowers the next day's row; `BudgetBalances` says by how much |
| `mixed` | `ActiveIsReleased` | calls that overlap or fail leave an app of one and a release of another |
| `contested` | `DecidedOnce`, `ApprovedMeansApplying` | two reviews that read pending overwrite each other |
| `abandoned` | `ApprovedMeansApplying` | a review that fails leaves its request approved, and no review takes it up |
| `forked` | `AuditVerifies` | two calls chain to one row, or to none after a failed read |
| `doubled` | `OneBindingPerNonce` | two calls that read one nonce both bind, or one that died has not rotated it |
| `troubled` | `LoginOwnsWallet` | errors of a login's writes are ignored, and another call's come between them |

Likewise `EventuallyPaid` of the vault leaves out a submitted claim whose payment has
vanished, which the code never takes up again. `VersionsNumbered`, `AppliedIsPublished`,
`NoCreditLost`, the properties of GasBank, `BudgetBalances` and `OneLoginPerNonce`
have no exception.

`CHECK_DEADLOCK FALSE` stands where the system may rest (no client calls, all
ids or settlements of the bound used); the indexer runs always have a next step.

### Fairness

* Ledger: a statement that runs ends (`WF` of commit or abort), and PostgreSQL
  hands out a row lock in the order of its queue, so a waiting session is not
  passed over for ever (`SF` of the step that needs the lock).
* Indexer and settler: cron starts runs again and again, and a run that does not
  crash goes on (`WF` of a run's own steps). Faults are never fair, they are only
  bounded. A settlement that stays in the mempool is executed (`WF` of `Land`).
* Vault: a serverless function that does not die goes on (`WF` of its steps). That
  the owner of a key claims again and looks at the status until it is paid (`SF`
  of `Again` and `PollReads`) is an assumption about people, not about the
  code: nothing on the server retries a claim. `EventuallyPaid` says that the code
  never leaves such an owner without a way to be paid, except for a payment that
  vanishes from the mempool: its claim stays `submitted`.

## 4. Findings

Each violation run has its counterexample, and PROJECT.json quotes the line.

1. `credits_spend` compares the balance before it asks the unique index: a retry
   that overlaps its original can be told `insufficient_credits` for a spend that
   was made (`ledger_retry`).
2. Two first indexer runs without a configured start block can move the cursor
   over blocks never scanned (`indexer_first_runs`).
3. A settlement that lands although its epoch could not be marked submitted is
   posted again under the next epoch (`settler_unrecorded`); reconciliation looks
   at submitted rows only.
4. A spend whose id is drawn before a window is cut and which commits after it
   is never settled (`settler_gap`).
5. A second click on a vault key that is being paid is refused by TxProxy as a
   replay, marks the claim of the first click failed, and the next click pays the
   key again, without any fault (`vault_reclick`).

6. An approval publishes the app as it was before, not the draft snapshot that the
   request names (`approval`), though the docs say that the approval applies what
   was submitted.

Observations from the reading that have no run:

* a login clears every other account that has its address
  (`auth-wallet/index.ts:111-113`): one that had bound the address as its primary
  wallet is deleted, and by cascade what hangs on it;
* where publishing needs approval, the request of an app that is not in `miniapps`
  yet always fails, because the release row refers to the app's row (`CreateRelease`);
* a commit of reserved GAS leaves no row in `gasbank_transactions`, so that the
  rows alone do not add up to the balance (`EntriesExplainBalance` says by how much
  they differ);
* a share of the global budget that is taken before midnight and given back after
  it lowers the next day's usage, which `BudgetKept` allows for as `late`.

The passing properties of the settler say exactly how far these reach:
`NeverPreparedAgain`, `ConfirmedSettled`, `ExactWindows` and `SpendsSettled` hold
for everything that is neither late nor off record, the second and the last as long
as each settlement that landed is on record in a row of its own (`Owned`). In the vault, `NoSecondPayment`
says that a payment is only repeated after the first was written off while alive.

## 5. Proofs

Assumed: the named assumptions of the modules, which say that the constants have
the types they are declared with, that notes carry positive credits, that a note
stands in one block only, that the contract burns no more with an exit than the wallet
has bought there and not burned before (`ExitsAssumption`; the contract is external), that
there is a first day, that the absence of a row is no row, and that the shared
API key acts as an admin. TLC evaluates them in the passing runs. Nothing
bounds the number of wallets, sessions, keys, notes, runs, calls, polls or faults.

Every invariant, every action property and the refinement that a passing run checks
is a theorem here; only the liveness properties are not.

`FiniteSums`: pools, budgets, totals and logs are added up with the library's
`SumFunctionOnSet`, a recursive function over the subsets of a set. An induction over
them would instantiate an operator parameter, which the provers cannot do. Its place is
taken by a least counterexample: among the subsets for which a lemma fails one has no
other inside it (`LeastSubset`, from the well-founded ordering of the subsets of a finite
set), and the element that the sum counts first leads from it to a smaller one. So
the recursion is shown to define a function (`SumFcnExists`, `SumFcnUnique`, `SumDef`), any
element may be counted first (`SumRemove`), one that joins adds its value (`SumAdd`), and a
sum depends on its values alone (`SumSame`).

`CreditsLedger_proofs`:

* `TypeCorrect`, `LogFolds`, `NothingTwice`, `AnswersTrue`, `TotalsAddUp`. The
  inductive invariant `IInv` adds to the properties what they need: one open
  transaction per wallet and what it staged agrees with the current row
  (`SoleHolder`, `StagedGood`, `StagedNote`, `StagedPurchase`), ids in the log and
  in staged events are below the sequence (`IdsFresh`), events carry the sign of
  their type (`EventsGood`), a session is in one phase at a time (`OnePhase`).
  Without the lock, `LedgerChain` alone is not inductive: two staged events of
  one wallet would each extend the same balance. A step that touches neither
  rows, log nor staged events keeps it (`QuietStep`); the others are `WriteStep`,
  `CommitStep` and `AbortStep`.
* `Refinement`: a commit is a `Debit` or a `Post` of the book, every other step
  stutters.

`CreditsIndexer_proofs`: `NothingSkipped`, for a configured start block. The
invariant `Sound` adds to `CursorSound` and `InOrder` what each run in progress
knows: everything below the block it scans, and the notes of that block it has
done, are posted (`RunSound`), and the first cursor is the start block
(`StartFixed`). Without a start block the theorem is false (finding 2).
`NotesInOrder` follows from it. `TypeCorrect` needs no start block: that a run stays
in its window and in its block (`RunInBlock`) is enough for the type invariant.
`LedgerMirrorsChain`: a note that is posted for the first time finds exactly the notes
before it in the ledger (`PostedAreBefore`, from `Sound` and the start block), so the
balance it meets is what the contract had (`Mirrored`), the exit is not clamped by
`ExitsAssumption`, and one note more counts with its wallet and kind (`CreditsMore`).

`OneGateVault_proofs`: `TypeCorrect`, `RowsTellTheTruth`, `NothingPaidTwice`,
`PaidStaysPaid`, `PoolIsConserved`. The inductive invariant `IInv` adds what calls and polls know
(`CallGood`, `PollGood`): the payment they carry is one of the request they
carry, and while the row still has that request, its wallet and reward are the
call's. `LiveGood` is the heart of `NothingPaidTwice`: a payment that has not been
given up belongs to the request its row holds, TxProxy remembers that request,
and the row is not `failed`, so a retry never meets it. Each kind of effect
(`SettleWorld`, `WriteOffWorld`, `NewRequestWorld`, `BroadcastWorld`,
`FateWorld`, `ExpiryWorld`) is shown once to keep what tables and chain promise
and what calls and polls know (`Keeps`); the lemmas per action then only
have to say which effect they have. `PoolIsConserved` adds up what keys are bound to: a
key joins the sum when `Bind` takes its reward from the pool, and since no other step
changes the reward of a bound key, a retry or a late update leaves the sum as it is.

`Services_proofs`: of the credits as a whole `SystemTyped`, `NoCreditIsLost`,
`BooksDoConverge`. What the database will come to is a fold with clamps over the notes
that are still to be posted. A path of balances, one per
note, takes the place of an induction over it. `Foretells` says of a path that it begins not above the
database's balance, that each next one is not above what the note makes of the one before, and
that its end and what is owed cover the contract's balance. A purchase or an exit adds to
the path, a spend takes from all of it, indexing drops its first balance, and no sum is
ever taken. `Covers` is its mirror image for the other inequality. It needs that nothing was
bought after an exit that is still to be posted (`ExitIsLast`), so that a spend is covered
by the path up to the exit, and that is where `rebought` comes in.
Of the sponsorship: `SponsorTyped`, `BudgetAlwaysBalances`, `BudgetNeverExceeded`. Of
each scope and day, what its row counts (`Used`) and what history has to add to it or take
from it (`Net`) make up just what calls still hold (`Held`), a sum over calls that are finitely many though
`SponsorCalls` may not be (`RowBalances`). A step changes that sum by the `Share` of the one call
that makes it, and the row or its history by as much (`RowsKept`). That a budget is never
overspent follows, since no row is above its limit.
Of GasBank: `BankTyped`, `BankStaysSolvent`, `ReferencesCreditedOnce`, `EntriesAddUp`. Solvency
is inductive with the types: each function checks its own part of the row, and
`Available` ties the two parts together. A reference is credited once because a
credit looks at all rows, and rows are never changed. A row appended to an account's log adds its amount
to the sum (`PostedMore`), and each function writes the row of what it has changed, but for the
commit, which `committed` counts.
Of `Services`: `EachByItself`, that a behaviour of the services side by side is one of each
of their own specifications, so that the theorems on each, those of `PublishApproval_proofs`
and `WalletLogin_proofs` too, hold of `ServicesSpec`; and with them `ServicesTyped`.

`WalletLogin_proofs`: `LoginTyped`, `NonceGoodForOneLogin`, `NonceGoodForOneBinding`,
`LoginKeepsWallet`. `OneLoginPerNonce` is not
inductive: the invariant `Once` follows a nonce on its way from the row of `users` to
the session. It is in one row (`RowNonces`, which needs that an address is in one
row, `AddressesUnique`, since a new nonce is written by address), then taken by one
call, and while that call has it no row does and nothing was opened for it
(`CallNonces`), and once it has opened a session nothing holds it (`Opened`).
Steps that write no new nonce and take none keep all of this (`OnceKept`); the
others are `IssuingOnce`, `ConsumeOnce` and `SessionOnce`.
`BindOnce` says the same of bindings: a nonce that is not `doubled` is in the hands of one
binding (`OneHolder`) and in the row it was read from (`OwnRow`), and where it has bound, that
call has still to rotate it or to undo the binding, or no row has it any more (`Standing`).
`LoginOwnsWallet` follows from `Home`, which says of each untroubled address what an access
of its login leaves to the next: after the clearing no other row has the address, after the
claim its account's row has it, after the owning the wallet is that account's primary one. No
binding takes it away again, since one of that account counts a wallet and so binds a minor
one (`BindsMinor`), and none of that address runs beside the login (`Apart`).

`CreditsSettler_proofs`: `TypeCorrect`, `NothingPreparedTwice`, `RowsTellWindows`,
`ConfirmedIsSettled`. The heart of the invariant is `OnRecordGood`: while a settlement is on record and may land,
its epoch's row is submitted or confirmed, is its own and has its window; so the next
window starts above it, and a run that resolves the row as failed takes the settlement
off the record or has seen its FAULT. `PreparedGood` and `SentGood` say the same of
what a run has in hand; `IdsGood` and `ChainCounts` are what the types need. The end of
a window is a largest id: that a bounded set has one (`MaxExists`) is shown by a
pigeonhole.
`ConfirmedIsSettled` needs a second invariant, `CInv`. Each epoch that the contract has
passed has a settlement that landed (`Reach`). While each of these is `Owned`, or in the
hand of the run that will record it so (`Kept`), all is settled below the start of every
window that is pending, submitted or confirmed (`BaseGood`). A step that leaves windows
alone keeps this, because `Kept` after it means `Kept` before (`KeptBefore`, `BaseKept`).
The step that matters is `PrepareFollows`: a run that prepares an epoch already passed
leaves the settlement of that epoch without a row of its own, so that nothing is claimed
any more, and a run that prepares the next epoch starts its window at the end of one
that has landed (`PassedSettled`).

`PublishApproval_proofs`: `NumbersInOrder`, `DecisionIsFinal`, `ApprovedIsApplied`,
`AppliedWasPublished`, `LogsVerify`, `ActiveAppIsReleased`, `PublishTyped`. A call is known by the accesses it still has to make: `Ordered` says which
comes directly before which, and `Shape` what the call has in hand for the next one (a
number that is at most one above the last, a request that is there). Every step is one of
three kinds, `Begun`, `Stopped` and `Moved` (`StepKinds`), and the invariants look at these
only. A number is read before its insert, and the unique constraint refuses all but the
next one. `OneReview` and `StatusReached` say of a request that is not contested that one
review holds it and that its status is what that review has come to; `HeadSeen`, that the
one call about to append to a log has seen its head.

`ActiveIsReleased` says something only when all calls rest, so its invariant `ReleaseInv` says
what a call in its middle owes: as long as nothing is `mixed`, one call at most changes the app
(`OneReleases`), and it has in hand what the app will be in the end (`Publishing`). The
handlers write the row before the whole of a version is recorded or after all of it, and an
approval reads the row before both (`Fits`, a fact on the lists themselves that each access leaves to
the rest). So until the row is written the app still is what its old release says (`Shows`),
and from then on it is what the call has in hand, which is the version it has inserted and
the one that the release has come to name.
`AppliedIsPublished` speaks of every state, so its invariant `AppliedInv` follows the version
from hand to hand: a call that is to apply has, once it has reloaded the app, an active row for
the published channel (`ToPublish`); once it has inserted the version, that number is there, is
later than the one requested, is no other call's (`MadeByOne`) and is named by no request
(`MadeFor`), since a version that is inserted is the last. What a request says (`Saying`) is
disturbed only by the call that applies.
For the types, an insert is counted (`Recorded`: versions and inserts to come are not more
than calls begun, and one for the app that was there), a version is known to be there
by the call that points a release at it (`InHand`), and an app without a row has neither
release nor requests (`RowsThere`).

Only model-checked: the liveness properties (`SpendsAnswered`, `EventuallyPosted`,
`SpendsSettled`, `EventuallyPaid`), which need `ENABLED` and fairness, and that the
violations of the findings can happen.

## 6. Plan

Done: the credits functions, the vault, and the services of section 2, with a theorem for
each safety property of the passing runs. Left: the
amount that a deduped retry is answered with (`credits-ledger/index.ts:174`), the one
listed hazard without a property that would show something new, as it needs the request's
amount in the model. (The other, a claim whose payment has vanished, is what the code does.)

## 7. Not modelled

* Connection state of the SDK's wallet store, where an answer to a refresh may
  come after a disconnect: one record per page, whose loss the next refresh mends.
* Usage caps, rate limits of the edge functions and the policy cache: upserts of
  one statement, which PostgreSQL makes atomic, and a cache with a time to live.
  Replay protection is modelled where the vault uses it, the per-user limit where
  the sponsorship does.
* Realtime notifications: one client-side list.
* Social sign-up and its binding to `users`, which the login only meets as `Social`.
* SDK, bridges, OS service binders, secrets, automation triggers: wrappers of one
  request and its response; what they call is outside the repository.
* Statistics, community and gamification SQL: aggregations whose interleaving
  changes displayed numbers only.
* User interface, catalog, mini-apps and deploy scripts: the larger part of the
  source by lines, and no concurrent state.

The MiniAppCredits contract, TxProxy and the auth service are outside the
repository and are modelled from how the code uses them: `postSettlement` takes
only `currentEpoch + 1` and debits no balance below zero, an exit pays the balance
out, TxProxy broadcasts at most once per call, and the auth service keeps one
account per address.
