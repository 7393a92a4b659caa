# core-wallet: specifications, model checking and proofs

This directory holds TLA+ specifications of the wallet ledger in this repository, the
TLC configurations that check them on small instances, and TLAPS proofs of what matters
most about them. Every definition is translated from the code (`PROJECT.json`, "map",
gives the lines). The PL/pgSQL procedures of `src/db/export/schema.sql` carry the core
logic; the Go services call them and run the background jobs.

## 1. The system

Clients, operators and Treasury reach the wallet service over HTTP. The service opens
one READ COMMITTED transaction per call (`withTx`, `runTx`) and calls one stored
procedure in it. A posting changes `WLT_ACCT`, writes its legs to `WLT_TRAN_HIST` and
`WLT_GL_BATCH`, and puts an event in `WLT_OUTBOX`, all in that transaction. The outbox
relay publishes the events to Kafka. Janitors and the end-of-day jobs work on the same
tables beside the traffic. All interaction is through rows: row locks, the `VERSION`
column, the unique key of `WLT_API_MESSAGE` and `STATUS` columns with guards.

| component | state it keeps | operations | what is hard | what makes it correct |
|---|---|---|---|---|
| Posting procedures | `WLT_ACCT`, `WLT_API_MESSAGE`, `WLT_TRAN_HIST`, `WLT_GL_BATCH`, `WLT_WITHDRAW_TRACK` | `post_topup`, `post_transfer`, `post_withdraw`, `post_fee_charge`, and a reversal of each | checks on unlocked reads used after the lock; repeats of calls still under way; lock order; deferred balance check | each call takes effect once and at one instant; books balance; held money is not spent; no lock cycle |
| Transaction wrapper | none | begin, settings, commit, retry, error translation | a rollback at any point, a COMMIT whose answer is lost, a retry racing the first call | one effect per request, an answer that is true |
| Withdrawal track | `WLT_WITHDRAW_TRACK.STATUS`, `FINAL_DEADLINE` | `mark_withdraw_acked/disbursing/completed`, `post_withdraw_reversal`, `reverse_stuck_withdrawals` and its ticker | callbacks late, repeated and out of order against the sweep; refunds that fail one by one; batches cut off | first terminal state wins; events tell the history; overdue payouts end |
| Restraints | `WLT_RESTRAINTS`, `TOTAL_RESTRAINED_AMT`, `CR_BLOCKED` | `add_restraint`, `release_restraint`, `eod_expire_restraints` and its scheduler | the job recomputes totals from a snapshot, as of the day before, and commits per account; missed nights | the totals are those of the holds in force; holds end |
| Account status | `WLT_ACCT.ACCT_STATUS` | `open_account`, `update_account_status` | a block or a close between a posting's read and its lock | closed and blocked wallets do not move |
| Outbox relay, polling | `WLT_OUTBOX`, the batch each worker holds, the topic | claim (SKIP LOCKED), publish, record, back-off, DEAD, purge | lost answers, crashes between publish and commit, two relays | at least once, nothing dropped, every copy explained |
| Outbox relay, CDC | `WLT_OUTBOX`, connector offsets | Debezium publishes, a consumer marks SENT | a failed message is logged and consumed | rows end up SENT |
| Retention, partitions | `WLT_API_MESSAGE`, `WLT_OUTBOX`, partitions | purge old keys and sent events, create and drop partitions | a key forgotten while its posting can still be reversed or repeated | nothing needed is purged |
| Merchant groups | group, settlement account, shards, their keys | deposit, transfer to settlement, withdrawal with its sweep, fee charge, their reversals, sweep of a shard, activate, rescale | deposits routed by a shard count that changes; shards swept on an unlocked count while fees are charged to them; three lock orders; a claim left PENDING | the group is one account; no circle of locks but the known two; claims end |
| GL close | GL batches, cursors, trial balances, periods | cutoff, feed in chunks, trial balance, close, freeze | resume after a crash; postings in flight at the cutoff | what a day held when its close began is reported and proved before it is sealed; nothing more of it is reported later |
| Customer end of day | day balances, restraints | snapshot, roll, expiry | see restraints | see restraints |
| Manual entries | `MANUAL_JE` rows | create, approve, reject | two checkers, maker against checker; an entry into a day being closed | one outcome; the day it names is open |
| Suspense | suspense items | ageing report, sweep started by hand | its net is taken by another date than its legs carry | swept once |
| Clients, KYC, PII, reads | client rows, PII access log | create, update, onboard, KYC, links, documents, statements, lists | fields copied through four layers; raw personal data; pages | stored as sent; logged; lists can be read to their end |
| HTTP service | none | route table, token, roles, audit headers, binding, error codes | an error that changes its meaning on the way out | the answer tells the truth |
| Reconciliation, config, telemetry, deployment | none | queries and wiring | none of it is protocol | - |

`PROJECT.json` lists the components with their sources and status, and under "hazards"
what in this code is hard to test, at its line, with the properties that cover it.

## 2. The modules

    LedgerOps <- Ledger                        what postings promise
        ^-- Posting --(refines)--> Ledger      the transactions;  MCPosting, PostingProofs
    WithdrawTrack --(refines)--> Disbursement  life of a payout;  MCWithdrawTrack, TrackProofs
    Restraints                                 holds and the nightly job;  MCRestraints, RestraintsProofs
    OutboxRelay --(refines)--> AtLeastOnce     event delivery;  MCOutboxRelay, RelayProofs
    MerchantGroup --(refines)--> MerchantBook  hot wallets;  MCMerchantGroup, MerchantProofs
    GlClose --(refines)--> DayBook             the accounting day;  MCGlClose, GlProofs

    WalletDomain <- WalletDto <- WalletHandler --> WalletUsecase --> WalletRepo
    WalletProcedures <- WalletRepo
    WalletServer --> WalletHandler             what a request becomes
    WalletApi                                  what happens to it;  MCWalletApi, ApiProofs

    SumProofs                                  sums over finite sets; used by PostingProofs,
                                               MerchantProofs and RestraintsProofs

### The ledger

**LedgerOps** is the data shared by `Ledger` and `Posting`: what a request is, the legs
it posts (`Legs`: customer, NOSTRO, FEE and VAT accounts), VAT at the seeded rate with
the code's rounding, which key of `WLT_API_MESSAGE` a call claims (`MsgKey`; reversal
keys are a prefix and the reference cut to 64 characters, `Stem`), and what each
procedure checks of a wallet row. Debit and credit checks are sets of conditions per
operation because the procedures differ: a fee is charged despite a debit hold that pledges nothing, a refund
ignores status and credit block, a claw-back ignores debit holds.

**Ledger** is the abstract specification. It has no sessions, locks or versions; each
successful call is one step on the wallets as they are, with the restrained amount and
credit block computed from the active holds.

**Posting** is the code: the same calls as transactions of sessions that interleave.

| variable | code |
|---|---|
| `acct` | `WLT_ACCT`: `ACTUAL_BAL`, `TOTAL_RESTRAINED_AMT`, `CR_BLOCKED`, `ACCT_STATUS`, `VERSION` |
| `active` | `WLT_RESTRAINTS` in status A |
| `msg`, `keyOwner` | `WLT_API_MESSAGE`: committed rows, and keys inserted by an open transaction |
| `track`, `trackOwner` | `WLT_WITHDRAW_TRACK` and its row locks; `due` numbers the deadlines |
| `rowOwner` | row locks of `WLT_ACCT` |
| `hist`, `books` | `WLT_TRAN_HIST` and `WLT_GL_BATCH`: effects counted, net movements |
| `pc`, `req`, `orig`, `snap` | a call in a transaction: where it is, the original it reverses, the `VERSION`s its unlocked read saw |
| `work`, `done`, `pend` | a refund under way: payouts still to do, done, and their legs |
| `told` | history: calls answered with success |

The steps are the statements at which transactions can meet. `Claim` is
`INSERT ... ON CONFLICT DO UPDATE` with `xmax = 0`; `Duplicate` answers from the row.
`WithdrawLookup` and `WithdrawInsert` are the different gate of `post_withdraw`. `Read`
is the unlocked read with its checks; `LockRow` takes the rows in `INTERNAL_KEY` order,
where TOPUP, TRANSFER and WITHDRAW compare `VERSION` and funds (the UPDATE's guard) and
FEE and reversals select FOR UPDATE and check afterwards. `Commit` applies the legs: a row written stays locked to the end, so nobody else
sees or changes it in between, and applying writes at the commit loses no behaviour.
`Reject` is a RAISE and `Abort` any timeout, cancelled statement or lost connection, from any
point. `LockTrack`, `Sweep`, `Refund`, `Skip` and `RefundCommit` are
`post_withdraw_reversal` and `reverse_stuck_withdrawals`. Restraints and status changes
touch one account row under its lock and are single steps. Any call can be made at any
time and any number of times: retries are new calls of the same request.

**WithdrawTrack** is the row of a payout in detail: SUBMITTED, ACKED, DISBURSING and the
terminal states, events, deadlines passing, callbacks whose UPDATE matched no row and
that read again before they answer (`Miss`, `Answer`), the sweep with its batch limit,
its subtransaction per row (`Refund`, `Expired`, `Fails`), its commit and its being cut
off. **Disbursement** is the abstract life of a payout: submitted once, then completed or
refunded, the first final.

**Restraints** has the calendar: holds with start and end dates, deposits that holds
reserve, and `eod_expire_restraints` in its statements (`JobStart`, `JobExpire`,
`JobSum`, `JobWrite`, `JobEnd`), since its UPDATE takes its snapshot before it waits for
the account row. `JobCutOff` ends the CALL between commits.

**OutboxRelay** is the relay's poll loop. `Claim` takes the oldest eligible rows nobody
holds, `Publish`, `PublishFails` and `AnswerLost` are the three outcomes of a send,
`CommitBatch` records them, `Crash` rolls the batch back, `Purge` is the retention job.
Kafka is external and modelled by how `producer.go` uses it: a message that is stored may
still be reported as failed. **AtLeastOnce** is its promise.

**MerchantGroup** is a group whose settlement account pays and whose shards take the
deposits. `tier` is `SHARD_COUNT`, `shards` the shard rows, `bal`, `pledged`, `status`
their columns, `message` and `claimant` the keys, `lock` the row locks FOR UPDATE, `sharing`
those FOR KEY SHARE of the group row that the foreign key of `WLT_SWEEP_LOG` takes; `at`, `request`,
`target`, `todo`, `swept` are a call under way. `Claim` is the key with its PENDING and
SUCCESS; `Route` reads the shard count without a lock and `Credit` locks the account it chose;
`LockSettlement`, `Check`, `Open`, `SweepNext`, `Log`, `SweepDone`, `Debit` are
`post_merchant_withdraw`, whose sweep counts the shards first and locks them one by one;
`LockGroup`, `Anchor`, `Add` activate and rescale; `LockShard`, `Receive`, `MoveSurplus` are
`post_sweep_shard` called directly. `Charge` is `post_fee_charge`, which takes from any account of
the group, a shard too; a transfer may credit the settlement account and nothing else here;
`LoadOriginal` and `Refund` are the reversals of a withdrawal, a charge and a transfer. `post_withdraw` looks
at no `ACCT_ROLE` either: what it takes from an account of the group is a `Charge`. `charged` is
history: what charges took since a call counted the group. **MerchantBook** has one account and no shards.

**GlClose** is the accounting day. `place`, `date`, `key` of an entry say where its
transaction is, the date it carries (fixed when it begins, or named by the maker) and its
`TRAN_KEY` (drawn when it inserts, so keys and commits come in different orders);
`today` is the business day, `cursor`, `fed`, `weighed`, `proof`, `closed` the control
tables of the close, `job` the close under way; `due` is history: what a day held when a close first
began to feed it. `Feed` marks one chunk of keys and commits,
`FeedDone`, `Weigh` and `ClosePeriod` are its later tasks, each with the checks of its
procedure; `CutOff` is whatever ends a close between two commits. Nothing restricts when an entry
begins, inserts or commits, nor which day a close is run for: the scheduler fires at the cutoff itself,
only logs a failed close, and nothing waits for postings under way. **DayBook** enters legs into days that
are not sealed, posts them when their transaction ends, and seals a day in one step.

### The service

The Go service is written twice: as functions from a request to what is to be done, and
as the machine that does it. `WalletDomain` has the structs as sets of fields, `WalletDto`
the wire format, `WalletProcedures` what each procedure does with a repeated call and which
refusals it raises, `WalletRepo` which procedure or query a method runs, on which pool,
with which arguments and how errors are translated, `WalletUsecase` the few checks there,
`WalletHandler` the binding, copying and shaping of each handler, `WalletServer` the
middleware in its order and the table of routes. `WalletServer!Serve` maps a route, a
request and a caller to a plan.

**WalletApi** executes a plan for several attempts at one request: `served` is the plan,
`pc`, `tries`, `gone`, `err`, `found` the goroutine of each attempt (its place, its
transactions so far, why its context ended, its error, what the procedure found), `rows`
and `claim` what is committed, `answer` and `logged` what left the service. `BeginTx`,
`Perform`, `Recognise`, `LookUp`, `Insert`, `Raise`, `Commit` and `CommitUnknown` are
`withTx` and `runTx` around a procedure; `Read` and `AnswerRead` are queries with the
access log; `Expire` is the deadline or the caller who hangs up, `Die` a killed process.

The operators marked "mutant" in the modules are the forms plausible bugs would
give a definition: a dropped guard, an off-by-one, a forgotten reset. `PROJECT.json`,
"mutants", names for each property one that breaks it, so no property holds by
the shape of its model.

## 3. The runs

Every run finishes within a few minutes with two workers.

| run | configuration | distinct states | result |
|---|---|---|---|
| posting | MCPosting.cfg | 139,112 | holds |
| reversal | MCReversal.cfg | 324,907 | holds |
| withdraw_dup | MCDuplicate.cfg | - | PostedOnce violated |
| withdraw_track | MCWithdrawTrack.cfg | 328,020 | holds |
| restraints | MCRestraints.cfg | 141,495 | holds |
| restraints_expiry | MCNightTraffic.cfg | - | InForceCounts violated |
| relay | MCOutboxRelay.cfg | 118,713 | holds |
| service | MCWalletApi.cfg | 157,005 | holds |
| merchant | MCMerchantGroup.cfg | 189,312 | holds |
| sweep_required | MCSweepFirst.cfg | - | PendingIsInProgress violated |
| gl_close | MCGlClose.cfg | 3,690,798 | holds |
| gl_late_commit | MCLateCommit.cfg | - | ClosedDayStays violated |

**posting.** Two sessions, two wallets; opposite transfers (one with a fee), a topup and
a fee charge with their reversals, one hold that blocks credit and debit with no pledge
and one that pledges. A transfer empties the second wallet, which can then be closed under a
call that has validated it already. Checks:

- `PostedOnce`: no reference posted, reversed or refunded twice, whatever is repeated, overlaps
  or is cut off. `ToldIsPosted`: a call answered with success has its own effect.
- `BooksTie`: every balance is its opening plus its legs, all GL movements sum to zero
  (checks A, B and D of `fn_record_recon_breaks`).
- `HeldFundsSafe`: the pledged total is that of the active holds and never above the balance.
- `FrozenMoneyStays`: a closed wallet gains only by the refund of a withdrawal and loses only
  by the claw-back of a transfer; a credit-blocked one gains only by a refund or the reversal
  of a fee; one under a debit hold loses only by a fee, the reversal of a topup or a claw-back.
- `CyclesNeedABatch`: sessions that wait for each other in a circle have a batch of the
  janitor among them.
- `ImplementsLedger`: every commit is one step of `Ledger` on the wallets as they are at
  that instant: the checks made on unlocked reads still hold at the commit.

**reversal.** Two withdrawals with different payout references that Treasury
completes or reverses while the janitor sweeps them, a transfer and its
reversal, and a hold on credit and debit: the same properties with `SettledXorRefunded`: a payout is refunded
exactly once if it is REVERSED and never otherwise. A withdrawal or the transfer empties a wallet; closed, it is
still refunded and clawed back, which is what `FrozenMoneyStays` lets through and nothing else.

**withdraw_track.** Three payouts of which two may come due when they are past the reversal
window, one callback under way, sweeps of two rows. `EventsTellStatus`: the events of a
payout go forward only, end at most once, and the last is its status. `AnswersHold`: an
answer given after a re-read is true however late it arrives. `ImplementsDisbursement`.
`OverdueEnds`: what is overdue and refundable reaches a terminal state, unless enough rows that
are overdue longer and can no longer be refunded fill every batch (`Starves`). The code does
starve a payout that way (hazard `schema.sql:3916`): without the exception the run has a
counterexample, in which the two fill every batch and the third is never taken.

**restraints.** Three holds on two wallets, five days, one night missed or cut off, calls
by day only. `InForceCounts`: what a hold in force reserves or blocks is reserved or
blocked. `HoldsEnd`: holds past their END_DATE do not stay active. That nothing stays reserved without an
active hold is proved (`NothingReservedAlone`).

**relay.** Two workers, three events, one lost answer or crash. `CopiesExplained`
counts every copy in Kafka against the row, a batch under way
or an error that made the relay forget it. `DeadIsDeserved`: DEAD only after
MaxAttempts failed sends. `ImplementsAtLeastOnce`. `Drained`: each event ends up
published or DEAD.

**service.** Every route, with a body that is full, lacks optional or required fields or
breaks a rule, by callers with a token, without one, without roles, by header and through the
gateway, with pages of several sizes; two attempts at each request, one retry in each.
`OneEffect`: an attempt has one effect at most whatever COMMIT lost its answer, and where
the procedure recognises a repeat all attempts have one. `AnswersTrue`: success means the effect is
committed and says whose it is; an error of the caller's (4xx) means this attempt left
nothing; each refusal of a procedure arrives under its own name. `StoredAsSent`: every field
a handler takes reaches the procedure, in the name the gateway vouches for.
`PiiIsLogged`: raw personal data leaves only on the logged routes, to the role, from the
pool for it. One field is excepted, and the property says exactly where: `ACCT_DESC` and the holder's
name of a linked bank account are raw copies of the client's name, and three masked routes
(`/accounts/:no`, `/clients/:no/accounts`, `/clients/:no/360`) answer with them to any caller, unlogged.
`PagesGoOn`: an answer names the next page exactly if it leaves rows out. Searches have no next
page; and the list of journal entries, asked for more than its largest page, takes its
first page for the last (`manual_je.go:123`): the property says that it is the only one.
`EventuallyAnswered`.

**merchant.** Two sessions, a group that grows from no shard to one and two, a deposit, a
transfer to it, a withdrawal with and without its sweep, a charge to a shard, reversals of the last three, a
periodic sweep, pledges and blocks. `ImplementsMerchantBook`: every commit that moves money in or out is
one posting or one reversal of a single account, once per reference. `SweepSuffices`: what a withdrawal that
swept still lacks is on shards it left out (blocked, closed or added since it looked) or was charged to
the group since it counted. `CyclesNeedASweep`: a circle of locks has a direct sweep in it, or a rescale that holds the group
row against a withdrawal that holds the settlement account and logs its sweep.

**gl_close.** A posting and a manual entry over three days, chunks of two keys, closes cut
off twice, for any day in any order. `ImplementsDayBook`: what a day held when a close first began to feed it is reported
before the day is sealed; what is reported of it is in its trial balance and nothing more is
reported later; a trial balance that is deleted and built anew has all that it had and all
of the one before it; and an entry that a sealed day still gains was in the journal, uncommitted, when the day was
sealed.

### Bounds, and why they suffice

- Two sessions in `Posting`. Every conflict there is pairwise: a gate, a `VERSION`
  comparison, a track row. A lock cycle needs two wallets and two transactions. Two also in
  `MerchantGroup`: each of its circles and races is between two calls, and calls, operators and
  restraints interleave freely; for more sessions there are the proofs.
  Sessions are interchangeable and are symmetry sets; these runs have no liveness property.
- Amounts are chosen so that funds are short in some orders and sufficient in others, so that a
  wallet can be emptied and closed (openings 7 and 2 with a transfer of 2; 6 and 1), and the fee is one
  where VAT rounds. `MaxVersion` (2 and 3) bounds only administrators' changes; postings are bounded by
  their references.
- Three payouts with a batch of two, two of them possibly too late: one is left out of a batch, and
  rows that cannot be refunded can fill one.
- Five days fit a hold of two days, a missed night and the night that makes up for
  it. Leads are 0: holds with a future start are a hazard without a property (section 6).
- Three events with batches of two, `MaxAttempts` 2 and one fault: a batch that fails,
  one retried and one overtaken by a worker.
- Two attempts at a request with one retry each: a retry after a COMMIT whose answer was
  lost meets the other attempt. Bodies and pages are the least set that tells the
  layers apart: a field missing at each one, a page below, at and beyond the limits.
- A withdrawal of 2 with a fee of 1 from a settlement account that opens with 2: it can
  be paid only after a deposit, swept or not; a pledge of 2 can take it away again.
- `MaxKey` = 3 lets two entries take keys in two chunks, one of which may be drawn by a
  transaction that rolls back and tries again. Three days: the first proof, one that continues it, and a
  day without entries between two with. Two entries suffice for a key that commits late behind
  the cursor while another is reported; `DaysAreSealed` is for any number. `MaxCuts`, `MaxFaults` and `MaxCrashes` bound
  faults in number, not in place.
- Deadlock is checked in the runs of `Posting`, `MerchantGroup` and `WalletApi` (where `Rest` is
  the state in which every attempt is over). The others turn the check off: calendar,
  payouts, events and entries run out and the instance may rightly stop.

### Fairness

Safety properties assume none. `Posting`, `MerchantGroup`, `GlClose` and the abstract
specifications have none.

- `WithdrawTrack`: time passes (`WF(Due(e))`) and the janitor's ticker fires again and
  again and works through its batch (`WF(Sweeping)`, the loop of `Start` in `internal/janitor/withdraw.go`). Nothing is
  asked of Treasury: overdue payouts must end without it.
- `Restraints`: midnight comes and the scheduler runs the job every night (`WF(Midnight)`, `WF(Job)`).
  Nothing is asked of clients, and cut-off nights are not excluded, only bounded.
- `OutboxRelay`: each worker's loop continues and is restarted (`WF(Work(w))`), a
  back-off passes (`WF(BackoffOver(e))`). Nothing is asked of the broker: every send may
  fail, which is why `Drained` allows DEAD.
- `WalletApi`: the goroutine of a request runs on (`WF(Advance(a))`), because every statement
  ends, if only by its `statement_timeout` or `lock_timeout`. Neither a deadline nor a caller who stays is assumed.

## 4. Findings

Four runs end in a counterexample. Each states what a document or comment of the
repository says and shows what the code does instead; `PROJECT.json` quotes the lines.

1. **withdraw_dup** (`schema.sql:3520`). `post_withdraw` looks its reference up and then inserts ON
   CONFLICT DO NOTHING without asking whether the row is its own. Two overlapping calls
   with one reference and two payout references both post.
2. **restraints_expiry** (`schema.sql:389`). The job recomputes totals as of yesterday, so a hold added after
   midnight stays active without being reserved or blocked.
3. **sweep_required** (`schema.sql:2391`). `post_merchant_withdraw` claims its reference
   and then returns SETTLEMENT_SWEEP_REQUIRED as a result: the claim commits, and the retry the
   document describes is refused as "already in progress" for ever.
4. **gl_late_commit** (`schema.sql:935`). The freeze looks at the periods when a leg is inserted. A posting
   that inserted before the close and commits after it puts legs into the closed day, which
   no feed can mark any more, and which its trial balance has only if it is made again.

Further circumstances are in the hazards, and in the form of a property rather than in a
finding: what the property excepts is what the code does, and the rest is shown to hold.

- A batch of refunds locks wallets by deadline, everything else by `INTERNAL_KEY`, so it can close a
  circle of locks, which PostgreSQL breaks by aborting a member. `CyclesNeedABatch` says nothing else can.
- In a merchant group there are two circles: a direct `post_sweep_shard` locks shard before settlement
  account; and the INSERT into `WLT_SWEEP_LOG` takes FOR KEY SHARE of the group row (`schema.sql:6804`) in a
  withdrawal that holds the settlement account, while `rescale_hot_wallet` has the row FOR UPDATE (4164) and wants
  the account. `CyclesNeedASweep` says these are all.
- `post_fee_charge` looks at no `ACCT_ROLE`: a fee charged to a shard between the count and the sweep, or
  a shard that is counted although it is blocked, leaves a withdrawal short after it swept (`SweepSuffices`).
- Payouts that can no longer be refunded may fill every batch of the janitor (`OverdueEnds`).
- The holder's name leaves on three masked routes without an entry in the access log (`PiiIsLogged`).
- The list of journal entries loses its next page beyond its largest page (`PagesGoOn`).
- `docs/specs/finance_transaction.md:617` (REV-08) wants a reversal stopped by a restraint whose purpose is COURT_ORDER or
  AML_HOLD. No posting and no reversal reads the purpose: a topup is reversed, a transfer clawed back and a withdrawal refunded under
  a debit hold of any purpose, as REV-07 has it for the ordinary ones. `FrozenMoneyStays` states what the code
  lets through; restraints have no purpose in the model, because only the checks of the calls that add and release them
  depend on one.

## 5. What is proved

Each theorem holds for every value of the constants that satisfies the ASSUMEs of its
module; TLC evaluates these on every run of it. A theorem with a further hypothesis states
it after ASSUME, and the list names it.

**SumProofs** (no specification of its own). Balances, pledges and VAT are sums, and a sum of
the community modules is a recursive function. What the proofs need of it (`SumTakeOut`,
`SumChange`, `SumPlus`, `SumDisjoint`, `SumMonotone`) is proved for every finite set and every function to
the integers, by induction over the subsets of the set in the form of a least counterexample
(`SubsetInduction`): the induction theorems of the library take an operator, which the
provers cannot instantiate.

**Posting** (any wallets, references, requests, holds and sessions; wallets finite in number).

- *TypeCorrect*: `[]TypeOK`. `TypeOK` alone is not inductive: a refund reads the withdrawal of
  the payout it works on, so the payout must exist, and a commit reads the request of its
  session. `TypeInv` adds `SessionsOK`: a call under way has its request, and a payout
  being refunded is open and locked by its session.
- *RefundedFeeBalances*: charge and refund of a fee round VAT in different ways; net and
  VAT given back add up to the fee for every amount.
- *RefundedOrSettled*: `[]SettledXorRefunded`. *NothingTwice*: `[]PostedOnce`, provided
  withdrawals with one reference repeat each other exactly (`WithdrawalsRepeatExactly`); run
  withdraw_dup is the counterexample without it. The invariant `OnceInv` is in layers. `Gate`: a call that has
  claimed its key owns it and the key is still new. `Loaded`: a reversal past its lookup works
  on the posting its reference has. `ReversalsCounted`, `PostingsCounted`,
  `WithdrawalsCounted` tie the history to the keys. Only a commit writes the history, it holds the key of what it
  writes, and that key was new; so what it adds was not there. Lemmas `Writers` and
  `Journal` state which steps write the history and what they add.
- *NothingToldUnposted*: `[]ToldIsPosted`, provided the keys of reversals tell references
  apart (`StemsDiffer`; the code cuts them to 64 characters). `ToldInv` ties a key that is
  used to the effect that used it.
- *HeldFundsStay*: `[]HeldFundsSafe`. `FundsInv` adds to the total (`Summed`) and its cover
  (`Covered`) what carries them over a commit: `Guarded`, a wallet a call has locked still has the funds
  the guard of its UPDATE asked for; `RefundsGive`, the legs of a refund are not negative.
- *FrozenMoneyIsSafe*: `FrozenMoneyStays`, an action property. `Fresh` says that as long as a
  wallet has the `VERSION` the unlocked read saw, what was checked there still holds, and that a locked
  wallet has that `VERSION`; the commit then moves only what these checks allow.
- *CirclesNeedABatch*: `[]CyclesNeedABatch`, if there is a largest wallet number. `OrderInv`
  says who can hold a row, a key or a track; `Wanted` ranks what a session waits for, above
  all it holds unless it is a batch. In a circle without a batch the session that wants least waits for one that
  holds it and so wants more: there is none.
- *LedgerImplemented*: `Spec => ImplementsLedger`, provided withdrawals with one reference repeat
  each other exactly. Every step is shown to be one of `Ledger`'s or to change nothing `Ledger` sees, and a
  commit to be enabled there: `Fresh` and `Guarded` carry the checks of an unlocked read to the commit, and
  `LedgerInv` adds that the column `CR_BLOCKED` says what the active holds say (`Blocked`), that
  a reversal works from the record its reference still has (`OriginalsStay`, `KeysNamed`), and
  that the legs of a batch give each wallet the sum of what the payouts done so far took from it
  (`RefundsSummed`): for the batch is one step of the code and of `Ledger`, and takes its payouts one by one.
- *BooksAlwaysTie*: `[]BooksTie`. `BooksInv` adds to it that the legs of a refund under way are
  mirrored on the liability account and sum to zero (`Mirrored`, `Sums`); the lemmas about
  `Legs` show the same of each posting and reversal, rounding of VAT included.

**MerchantGroup** (any sessions, shards, amounts).

- *OneLockOrder*: `[]CyclesNeedASweep`. Its
  `OrderInv` says where a session can be when it holds a lock or claim (`LocksHeld`,
  `ClaimsHeld`, `SharesHeld`) and that it has swept the shards below the one it waits for (`SweptInOrder`). Without the
  two circles the property names, whoever wants least in the lock order waits for one that holds it and wants more.
- *GroupTyped*: `[]TypeOK`, which needs that no account ends below its pledges. *SweepAlwaysSuffices*:
  `[]SweepSuffices`. `GroupInv` says that the shards are those `SHARD_COUNT` names, and that
  whoever adds some has the group locked and has seen how many there are (`Grown`); that a swept shard stays locked with
  nothing pledged (`Held`); and, the heart of it, that from the count to the debit
  the settlement account, the shards and what was charged since together hold what the withdrawal takes (`Counted`). The
  count looks at rows nobody has locked, but what leaves a shard goes to the settlement
  account, which the withdrawal holds locked, or is a charge.
- *GroupIsOneAccount*: `Spec => ImplementsMerchantBook`, from `GroupInv` before and after: `Filed`, `Placed` and `Claimed` tie a
  message to its request, a reversal to what it reverses and a call to a key that is new, so that a reference acts once; moving money
  between shards leaves their sum, and adding a shard adds an empty one.

**Restraints** (any holds, wallets, days and cut-off nights).

- *RestraintsTyped*: `[]TypeOK`: no wallet is reserved beyond its balance, with calls at any hour.
- *NothingReservedAlone*: `[]NothingWithoutHold`, and *InForceIsReserved*: `[]InForceCounts`, if the API rests
  while the job is due or runs (`Quiet`), and for the second if holds start on the day they are placed
  (`Lead` is 0). The job writes totals it computed in an earlier step: `Fresh` says that these are
  still the totals of the holds; `Begun`, that a hold counted today had begun on the day before
  that the job computes for, whenever it runs. Run restraints_expiry is the counterexample without the first
  condition; a hold placed for a later day refutes `InForceCounts` without the second (hazard `schema.sql:4270`).

**OutboxRelay** (any events, workers, batch size, attempts): *RelayType*, *NothingParkedEarly*
(`[]DeadIsDeserved`), *EveryCopyExplained* (`[]CopiesExplained`) and *RelayDelivers*
(`ImplementsAtLeastOnce`). `RelayInv` adds that no row is in two batches (`Exclusive`) and, per event, the
equation of copies, records and losses (`Explained`).

**WithdrawTrack** (any payouts, callbacks, limit): *TrackType*, *EventsAreHistory*
(`[]EventsTellStatus`), *AnswersStayTrue* (`[]AnswersHold`) and *FirstTerminalWins*
(`ImplementsDisbursement`). `TrackInv` adds that a batch holds only open rows (`Held`), which is why
a callback cannot end a payout under a sweep.

**GlClose** (any days, entries, chunk): *DayTypes*, `[]TypeOK`; *DaysAreSealed*,
`ImplementsDayBook`, without a condition on when entries begin, insert and commit or which days are closed when.
`CloseInv` says that the feed has passed by nothing that was there when it began (`DueFed`), that a close that has left
its feed has reported what was due, and one that has left its trial balance has weighed what is reported (`JobFed`), that a
trial balance built anew has all the lines it had (`Kept`), and that a closed day was fed (`FedFirst`).

**WalletApi** (any attempts and retries).

- *ServiceTyped*, `[]TypeOK`, and *OneEffectOnly*, `[]OneEffect`, for any plans whatever. `EffectInv`
  says where an attempt can be (`Placed`), that one whose effect is committed is over (`Over`), and that where the
  procedure recognises a repeat only one attempt comes to a COMMIT with an effect, and none
  after it (`Lone`); `LostIsLast`: an error that leaves the COMMIT in doubt is never retried.
- *AnswersAreTrue*, *StoredIsSent*, *PiiAlwaysLogged*: `[]AnswersTrue`, `[]StoredAsSent`, `[]PiiIsLogged`, if what is
  served comes out of `WalletServer!Serve` with the check of the gateway's identity on, as it is in production
  (`FromServer`). The run takes three sets of fields, five callers and four page sizes; the
  theorems take any body, page, caller, role and token, on every route. Each route has a lemma that says what its plan owes
  (`Owes`): which fields it stores, what its answer shows, which refusals pass through
  it; `RouteDuties` puts the handlers together, `ChainTells` and `ServeOwes` add the
  middleware. `ToldInv` adds to `EffectInv` what an attempt that is over was told
  (`Tells`) and what one before its COMMIT has found (`Finds`).
- *PagesAlwaysGoOn*: `[]PagesGoOn`, for the same plans. Beyond the largest page of the journal entries the repository cuts
  the limit behind the handler's back, and the handler takes a full page for the last; a plan says so
  (`over`), and the property that this is the only way to lose a page.

Only model-checked, and why:

- Liveness (`OverdueEnds`, `HoldsEnd`, `Drained`, `EventuallyAnswered`): the prover has neither
  fairness nor ENABLED.
- `Posting` knows what holds reserve together as a constant function, `Pledged`, whose equations are
  assumed and which the MC module defines as a sum; TLC checks these on every run.
- `InForceCounts` without `Quiet`, and `PostedOnce` without
  `WithdrawalsRepeatExactly` are false: the runs of section 4 show it.

## 6. Not modelled, and why

- Amount, velocity and KYC limits are refusals without effect; `Abort` has the same effect at more places.
  The reversal windows of topup and transfer are the same; that of withdrawals is in `WithdrawTrack`.
- Day balance snapshots and rolls (`eod_snapshot`, `eod_prev_day_roll`), audit rows and event
  payloads: written and not read by anything modelled.
- Holds with a future start: the code disagrees with itself on whether they count
  (hazard `schema.sql:4270`); a property would have to choose.
- Keys purged after three days: a property would need a bound on how late a repeat comes.
- `open_account`'s count of wallets per client: `WalletApi` has one request at a time.
- The purpose of a restraint: no posting or reversal reads it (section 4, REV-08).
- CDC mode: Debezium publishes; the consumer has no retry and no state (hazard `consumer.go:114`).
- The suspense sweep: started by hand; its flaw is the hazard `schema.sql:7759`.
- The order of a wallet's events: the relay makes no attempt at one (hazard `polling.go:180`).
- Reconciliation only reads; configuration, telemetry, health probes, generated API
  documentation and deployment have no state of their own. Replica lag: a read names its pool,
  and no property is about how old what it returns may be.
- Values of fields and personal data: fields are present or absent, raw or masked. One currency.
- `WalletApi` has one request at a time: what different requests do to each other is in the
  modules of the procedures.

## 7. Running

    tlc -workers 2 -config MCPosting.cfg MCPosting         # likewise each row of section 3
    tlc -workers 2 -config MCWalletApi.cfg MCWalletApi
    tlapm PostingProofs.tla                                # likewise SumProofs, MerchantProofs,
                                                           # RestraintsProofs, RelayProofs,
                                                           # TrackProofs, GlProofs, ApiProofs

`PostingProofs` and `MerchantProofs` take some minutes each, the others less.

## 8. What could come next

1. `Pledged` as a sum over the holds, with `SumProofs`, in place of assumed equations.
2. CDC as a second writer of `OutboxRelay`'s rows; the suspense sweep under a book of its
   own; the purge of keys, once somebody says how late a repeat may be.
3. Holds with a future start, once the code agrees with itself on whether they count.
