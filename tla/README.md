# A TLA+ model of the Vultisig fee plugin

The plugin collects the fees that users of the Vultisig app store owe. A verifier service keeps
the ledger of fee entries; the plugin periodically reads what is due for each vault it takes part
in, signs one USDC transfer per vault together with the verifier, tells the verifier that the
entries are collected, and sends the transfer to Ethereum.

This directory models the parts of `src/` whose correctness depends on order, failure or
arithmetic, checks them with TLC on small instances, and proves the main safety properties with
TLAPS for every value of the constants.

1. [Inventory](#1-inventory)
2. [Modules and how they correspond to the code](#2-modules-and-how-they-correspond-to-the-code)
3. [What is checked](#3-what-is-checked)
4. [Fairness](#4-fairness)
5. [Where the code and its documents disagree](#5-where-the-code-and-its-documents-disagree)
6. [What is proved](#6-what-is-proved)
7. [What is not modelled](#7-what-is-not-modelled)
8. [Plan](#8-plan)

## 1. Inventory

| Component | Code | State | Operations | Talks to |
|---|---|---|---|---|
| fee loop | `internal/fee/fees.go`, `utils.go` | the cycle: remaining keys, entries listed, transaction in hand | `Run`, `ProcessFees`, `executeFeesTransaction`, `initSign`, `broadcast` | `plugin_keys`, verifier, transaction table, signer, node |
| verifier client | `internal/verifierapi` | none (an HTTP client without a timeout) | `GetPublicKeysFees`, `MarkFeeAsCollected` | verifier |
| key registration | `internal/fee/reshare.go`, `storage/postgres/fees.go` | table `plugin_keys` | `HandleReshareDKLS`, `InsertPublicKey`, `GetPublicKeys` | task queue, vault service |
| storage | `internal/storage/postgres/db*.go`, the migration | the schema | `NewPostgresBackend`, `Migrate`, `WithTransaction` | Postgres |
| worker process | `cmd/worker/main.go` | which goroutines run | `main`, shutdown | all of the above |
| server process | `cmd/server/main.go` | HTTP server, policies | `main`, shutdown | policy service, scheduler |
| transaction indexer process | `cmd/tx_indexer/main.go` | the variable `err` two goroutines share | `main`, shutdown | external indexer worker |
| configuration | `ReadConfig` in `cmd/*/main.go`, `internal/fee/config.go` | a record | `getAllKeys`, `ReadConfig`, `DefaultFeeConfig`, `Validate` | the environment, worker `main` |
| policy scheduler | `internal/fee/scheduler.go` | external table of schedules | `Create`, `Update`, `Delete` | policy service |
| recipe specification | `internal/fee/spec.go` | none | tables for policies | server |
| health and metrics servers | `internal/health`, `internal/metrics/server.go` | HTTP servers | `Start`, `Stop` | processes |
| HTTP metrics middleware | `internal/metrics/http.go` | counters of requests | `HTTPMiddleware` | echo, handlers of the server |
| worker metrics | `internal/metrics/worker.go` | counters of transactions, in memory | `RecordSendTransaction`, `RecordError`, execution times | fee loop |
| metrics registration, logging | `internal/metrics/registry.go`, `tx_indexer.go`, `internal/logging` | none | registration, recorders | processes |

How they meet: the worker process runs the fee loop and the queue's handlers as goroutines of one
process, over one Postgres database. A reshare handler adds a row to `plugin_keys`; the fee loop
reads that table at the start of each cycle and loads the vault share the handler stored. A
signature the loop asks for needs a keysign handler of the same queue, whose ten slots the
reshares use as well. All of them end when the process does. The fee loop and the verifier, and the fee loop and
the node, exchange HTTP requests. Server and indexer share nothing with the worker but the
database and the queue.

What is hard here: the mark and the transfer are two calls to two systems with nothing that makes
them atomic; every call can fail without telling whether it took effect; the process can end
between any two of them; a cycle works on answers that were read minutes ago; the loop that
visits the keys stops at the first key whose lookup fails; amounts cross from unsigned to signed
words. No test in the repository covers any of it.

What makes each component correct:

- *fee loop*: no entry is paid twice; what is paid is on record, under the right transaction; the
  treasury receives what the entries come to, no more and no less; a debt that is due is dealt
  with eventually; an entry on record is paid eventually (the code does not keep this one).
- *arithmetic of a debt*: exact whenever the sum can be represented, whatever the partial sums;
  a vault that owes nothing is never charged.
- *key registration*: a vault whose share is stored ends up registered, once, and never before
  its share is there, whichever of its steps fails and however often it is tried again.
- *worker process*: its parts keep, together, what each promises alone; the loop has the vault of
  every key it works on; a debt of a vault whose share is stored is collected in the end; the
  counters account for what was sent.
- *migration*: a process that runs has its table; processes that race each other come up in the
  end.
- *processes*: an error ends the process with an error; a signal ends it; what was accepted is
  answered.
- *configuration*: each setting the program decodes can be set; the worker runs on the values it
  was given; what the deployment sets is used.
- *HTTP metrics*: a request is counted with the status its client got (the code does not keep this
  one).

## 2. Modules and how they correspond to the code

```
FeeDebt --- FeeDebtProofs                 (lemmas the next two proof modules rest on)
   |------- FeeAggregation --- FeeAggregationProofs   (EXTENDS FeeDebtProofs too)
   |                 \-------- MCFeeAggregation
   \------- FeeCollection ---- FeeCollectionProofs    (EXTENDS FeeDebtProofs too)
                |    \-------- MCFeeCollection
                \--INSTANCE--> FeeLedger            (what collection promises)

KeyRegistration --- KeyRegistrationProofs ---\
        \---------- WorkerSystem ------------ WorkerSystemProofs
                     |   \------------------- MCWorkerSystem
                     \--INSTANCE--> FeeCollection   (the fee loop of the process)

SchemaMigration  --- SchemaMigrationProofs,  MCSchemaMigration
ProcessShutdown  --- ProcessShutdownProofs,  MCProcessShutdown
ProcessConfig    --- ProcessConfigProofs
        \----------- MCProcessConfig --INSTANCE--> ConfigStructs
HttpMetrics
```

A line is EXTENDS. Definitions whose comment begins with "Faulty variant" belong to no
specification: each is a plausible mistake in the definition that follows it, kept to show that
the properties notice it. `PROJECT.json` maps every definition to the lines it stands for.

**FeeDebt** is the arithmetic of `executeFeesTransaction`: `int64(fee.Amount)`, `debt -=` and
`debt +=` with Go's wrap-around, `uint64(debt)`. The width is the constant `Half` (2^63 in the
program). `DebtOfFees` is what the loop computes for a set of entries.

**FeeAggregation** is the loop over one list of entries and the decision after it. A step reads
one arbitrary entry, so every list in every order is a behaviour. The history variable `owed` is
the sum in unbounded arithmetic.

**FeeCollection** is the fee loop with the services it calls.

| Code | Model |
|---|---|
| `go feePlugin.Run(ctx)`, the ticker | `Start`, `ProcessFees` (reads all rows of `plugin_keys` into `rows`), `EndCycle` |
| `GetPublicKeysFees` | `NothingDue`, `FeesDue`, `LookupFails` (which ends the cycle) |
| `genUnsignedTx`, `CreateTx` | `CreateTx`, which fixes entries and nonce in `txs`; `AttemptFails` for every error return up to and with `signer.Sign` |
| `signer.Sign`, the POST of `MarkFeeAsCollected` | `Sign` puts `Mark(t)` on the wire |
| its return | `MarkAcked` (the transaction goes on the wire), `MarkFails` |
| `broadcast`, with `waitMined` false | `Broadcast` |
| the process ends | `Crash`, in every state |
| verifier, node, network (external) | `IssueFee`, `MarkCollected`, `RefuseMark`, `AcceptTx`, `RejectTx`, `Mine`, `UserTx`, `BreakConnection`, `LoseRequest` |

A call is a request on `wire` and an outcome in `answer`; the two are separate, so that a caller
may see an error for a request that is applied later (`BreakConnection`), even after a later cycle
has listed the same entries again. Whether the verifier refuses a mark for an entry that is
already marked is not visible in this repository: the constant `Conditional` stands for it, and
each property says which of the two it needs. Several workers stand for the old and the new pod of
a rolling update (`deploy/01_worker.yaml` asks for one replica and names no update strategy, so a
new pod starts before the old one ends).

**FeeLedger** is the promise of collection without worker, network or request: entries fall due,
a set of due entries of one vault is recorded as one batch, a recorded batch is charged whole and
at most once. `FeeCollection!ImplementsLedger` maps batches to transactions, the batch of an entry
to the transaction it is marked with, and charged batches to the transfers that a block included
with success (`Paid`): a transfer the node accepted may still revert (`Mine`), and with `waitMined`
false nothing in the worker looks.

**KeyRegistration** is `HandleReshareDKLS` as a task of the queue: the handler begins (`Begin`),
its vault service stores the share (`SaveShare`), the `INSERT` takes effect (`InsertRow`) and the
handler returns (`InsertOK`). An error (`ReshareFails`, `InsertFails`) may come before or after
the effect of the call that reports it, and sends the task back to the queue or to its archive
(`Failed`). A process that ends leaves its handlers dead (`Die`), with calls under way that may
still take effect, until the queue notices and hands their tasks out again (`Recover`).

**WorkerSystem** composes `KeyRegistration` and `FeeCollection` into the worker process. It EXTENDS
the first and instantiates the second with `registered <- Registered`, the rows of `plugin_keys`,
so that a row a handler inserts is a key the loop may visit. One action of the process, `EndProcess`,
ends loop and handlers together. A signature is a task of the same queue (`AskSignature`,
`BeginKeysign`, `ReturnSignature`), and `SlotFree` counts both kinds of handlers; a keysign task
whose attempt is over, because it failed or its process ended, stays in the queue and ends without
effect (`EndKeysign`). `CountTransaction` is the return of `initSign` with
`RecordSendTransaction`; the counters are memory, cleared by `StartProcess`.

**SchemaMigration** is `NewPostgresBackend`: goose's version table, the migration file with a
`BEGIN` and an `END` of its own inside goose's transaction, the record of the version, and
`logger.Fatalf` with a restart when any of it fails.

**ProcessShutdown** is `main` of the three commands from the blocking call to the exit: the signal
goroutine of server and indexer, the check of `err`, the deferred `metricsServer.Stop(ctx)` and
`cancel()` in the order Go runs them, the goroutine of the health server, and requests in progress
at the metrics server. The unsynchronised `err` of worker and indexer is a choice between what the
two goroutines assigned.

**ConfigStructs** is the configuration structs of worker and server, field by field with their
`mapstructure` and `json` tags. A setting is the path of fields that leads to it. The structs of the
verifier library (`BlockStorage`, the vault service, `server.Config`, ...) are not in the repository;
they have the fields that `main`, the manifests and the two example files name, under those names.
`PresetOf` is the keys of the calls of `viper.SetDefault` in `ReadConfig`.

**ProcessConfig** is `ReadConfig`, then the worker's assembly of its `FeeConfig` and `Validate`. Two
walks over the structs must agree: `TagName` is the name `getAllKeys` derives for a field, from its
`mapstructure` tag, its `json` tag or its Go name, with the options of a tag cut off, and
`DecodedName` the one mapstructure reads, which knows no `json` tag. `Get` is what viper finds for a
path: a variable, a value of the file, a default of `main`, the empty default of `addKeysToViper`, or
nothing when nobody told it of the key. The structs are a constant, so that what is proved holds for
any structs.

**HttpMetrics** is `HTTPMiddleware` around one handler and inside echo: the handler writes a
response, returns an error, or panics; the middleware derives a status and counts; echo answers
what nobody has answered.

## 3. What is checked

Runs that pass:

| Run | Instance | States | Shows |
|---|---|---|---|
| `debt_arithmetic` | 4-bit words, lists of up to four entries of three types | 609 | `DebtIsOwed`: the accumulator is exact whenever the sum fits, even when partial sums or single amounts overflow. `ChargesWhatIsOwed`: the amount is what is owed, and only a positive sum is charged |
| `one_worker` | one worker, two vaults, three entries (a debit of 3, a credit of 1, a debit of 2), a verifier that overwrites, five transactions, two faults | 305201 | `AtMostOnce`, `PaidIsCollected`, `PaidMatchesEntries`; `AttemptsBounded`: transactions built are at most entries on record, failures and the one under way; `OneLossPerFault`: a failure leaves at most one transaction on record that no transfer backs; and under fairness `CollectedEventually` |
| `two_workers` | two workers (symmetric), two debits of one vault, a verifier that refuses overlapping marks, four transactions, one fault | 333730 (up to symmetry) | `AtMostOnce`, `RecordIsThePayment`, `ImplementsLedger`; `PaidIsFinal`: once a transfer went through, the entries on record under it never change again; `NoncesLostByFault`: a nonce at which entries went on record and no transfer stands has a failure of its own |
| `worker_system` | two tasks for one vault that owes one entry, two slots for both kinds of handlers, one retry, one failed call, one fault of the loop or crash of the process, two transactions | 80926 | `VaultAtHand`, `SendsCounted`, `RegisteredHasVault`, `DoneIsRegistered`, `RowsDistinct`, and under fairness `SavedIsRegistered` and `SavedVaultPays` |
| `schema_migration` | three processes, three crashes, one of them between `END` and the version | 1965 | `RunningHasTable`, `WedgedOnlyByCutShort`, and under fairness `UpOrWedged` |
| `process_shutdown` | each of the three programs, three connections to the metrics server | 895 | `WorkerScrapesServed`, `RunErrorIsFatal`, and under fairness `SignalledExits` |
| `process_config` | worker and server with all their settings; none, any one or any two of the variables of the settings and of two names that are none; any of three settings in the file | 20564 | `EverySettingIsSettable`, `RunsAsConfigured` |

The type invariant of each module is checked by one of these runs (that of `FeeCollection` by
`one_worker`; `HttpMetrics` has none, its only run being one of the next section). Five more runs end in a violation; they are the
subject of section 5.

Why the bounds are enough to be interesting:

- *Words of four bits* hold amounts on both sides of the sign bit; four entries are enough for a
  sum that leaves the range, goes round and comes back, in every order.
- *Entries*: a debit alone, a debit with its credit and a credit alone are the three answers of the
  verifier that lead to different branches, and an entry issued while an attempt for the other is
  under way is the case where a credit could be used twice. A second vault lets one attempt's
  failure affect the next key of the same cycle.
- *Faults* (`MaxFaults`) counts crashes, lost requests, broken connections, failed lookups and
  attempts, transfers that revert,
  and transactions the owner sends himself. Two are needed for the hardest case: a mark
  whose connection breaks, and a second fault while the next cycle works on the same entries.
  `two_workers` has one: that two workers lose a batch to each other at one nonce needs none, so the
  one that is left can show that it is counted once, whatever the workers do with it.
- *Variables* of a configuration are looked up one at a time, each by its own name (TLC evaluates
  `VariablesApart`: no two settings share a variable), so a mix-up is one of two names; any two are
  set together. `deployed_metrics` sets all those of the manifests.
- *Transactions* (`MaxTx`) guards `CreateTx` alone and is never the reason a behaviour stops. For one
  worker that is a theorem (`IdsSuffice`): an id for each entry and each fault is enough, and
  `one_worker` and `collected_unpaid` have as many. For `two_workers` it was
  seen by TLC: no reachable state has a worker about to build a transaction when all ids are handed
  out. The faults are what bounds these runs.
- *Two tasks for one vault on two slots* overlap their inserts, and take both slots while a
  signature waits for one; one retry separates a task that may run again from one that is archived.
  One fault of the loop is enough to leave a keysign task that nobody waits for, or a transfer that
  reverts; it and the failed call of a handler are counted apart, so that they combine. `MaxTx` is
  never what stops this run either.
- *Three processes* let one process win the race for the version table and another the race for
  `plugin_keys`. Crashes during normal operation are counted with those during start-up.

Deadlock is checked in every run but `debt_arithmetic`, `process_config` and `deployed_metrics`,
whose behaviours end when the call or the start-up does.

## 4. Fairness

Nothing is assumed fair that can fail. Faults, crashes, signals, new entries, new keys and new
tasks happen or not.

- `FeeCollection!Fairness`: weak fairness of a worker's steps (the ticker fires, the goroutine
  runs, a pod that ended is started again by the platform) and of a service's steps for each
  transaction (a request that was posted is handled unless it is lost). The HTTP client of
  `internal/verifierapi` has no timeout: a verifier that accepts a connection and never answers
  stops the loop for good, so a weaker assumption would leave nothing to promise.
- `WorkerSystem!SystemFairness`: weak fairness of the loop's steps, a restart among them, of each
  handler's steps, of the queue's for each task, and of the services' for each transaction. Strong
  fairness is not needed for a free slot: the tasks are finitely many and each is tried a bounded
  number of times, so a slot that a waiting task needs is free for good in the end.
- `SchemaMigration!FairSpec`: weak fairness of start-up steps, a restart among them.
- `ProcessShutdown!FairSpec`: `main` and the signal goroutine are scheduled, the blocking call
  returns once it was told to, and the server's `WriteTimeout` ends each request. A blocking call
  that returns without being told is not assumed.

## 5. Where the code and its documents disagree

| Run | Property | What happens |
|---|---|---|
| `collected_unpaid` | `CollectedIsPaid` | `initSign` marks entries before it broadcasts and never comes back to them. One fault after the mark (the process ends, the send is lost, the vault's owner used the nonce, the transfer reverts) leaves entries on record that no transfer pays. `internal/fee/skills.md:9` says collected fees are sent to the treasury. The order is the price of `AtMostOnce`: sending first would charge twice instead. `OneLossPerFault` bounds the price: of a lone worker, each such transaction has a failure of its own; `NoncesLostByFault` says what is left of that with several |
| `unknown_key_starves` | `CollectedEventually` | `ProcessFees` returns at the first key whose lookup fails. A key the verifier answers 404 for fails every time, and the keys after it are never visited. `internal/fee/skills.md:7` promises automatic collection |
| `server_scrape_cut` | `ScrapesServed` | server and indexer stop the metrics server with the context the signal has just cancelled, so a request in progress is cut off. `internal/metrics/server.go:69` says it shuts down gracefully |
| `deployed_metrics` | `DeployedIsRead` | the manifests set `METRICS_ENABLED` and `METRICS_PORT`; the key of that field is `metrics.metrics_enabled`, its variable `METRICS_METRICS_ENABLED`. Worker and server run without metrics |
| `errors_uncounted` | `CountedAsAnswered` | the middleware takes the status of a response nobody has written for 0, but it is 200: an error that is no `*echo.HTTPError` is counted as 200, not among the errors, and echo answers 500. `internal/metrics/http.go:66` says "Derive final status code" |

Also met and not stated as a run: two workers that overlap in a rolling update need no failure to
lose entries, even if the verifier refuses overlapping marks. An entry is issued after one worker has
listed the others, the other worker lists it, and both build a transaction of the same vault at the
nonce the node gave both; both marks are applied, the node takes one transfer and refuses the other.
TLC finds it for `CollectedIsPaid` with two workers, two debits of one vault, `Conditional` and no
fault. `collected_unpaid` checks the property with one worker, where a fault is needed
(`OneLossPerFault`). With several workers `NoncesLostByFault` is the bound that remains, and it is
proved: without a failure, whatever a worker loses it loses to a transfer the node took at the same
nonce.

In the configuration: `viper.SetDefault("LogFormat", "text")` sets the key `logformat`, and the field
is decoded from `log_format`, so the default reaches nothing; `logging.NewLogger` takes everything
but `json` for text, so nothing depends on it. `deploy/01_server.yaml` sets
`SERVER_ENCRYPTIONSECRET`, and `fee.server.example.json` calls the same setting `encryption_secret`.
At most one of the two is right; the field is library code, and the model gives it the name of the
example.

Smaller ones: the comment at `internal/storage/postgres/fees.go:6` says the
keys are "ordered by creation time for consistency", and the statement has no `ORDER BY`; nothing in
the code relies on the order, and the model lets a cycle visit the rows in any. The help of
`http_errors_total` says "status >= 500" and the middleware counts every status outside 200 to 299,
as the comment next to it says. `cmd/tx_indexer/main.go` lets the health server's goroutine
assign `err` without synchronisation, and with `nil` after a signal, so an error of `worker.Run`
can be lost. `RunErrorIsFatal` is therefore claimed for worker and server only. In the worker the
health server never returns `nil` before `main` is past its check, so the race can make a clean
exit look fatal and not the reverse.

## 6. What is proved

About 4500 obligations, all by Z3, Zenon and LS4. The proofs assume nothing but the named
assumptions on constants (`HalfAssumption`, `MaxFeesAssumption`, `CollectionAssumption`,
`RegistrationAssumption`, `SystemAssumption`, `MigrationAssumption`, `ConfigAssumption`), which say
that bounds are naturals, tables are functions of their type, the settings `main` copies exist, and
`main` gives the verifier's token no default.
Sets of workers, keys, entries, tasks, processes and connections are
arbitrary; words have any width. One theorem has a hypothesis on amounts, `AmountsFit`: what the
entries of one vault come to, whichever of them are taken, fits an `int64`. In the units of USDC that
is nine million million dollars; `MCFeeCollection` has TLC evaluate it on the instances of the runs.

| Theorem | Statement |
|---|---|
| `FeeAggregationProofs!TypeCorrect`, `DebtExact`, `ChargeExact` | `[]TypeOK`, `[]DebtIsOwed`, `[]ChargesWhatIsOwed` |
| `FeeDebtProofs!DebtIsOrderFree` | the debt of a set of entries is the same whichever of them is read last, so the order of the loop does not matter, overflowing sums included |
| `FeeCollectionProofs!TypeCorrect` | `[]TypeOK` |
| `FeeCollectionProofs!PaidAtMostOnce` | `[]AtMostOnce`, with one worker or with a verifier that refuses overlapping marks |
| `FeeCollectionProofs!PaidOnRecord` | `[]PaidIsCollected` |
| `FeeCollectionProofs!RecordCorrect` | `[]RecordIsThePayment` |
| `FeeCollectionProofs!PaymentsAddUp` | `[]PaidMatchesEntries`, with one worker or with a verifier that refuses overlapping marks, if `AmountsFit` |
| `FeeCollectionProofs!AttemptsAreBounded` | `[]AttemptsBounded` |
| `FeeCollectionProofs!IdsSuffice` | `[]NeverOutOfIds`, if there is an id for every entry and every fault |
| `FeeCollectionProofs!LossesAreBounded` | `[]OneLossPerFault` |
| `FeeCollectionProofs!NoncesAreAccountedFor` | `[]NoncesLostByFault`, for any number of workers and either verifier |
| `FeeCollectionProofs!LedgerImplemented` | `ImplementsLedger`, with a verifier that refuses overlapping marks |
| `FeeCollectionProofs!BooksAreClosed` | `PaidIsFinal`, with a verifier that refuses overlapping marks |
| `KeyRegistrationProofs` | `[]TypeOK`, `[]RegisteredHasVault`, `[]DoneIsRegistered`, `[]RowsDistinct` |
| `WorkerSystemProofs!TypesOfTheProcess`, `RegistrationKept` | `[]SystemTypeOK`; `RegisteredHasVault`, `DoneIsRegistered` and `RowsDistinct` of the composed process |
| `WorkerSystemProofs!VaultsAtHand`, `CountersAccount` | `[]VaultAtHand`, `[]SendsCounted` |
| `SchemaMigrationProofs` | `[]TypeOK`, `[]RunningHasTable`, `[]WedgedOnlyByCutShort` |
| `ProcessShutdownProofs` | `[]TypeOK`, `[]WorkerScrapesServed`, `[]RunErrorIsFatal` |
| `ProcessConfigProofs!TypeCorrect` | `[]TypeOK` |
| `ProcessConfigProofs!SettingsAreSettable`, `WorkerRunsAsConfigured` | `[]EverySettingIsSettable`, `[]RunsAsConfigured`, for any structs whose fields are tagged so that both walks give them one name (`StructsWellTagged`) |

The arguments:

- *FeeAggregation*. A partial sum may overflow, so `DebtIsOwed` says nothing about the next turn.
  `DebtWraps` does: accumulator and true sum always differ by a whole number of words. Two values
  in the range of an `int64` that differ by whole words are equal.
- *FeeCollection*. `AtMostOnce` speaks of transactions the node accepted; a transaction still on
  the wire is as good as accepted, so the invariant speaks of both (`Authorised`). A transaction is
  authorised only after a successful answer to its mark, and then its entries are on record
  (`ReleasedAfterRecord`). With a verifier that refuses overlaps the record names one transaction
  per entry, and `ReleasedOnce` follows. With one worker and a verifier that overwrites it does not:
  there, the entries of the attempt in hand were due when they were listed, so they are in no
  transaction released before (`AttemptIsNew`), and nothing else can release one meanwhile. The
  other parts tie what a worker remembers to the row it wrote (`AttemptMatchesRow`), rows to issued
  entries (`RowsOwned`), records to rows (`RecordNamesRow`), and say that an id not yet handed out
  occurs nowhere (`FreshIds`).
- *Debts of sets* (`FeeDebtProofs`). The model computes the debt of a set of entries with a fold; its
  value on every finite set is reached by induction over the sets themselves, along a well-founded
  order, and not over an operator. The fold wraps, the sum `WorthOf` does not; they differ by whole
  words, so they agree when the sum fits. Sums over disjoint sets add up (`SumOfParts`).
- *Payments*. Rows are written for entries that come to a debt (`ChargesAreDebts`), so the amount of
  a transfer, an unsigned word, is what its entries are worth. Transfers that went through were sent
  (`MinedWasSent`), hence released, hence disjoint (`ReleasedOnce`): together they are worth what the
  union of their entries is worth.
- *Attempts*. `AttemptsBounded` is not inductive: it does not say who will pay for the attempt under
  way. `Accounted` does: an attempt has an excuse of its own once an entry it lists is on record or
  its mark is known to have failed (`Explained`); until then it counts as one. A refused mark raises
  nothing and needs no failure, because what it overlaps is on record already; a mark that is applied
  adds an entry and an excuse in one step; every other way out of an attempt is a failure.
- *Losses*. A transaction that is not in hand and still has a request under way, or is on record with
  no transfer behind it, is a loose end. `LossesCovered` gives every loose end a fault of its own, and
  one more to the transaction in hand when it is `Slipping`: the call about it is over and it would be
  a loose end if the worker left it, or its nonce is taken. The step that shows why both are needed is
  `AcceptTx` of a transfer the worker has given up: it takes the nonce of the one in hand, and passes
  on its fault, as it is no loose end any more. With two workers the invariant fails there, and so
  does the property (section 5 tells how).
- *Nonces*. With several workers what can be counted is nonces, not transactions: a transfer that is
  refused is refused because the nonce of its vault has passed, and then either another transfer of the
  vault stands there (`Standing`) or a failure used it up. `NoncesCovered` gives a failure to every
  nonce that is `Endangered`: passed, or held by a transaction no worker will see through (`Adrift`),
  with nothing standing at it. Taking a transfer moves its nonce from held to standing, whoever sent
  it, and passes no other. That two workers never have one transaction in hand (`HandsApart`) and that
  the node gives out its next nonce and no later one (`NoncesInOrder`) is what keeps a step of one
  worker from setting a transaction of the other adrift.
- *Refinement*. `MarkCollected` is `Record`, a `Mine` with success is `Charge`, `IssueFee` is `FallDue`, every
  other step changes nothing the ledger sees. That a mark finds its batch empty and a
  transfer its batch recorded is where the invariant is needed. `PaidIsFinal` is shown of `FeeLedger`,
  where a charged batch is on record (`ChargedIsRecorded`) and so cannot be recorded again, and carried
  over by the refinement: no step of the worker, the network or the verifier is looked at a second time.
- *KeyRegistration*. A handler past its vault service has its share stored, one past its statement
  has its row (`StepHasEffect`), dead or alive; a statement either leaves the table as it is or
  appends a key that was not there.
- *WorkerSystem*. Every action of the process is, to registration, one of its own or a stutter, and
  the end of the process is `Die(Active)`. This only says how the parts are put together and is no
  result of its own; the lemma `LoopWithin` says the same of the loop. To the loop, an `InsertRow` of a
  new key is
  `InsertPublicKey` and one of a known key a stutter, which is where the type of the table and the
  assumption on `KeyOf` are used. What `KeyRegistrationProofs` shows of its
  part is therefore a theorem of the process (`RegistrationKept`). What `FeeCollectionProofs` shows
  holds of it as well, by substitution; that is an argument of this document, since the prover does not
  use the theorems of a module that is instantiated.
  `SystemTypeOK` needs of the loop's actions that each keeps the types under the names of the process
  (`LoopTyped`). `VaultAtHand` follows because rows have vaults when a cycle
  reads them and a stored share stays (`VaultsGrow`). `SendsCounted` needs to know that the
  transaction in hand is one of this process, and that its mark and its transfer are on the wire
  one after the other (`HandInOrder`): otherwise a late answer to the mark could be taken for the
  answer to the transfer and be counted as a success.
- *SchemaMigration*. Who is about to record a version has created the table (`VersionHasTable`).
- *ProcessShutdown*. The worker's context is done only after its metrics server has closed and
  drained (`DrainedBeforeCancel`); until `main` has looked at `err`, nobody can replace an error by
  `nil` (`ErrorIsKept`).
- *ProcessConfig*. What the struct holds is what viper found (`ReadIsFound`), and what the worker
  put together is what the struct held (`AssembledIsRead`). For a field that has a `mapstructure` tag,
  or no tag that would name it otherwise than its Go name does, both walks give the same name (`SameName`), so
  viper was told of every path that is decoded (`AllRegistered`), and what it finds for a setting that
  was chosen is the choice (`FoundIsChosen`). TLC evaluates the condition on the tags of the two
  structs (`StructsAreWellTagged` in `MCProcessConfig`).

Only model-checked: every liveness property (`CollectedEventually`,
`SavedIsRegistered`, `SavedVaultPays`, `UpOrWedged`, `SignalledExits`), which rest on fairness. Every invariant and every action property of a passing run is
the subject of a theorem.

## 7. What is not modelled

- *A `CreateTx` that reports an error after its row was written*: the row is then tracked by the
  indexer and counted by nobody; `CreateTx` of the model succeeds or leaves no row.
- *Encryption, address derivation, ABI encoding, hashing, signing*: each is a call that succeeds or
  fails.
- *The chain after a block*: a transfer is included, with success or not, and stays so; blocks that
  are replaced are not modelled.
- *`WithTransaction`, the pool, the `Down` migration*: used by nothing the processes do.
- *Execution times, labels of counters, the indexer's recorders, registration with Prometheus,
  logging*: no state the other parts depend on. The swap counters are called by nothing.
- *The default middlewares of the server*, which see a request before the metrics middleware does:
  library code; a request they refuse is not counted at all.
- *The server's handlers and policies*: library code, put together by `main`.
- *A verifier that never answers*: the HTTP client has no timeout and the loop would wait for ever;
  see section 4.
- *Policy scheduler*: `Create` and `Delete` forward to a library table nothing here reads, `Update`
  always fails. *Recipe specification*: constant tables. *Unused types and task names*.
- *The indexer's worker*: library code; only its process is here.

## 8. Plan

The order was: arithmetic and fee loop first, since money depends on them; registration, which
feeds the loop; then what surrounds both (migration, processes, configuration). All of these stand.
What is left, most valuable first:

1. Which single line would make `CollectedIsPaid` hold, and what it would cost: a variant of
   `initSign` that keeps the signed transaction and sends it again, or one that waits for the block.
2. Two worker processes with one queue in `WorkerSystem`, for the rolling update: `FeeCollection`
   has several workers, the queue so far has one.
3. The health server's own drain, and the server's `srv.Start(ctx)` with its requests, next to the
   metrics server of `ProcessShutdown`.
