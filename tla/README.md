# Formal specifications of the Synapse Network SDK

The SDK lets agents buy calls of paid services from a gateway, and lets owners
and providers manage credentials, money and services. It exists five times
(Python, TypeScript, Go, Java, .NET); the Python one does the most and is the
reference here. None of the clients keeps a database or a queue: what can go
wrong lies between a client and the gateway, between threads that share a
client, and between programs that share an owner. That is what these modules
model.

## The system

| Part | Code | State it keeps | Operations | What makes it correct |
|---|---|---|---|---|
| Consumer runtime | `python/synapse_client/client.py` | none between calls; per call: arguments, idempotency keys, polling clock, the mismatch being handled | `search`, `invoke`, `invoke_llm`, `invoke_with_rediscovery`, `wait_for_invocation`, `get_invocation_receipt` | a call ends, is charged once and at most as asserted, tells the final charge, and its exceptions say truly whether anything was charged; paging skips no service |
| Agent wallet | `wallet.py` | `_spent_usdc`, `_budget_usdc` | `invoke` (guard, delegate, add) | the books follow the charges and stay in the budget |
| Owner session | `auth.py` | cached token and its expiry | `authenticate`, `get_token`, `logout`, requests with the token | a request carries a live token, and never one that was logged out |
| Agent credentials | `_auth_credentials.py` | none; the gateway holds the credentials | list, issue, rotate, revoke, delete, quota, update, `ensure_credential` | a process that repeats itself makes one credential, its token works, its limit is in force, and what is shut off stays so |
| Owner finance | `_auth_finance.py` | none | deposit intent and confirmation, voucher, spending limit, withdrawal intent | a retry does not move money twice, and a limit holds |
| Provider control plane | `_auth_provider_control.py`, `provider.py`, `examples/provider_staging_onboarding.py` | none | secret, register, patch, delete, list and status of services | a service is published once, at the price that was asked, found by who published it and gone when deleted |
| Consumer scripts | `examples/*.py` | one run's selection and keys | search, select, invoke, receipt, `await_receipt` | scripts for free services pay no fixed price, and a run that passes means what it says |
| Configuration | `config.py` | none | `resolve_gateway_url` | one documented order of precedence |
| TypeScript, Go, Java, .NET SDKs | `typescript/src`, `go/synapse`, `java`, `dotnet` | as above | as above; only TypeScript polls and rediscovers | the same contract in each language |
| Gateway, service providers | not in this repository | ledger of invocations, prices, credentials, books, services | what the SDK calls | external: modelled by what the SDK relies on |

The parts interact through HTTP only. A consumer call is one POST, possibly a
series of receipt GETs, and, in a rediscovery, a search and a second POST.
`AgentWallet` inherits from `SynapseClient` and overrides `invoke`.
`SynapseProvider` delegates to `SynapseAuth`, which composes the credential,
finance and provider mixins over one token cache.

What is hard here: answers that are lost although the request was or will yet
be handled; repeats with and without an idempotency key; prices that change
between a search, a POST and its repeat; a result that is still pending; a
deadline that cuts polling; a listing that is out of date when the issue,
rotation or status that rests on it happens; two programs that change the same
credential, limit or service; and attributes (`_spent_usdc`, `_token`,
`_token_expires_at`) that threads read and write without a lock.
`PROJECT.json` lists each of these hazards at its line, with the properties
that watch it.

## Modules

| Module | Models |
|---|---|
| `PaidCalls` | the contract of a paid call, without requests, polling or rediscovery |
| `SynapseClient` | `client.py`: the three invocations, receipt polling, rediscovery, the error mapping; the gateway's ledger as environment |
| `ClientRefinement` | the mapping under which `SynapseClient` implements `PaidCalls` |
| `DiscoveryPaging` | `client.py`: `discover` and `search` cut an offset into pages |
| `AgentWallet` | `wallet.py`, on top of `SynapseClient` |
| `OwnerAuth` | `auth.py`: the cached token, requests that carry it, logout, with threads and time; the Go, Java and .NET way to compute the expiry |
| `Credentials` | `_auth_credentials.py`, by several processes |
| `OwnerFinance` | `_auth_finance.py` and the withdrawal intent, by several programs |
| `ServiceTerms` | pricing of a service as providers register it and consumers read it |
| `ProviderServices` | `_auth_provider_control.py`, the names and ids of `auth.py`, and the onboarding script |
| `ConsumerScripts` | the consumer scripts under `examples`, on `ServiceTerms` |
| `MC...` | values of constants for TLC, one module for each of the above that is run |
| `...Proofs` | the proofs, one module for each of the above that is run; `SynapseClientProofs` covers `ClientRefinement`, and `AgentWalletProofs` builds on it |

`AgentWallet` extends `SynapseClient` as the class does. `ProviderServices` and
`ConsumerScripts` share `ServiceTerms`, since what one writes the other reads.
`ConsumerScripts` takes of `invoke` what `SynapseClient` shows: it returns a
final status and a charge within the asserted price, or raises, and then the
gateway may have taken the call or not. The owner's modules share nothing but
the gateway, each uses another part of it, and so they are not composed; the
token that all their requests carry is `OwnerAuth`'s matter, and a request that
fails for want of one is a `Fails` of theirs.

### SynapseClient and the code

`pc[c]` is the place of caller `c` in its call: `posting` (about to POST,
`client.py:377`), `polling` (about to GET a receipt, 334), `sleeping` (in
`time.sleep`, 339), `searching` (in `_rediscovered_price`, 449-469), then
`returned` or `raised`. `call[c]` holds the arguments and the idempotency keys
POSTed so far, `elapsed[c]` the time since `wait_for_invocation` started, and
`fallback[c]` the `current_price_usdc` of the mismatch. An `invoke()` run draws
its key once: the caller's, or a fresh one (`uuid4`), modelled as the pair of
the caller and the number of its run, so that two runs never share one.

| Action | Code |
|---|---|
| `StartCall`, `RejectArguments` | the entry points up to the POST, and the checks before it |
| `PostAnswered` | a readable 2xx: terminal results return (386), pending ones are polled (388) |
| `PostUnreadable` | a 2xx body that is no object: pending with a blank id, which `get_invocation_receipt` refuses |
| `PostRefused` | 401, 402, 422 through `_raise_for_error`; a mismatch inside the `try` of a rediscovery goes on to the search |
| `PostLost` | timeout, broken connection or 5xx: handled, never handled, or handled later |
| `Poll`, `PollFailed`, `Sleep` | one round of the loop of `wait_for_invocation`: the receipt and the decision that follows, and the sleep |
| `Search`, `SearchFailed` | `_rediscovered_price` and the second `invoke()`, which is outside the `try` |
| `Consume` | the caller takes the result or the exception |

The gateway is external and no stronger than the client needs: a POST with a
known key is answered with the invocation it already names; a new one is taken
only at the live price (or, for an LLM, at a maximum); a charge is nothing for
a failure, the price for a success, at most the maximum for an LLM; a refusal
is given only when there is no invocation. `Resolve`, `Settle`, `ChangePrice`
and `LateArrival` (a request that outlives its caller) happen at any time or
never. A POST is one step, gateway and answer together: what happens between
the two cannot be told from its happening before or after.

### PaidCalls, and how SynapseClient implements it

`PaidCalls` has calls and books. A call is opened with a key, which may be its
own, and a limit (`Open`); it may go on under a further key and limit while
nothing is booked (`GoOn`); it ends told a charge (`Tell`), refused (`Refuse`)
or unsure (`GiveUp`), and is then closed. The books take a key (`Book`) or
make a charge final (`Finish`) only as far as `Allowed`: at most one key of a
call that owns them, at most at its limit, and none of a call that was refused.
This is the whole of what an agent has to know of the client.

`ClientRefinement` maps the state: a call whose arguments passed is open until
it returns (told, also while a wallet adds the charge) or raises (refused for
the errors in `NotTaken`, unsure for all others); its keys are those POSTed, its
limit the price asserted last; a ledger entry is free, taken while pending, and
final after. Everything else, polling, sleeping, searching, late requests,
prices, stutters.

### DiscoveryPaging and the code

`discover(limit, offset)` asks for page `offset // limit + 1` (`client.py:212`).
`Search(limit)` is one such call by a caller that passes the number of rows it
has as the offset, with any limit each time, also zero and below (which become
1); `Append` is a provider that publishes. `known` counts the rows without a
gap, `others` are rows beyond a gap.

### AgentWallet and the code

`spent` is `_spent_usdc`. `wallet.py:55` reads the attribute, adds and writes:
`WalletLoad` and `WalletStore`, with `loaded[c]` in between, so that threads
overlap as they do in Python. `WalletInvoke` is the guard (50) and the
delegated call; a call that raises (54) leaves the books alone
(`WalletRaises`). `invoke_llm` and `invoke_with_rediscovery` are inherited and
pass the payload by position, which the override does not take: `WalletOther`.

### OwnerAuth and the code

`token` and `expiresAt` are `_token` and `_token_expires_at`; `pc[c]` says
where thread `c` is in `authenticate()` or `logout()`, `started[c]` is its
`now`, `mine[c]` the `access_token` of its answer. Each read and each write of
an attribute is a step of its own, as the threads share no lock. `overtaken`
is no variable of the SDK but history: the threads between their own check or
write of `_token` and their return (`Exposed`) under which another thread's
answered logout emptied it.

| Action | Code |
|---|---|
| `Begin` | any owner operation: `_authorized_headers` calls `authenticate()`, which reads the time (`auth.py:84`, 165) |
| `CheckToken`, `CheckExpiry` | the two halves of the condition (166) |
| `Verify`, `VerifyBlank`, `Receive`, `AuthenticateFails` | challenge, signature, verify and the checks of the answer (169-189) |
| `StoreToken`, `StoreExpiry`, `Return` | the two writes and the second read of the token (191-193, or 167) |
| `Take`, `Request` | what the token was for: the caller, or an owner request (88) |
| `Revoke`, `LogoutAnswered`, `LogoutLost`, `ClearToken`, `ClearExpiry` | `logout()` (198-206): handled, answered or lost, and the two writes |
| `Tick` | time |

Time is discrete, stands still while a thread runs its own code (the places
`Instant`), and passes while it waits for the gateway, at most `MaxLatency` for
the answer to a verify and for a request. A thread that the scheduler holds up
for a good part of the 30 seconds between two lines is therefore outside the
model. The gateway issues tokens that live `TokenLife`, and answers no request
without a live one. `FromAnswer` selects how `expires_in` is counted: from the
start of `authenticate()` (Python, `auth.py:192`) or from the answer
(`go/synapse/auth.go:143`, `SynapseAuth.java:84`, `SynapseAuth.cs:60`).

### Credentials and the code

A process is idle, waiting for the listing of `ensure_credential`, or waiting
for the answer to one request. `creds` is the gateway's; a token comes out of
it once, with the issue or rotation that made it. `held`, `granted` and `shut`
are what a process may rely on, and `unsure` what an exception has put in
doubt: these four are the owner's knowledge and no variable of the SDK.

| Action | Code |
|---|---|
| `BeginRequest` | issue, rotate, revoke, delete, quota, update: one request each; `SentLimit` is the spelling of the options that each takes (`_auth_credentials.py:36`, 139, 176) |
| `BeginEnsure`, `Listed` | `ensure_credential`: the listing, then the rotation of the first match or an issue (215-239) |
| `ListUnreadable`, `ListFails` | a 2xx body without a list reads as an empty one; an error is raised |
| `Answered`, `Unreadable` | the answer and what is made of it: `_first_text`, the mirrored ids, "Credential payload missing" |
| `Fails`, `LateArrival` | an HTTP error or a broken connection: not handled, handled with the answer lost, or handled later |

Each behaviour has one `given` setting, chosen in `Init`: the operations that
are called, the names and limits they are called with, and what can go wrong.
One run thus covers several environments, each small enough.

### OwnerFinance and the code

A need is one thing that an owner wants done: a deposit (of one chain
transaction), a voucher, a withdrawal. Programs pursue it again and again,
under a key of its own (`Keyed`) or under one that `uuid4` draws each time.

| Action | Code |
|---|---|
| `RegisterDepositIntent`, `RedeemVoucher`, `CreateWithdrawalIntent` | the three POSTs with `X-Idempotency-Key` (`_auth_finance.py`, `_auth_provider_control.py:428`) |
| `ConfirmDeposit` | the confirmation, with `resolved_event_key` of the intent (`models.py`) |
| `SetSpendingLimit` | the body of `set_spending_limit` (`_auth_finance.py:65`), where `None` alone means unlimited |
| `Answered`, `Fails`, `LateArrival` | as in `Credentials` |
| `Spend` | an agent spends what the limit allows (external) |

`told`, `paidIn` and `cap` are what the owner knows from calls that returned.
The gateway replays a known key, takes a voucher once and an event key once.

### ProviderServices and the code

| Action | Code |
|---|---|
| `Register` | `register_provider_service` and its relatives: `ServiceId` is the id chosen or made from the name (`auth.py:103`), `Priced` and `TermsOf` are `_provider_pricing` |
| `Manage` | deletion, and the patch of a price model, which is sent as it is |
| `Onboard`, `Publish`, `CheckPublished` | `main()` of the onboarding script: a secret, the registration, the status |
| `Answered` | what each is answered; the status is looked up in the whole list (`get_provider_service`) |
| `Unreadable`, `Fails`, `LateArrival` | as above |

### ConsumerScripts and the code

One run after another, of any script the setting allows: `Start`, then
`Select` (the service found by its terms), `Told` (a service given by argument
or environment) or `SearchAgain` (`e2e` and the smoke test of free services
first look for the echo service), then `InvokeReturns`, `InvokeLlmReturns` or
`InvokeLost`, then `Receipt` or, in `e2e`, `AwaitReceipt` and `AwaitTimesOut`.
`Fail` is any check or request that ends a run. Meanwhile providers `Publish`
services, with other terms each time (a patch of any of them, or a registration
anew after a deletion), and `TakeDown` them, and the gateway settles. `run.seen`
and `ledger[k].model` are history: the price model that the search showed, and
the one the gateway took the call under. `Selects`, `Asserted`,
`FixedKey`, `Credit` and `GoodReceipt` are the expressions in which the scripts
differ, each from its script.

## What is checked

| Run | Instance | Shows |
|---|---|---|
| `client_sole` | one caller, every entry point, one repeated key, two prices, a wait of 3 s in steps of 2 s with requests of up to 2 s, three `invoke()` runs | types; waits are bounded; results are final; one invocation per call; charges as asserted; refusals are uncharged; the contract of a paid call; each call ends |
| `client_shared` | two threads, rediscoveries under one key or their own | repeats of one call are told one charge |
| `client_retries` | `max_rediscovery_retries` = 2 | finding: a second mismatch is raised after one retry |
| `wallet` | two threads, in turns or at once, budget 3, prices 1 and 2, one call each that is sent and any number that are refused | books exact for the calls that return, and within the budget, while threads take turns; never overstated at all |
| `wallet_budget` | one thread, three calls | finding: the charges exceed the budget |
| `auth` | two threads that refresh, request and log out; two tokens of four units, a margin of two, messages of up to one | types; sent tokens are unexpired; logged out tokens leave the cache; `None` is handed out only to an overtaken thread |
| `paging` | limits -1 to 5 in any mixture, lists of up to 14 rows that grow | no row is skipped; each call brings new rows; all is read |
| `credentials` | two processes, two credentials, in three settings: they share one name (`MCShare`), spell it in two ways (`MCSpell`), or shut credentials off while requests are lost, late and unreadable (`MCShutOff`) | types; no process makes duplicates; held tokens work; accepted limits are in force; what is shut off stays so |
| `credentials_alias` | one process that issues and updates | finding: `update_credential(credit_limit=...)` sets nothing |
| `finance` | two programs, a deposit, a voucher, a withdrawal under a key of its own, limits 0 and 2, lost and late requests | types; keyed needs move once; a deposit is credited once; what returned is booked; limits hold |
| `provider` | two programs, an ordinary name and one without letters, a free service and one without its price, two records, lost, late and unreadable answers | types; a name is published once; onboarding sees its own service; what is deleted is gone; free means asked free |
| `scripts` | two services whose providers reprice, meter and take them down, one with a price that is no number; two runs in each of four environments (free services only, a service that is told, one request id, paid calls allowed) | types; free scripts pay no fixed price; a passing `e2e` is good; reruns report one call; every run ends |

Every property of these runs has a mutant in `PROJECT.json`: a plausible wrong
version of one definition (`GivesUpLate`, `ListFailsSilently`,
`LimitBodyFalsy`, ...) that stands next to it in the module and under which the
property fails.

### Bounds, and why they are enough

`SynapseClient`: `MaxInvokes` caps the runs of `invoke()` of a caller; a call
begins only with two left, as a rediscovery may need both, so the last is never
the first of a call (`MaxInvokes` = 2 allows one call, 4 three). The invariants speak of
one call, or of two at once, so several runs in a row (a repeat after a refusal,
after a loss, after a rediscovery) and two callers at once contain the cases
that differ. Two prices are enough to be above, below or at an asserted one.
The waits are chosen so that a poll can end before, at and after the deadline.
`RetryLimits` = {0, 1} turns rediscovery off and on. `CallerKeys` stand for
calls whose arguments are always the same (`Intent`), which is what a key is
for; a caller that repeats a key with other arguments is outside the model.

`OwnerAuth` needs two threads and two tokens for an expiry of one token to meet
the other, and a clock that runs past the end of the first token; the margin
equals two latencies, the least for which `SentTokensAreUnexpired` holds.

`DiscoveryPaging`: 14 rows let every pair of limits up to 5 meet at pages that
do not line up.

`Credentials`, `OwnerFinance`, `ProviderServices`: two actors for a race, two
things made for a duplicate, two keys drawn for a retry, and one request left
behind (`MaxLate`) for a late arrival. `MaxIds`, `MaxRecords` and the tokens of
a setting end what the gateway makes, `MaxSpent` what agents spend; requests
beyond that fail, which they may do anyway, so no state is a dead end.

`ConsumerScripts`: two runs for a rerun. One service is free, priced or metered by
the token, in any order; the other, which is also the LLM service, is metered or
has a price that is no number. `FAILED_RETRYABLE` and `FAILED_FINAL` are one
status, as no script tells them apart.

The proofs hold for every value of these bounds. Symmetry is
used only where no property is temporal.

### Fairness

Liveness is stated where the code itself moves on. Nothing is asked of gateway
or providers, and of callers only in `AllIsRead`:

- `SynapseClient`: a call under way takes its next step, for every request has
  `timeout_sec`, a sleep ends, and the rest is straight-line code. So `CallsEnd`
  holds though no invocation is ever settled: the clock of the polling loop only
  grows.
- `DiscoveryPaging`: weak fairness of `Search`, that is, the caller goes on
  asking, which is up to it and not to the code. What `AllIsRead` adds is that
  asking on is enough, though the list grows meanwhile.
- `ConsumerScripts`: a run that can go on does, and one that finds no service
  fails: requests have timeouts and `await_receipt` its deadline.

`OwnerAuth`, `Credentials`, `OwnerFinance` and `ProviderServices` have no loop
that could run forever: each operation is a fixed number of requests.

## Findings

Each has a run that shows it.

- `client.py:434` promises one retry "by default" and takes a limit, but the
  second `invoke()` (459) is outside the `try`: no limit above one has an effect
  (`client_retries`).
- `docs/sdk/capability_inventory.md:51` lists a spending limit through
  `AgentWallet`. A call that raises may have been charged and is never added,
  so a timeout or a lost answer gives the whole price back to the budget
  (`wallet_budget`).
- `update_credential` (`_auth_credentials.py:176`) copies camel-case options
  only, where issue and quota take snake case as well: a `credit_limit` is
  dropped and the answer says "success" (`credentials_alias`).

Other things met while modelling, which no document denies or which show in
one line, and which the models contain:

- On a wallet, the inherited `invoke_llm` and `invoke_with_rediscovery` raise
  `TypeError` before any request (`wallet.py:41`; `WalletOther`).
- With threads the wallet's books are weaker still: a slow writer can undo any
  number of additions, and no limit on the overshoot holds for more than one
  thread at a time. What does hold is that a charge is never counted twice.
- `ensure_credential`, "Idempotent init" (`_auth_credentials.py:199`), rotates a
  credential whose token the listing does not show: every other process that
  uses the name loses its token (line 232), and if the answer is lost, nobody
  has one. `HeldTokenIsLive` says how far the promise goes.
- A listing that is not a list reads as empty (line 90), and then a duplicate
  is issued; in Go a listing that fails does the same
  (`go/synapse/auth.go:229`). `NoProcessDuplicates` holds for failed listings in
  Python, and the Go way is its mutant `ListFailsSilently`.
- After a lost answer to a logout the dead token stays cached until its expiry,
  and nothing refreshes it on a 401; `RevokedTokensLeaveTheCache` grants this as
  the one exception.
- The 30 s margin on a token covers the way of its answer and the way of a
  request: any two messages of 15 s each. Beyond that a request may carry an
  expired token.
- A deposit or a withdrawal tried again without a key of its own is registered
  again. Deposits are credited once all the same, since all intents name one
  event; a withdrawal may be booked twice.
- A service whose name has no letter or digit gets a new id with every try
  (`auth.py:106`) and is published as often; all others are published once.
- A patch of the price model alone leaves the pricing of the other model: a
  token-metered service becomes a fixed-price one whose price reads as zero
  (`_auth_provider_control.py:358`).
- `consumer_wallet_to_invoke.py:75` takes a price that is not there for "0",
  and so a token-metered service for a free one; what keeps the script from
  paying is the credit limit of zero it issued its credential with.
- The price that a script asserts says nothing to a service that is metered by
  the token. If a provider turns a free fixed-price service into a metered one
  between the search and the call, `free_service_smoke` and a free `e2e` may pay,
  and a passing `e2e` does not compare the charge with its price;
  `FreeFlowsStayFree` and `PassingE2eIsGood` grant this as the one exception.
  `consumer_wallet_to_invoke` cannot pay even then.
- `await_receipt` (`e2e.py:149`) polls a failed receipt to the deadline and then
  says it "did not reach a terminal status"; `smoke_test.py:454` prints
  "Invocation succeeded" for an invocation that failed.

## What is proved

The theorems hold for every value of the constants: any sets of callers,
processes, programs, keys, prices, limits, names, offers and settings, and any
bounds. They rest on the assumptions that the modules state, which are about
types and about names being distinct: `ClientAssumption` (prices and latencies
are natural numbers, waits and intervals integers, generated keys differ from
chosen ones), `PagingAssumption`, `BudgetAssumption`, `AuthAssumption`,
`CredentialsAssumption`, `OwnerFinanceAssumption`, `ServiceTermsAssumption`,
`ProviderServicesAssumption` and `ConsumerScriptsAssumption`.
TLC evaluates all of them in the runs. Two theorems have hypotheses of their
own, given below: `SentTokensLive` and `AcceptedLimitsApply`.

Every invariant and action property that a passing run checks is stated by a
theorem, and so is the refinement.

| Module | Theorem: property | Argument |
|---|---|---|
| `SynapseClientProofs` | `TypeCorrect`: `TypeOK` | `CallInv`: types, and that a call which may POST again has a key, a price and a run left |
| | `WaitIsBounded`: `WaitBounded` | `WaitInv`: a caller that sleeps has room for one interval before the deadline |
| | `CallsRunOut`, which no run checks | `WaitInv`, and `Ahead`, the steps that a call has ahead of it |
| | `ResultsAreFinal`: `ResultIsFinal`; `RepeatsAgreeAlways`: `RepeatsAgree`; `CallsInvokeOnce`: `OneInvocationPerCall`; `ChargesAreAsserted`: `ChargeWithinAssertedPrice`; `RefusalsAreUncharged`: `RefusalMeansUncharged` | `ChargeInv` |
| | `ClientImplementsPaidCalls`: `ImplementsPaidCalls` | `ClientInv` |
| `AgentWalletProofs` | `WalletTypeCorrect`: `WalletTypeOK`; `BooksWithinBudget`: `SpentWithinBudget` | `WalletInv` |
| | `BooksAreExact`: `SpentIsWhatReturnedCallsCost`; `BooksNeverOverstated`: `SpentNeverOverstated` | `SumInv` |
| | `WalletImplementsPaidCalls`: `ImplementsPaidCalls` | `ClientInv`, `WalletInv` |
| `DiscoveryPagingProofs` | `PagesSkipNothing`: `NothingIsSkipped`; `PagesBringNewRows`: `CallsBringNewRows` | `PagingInv` |
| `OwnerAuthProofs` | `AuthTypeCorrect`: `TypeOK` | inductive as it stands |
| | `SentTokensLive`: `SentTokensAreUnexpired`; `LogoutsEmptyTheCache`: `RevokedTokensLeaveTheCache`; `MissingTokensAreOvertaken`: `MissingTokenMeansLogout` | `AuthInvariant` |
| `CredentialsProofs` | `CredentialTypeCorrect`: `TypeOK` | `CredentialInv` |
| | `ShutOffsHold`: `ShutOffHolds` | `ShutInv` |
| | `HeldTokensAreLive`: `HeldTokenIsLive`, in settings where only answers are lost | `CalmInv`, `HeldInv` |
| | `AcceptedLimitsApply`: `LimitsAreApplied`, in settings where only answers are lost, unless some setting has `update` | `AskedInv`, `LimitInv` |
| | `EnsureMakesNoDuplicates`: `NoProcessDuplicates` | `NameInv` |
| `OwnerFinanceProofs` | `FinanceTypeCorrect`: `TypeOK`; `KeyedNeedsBookedOnce`: `KeyedNeedsMoveOnce`; `DepositsCreditedOnce`: `DepositsCreditOnce`; `ReturnsAlwaysBooked`: `ReturnsAreBooked`; `LimitsCapSpending`: `LimitCapsSpending` | `FinanceInv` |
| `ProviderServicesProofs` | `ProviderTypeCorrect`: `TypeOK`; `NamesArePublishedOnce`: `NamesPublishedOnce`; `FreeServicesAskedFree`: `FreeMeansAskedFree`; `OnboardingSeesItsOwn`: `OnboardingSeesItsService`; `DeletionsHold`: `DeletedStaysGone` | `ProviderInv` |
| `ConsumerScriptsProofs` | `ScriptsTypeCorrect`: `TypeOK`; `FreeScriptsPayNoFixedPrice`: `FreeFlowsStayFree`; `PassedRunsAreGood`: `PassingE2eIsGood`; `RerunsReportOne`: `RerunsReportOneCall` | `ScriptsInv` |

### Consumer calls

`TypeOK` and the properties are not inductive: whether a refusal leaves
nothing behind depends on where every key stands. `ChargeInv` says it in two
halves. `LedgerOK`: an invocation is charged at most the price it was accepted
at, what stands under a chosen key is what the key is for, and keys not yet
drawn are fresh, that is, neither in the ledger nor in a late request.
`CallerOK`: a call's keys are the chosen one or drawn in order (`KeysOK`); every
key but the last, and the last while unanswered or refused, is fresh
(`UnansweredOK`); an answered call has its invocation, and a result equals it
(`AnsweredOK`). The proof has one lemma per action; what the gateway may do in
any step is summed up in `GatewayMove`, and `CallMoves` and `BystanderOK` carry
the invariant over for the caller that moves and for those that do not.

That a call ends is a matter of counting: a first POST, a search and a second
POST happen once, and every round of polling and sleeping takes a second at least
off the time to the deadline, which `WaitInv` keeps from being passed in a sleep.
`Ahead` is that count, and the theorem holds with any number of threads.

The refinement needs two facts more, `MapInv`: a caller without a call has left
nothing behind (`RestOK`), and whatever the gateway has taken or may yet take
under a generated key is within the price its call asserts (`LimitOK`). With
them, one lemma per action shows the abstract step that it takes, or none.

### Wallet

`WalletInv` adds that while threads take turns, `spent` and the price of the
call under way fit in the budget. `BooksWithinBudget` rests on `ChargeBound`:
the guard compares the asserted price and the books take the charge, which is no
higher.

That the books are exact, or at least never too high, compares `spent` with the
sum of the charges of the keys recorded. The sum is written as the number of
their units (`Total`), so that no induction is needed: to record a key is to add
a set that is disjoint from the others (`TotalAdds`). `SumInv` has what makes it
so: what is recorded is final, so that its charge does not change any more
(`FinalStays`); and no thread records a key twice, since the key of a call under
way is not recorded yet, nor are those still to be drawn (`UnrecordedOK`). A
thread that has read an older figure holds one that is no higher than the sum,
which only grows; if threads take turns, it holds the sum itself (`SumOK`).

`WalletImplementsPaidCalls` shows that the override keeps the contract of its
superclass: the steps it delegates are the client's own, a refusal by the guard
opens no call, and the addition stutters between the result and its being taken.

### Paging

The provers know little of products and quotients of variables, so what is
needed is one lemma on division, `Quotient`. From it follows that the page which
an offset is rounded to begins no later than the offset and ends after it
(`PageAround`). `PagingInv` is that there are no rows beyond a gap; then the page
joins what is known (`SearchReaches`) and, unless the list is read, ends beyond
it.

### Owner session

`AuthInvariant` adds to the types four facts, one lemma each. `Known`: tokens in
use were issued. `Own`: the token a thread has received and not yet stored is
held by no other thread, not cached and not revoked, so that storing it cannot
bring a logged out token back. `Gone`: if the cache is empty under a thread past
its check, that thread is in `overtaken`: another thread's logout emptied it since
the check or the write. `Fresh`: the cached expiry exceeds
the cached token's by at most one latency, and what a thread is about to return
is either that much within the margin or at most one message old. The last is
what survives when token and expiry come from two threads. `SentTokensLive`
states its own hypotheses, that two messages travel in no more than the margin
and in less than a token's life, and covers both values of `FromAnswer`.

### Credentials, finance, services

In these modules a request that was sent may be handled at any later time, so
every invariant has to speak of the requests under way as well.

`CredentialInv` is the types and that a request under way is its sender's
(`RequestsOK`). Its first lemma, `HandleEffect`, says what handling any request
does to the credentials; all else is argued from that. `ShutInv`: what was shut
off is revoked or deleted, not merely inactive, which no request undoes.
`HeldInv` and `LimitInv` have the same form: what a process was told of a
credential it has changed itself, unless an exception put it in doubt or somebody
else changed it. They need `CalmInv`: while answers are only lost, no request is
late. `AskedInv` is where `update_credential` fails: a request carries the limit
that was asked for. `NameInv`: a process that waits for the answer to an issue
has no active credential of that name, since its listing showed none and only
itself could have made one since.

`FinanceInv`: requests carry the key and event that their need has
(`RequestsOK`); a need with its own key is booked under no other, and the count
of credits follows the confirmed event (`BooksOK`); while the owner knows a cap,
the limit in force is within it and no limit request is under way (`CapOK`).

`ProviderInv`: requests carry an id made from their name and a price where the
model needs one (`RequestsOK`); live services have ids of their own, which with
the former is why a name is published once (`RecordsOK`); for an id known to be
gone neither a live service nor a registration under way is left (`GoneOK`); and
an onboarding run knows a record whose id it asks for (`PlaceOK`).

### Consumer scripts

`ScriptsInv` has one part for each thing that the scripts rely on. `UnusedOK`: the
keys of runs to come, and the one a run has not called with, name no invocation,
so what a call returns is its own. `FreeOK`: a script that searched for free
services saw a fixed price and asserts zero. Between the search and the call the
provider may do anything to the service; but the gateway compares the price
asserted with the one that stands when it takes the call, so that a service with
a fixed price charges what was asserted or nothing (`FixedCharge`), and any other
charge names a service that was metered by then. The wallet script may have found
a metered service from the start, and there it is the credit limit of zero that
keeps the charge down (`Affordable`). `E2eOK` and `PricedOK` follow an `e2e` run
through its receipts, and `ReportedOK` says that what is reported of a request id
is what stands under it.

### Only model-checked

- `CallsEnd`, `AllIsRead`, `RunsEnd`: liveness under fairness is out of the
  prover's reach. What the first two rest on is proved: a call has at most
  2 * `max_wait_sec` + 5 steps ahead of it, each of its own takes one off, and
  nobody else adds any (`CallsRunOut`); and each page brings rows
  (`PagesBringNewRows`). Left to TLC is that a call under way can always take its
  next step.
- The three findings, each a behaviour that TLC shows.

The other way round, that a wallet keeps the contract of `PaidCalls` is proved and
not run: `client_sole` checks the refinement for the client itself.

## Not modelled

- `resolve_gateway_url` (`config.py`): one lookup, without state or a second
  actor; its unit tests enumerate it.
- Requests that only read: balance, usage and audit logs, risk, health,
  earnings, credential status. They leave nothing behind that anything here
  depends on.
- The clients in TypeScript, Go, Java and .NET, apart from the expiry of the
  token and the Go listing above. None polls or rediscovers but TypeScript,
  whose awaits interleave in fewer places than the threads modelled here; its
  polling loop sleeps past the deadline and has no last look. In Go the unlocked
  token is a data race, whose outcome a torn string leaves open.
- Wording of errors, logging, HTTP headers, JSON layout, the curl parser and the
  printing of the scripts, since no property is about them; result classes, which
  hold data (what they compute is modelled where it is used).
- Fractions below one micro-USDC (`round(x, 6)`) and binary floating point.
- The quality checks under `scripts/ci`: a linter of the repository's text.
