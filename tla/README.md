# Aegis Wallet: a TLA+ verification development

This directory holds TLA+ models of the Aegis wallet, the TLC configurations that check
them on small instances, and proofs of the results that matter most, checked by TLAPS for
every value of the constants. File and line references are to the repository
(`src/<path>:<line>`); `PROJECT.json` maps every definition that models code to its lines,
lists the runs, the hazards, the findings, the theorems, and for each checked property a
mutation of the code that breaks it.

## 1. The system

Aegis is a Sui wallet with a "bouncer". A dApp's transaction is simulated, judged by fixed
rules and by an AI, and shown to the user before a key signs it. *Vault Mode* adds a
2-of-2 (or 2-of-3) multisig: the user's passkey, an enclave that co-signs only what the
owner's policy allows, and optionally a recovery key that exists only as guardian shares.

| Component | State it keeps | Operations | Talks to |
|---|---|---|---|
| Policy co-signer (`enclave/src`) | spend ledger, in memory, behind a mutex; fallback policy | `POST /co_sign`: dry run, load policy, judge, record, sign | fullnode (dry run, Policy object), callers |
| Move policy (`move/aegis/sources/policy.move`) | shared Policy object | create, set limits and lists | read by the enclave |
| Move recovery and its client (`recovery.move`, `app/src/lib/recovery.ts`) | shared RecoveryConfig objects; the shares | create_config, request_recovery, seal_approve; split, open, combine | key servers, clock |
| Vault accounts (`packages/shared/src/vault-account.ts`, scripts) | multisig members, partial signatures | build, sign, combine, execute | passkey, enclave, recovery key |
| Liveness panel (`app/src/lib/vault-liveness.ts`) | none | what to tell the user when the enclave is down | RecoveryConfig |
| Extension worker (`extension/src/background.ts`) | the map of pending approvals, memory only | dApp requests; popup:get-pending, popup:state, popup:resolve, popup:onboard, ...; windows.onRemoved | content script, popup, keyring, fullnode, risk service |
| Approval popup (`popup.tsx`) | page state of one window | load, onboard, unlock, lock, approve, second click, reject | worker |
| Keyring (`keyring.ts`) | local storage: encrypted accounts, origins; session storage: unlocked keys | adopt, unlock, lock, approve/revoke origin, getSigner | browser storage, at awaits |
| Risk rules and AI merge (`risk.ts`, `ai-risk.ts`) | none | level of a summary, merge with the judge's | risk service `/assess` |
| Decision log (`risk-service/src/decisions.ts`, `server.ts`) | ring buffer and counter, memory only | record, stream | extension, activity page |
| Activity page (`app/src/app/activity/page.tsx`) | the list shown | receive, dedupe, cut | decision log |
| Content script and inpage provider (`content.ts`, `inpage.ts`) | per page: promises by request id, the accounts listed | connect, disconnect, sign; forward, answer | dApp, worker |
| Sub-accounts (`subaccount.move`, `app/src/lib/subaccounts.ts`) | a shared budget object | create, record_spend, revoke | dApp, owner, clock |
| Enclave registry (`move/enclave`, `attestation.move`) | configurations (PCRs and a version), registered enclaves | create, update PCRs, register, destroy | capability owner, anyone |
| Deployment (`enclave/Makefile`, `attestation.rs`, scripts) | image, attestation file, the running enclave and its key | build, run, attest; register, gate, make a vault | registry, host |
| Web wallet (`app/src`) | local storage: accounts, trusted recipients; per tab: a copy, the signer, the balance shown, a dialog | create, import, unlock, lock, back up, forget; refresh, edit, review, confirm | other tabs through storage, fullnode |
| Chain reads (`testnet-rpc.ts`, `activity.ts`, `wallet-snapshot.ts`) | the dashboard's snapshot | refresh: a balance, then reads in parallel with retries | fullnode |
| Sponsor, mobile shell, policy receipts, other scripts | mostly none | sponsorship, views | fullnode |

What is hard here, and what makes each part correct:

* **Co-signer.** Handlers of several calls interleave at two awaits; the policy is read
  before the ledger's lock and used after it; the clock may step back; a client that lost
  its answer retries; the process may restart. Correct means: a vault's approvals in a
  window stay under the cap, counted once each; nothing refused consumes allowance; a
  signature follows a policy the owner had on chain; how an address is spelled decides
  nothing that it should not.
* **Extension.** The worker can be stopped at every await and its map of pending requests
  goes with it, while the popup windows live on and send messages late or twice. The
  keyring reads storage, awaits, and writes back. Correct means: no signature without the
  user's decision on that request; a decision stands; the rules' floor holds whatever the
  AI says; origins see accounts only by consent; each request gets an answer. The worker finds
  a request by the id its page gave it, so that these also rest on what a page does with ids.
* **Recovery and vault.** Any guardian may request at any time and restarts the wait,
  anyone may create a config, shares opened once stay open. u64 arithmetic aborts. The
  enclave may never come back. Correct means: nothing outside the policy runs before the
  timelock, and the way out is reached all the same.
* **Web wallet.** Tabs share local storage and are not told of each other's writes. A key
  derivation, a balance, a simulation and an execution are awaits, during which the user
  goes on. Correct means: no account is lost; the key, the address and the balance of a
  tab belong together; what is signed is what was simulated.
* **Pages.** A page is left while its request is under way, the worker is stopped, an answer
  comes late. Correct means: no promise hangs, and a page lists only accounts it was given.
* **Enclave deployment.** An enclave makes its key when it starts. Between two awaits of a
  script the host may restart or replace it, and others use the registry. Correct means:
  a key that is registered, or that a vault is built on, was made in an enclave with a
  measurement the owner published.
* **Code written twice.** The chain and the client both decide about a sub-account's spend;
  the enclave, two summaries and the activity list all read one dry run. Correct means: they agree, at every boundary.
* **Chain reads.** The calls of a refresh fail, are tried again and are answered in any order
  while transactions go on. Correct means: no gap and no double, and an end.
* **Decision feed.** Reports overtake each other and get lost; reconnects replay the
  buffer; a restart gives old ids to new records. Correct means: a page that caught up
  shows what the service holds, newest first, once each.

## 2. Modules

```
AddressText -> PolicyCheck -> SpendLedger -> CoSigner -> CoSignerProofs
                                                      -> MCCoSigner
TransactionRisk, Keyring -> ApprovalFlow -> MCApprovalFlow
                                         -> InpageProvider -> ApprovalFlowProofs
                                                           -> MCInpageProvider
TimelockedRelease  <== implemented by ==  GuardianRecovery -> VaultMode -> VaultModeProofs
                                                                        -> MCVaultMode
Filter -> WalletAccount
WalletAccount, TransactionAnalysis -> WebWallet -> WebWalletProofs
                                                -> MCWebWallet
EnclaveRegistry -> EnclaveDeployment -> EnclaveDeploymentProofs
                                     -> MCEnclaveDeployment
Filter -> SimulationFacts
SubAccount, SimulationFacts -> Mirrors -> MirrorProofs
                                       -> MCMirrors
Filter -> DecisionFeed, WalletSnapshot -> ActivityProofs
Filter -> InductionLemmas -> CoSignerProofs, WebWalletProofs, MirrorProofs, ActivityProofs
```

An arrow is EXTENDS. A definition whose comment calls it a mutation, or a wrong form of the
next one, is used by no specification: it is the plausible bug that `PROJECT.json` pairs
with a property, to show that the property notices it.

**AddressText** (`simulation.rs`, `policy_source.rs`, `ledger.rs`). Addresses reach the enclave as text
in several spellings. A text is an account, whether its leading zeros were trimmed, and
whether it has capitals; the three conversions act on these and two texts are compared as
the code compares strings.

**PolicyCheck** (`policy.rs`, `policy_source.rs`, and the Policy object). `EvaluatePolicy` and
`EvaluatePolicyWithWindowOutflow` keep the order of the checks, so the reason of a refusal
is the code's. Amounts saturate at `U64Max` where the code saturates.

**SpendLedger** (`ledger.rs`). The ledger is a function from a vault's key to a set of
approvals. The order of the vector is never read, and a digest occurs once (which
LedgerSound checks), so a set loses nothing.

**CoSigner** (`main.rs`, `cosign.rs`). One action per stretch of the handler between awaits:
`Receive`, `Simulated`/`SimulationFailed`, `LoadPolicy`/`LoadFallback`, `CoSign`. What
happens under the mutex is one step because the guard is held to the end of the handler
and nothing awaits inside. `SetPolicy` is the owner; `Tick`, `ClockStepsBack` and `Restart`
are the host. Dry runs are external: a call carries the facts its transaction may simulate to.

**TransactionRisk** (`risk.ts`, `ai-risk.ts`). The level of a summary and the merge.

**Keyring** (`keyring.ts`). Each call is split at its storage reads and writes: the value
read is kept in the task's record and written back later, which is where updates get lost.
Encryption is the password an account is stored under.

**ApprovalFlow** (`background.ts`, `popup.tsx`, `decisions.ts`). A
handler has a phase per await; `window` and `view` belong to the popup and outlive a stop of
the worker; `resolves` are messages on their way. `pending` and `windowId` are the worker's
map. Its key is the request's id, which is forwarded as the page made it (`content.ts:28`): a
second request under an id takes the place of the entry (`background.ts:53`), and a click, a
closed window or a message meets whichever entry has the id by then (`Entry`). `Settle` is what follows the resolved promise up to the next await, in the same
turn of the event loop, for an approval, a rejection and a closed window alike.
`WorkerStops` may happen at any state.

**InpageProvider** (`inpage.ts`, `content.ts`). Puts pages in front of ApprovalFlow: `promise` is
the page's map of pending calls, `posted` the messages on their way in, `accounts` what the
wallet object lists. An answer, or the failure of a channel whose worker stopped, settles
the promise of its id; `LeavePage` forgets both and leaves the worker's handler running. Here
ids are those of `crypto.randomUUID` (`inpage.ts:39`): none that is in use.

**TimelockedRelease**. The abstract promise of recovery: a secret, a lock agreed once, a
wait that each request starts anew, and a release that needs the wait to be over.

**GuardianRecovery** (`recovery.move`, `recovery.ts`, `vault-liveness.ts`). `CreateConfig`,
`RequestRecovery` and `CheckPolicy` with the code's guards; the client's
`CreateGuardianRecoveryShares` (with a threshold and a list of its own, which the code does
not compare with the config's), `OpenShare` (the caller picks which config to name),
`CombineGuardianShares`; the panel's `VaultLivenessState`.

**VaultMode** (`vault-account.ts`, the testnet scripts). The multisig on top of recovery. The
whole of the co-signer is the set `Allowed`; that the enclave signs nothing else is what
CoSigner is about.

**Filter**. What stays of a list when those elements stay that are in a set: `Array.filter`
and its like, wherever the code drops records of a list. The other modules use it and not
`SelectSeq`, because its facts can be proved (section 4).

**DecisionFeed** (`decisions.ts` on both sides, `server.ts`, `activity/page.tsx`). Reports in
flight are a set (they are separate fetches that nobody awaits), the stream is a sequence
(one TCP connection).

**WalletAccount** (`wallet-account.tsx`, `Onboarding.tsx`, `UnlockScreen.tsx`, `BackupKeyScreen.tsx`).
`disk` is localStorage; `store` and `signer` are a tab's React states; `tasks` are the calls
at their await. What a screen can do follows from `Screen`, which is the order of the tests
in `WalletDashboard`.

**TransactionAnalysis** (`transaction-analysis.ts`, `dry-run-summary.ts`). The findings that
the wallet's own transactions can have, and the level. See section 6 for those it cannot.

**WebWallet** (`WalletDashboard.tsx`, `SendModal.tsx`, `StakeModal.tsx`, `send-flow.ts`,
`stake-flow.ts`, `address-book.ts`). The two dialogs are the same machine with another kind;
where they differ (`IntentsOf`, `GetReadiness`, `DryRunOf`, `RecipientsOf`) the kind decides.
`Rendered` is what React does after a step of the accounts: the refresh effect runs if
`status` or `activeAddress` changed, and a dialog whose screen is gone is unmounted.
Answers go to where the closure points: a balance to the dashboard whatever account is
active by then, the outcome of a send to its dialog if it is still there.

**EnclaveRegistry** (`enclave.move`, `attestation.move`). One action per entry function.
`published` and `origin` are history: which measurement each version of a configuration
had, and the configuration an enclave object was registered under, which the code does not
store.

**EnclaveDeployment** (`enclave/Makefile`, `attestation.rs`, `main.rs`, and the scripts
`register-nautilus-enclave.ts`, `external-gates-preflight.ts`, `testnet-vault-execute.ts`). A
script's record holds what it read before its await; it may stop at any of them. Between
two awaits the host builds, runs, stops or debugs an enclave, and others register with any
document there ever was, update a configuration, or destroy an enclave object. A document
is genuine by construction (Nitro's signature), which is the one assumption on it.

**SubAccount** (`subaccount.move`, `subaccounts.ts`). The three entry functions and a clock, and
as an operator the client's answer to the same spend. The client's times are JavaScript numbers,
which the model takes for exact: they are up to 2^53 milliseconds.

**SimulationFacts** (`simulation.rs`, `dry-run-summary.ts`, `sim-summary.ts`, `activity.ts`). Pure
readers as operators over the sequences of balance changes and of object changes of a dry run.
An address is a text: its holder, whether it has its leading zeros, and whether its letters are
small. Each reader compares texts as its code does: the enclave and the summaries make letters
small, the activity list also puts the zeros back, and the gRPC summary shows a recipient as it
came. The enclave's recipient falls back to the first owner of an object that is not the vault,
and then to the vault; an object that the fullnode calls transferred has no `owner` field in that
rendering, so that it gives no recipient. The two summaries decide differently which objects
leave: by the kind of the change and the sender in `dry-run-summary.ts:67-82`, by the owners
before and after in `sim-summary.ts:119-137`. What a fullnode calls a change is `Rendered`, and
external. **Mirrors** composes them with SubAccount: one step hands an input to all of its
readers, and its properties compare what they say.

**WalletSnapshot** (`WalletDashboard.tsx` refresh, `wallet-snapshot.ts`, `testnet-rpc.ts`,
`activity.ts`). A refresh is a balance, then reads in parallel, then metadata; each call has
its attempts. The activity is put together from two queries that were answered at
different times. A transaction has no timestamp until it is in a checkpoint (`Checkpoint`), and is
sorted as one of time 0 until then (`activity.ts:65`). `loading` is the flag that the button
shows.

### Granularity

A JavaScript turn between two awaits is one action, and so is a Rust handler between two
awaits. Three places are coarser than that:

* `handleConnect` reads accounts, session and origins in three awaits; `CheckConnect` reads
  all three at once. They only decide whether the user is asked; what is given afterwards
  is read again by `ListAccounts`. The pages' `popup:get-pending` and `popup:state` are one
  step for the same reason.
* Chrome reports a new window's id before any event of that window (`WindowOpens`).
* Clocks advance by one tick. Which tick a handler reads is the tick it runs at.

A phase `answered` of ApprovalFlow means that the background has answered, or that the content
script has for a channel that closed. The way to the page is `ResponseArrives` of
InpageProvider.

## 3. Runs

Deadlock checking is on for the web wallet and off elsewhere: calls and requests are used once and
clocks, restarts and re-requests are bounded, so each of the other instances stops when its
actors have done what they can. Symmetry is used only over calls and requests, which no definition
distinguishes, and only in runs without liveness properties.

| Run | What it checks | Instance and why it is enough |
|---|---|---|
| `co_signer_window` | `TypeOK`, `LedgerSound`, `LedgerComplete`, `SignedWithinRollingCap`, `RetryNotRefused` | Three calls, so that one waits while two others are decided; a vault in both cases; a transaction of 1 sent for either spelling, one of 2, one of 0, one with bad bytes; cap 2, so that not all of them fit. `Window` is 2 and `MaxTime` 3: an approval can age out on the last tick, be on the edge of the window, and the clock can step back over the edge. One restart. |
| `co_signer_policy` | `SignedUnderOwnersPolicy`, `ListedAsSpelled`, `SignedWithinRollingCap` | Three policies that differ in list, per-transaction cap and rolling cap, changed at any time; caller facts with a capitalised recipient and an outflow of `U64Max`; `TotalMist` 0. The listed package starts with zeros, as 0x2 does; a transfer names it "0x2" and a Move call with 64 digits. |
| `approval_sign` | `TypeOK`, `ConsentBeforeSignature`, `DrainShownCritical`, `DecidedOnce` | Two requests to sign, of one id or of two; the toolbar's popup for locking and unlocking; one stop of the worker; a judge that says "low" of a drain or fails. |
| `approval_keyring` | `OriginConsented` | Two handlers that connect and disconnect two origins, the requests of one origin under one id; set-up and unlock in the toolbar's popup, windows that may fail, one stop. Two handlers and one popup are what lost updates need. |
| `approval_answered` | `AccountsWereGiven`, `AccountsBacked`, `EveryPromiseSettles` | One page and one request of every method, from an unlocked, locked or empty wallet; two accounts, which the toolbar's popup and the request's window may set up at the same time; one stop of the worker, one time the page is left or reloaded. |
| `vault_escape` | `TypeOK`, `GuardrailHolds`, `PanelAgreesWithChain`, `TimelockRespected`, `EscapeReached` | The vault's config and a foreign one; two guardians, or one address twice; a timelock of 2 and one that does not fit in u64 once added to the time; two requests per config, which is what restarting the wait takes; one transaction within the policy and one outside. `MaxTime` stops the clock only when nothing is maturing. |
| `decision_feed` | `TypeOK`, `CaughtUp`, `ShownOnce`, `ShownInTheEnd` | Five decisions through a buffer and a page of three, so that records are pushed out of both; two interruptions, so that a replay can itself be interrupted and a restart can follow it. |
| `web_wallet` | `NoAccountLost`, `SignerIsActive`, `BalanceIsActives`, `SentWasReviewed`, `KnownWereSentTo` | Two tabs, which is what a lost update needs, and the dashboard of one of them (`Dashboards`). A created account with 100 and an imported one with 20: a send of 19 is harmless from the first and empties the second, a send of 5 is harmless from both, a stake has to reach 10. One signed transaction, and per page one step out of turn (`MaxHaste`): an edit, lock, close or forget while something is awaited, an act on what another tab has changed, or a failed balance. |
| `enclave_deployment` | `RegisteredIsMeasured`, `VaultCoSignerMeasured`, `ReadyMeansNonDebug` | Two images of different measurements; two runs of an enclave in any mode, which is what a restart between two requests takes, and the script's own local key; one configuration with an update; one enclave object, which others may fill before the script does; any sender. Symmetry over the two keys. |
| `wallet_reads` | `RecentComplete`, `RefreshEnds` | Three transactions of any direction, in checkpoints of equal or rising timestamps or in none yet, a limit of two rows, so that a query is cut; two attempts per call, so that one fails, is tried again and fails for good. One refresh: two of them share nothing but the snapshot, see section 6. |
| `mirrors` | `BudgetKept`, `ClientForeseesChain`, `EnclaveSeesWhatIsShown`, `ReadersAgree` | A u64 of 3, so that sums pass its end; expiries that are over at once, in the middle and at the last tick of interest; every dry run of up to three balance changes of two accounts, an object, two coins and three amounts, and of up to two changes of an object beside a payment; the user in small letters, in capitals, and without leading zeros. |
| `web_unreviewed_send` | finding 1 | The instance of `web_wallet`. |

### What the properties say

* `LedgerSound` and `LedgerComplete` relate the ledger to the history of answers: every
  entry is an approval of this run of the enclave, once per digest, and no approval is
  forgotten before its window is over at some reading of the clock.
* `SignedWithinRollingCap` does not mention the ledger. It adds up what was signed. A policy
  whose cap is the greatest u64 is left out: sums saturate there, so that such a cap limits
  nothing.
* `RetryNotRefused`: a transaction is never refused because of itself.
* `SignedUnderOwnersPolicy`: a signature passes the rules, apart from the rolling cap, of a policy
  that was on chain at some time during the call. It is not the policy at the moment of
  signing, which the code does not promise. One of the enclave's own stands in only where the
  object cannot be read or there is none.
* `ListedAsSpelled` says what the lists of a policy from the chain do with spellings. They let
  through what is listed *and* is spelled without leading zeros. A deposit to an account that
  starts with a zero, and a Move call of 0x2, are refused although they are listed.
* `ConsentBeforeSignature`: behind each signature is a click on a page of that request's id,
  with the second click if that page showed critical risk; and the decision was posted to the
  log as approved. Where no other request carries the id, as with the provider of `inpage.ts`,
  the page showed that very request, at the level the handler had computed.
* `DecidedOnce`: what a request was settled with stays, and one that was rejected is not
  signed later.
* `DrainShownCritical`: the rules' floor holds whatever the judge answers, or if it does not.
* `OriginConsented`: in spite of lost updates, an origin has accounts only if the user once
  agreed.
* `AccountsBacked` relates the two storages to what the user was told: an account whose
  set-up was reported is stored, and what is unlocked is stored too, although `adopt` writes
  what it read before an await. Any number of popups may set up accounts at a time. Left out are
  the accounts that were written while another set-up held an older map (`raced`, section 5).
* `EveryPromiseSettles` and `AccountsWereGiven` end at the page and not at the worker. Every
  promise is resolved, rejected, or lost with its page. The accounts a page lists are those
  of a connect that this load of the page asked for and saw resolved, after the user let the
  origin connect, and are stored, with the same exception; an answer to the page before a reload
  leaves nothing.
* `GuardrailHolds`: what the enclave would not sign runs only after the whole timelock
  since a guardian of the vault's own config *first* asked.
* `TimelockRespected`: the refinement. It counts from the *last* request before the share
  that completes the secret.
* `PanelAgreesWithChain`: two independent computations of "is the way out open", one in
  TypeScript and one in Move, agree at every time that the clock can show.
* `NoAccountLost` relates localStorage to the history of what the user took in and forgot,
  for every interleaving of the tabs.
* `SignerIsActive`, `BalanceIsActives`, `SentWasReviewed` are about pages whose user is *calm*
  (`haste` is 0): he waits for what is awaited, acts on what localStorage holds, and the
  balance could be read. Other tabs are free, and may write at any moment between. The
  first two are what the third rests on: an analysis is of the active account against the
  balance shown, and the transaction is of the signer. What passes leaves a tenth of the
  balance, but for less than the basis point that the code rounds away. Without calm the
  code does not keep them (sections 5 and 6).
* `KnownWereSentTo` holds for any user: closing or reloading while a send is under way
  neither trusts a recipient that was not sent to nor forgets one that was.
* `RegisteredIsMeasured`: a registered key was made in an enclave with exactly the measurement
  its configuration had at the version the object names, whatever is published later.
* `VaultCoSignerMeasured`: the script tests the key of the enclave it talks to, then makes
  several requests; the key the vault is built on stays the measured one although the host
  may answer with another at each of them.
* `ReadyMeansNonDebug`: the gate joins two files and a registered key that may be of different
  builds and runs; what makes it sound is the registration (see section 6).
* `RecentComplete`: of what was in a checkpoint when a refresh began, nothing that belongs in
  the list is missing, nothing is twice, and nothing older stands above it, although the two
  queries see different states of the chain. `RefreshEnds` is about the flag that the button
  shows, `loading`: once set it is reset.
* `EnclaveSeesWhatIsShown`: the outflow and the recipient that the enclave judges are those
  the user's screen announces.
* `ReadersAgree`: the two summaries agree in amounts, gas and failure, and in recipients that
  are accounts up to the case of letters. Of a transaction that the user sends, JSON-RPC
  shows every object as leaving that gRPC does; they show the same objects when each was
  the user's and none stays with the user or becomes shared. The activity row is the difference of what
  the summary lists, if the addresses are written with their leading zeros.
* `ClientForeseesChain`: the client refuses a spend if and only if the chain aborts it, for times
  up to 2^53.
* `CaughtUp`: a page that has received all that was written to it begins with the service's
  buffer, newest first.

### Fairness

* `InpageProvider`: messages between page and worker arrive; a handler whose await can finish
  goes on; a window Chrome was asked for opens; a user does not leave an approval window open
  for ever. Nothing is assumed of clicks, unlocks, or messages of the popup. A single-threaded
  event loop, and awaits that end in an answer or an error, justify the second, and
  `EveryPromiseSettles` depends on the third, see section 6.
* `WalletSnapshot`: a request is answered or fails in the end (a fetch that never settles is
  not handled anywhere), and a promise whose parts are settled goes on. How often a call
  fails is free.
* `VaultMode`: the chain's clock goes on, and guardians and the user keep trying to request,
  open, combine, sign and execute. The enclave has no fairness: it may be gone.
* `DecisionFeed`: EventSource reconnects by itself (its specified behaviour), frames that
  were written arrive while the connection lasts, and somebody starts a service that
  stopped. Reports have no fairness: they are fire-and-forget.

## 4. Proofs

Eight modules hold proofs, for every value of the constants that satisfies the named
assumptions. Every invariant, action property and refinement that a passing run checks is
stated by a theorem. The assumptions are weak: finite-width limits are natural numbers, inputs belong to the
types of the code, `None` is not a value, and beyond that

* the vault's three roles differ, and the bound on its clock fits in u64
  (`VaultAssumption`, `RecoveryAssumption`);
* the toolbar's popup is not the window of a request (`ApprovalAssumption`);
* no account is an object (`FactsAssumption`);
* nitro-cli never prints the zeros of a debug enclave for an image, and the script's own key
  is not an enclave's (`MeasurementAssumption`, a guard of `RunEnclave`);
* the page keeps at least as many records as the service (`FeedAssumption`; both keep 100:
  `page.tsx:41`, `decisions.ts:31`).

Some theorems are about a part of what may happen, where the rest is a finding or a limit of
sections 5 and 6. Their hypotheses are part of their statements:

| Theorem | Hypothesis | Without it |
|---|---|---|
| `AlwaysWithinRollingCap` | `OneOutflowPerDigest`: a transaction simulates to the same outflow each time; `OneKeyPerVault`: a vault is not spelled with and without its leading zeros | a re-approval is counted with its first outflow; two spellings have a ledger each |
| `RetryNeverRefused` | `OneRollingCap`: the owner keeps the cap while the window lasts | a lowered cap refuses the retry, as it should |
| `DrainAlwaysShown` | the balance can be read | the rule has nothing to compare with |

**InductionLemmas**

The library's induction theorems take a predicate as their parameter, which no installed
prover can instantiate. Here induction is over a *set* instead, which a proof can name: a set
that holds 0 and, with a number, its successor, holds all naturals (`NatSetInduction`), and
the same for the subsets of a finite set (`FiniteSetInduction`) and for lists
(`SeqSetInduction`). They follow from minimal elements in a well-founded relation. From them come the
lemmas that the other modules cite: `SumExists`, `SumInSomeOrder`, `SumInjection` (what a
finite set adds up to, in whichever order a fold takes it), and `KeptAre`, `KeptPlaces`,
`KeptAppend` and others on what a filter keeps of a list and in which order. This is what
the proofs about sums and about lists of every length rest on.

**CoSignerProofs**

* `TypeCorrect`: the types, together with `CallData` (which local variables of a handler are
  set in which phase), without which the types are not inductive.
* `LedgerFaithful`: `LedgerSound /\ LedgerComplete`. The induction needs `Bounds` (the clock
  never shows more than `latest`, no answer is of a later run). `PruneEffect` and
  `RecordEffect` say what one decision does to the ledger; `CoSignSound` and
  `CoSignComplete` use them for the one action that matters; `OtherSteps` shows that the
  others neither approve nor touch the ledger, and `SameApprovalsKeep` that this is enough;
  `RestartKeeps` is the case in which both sides are emptied.
* `AlwaysUnderOwnersPolicy`: the invariant is that the policy on chain has been offered to every
  open call (`OpenInv`) and that an answer is what the rules said with the outflow in the
  ledger (`AnswerInv`). It says nothing of the ledger: that is the next theorem.
* `AlwaysWithinRollingCap`: what was signed in a window, one record per digest, is injected into
  the ledger that a decision reads (`SumInjection`): each of those approvals still has its
  entry (`LedgerComplete`), of the same outflow. So the sum the code compares is no less.
* `RetryNeverRefused`: with one cap the ledger of a vault never adds up to more than the cap
  (`WithinCap`), pruning only makes it smaller, and a retry finds its own entry and adds nothing.
* `AlwaysListedAsSpelled`: from the same invariant, for every set of addresses that start with a
  zero. What the code does to a list and to a text leaves two texts equal exactly when they are
  of one account and the second has no leading zeros.

**VaultModeProofs**

* `GuardrailTheorem`: `GuardrailHolds` says nothing of shares, so the invariant `IInv` adds
  the chain that leads to it: a recovery signature needs the secret, the secret needs a
  share, a share needs the timelock (`ShareInv`), the timelock is counted from a request
  that is not before the first one (`FirstInv`). `WeightWithoutEnclave` is the arithmetic of
  the multisig: weight 2 without the enclave contains the recovery key.
* `PanelTheorem`: from `RequestInv`, since the two computations differ on requests of the
  future and where a sum does not fit in u64, neither of which matters to a clock that
  itself fits.
* `ImplementsTimelockedRelease`: `AbstractNext` maps each step to `Agree`, `Request`, `Wait`,
  `Release` or a stutter; one lemma per action.

**ApprovalFlowProofs**, by `FlowInv`, for any number of requests, popups, accounts, origins and
stops of the worker

* `TypeCorrect`, `AlwaysConsented`, `AlwaysDecidedOnce`: the level of a request does not change
  once its window is asked for, and a page that has loaded shows the level of a request of its
  id, of its own one if no other carries the id. So a message on its way is backed by a click on
  such a page (`PopupInv`). An entry of the map belongs to a handler that waits in one phase
  only and is settled once; a handler whose entry was replaced waits on and never signs
  (`HandlerInv`). The invariants of the two are inductive only together: a click is believed
  because the page showed the preview of an entry of its id, and an entry is settled because of
  a click for its id. `Steps` sorts the steps into quiet ones, moves of one
  handler and a stop; `MoveKeepsHandler` has a lemma per move.
* `OriginsAlwaysConsented`: `OriginInv` adds what a read-modify-write call of the origins holds
  between its read and its write, and what a connect is about to write.
* `DrainAlwaysShown`: `DrainInv` carries the level of the rules through the judge's answer
  into the preview.
* `AccountsAlwaysBacked`: what an `adopt` holds between its read and its write is the local
  storage, but for accounts in `raced`; a write takes away no others, and whatever it would take
  from an `adopt` that is under way it adds to `raced`. The session storage holds only what was
  read from, or is written together with, the local one.
* `ProviderImplementsFlow`: a step of pages and worker together is a step of ApprovalFlow or a
  stutter, so that the theorems above hold with pages in front. `AccountsAlwaysGiven` uses it:
  an account a page lists came with a promise of this load that is resolved, and such an answer was
  given by a handler whose origin the user had let connect.

**EnclaveDeploymentProofs**, by `DeploymentInv`, for all images, keys, objects and senders

* `RegisteredAlwaysMeasured`: a version of a configuration is published once and versions only
  grow (`PublishedInv`), a run keeps its key and measurement for ever (`HistoryGrows`), and
  each registered object stands for a publication (`EnclavesInv`).
* `VaultCoSignerAlwaysMeasured`: the script compares the registered key with the key it holds,
  which it does not change afterwards (`ScriptInv`).
* `ReadyAlwaysMeansNonDebug`: a document in a file or in a script is one that an enclave gave
  (`FilesInv`), and a report that is ready is of a measured key (`ReportInv`).

**WebWalletProofs**, for any number of tabs, accounts, dialogs and sends

* `AccountsAlwaysKept`: each call reads localStorage again in the turn in which it writes it, and
  what a filter keeps of a list is known (`OthersAre`), so a write loses no account of another tab and
  adds none twice.
* `KnownAlwaysSentTo`: `known` and the history change together, in the answer of a send.
* `SignerAlwaysActive`, `BalanceAlwaysActives`, `SentAlwaysReviewed` by `CalmInv`, in three layers. A
  tab whose user is calm awaits at most one call that derives a key, and none while it holds a
  key (`KeyInv`). So its account changes only while it holds no key, and then it awaits no
  balance and no answer (`BalanceInv`), and its dialog is closed or as it was opened
  (`HiddenInv`). Therefore a review stays a review of the dialog's fields and of the
  account (`DialogInv`), which is what `Confirm` signs.

**ActivityProofs**, of both lists of activity

* `FeedTypeCorrect`, `AlwaysCaughtUp`, `AlwaysShownOnce`, for every size of buffer and page with room
  for the buffer: ids in the buffer are consecutive (`IdInv`), what is on its way ends
  as the buffer ends (`StreamInv`), the page begins with the rest of the buffer
  (`SeenInv`), and a decision has one record in play (`OnceInv`). A restart gives ids again,
  and a record that arrives takes away the one of its id; because the ids are consecutive
  that is never one of those the page is to begin with.
* `SnapshotTypeCorrect`, `AlwaysComplete`, for every limit and any number of transactions, loads and
  attempts. A query's answer *covers* what was in a checkpoint when its load began (`Covers`):
  each of those transactions is in it, or it is cut and all it holds are newer or in no
  checkpoint; that stays so when ledger and checkpoints grow (`GrowingKeeps`), which is why the
  two answers may be of different times. Sorting puts each block after those that go before it (`SortedIs`, by counting
  places), and a row that either cut cuts off has `Limit` others as new (`CutOff`,
  `PlaceIsEarly`).

**MirrorProofs**

* `TypeCorrect`, `BudgetAlwaysKept`, `ClientAlwaysForesees`: the history of spends equals the
  counter, for every u64; an overflowing sum exceeds every budget, so that the chain's
  abort on overflow refuses nothing that the client lets through.
* `MirrorsImplementSubAccount`: reading an input is a stutter of SubAccount, so these hold in the
  composition as well.
* `EnclaveAlwaysSeesWhatIsShown`, `ReadersAlwaysAgree`, for dry runs of every length and every
  spelling: each reader is brought to the form of a sum of weights over what a filter keeps, and
  then to one over all changes; the sums of two readers are compared change by change. Two
  comparisons of texts are one when neither text lacks its zeros (`PaddedIsLower`), and two lists of
  objects are one when the two filters keep the same members (`ObjectsAgree`).

Only model-checked: the four liveness properties, `EveryPromiseSettles`, `EscapeReached`,
`ShownInTheEnd` and `RefreshEnds`, because what fairness gives needs ENABLED, which the
prover does not reason about.

## 5. Findings

1. **A send that was never simulated can be confirmed** (`app/src/components/SendModal.tsx:79`;
   `StakeModal.tsx:96` likewise). The fields can be edited while the simulation runs; its
   answer opens the preview of the old intent over the new fields, and `confirm` sends the
   new ones. Run `web_unreviewed_send`.

Four more divergences came up while modelling. The models contain them, and the
properties above are stated so that they do not depend on them:

* **An allowlisted account whose address starts with a zero is refused**
  (`enclave/src/policy_source.rs:135`). The allowlist loses its leading zeros, the simulated
  recipient does not, and neither does the package of a Move call, and the texts are compared:
  a list that holds 0x2 lets transfers through, whose package the enclave writes "0x2", and no
  Move call of 0x2. `ListedAsSpelled` states it, and is checked and proved.
* **A re-approval is counted with its first outflow** (`enclave/src/ledger.rs:58`). A
  transaction judged again on a larger simulated outflow keeps the smaller entry. With a
  request of two `dryRuns` of 1 and 2, `SignedWithinRollingCap` is violated.
* **Two simultaneous set-ups keep one account** (`extension/src/keyring.ts:54`), although both
  report success. `AccountsBacked` leaves out what was written so (`raced`); without that it is
  violated in `approval_answered`.
* **Two requests under one id share one entry** (`extension/src/background.ts:53`). The worker
  finds the request of a click by the page's id. If a page uses an id twice, the second request
  takes the entry's place, the window of the first one settles it, and the first waits
  until the worker is stopped. The provider of `inpage.ts` draws a fresh id each time; nothing behind it asks for that.
  `ConsentBeforeSignature` is about the id, and about the very request where no other has the id.

## 6. Limits: what the code does not promise

* The ledger is memory only, so the rolling cap is per run of the enclave. The ledger
  properties are stated for the current run.
* When the Policy object cannot be read the environment's policy is used, by design
  (`policy_source.rs:42`), and the rolling cap is then that policy's. `SignedUnderOwnersPolicy`
  says so; the run `co_signer_policy` reads the object each time, the theorem is for either.
* `EveryPromiseSettles` is about ids as `inpage.ts` draws them (section 5), and holds if windows open. Nothing handles a rejected
  `chrome.windows.create`, and the request then waits for the worker to be stopped.
* `DrainShownCritical` holds if the balance was fetched; otherwise the rule has nothing to
  compare with.
* A lock pressed while an unlock is in flight may be undone by it. No document promises otherwise.
* Guardians that keep requesting postpone recovery for ever, and `create_config` accepts a
  timelock that overflows u64 with any request time, from which there is no way out.
  `EscapeReached` excludes both and says so.
* The m-of-n of the guardians is the client's: any guardian may open any share once the
  timelock is over.
* The panel takes `null`, not 0, for "no request"; nothing in the repository connects the
  two yet. The model converts.
* The extension signs a transaction of critical risk after a second click
  (`popup.tsx:396`), as `ConsentBeforeSignature` says; `demo-dapp/README.md:13` and
  `extension/README.md:39` read as if it were blocked.
* An unlock of the web wallet that ends after "Forget this account" installs the forgotten
  account's key. A tab that acts on accounts another tab has changed may show an address
  that is not its signer's, and the dialog then rates one account and signs with another.
* After a balance that could not be read the dashboard keeps the last one, which may be
  another account's.
* `known-drainer` and `address-poisoning` findings cannot occur in the web wallet:
  the list of drainers is empty by intent (`wallet-policy.ts:9`) and `rememberRecipient` is called
  without a label, so that the address book stays empty.
* A send whose answer was lost, or whose dialog was closed, can be made again.
* In the preview the stake form has one text field and no button, so that Enter submits it
  again in some browsers, even twice. WebWallet starts reviews from the form only.
* The preflight gate compares the file of the build's PCRs with zeros and never looks at the
  PCRs of the attestation (`external-gates-preflight.ts:162`), although `enclave/DEPLOY.md:89`
  speaks of those. `ReadyMeansNonDebug` is therefore for an owner who never publishes zeros.
* A registered enclave object need not be of the current version of its configuration, and
  can be destroyed by anyone who names *any* configuration with a newer version
  (`enclave.move:147`). That is availability, and nothing in the repository promises more.
* The enclave's key is lost with its run. A vault whose enclave restarted needs the recovery
  key, or a new vault.
* Of two refreshes under way the one that ends last is shown. A failed price, which is not
  retried, takes the whole snapshot with it. Objects are read from the first page of 50.
* The enclave asks the allowlist about the first recipient only, and adds up outflows of all
  coins as if they were one; `EnclaveSeesWhatIsShown` is about transactions that pay one account.
  An object that is transferred away gives it no recipient, and the vault itself stands in.
* A user's address that is given without its leading zeros is nobody's to the enclave and to
  both summaries, which then show nothing sent; the activity list puts the zeros back. The
  callers in the repository give it as the fullnode writes it.
* A transaction that is in no checkpoint yet has no timestamp and is sorted last
  (`activity.ts:65`), where the limit may cut it: the newest transaction can be missing from
  the list until the next refresh. `RecentComplete` is about those in a checkpoint.
* `subaccounts.ts:7` keeps times as numbers, exact up to 2^53, where the chain has u64.
* A receipt's text whose length is a multiple of three has no base64 padding and is shown
  undecoded when it came through gRPC (`policy-receipts.ts:156`); the enclave's reason "per-tx
  outflow exceeds policy cap" is one. Receipts are not modelled.
* `subaccounts.ts` and `policy-receipts.ts` are called by no screen yet.
* The activity page may show older records out of order after an interrupted replay, and a
  record whose id a restarted service gives again leaves the page.

## 7. Not modelled

Cryptography (signatures, attestation, Seal, secret box) is abstracted to who can do what.
The swap builder and the wallet workflows that no screen calls have no state. Rendering, view
models, network settings, and the formatting of portfolio and activity have no protocol in
them. Policy receipts are read by a decoder that guesses at base64 (section 6). The sponsor is one stateless check. The mobile shell builds a bundle. The AI model and
its prompt are a nondeterministic answer. Of the scripts, those that run one of the parts
above once and in sequence, without a state of their own, are left out (the sponsor's gate,
the Seal smoke tests, the co-signer's smoke test). The demo dApp, fullnode, key servers and
browser are the environment; their parts are marked external in `PROJECT.json`. The
capability of `policy.move` is an address.

## 8. Plan

What is left, in this order:

1. **An abstract log** that the decision service and its page implement, with a refinement
   mapping from `SeenInv`.
2. **Two refreshes at once** in `wallet_reads`, and which of them is shown; the theorem about
   `RecentComplete` is for any number already.
3. **A longer recovery run**: two secrets of one config, and the demo's seal scripts at their
   awaits.
