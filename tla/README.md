# Holonus: TLA+ models and proofs

Holonus keeps users' files and keys on a private Ethereum chain, IPFS and
MongoDB, behind a web server, and runs a coin on the same chain.  This directory
holds TLA+ models of its contracts and of its request handlers, TLC
configurations that check them on small instances, and TLAPS proofs of the main
theorems about the coin.

## The system and its parts

| Part | Source | Module | State of the model |
|---|---|---|---|
| Coin: TokenERC20 | `contracts/holonusCoinService/TokenERC20.sol` | `CoinLedger` | all calls |
| Coin service: rewards, reflections | `HolonusCoinService.sol` 146-267 | `CoinLedger` | all calls |
| Coin service: reliability | `HolonusCoinService.sol` 72-144, `ManageStorage.sol` | `Reliability` | all calls |
| The coin service as deployed | both halves over one `EternalStorage` | `HolonusCoin` | composed |
| Ownership and allow lists | `base/owned.sol`, `EternalStorage.sol` 30-47 | `Owned` | all calls |
| File service contracts | `contracts/holonusFileService` | inside `KeyApi`, `FileApi` | `set` only; locks as a reason to revert |
| Key handlers | `web_general/core/api/v1/keys.js` and what it calls | `KeyApi` | all handlers |
| File handlers | `web_general/core/api/v1/files.js` and what it calls | `FileApi` | all handlers |
| MongoDB transactions | `common/db/dbUtil.js` | `Mongo` (external) | as used |
| Coin handlers, authentication, migrations | `core/api/v1/coins.js`, `auth/`, `migrations/` | - | planned, see below |
| Web server wiring, logging, formatting | `app.js`, `routes/`, `utils/` | - | no state of interest |
| go-ethereum, go-ipfs | unmodified third-party trees | - | out of scope |

The web server's handlers write three stores that know nothing of each other: a
MongoDB document in a transaction, a record on the chain through
HolonusFileService, and a block in IPFS.  The coin contracts share one storage
contract, EternalStorage; TokenERC20 and HolonusCoinService both write its
balances.

## Modules

- `Owned`: `owner` and `allow`, with `transferOwnership` and
  `enableAllowAccount`.  A call whose `require` fails is reverted and changes
  nothing, so it is a step that does not exist: the guard of an action is the
  conjunction of the conditions of the call in every contract it enters.
- `CoinContracts`: names, the width of integers (`MaxUint` is 2^256 - 1), the cap
  on reliability (`MaxLevel` is 10).
- `CoinLedger`: one variable per row of EternalStorage (`tocken`, `totalSupply`,
  `allowed`, `reflectTocken`, `accumulationPoint`, `adjustParameter`), one action
  per call.  `Moved` and `Credited` keep the code's order: both balances are read,
  then written one after the other, so the same account on both sides is
  the last write.  `evaluationPoint` and `ownerPoint` are the integer arithmetic
  of `evaluationConsensus`.
- `CoinSupply`: the abstract coin: what all accounts hold, and the supply; coins
  are minted with the supply or retired, nothing else.
- `Reliability`: the reliability rows, the records of evaluations and the two
  lists of ManageStorage.  `CallEvaluateReliability` is a transaction whose loop is
  unrolled into `PropagateReliability` steps; `call` holds the loop and what
  `RevertEvaluation` restores.  `granted` is a history variable: what an account has
  beside what its records say (from setReliability, or from an evaluation by the
  zero address, which `fcUpdateReliability` never recognises as made).
- `HolonusCoin`: the two halves composed, `CallEvaluatePost` reading the evaluator's
  level from `Reliability`.
- `Mongo`: transactions: documents written, documents changed since the snapshot,
  write conflict, commit, abort.
- `KeyApi`, `FileApi`: requests `req[p]` with a program counter, one action per
  awaited call that touches a key or a file.  `Mine` takes the transactions sent to
  the chain in the order they were sent (one account sends them all, and
  its nonces order them).  `Fail` is any awaited call that throws; `commitTransient`
  is a commit after which withTransaction runs the callback again.
  Awaited reads of the user, of locks and of the connection can only end a request:
  they are part of `Fail`.
- `Totals`: the sum of a row as the number of its units, which needs no recursion
  and so can be reasoned about by the provers.
- `TotalsProofs`, `CoinLedgerProofs`: the proofs.
- `MC*`: instances for TLC.  Operators whose name begins with `Mutant` are
  definitions as a plausible bug would have them; nothing uses them in a
  specification, they show that each property can fail.

## Runs

| Run | Configuration | Shows |
|---|---|---|
| coin_ledger | `MCCoinLedger.cfg` | `SupplyBounds`, `SupplyIsEarned`, `TransferNeverOverflows` |
| coin_admin | `MCCoinAdmin.cfg` | `LedgerTypeOK`; the ledger implements `CoinSupply` (`SupplySpec`), with allowances and changing owners |
| reliability | `MCReliability.cfg` | `RelTypeOK`, `ReliabilityIsAccounted`, `TakeBackNeverFails`, `ListsAgree` |
| propagation | `MCPropagation.cfg` | `EvaluationPropagates` |
| coin_service | `MCHolonusCoin.cfg` | the composed service implements the ledger (`LedgerOfTheService`) |
| keys | `MCKeyApi.cfg` | `TypeOK`, `RegisteredKeyIsOnChain`, `KeysIdNamesAKey`, `EveryRequestIsAnswered` |
| keys_serial | `MCKeySerial.cfg` | `OnlyTheNamedKey`, one request at a time |
| keys_twice | `MCKeyTwice.cfg` | `OneKeyPerUser` is violated |
| files | `MCFileApi.cfg` | `TypeOK`, `StoredFileIsComplete`, `ReadNeverDangles`, `EveryRequestIsAnswered` |
| file_versions | `MCFileVersions.cfg` | `NoMixedVersions`, while no call fails for good |
| files_sealed | `MCFileSealed.cfg` | `SealedForItsOwner` is violated |

### Bounds

- Coin: three addresses (zero, the deployer, one more), `MaxUint` 3 to 6 so that
  the supply meets its limit within a few calls; the units (10^18, 10^3, 100) are
  scaled down to 1 or 2, so that a point is worth 0 to 3 coins and integer division
  loses remainders.  coin_ledger has no allowances and fixed owners, coin_admin has
  both and a smaller width.
- Reliability: whole units of two, a cap of two units, `MaxUint` just above the cap.
  reliability lets two accounts evaluate each other, one of them itself,
  and the zero address evaluate; propagation gives one account two to evaluate.
- Handlers: two requests in progress, one user (keys_serial: one request, two
  users), two or three ObjectIds (`KeyIds`, `FileIds`; when they run out `create`
  fails), `MaxTries` 2 runs of a callback, `MaxMempool` 1 or 2 unmined transactions.
  A conflict needs two requests; a second run of the callback meets all that a
  third would.  Ids are symmetric where only invariants are checked.

### Fairness

`EveryRequestIsAnswered` assumes weak fairness of each request's steps (the event
loop resumes a handler whose call has returned, and the drivers' calls return or time
out) and of mining.  Strong fairness of `setKey` and `setFile` stands for weak
fairness in the code: there, sending never waits, and only the bound `MaxMempool`
disables it.  Strong fairness of `deleteOne` in `FileApi` assumes that MongoDB, which
retries a delete outside a transaction until the document is free, finds it free at
last.  `Fail` is never assumed to happen.

### Disagreements with the code's own statements

- keys_twice: `checkConflict` is called outside the transaction.  Two postKeys of a
  user both pass it; the second updates the user after the first has committed, and
  both keys are registered, although the check answers "Key is conflict in
  database".
- files_sealed: `putFile` does not await `getKey`.  `pem2der` is given a promise, for
  which node-rsa generates a new key pair, and the content is encrypted with a key
  nobody keeps, although `postFile` refuses to store a file with 'public key not
  registered'.

## Proofs

`CoinLedgerProofs` proves, for every finite set of addresses, every width and every
choice of units allowed by the assumptions `AddrAssumption`, `UIntAssumption` and
`LedgerAssumption`:

- `LedgerTypeCorrect`: `LedgerSpec => [](AccessTypeOK /\ LedgerTypeOK)`;
- `SupplyIsConserved`: `LedgerSpec => []SupplyBounds`;
- `SupplyIsAlwaysEarned`: `LedgerSpec => []SupplyIsEarned`;
- `TransfersNeverOverflow`: `LedgerSpec => []TransferNeverOverflows`;
- `LedgerImplementsSupply`: `LedgerSpec => SupplySpec`.

The inductive invariant `LedgerInv` is the conjunction of the types, `SupplyBounds`
and `SupplyIsEarned`.  The types are what makes the sums numbers that a write changes
by a known amount.  `SupplyBounds` tells that a supply of zero, on which `Init` acts,
means empty balances.  `TransferNeverOverflows` is not inductive: an evaluation could
break it for two accounts it does not check together; it follows from `SupplyBounds`,
because two balances are within the sum, the sum within the supply and the supply
within the width.
Each action has a lemma that shows it keeps `LedgerInv` and is a step, or a stutter,
of `CoinSupply`; the theorems combine them.  `TransferNotToSelf` shows that the
assertion at the end of `_transfer` excludes exactly the transfer to oneself.  The
sums are handled by `TotalsProofs`: what writing one or two entries does to the
number of units of a row.

Only model-checked: everything about `Reliability`, `HolonusCoin`, `KeyApi` and
`FileApi`, and all liveness, which is beyond the prover.

## What the models leave out

- Writes to EternalStorage by an account on its allow list (the migrations put the
  deployer there): no code of the repository makes one, and the theorems hold as
  long as nobody does.
- Events, and the overflow of intermediate products in `evaluationConsensus`, which
  cannot happen with a uint8 work point and a level of at most 10.
- Validation, status codes and wording of answers.
- Encryption, but for which key was used; IPFS keeps what it was given.

## Plan

1. `CoinApi`: approve followed by transfer from the server, with a failure between
   them and concurrent requests, over `CoinLedger`; what `allowExecution` does.
2. `Auth`: access tokens under concurrent logins, the key id read at authorization
   and used later, logout.
3. `FileService`: ownership, allow lists and locks of the file contracts as actions,
   composed with the handlers; `Deploy`: migrations interrupted and run again.
4. Proofs: `Reliability` (type, `ReliabilityIsAccounted`, `TakeBackNeverFails`,
   `ListsAgree`), `HolonusCoin` implements `LedgerSpec`, then the safety invariants of
   `KeyApi` and `FileApi`.
