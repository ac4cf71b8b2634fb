# Linear Pools in TLA+

A verification project for `balancer/linear-pools`: TLA+ models of the Linear
Pool factories, of the wrapped tokens and rebalancers of eight protocols, and of
the task runner that deploys them; TLC configurations that check the models on
small instances; and proofs, checked by TLAPS, of their main properties for every
value of the constants. The commands around the deployments are modelled too:
checking and verifying what was deployed, and the action identifiers recorded
for it.

## The system

| Component | State it keeps | Operations | Interacts with |
|---|---|---|---|
| Factories (`<X>LinearPoolFactory.sol`, eight of them) | `_nextRebalancerSalt`, `_lastCreatedPool`, the pools they made, disabled or not, the pause window | `create`, `getLastCreatedPool`, `disable` | deploy pools and rebalancers, which register in the Vault; the rebalancer calls the factory back from its constructor |
| Pools (`<X>LinearPool.sol`) | immutables; targets and balances in the external base contract and the Vault | constructor with its token check, `_getWrappedTokenRate` | read the rate from the protocol in every swap |
| Share values (`YearnShareValueHelper`, `SiloExchangeRateModel`, `TetuShareValueHelper`) | none: views of a protocol's storage | `_sharesToAmount`, `_calculateExchangeValue`, `_getTokenRate` | several calls into the protocol for each rate |
| Rebalancers (`<X>LinearPoolRebalancer.sol`) | the pool; tokens left by earlier rebalances | `_wrapTokens`, `_unwrapTokens`, `_getRequiredTokensToWrap`, called by the external base contract's `rebalance` and `rebalanceWithExtraMain` | take tokens out of the pool as its asset manager, convert them at the protocol, deposit them again |
| Deployment tasks (`pkg/fork-tests/src/task.ts`, `network.ts`, `tests/*/index.ts`, `hardhat.config.ts`) | `output/<network>.json` and `output/test.json` of each task, one `deployment-txs/<network>.json` for all of them | `run` in the modes LIVE, TEST, CHECK, READ_ONLY: `deploy`, `check`, `save`, `output` | contracts on a network; other processes through the files |
| Artifacts (`artifact.ts`, lookups in `task.ts`) | `artifact/*.json` of a task, its build-info directory | `extractArtifact`, `checkArtifact`, `artifact`, `buildInfos` | deployments and verification read the same build-info, each in its own way |
| Verification of sources (`verifier.ts`) | none of its own; Etherscan keeps the requests | `call`, with retries, `verify`, `attemptVerification`, the trimming of the compiler's input | deployment tasks, build-info, Etherscan |
| Action identifiers (`actionId.ts`) | `action-ids.json`, `expected-collisions.json`, `new-collisions.json` | `saveActionIds`, `checkActionIds`, `checkActionIdUniqueness` | outputs and build-info of tasks, contracts and their factories |
| Address lookup (`network.ts`) | `addresses/<network>.json` | `saveContractDeploymentAddresses` | outputs of tasks |
| Fork test support, mocks, shared dependencies | | used by tests only | |

What is hard in this code:

- `create` closes a circle: the pool needs the address of its asset manager, the
  manager needs its pool. The address is predicted, and the pool is read back
  from storage that every creation overwrites. Both depend on counters that a
  failing transaction must restore.
- A rebalance is quoted with one arithmetic (the pool's, at 18 decimals and
  rounded for the pool) and carried out with another (the protocol's). The
  rebalancers have no unit tests, and rounding errors of one unit decide whether
  a rebalance succeeds.
- A share value repeats a computation of the protocol without changing its
  storage; it must agree with what the protocol does next.
- A deployment writes two files after each transaction, and can be killed between
  any two of these steps; runs share a file, and are repeated until they succeed.
  Its arguments come from files that other tasks' runs write.
- The same build-info is searched by base names, by qualified names and by the
  names of its files. It is read several times by one command, with awaits in
  between, and a request to Etherscan may take effect although its answer is lost.
- Identifiers are recorded one contract at a time and checked against contracts
  that others replace; a check that passes is only worth something if it covers
  everything recorded, in whatever order the records came about.

For each component, what makes it correct: every pool is linked to its own
rebalancer, whatever else was created or failed (factories); a rebalance never
costs the pool anything and does not fail for want of a unit (rebalancers); a rate
is what the protocol's next operation would use (share values); the outputs of a
network name what was deployed there, from the inputs they say, and can be checked
(deployment tasks); a success is a success, and nothing else is submitted
(verification); artifacts are what would be deployed (artifacts); identifiers
belong to the contracts of the task, are those of now, and are shared only where
somebody agreed (action identifiers). `PROJECT.json` lists the hazards, line by
line, with the properties that would catch them.

## Modules

| Module | Content |
|---|---|
| `LinearPoolRegistry` | What the factories promise to everybody else: a growing set of links between a pool and its manager (abstract). |
| `LinearPoolFactory` | `create` step by step, over the storage of the chain, with reverts; implements the registry. |
| `LinearPoolFactoryProofs` | Proofs about the factories. |
| `FixedPoint` | The fixed point library. |
| `WrappedTokens`, `WrappedTokensProofs` | Rates, wrapping, unwrapping and required amounts of the eight protocols; lemmas about rounding, which the other proofs use as well, and proofs about the conversions. |
| `LinearPoolRebalancing`, `LinearPoolRebalancingProofs` | A pool, its rebalancer, the Vault and a protocol's vault; proofs. Builds on `WrappedTokens`. |
| `YearnShareValue`, `SiloExchangeRate`, `TetuShareValue` | The three contracts that compute a rate, each beside the external vault it reads. Build on `WrappedTokens`. |
| `ShareValueProofs`, `SiloExchangeRateProofs` | Proofs about Yearn's and Tetu's share values, and about Silo's rate. |
| `DeploymentTask`, `DeploymentTaskProofs` | Runs of deployment tasks and checks over their files; proofs about any number of processes, and about one that is stopped and run again. |
| `BuildInfo` | The build-info of a task and the lookups in it: no state. |
| `Verification`, `VerificationProofs` | Artifacts, a deployment from build-info, and its verification by Etherscan; proofs. Builds on `BuildInfo`. |
| `ActionIds`, `ActionIdsProofs` | Saving and checking action identifiers; proofs. |
| `MC...` | Definitions for model checking. |

### The factories

The variables `nextSalt`, `lastCreated`, `fromFactory` are the factories' storage,
`assetManager` the Vault's, `pools` and `rebalancers` the deployed contracts by
address. An address is the record of what `create2` hashes (the deployer, the
salt, the creation code with its arguments), so that two contracts collide in
the model exactly when they would collide on the chain. `create` is the sequence
`BeginCreate` (salt, predicted address, arguments), `DeployPool` (`_create` and
the pool's constructor), `InitializePool`, `DeployRebalancer` (with the checks at
its end); `Revert` may happen after any of them and restores `journal`, the
storage before the transaction. There are no steps of other transactions inside
one, as on the chain (`create` is `nonReentrant`, and makes only static calls
into tokens). The eight factories are of four kinds, which differ in what they
pass to the rebalancer and check: *plain* (Aave, Yearn, Midas, Gearbox, Tetu),
*erc4626*, *silo*, *euler*. `_ensureEnabled`, the pause window and the Vault are
modelled from the external contracts the factories inherit from.

Left out: version strings, events, the `protocolId`, the buffer period (computed
like the pause window).

### Wrapped tokens and rebalancing

`WrappedTokens` has one operator for each `_getWrappedTokenRate`, `_wrapTokens`,
`_unwrapTokens` and `_getRequiredTokensToWrap`. How a protocol rounds is not in
the repository; the operators marked external round against the user, except
Aave's ray arithmetic, which rounds half up. `ONE` and `Nano` stand for 10^18 and
10^9. Tokens have 18 decimals.

`LinearPoolRebalancing` follows the external base contract: the quoted swap, the
withdrawal from the pool, the conversion, the deposit of exactly the quoted
amount, the reward. `Revert` restores everything. Between transactions others
trade with the pool, deposit and withdraw at the protocol, and it earns and
loses; the owner sets the targets. Tokens that remain in the rebalancer (dust)
are part of the state: a later rebalance pays out the main tokens, while the wrapped
ones stay. A Tetu vault has a
strategy here, and a Silo share token is the one that earns interest.

### Share values

`YearnShareValue` has the vault's deposits, withdrawals, reports with profit or
loss and the passing of time; the helper's free funds are compared with the
vault's own. `SiloExchangeRate` has a Silo that accrues interest at the beginning
of each operation, with integers up to `MaxUint`, so that the clamp of the
protocol's fees is reached; the view's rate is compared before and after.
`TetuShareValue` has a vault whose strategy is set later, invests, and earns.

### Deployment tasks

A process is a program counter over the contracts of its task (`pc`, `todo`) and
over the tasks it has still to look at (`queue`). Reading a file, writing it, and
sending a transaction are separate steps; `Stop` is a crash at any point, and
`DeployFails`, `InputMissing`, `CheckFails`, `LookupFails` and `Refuse` are the
errors the code throws, after all of which the run can be started again in any
mode. `chain` is the sequence of deployments, whose indices are addresses; an
address stands for its transaction hash as well. `file` has the output of each
task for the network and for tests, `txs` the shared file of hashes. `input` and
`build` are the versions of a task's inputs and build-info. Inputs are read when a
run starts (`Enter`), the artifact at each deployment and each check
(`task.ts:123,186`): `chain` keeps which version a contract was made from, and
`EditInput` and `EditBuild` may come between any two steps.

A task's arguments are read when it starts, from its own input and from the
outputs that other tasks have for the network (`Needs`, `Args`), in every mode; a
missing output is an error. After the factory, a live run deploys the rest: the
task is that of `silo-linear-pool-v2`, with mock contracts and then a pool created
with the factory, whose hash is saved first. `CheckDeployments` goes through all
tasks with an output for the network and stops at the first error.

Left out: verification, whose failures are caught and logged (`Task.verify`), and
which has a module of its own; `instanceAt`, and the aliases of task identifiers.

### Build-info, artifacts and verification

`BuildInfo` describes the directory: files, each with the sources of one
compilation. A source has a base name and is compiled in some version. The task
looks for a contract in the file of that name, or in all files merged in the order
of their names (`Artifact`); the verifier takes the first file with a source of
the right base name (`BuildWith`) and submits the sources reached from it by their
imports, each guessed by its base name again (`Trimmed`, by rounds of `Reached`:
the source visits imports depth first, with the same set at the end). Imports are
taken to be written with a directory (`./X.sol`, `@balancer-labs/.../X.sol`); of a
bare file name, `verifier.ts:216` uses a match that is null, and throws. `Needed` is the
reference: the smallest set of sources with the contract's and all their imports.

`Verification` runs one command at a time: `extract-artifacts` and
`check-artifacts`, file by file; a deployment followed by its verification; and
`verify-contract` for any contract and address. `Prepare` reads build-info and
the code at the address, `Post` sends the request, `Poll` waits for its outcome
and `Respond` decides about another attempt. Etherscan is external: it indexes
contracts and processes what it has accepted whenever it likes, and refuses what
it has not indexed or has verified already. `PostFails` loses the request or its
answer, `Recompile` replaces build-info under the command, `Kill` ends it.
`quiet` is a history variable: build-info has not changed since the command began.

### Action identifiers

An identifier is a function together with its source: the contract that the
disambiguator names, which for a pool is its factory (`maker`). `ids` is
`action-ids.json` of all tasks, `expected` and `fresh` the two files of collisions.
The commands read one contract (`Calculate`, `Compare`), record it (`Record`) and
end with `CheckUniqueness`. Between these steps factories are deployed anew, pools
created by anybody, build-info replaced and collisions accepted. `Functions` are
those that `action-ids/ignored-functions.json` does not list, which `actionId.ts`
filters out of every calculation. Contracts behind the `AuthorizerAdaptor` cannot be
asked: the task of the adaptor is not in the repository, and so `useAdaptor` is
always false and is left out.

A comparison (`Agrees`) goes through the functions the contract has and looks each
one up in what is recorded. `RecordsComplete` says what that is worth: all that a
contract would be asked for now is recorded, under its identifier. The converse
does not hold. Record a pool with two functions, replace its build-info by one
with only the first, and `check-action-ids` passes with both recorded, although
its error message (`actionId.ts:70-72`) speaks of a match with what is calculated;
and of a contract that has no functions left, it looks at none. So the property
demands equality only as long as build-info was never replaced.

## What the runs check

| Run | States | Properties |
|---|---|---|
| `factory` | 331 000 | `TypeOK`, `EveryPoolLinked`, `ManagersDistinct`, `NextAddressesFree`, `PredictionHolds`, `SaltsDense`, `ImplementsRegistry` |
| `rebalancing` | 693 000 | `TypeOK`, `ExactRequiredSuffices`, `UnwrapCovered`, `ExtraMainSuffices`, `PoolNotPoorer`, `Balanced` |
| `yearn` | 27 000 | `TypeOK`, `AgreesWithVault`, `ReportsDoNotJump`, `StayersKeepValue` |
| `silo` | 142 000 | `TypeOK`, `AccrualInvisible`, `RateNeverFalls` |
| `tetu` | 740 | `InvestingInvisible`, `RateNeverFalls` |
| `deployment_task` | 281 000 | `TypeOK`, `PoolOfFactory`, `PoolHashKnown`, `OutputsStable`, `RunsEnd` |
| `deployment_tasks` | 2 420 000 | `OutputsDeployed`, `DependenciesDeployed`, `CheckSound` |
| `verification` | 351 000 | `TypeOK`, `ReportedVerified`, `TrimmedExactly`, `DeployedVerifiable`, `ArtifactsMatch`, `CommandsEnd` |
| `action_ids` | 2 080 000 | `TypeOK`, `RecordsGenuine`, `RecordsComplete`, `CollisionsAccepted` |
| `silo_required` | | `RequiredSuffices` is violated |
| `deployment_check` | | `CheckComplete` is violated |
| `verification_retry` | | `MissingIsRetried` is violated |

**factory.** A Silo, an ERC-4626 and a Euler factory, two creations each, two
tokens of which one wraps the other, good and bad parameters, one caller's salt
(so that it is always reused) and time up to the end of the pause window. Two
creations are enough for a creation to see the storage of an earlier one, two
tokens for every wrong combination. The run may stop when everything is used up,
so deadlock is not checked.

**rebalancing.** All eight protocols. `ONE = 3`: every amount has thirds of a token
to lose. Vaults of up to seven main tokens and six shares reach rates above and
below one with all remainders of a division by six; a caller adds nothing, or six
tokens. The targets include one that an empty pool is below.
`ExactRequiredSuffices` is about the six protocols that compute the required
tokens exactly, whose rebalances have enough without the wrapped tokens that
earlier ones have left; `ExtraMainSuffices` is what holds of all.

**yearn.** Amounts to 12, a fifth of the profit is a unit, 2/5 are released per
tick, so that the release passes one (6/5) between reports. **silo.** Integers to
15, so that both interest and fees reach the largest one; the rate is then
undefined (the contract reverts) or the fees are clamped. The run stops at its
bounds, so deadlock is not checked. **tetu.** Amounts to 12.

**deployment_task.** One process, a factory, one more contract and the pool, four
deployments (one is wasted by a crash and repeated), inputs edited any number of
times between two versions, all four modes, no `--force`. **deployment_tasks.**
Two processes and two tasks, of which one takes its argument from the output of
the other; three deployments, so that each task's factory can be replaced while
the other process works; live, test and check modes, always with `--force`,
without which nothing is ever replaced. One version of the inputs: what changes
here are the arguments from the other task, and build-info, which is replaced any
number of times between two versions. The two processes are interchangeable, and
so are the two versions of build-info.

**verification.** Two contracts in two build-info files, four sources of which two
share a base name, an import chain of three, so that trimming needs two rounds;
two compilations, one replacement of the directory; one deployment, two requests,
so that a second one meets what the first has left. `TrimmedExactly` quantifies
over all ways in which the sources may import each other, cycles included.

**action_ids.** Two tasks, four contracts (tokens, a factory, a replacement, a
pool), two functions, one change of build-info, to any functions or none.

Each property has a mutant: a definition changed as a plausible bug would change
it, under which TLC finds the property violated. Mutants stand beside the
definitions they replace and are marked.

### Fairness

`RunsEnd`: a process that was started goes on (`WF_vars(Step(r))`), because Node
runs its continuation until the process exits; every wait is for a transaction or
a file and ends with a result or an exception. It is not assumed that a run is
ever started, nor that it is not killed.

`CommandsEnd`: the command that runs goes on or Etherscan processes an accepted
request (`WF_vars(Work)`). `attemptVerification` waits for as long as a request is
pending, without a limit, so the property needs Etherscan to finish with what it
has accepted, in any order. It is not assumed that contracts are indexed, that
requests are accepted, that anything fails, or that anything is killed.

### Violations

Three runs show where the code and what it says of itself disagree.

- `silo_required`: `SiloLinearPoolRebalancer` adds one to an amount it computed
  with a rate of 18 decimals. For amounts above 10^18 base units the truncated
  digits are worth more than one unit, and the deposit of the wrapped tokens can
  then fail. `ExtraMainSuffices` and the rest of `rebalancing` show what the
  damage is limited to: the rebalance reverts, nothing is lost.
- `deployment_check`: `deploy` saves the address before the hash; stopped in
  between, the contract is never deployed again and its hash never saved, and
  `check-deployments` fails although the deployment matches. Two processes that
  write the shared file of hashes at the same time end in such a state as well,
  when one loses the entry of the other; the run, with one process, finds the
  shorter way.
- `verification_retry`: the verifier retries when the answer is that the bytecode
  is missing, but `verify` has thrown on that answer before it gets there, so a
  contract that is not indexed yet is given up at the first attempt.

Other disagreements were met and are in the models, without a run of their own:

- `TetuLinearPoolRebalancer` rounds a product up whose rate was rounded down
  (`mulUp`), so that it can ask for too little like Silo's.
- `TetuShareValueHelper` returns a rate where a balance is added, so that a Tetu
  vault without a strategy has a rate that depends on the size of its supply.
  Its rate then falls with each deposit. The properties of `tetu` are about vaults
  with a strategy, and say nothing of this case.
- `check-action-ids` accepts recorded functions that a contract no longer has (see
  *Action identifiers*).
- `artifact` (`task.ts:242`) asks whether the given build-info file exists and
  then reads the one named for the contract (`ArtifactIn`).
- `save-action-ids` for all tasks stops at the first contract it cannot calculate,
  and the first task of the network has tokens without build-info.

## What is proved

TLAPS proves, for every value of the constants that satisfies the modules'
assumptions:

- **Factories** (`LinearPoolFactoryProofs`): all invariants of the run and the
  refinement. The inductive invariant is `IInv`: the types; what holds of the
  storage at rest (every pool linked, managers distinct, salts dense: each is
  needed for the next, since a pool's manager is distinct because its salt is
  below the counter); and, while a transaction runs, how far the current storage
  is ahead of `journal`. Steps inside a transaction map to stuttering of the
  registry, `DeployRebalancer` to `Create`. That `create2` is injective is in the
  model, not assumed in the proofs.
- **Wrapped tokens** (`WrappedTokensProofs`): for all amounts and all vaults, the
  required amount is enough for the six exact protocols
  (`RequiredTokensAreEnough`), and unwrapping never takes more than it is given
  (`UnwrapNeverExceeds`). For all eight, the required amount exceeds what the
  pool's rate says by two main tokens, and one unit for every `ONE`, at most
  (`RequiredBound`), and unwrapping yields less than one main token too little
  (`UnwrapBound`). What Silo's and Tetu's required amount can lack is less than one
  share and what the digits cut off from the price are worth
  (`ShortfallIsBounded`). They rest on lemmas about division with rounding at the
  beginning of the module.
- **Rebalancing** (`LinearPoolRebalancingProofs`): all invariants of the run. The
  inductive invariant says where the quoted amounts are at each step (`Placed`),
  that the quote was made from `journal` (`Quoted`), and that the supply of wrapped
  tokens covers those of the pool and the rebalancer (`SupplyCovers`), without
  which unwrapping could exceed the vault. `ExtraMainSuffices` needs two more
  parts: how far the quoted amounts can be from the rate (`Priced`: fees are never
  negative, and each quote is rounded once), and that the rebalancer keeps what its
  caller added beside what it withdrew (`Purse`). A corollary states
  `RequiredSuffices` when only exact protocols are used.
- **Share values** (`ShareValueProofs`): all properties of the runs `yearn` and
  `tetu`. For Yearn, the invariant is that a vault has what it has locked; the
  properties follow from bounds on two roundings of the same amount. For Tetu, the
  invariant is that nothing is invested without a strategy; each operation leaves
  at least as much for each share (`Worth`). Tetu's vault is an instance in this
  module, with the same names for the two bounds.
- **Silo** (`SiloExchangeRateProofs`): all properties of the run. The inductive
  invariant is that shares are no more than deposits (`Backed`: with shares
  there are deposits to divide by) and that nobody owes a Silo that was never used
  (`Unused`: the view counts interest from timestamp 0 there, the Silo none). The rest is that the view's wrapping
  arithmetic and the Silo's clamp agree (`ShareIsFee`, `ViewIsAccrual`).
- **Deployment tasks** (`DeploymentTaskProofs`): `TypeOK`, `OutputsDeployed`,
  `DependenciesDeployed` and `CheckSound`, for any number of processes, tasks and
  contracts, with and without `--force`. Files are safe only because of what the
  processes remember: the inductive invariant says of each process that what it
  has made is what its job says, that the file it has read is one whose entries
  are good, that its factory is its task's, and, for a check, that all tasks it
  has passed still agree as long as nothing has changed (`quiet`). Entries stay
  good because the chain only grows.
- **Recovery** (the second part of `DeploymentTaskProofs`): `PoolOfFactory`, `PoolHashKnown` and
  `OutputsStable`, under the assumption `Alone`: one process, without `--force`.
  The inductive invariant says of a run how far it is between deploying a contract,
  recording its transaction and publishing its address (`RunTrue`), that what it
  has read is what is still there (`FilesTrue`), that the pool it has made is of
  the factory it goes by (`PoolTrue`), and that a pool is never published before
  its factory (`FactoryFirst`).
- **Verification** (`VerificationProofs`): all invariants of the run, for any
  build-info, whatever the imports. The inductive invariants say that a request
  which passed is for complete sources that compile to the code at its address
  (`Judged`), that a command waits for a request made for its own contract
  (`Asked`), that it has room on the chain for what it is about to deploy
  (`Placed`), and that the files it has been through hold what a task
  would deploy as long as build-info stays (`Gathered`). That `Trimmed` is
  `Needed`, for any graph of imports and its cycles, is an induction: a set of
  numbers has a least element, so that every round of `Reached` is defined and
  stays inside each closed set (`ReachedSteps`), and a round that adds nothing
  comes within as many rounds as there are sources, since every other one adds a
  source (`SearchEnds`).
- **Action identifiers** (`ActionIdsProofs`): `TypeOK`, `RecordsGenuine`,
  `CollisionsAccepted` and `RecordsComplete`. The inductive invariant adds that
  outputs name contracts of their task, that a pool's maker is a factory of its
  task, that the entry about to be recorded is genuine, that a command that is done
  has left no collision but the expected ones, that all a contract of a task was asked
  for is recorded (`Progress`), and that build-info is the first one as long as it was
  never replaced (`Original`).

The proofs use no induction rule of the library, because its theorems take a
predicate as a parameter, which the provers cannot instantiate. Where induction is
needed, they take a least counterexample: the library's well-foundedness of `<` on
the naturals is about sets of numbers.

Only model-checked: `RunsEnd` and `CommandsEnd`, which are liveness under fairness
and out of the provers' reach.

## Not modelled

- Reverting calls into a protocol (the `try`/`catch` around each of them and the
  filter of their error data): the model knows only that a rate is defined or that
  the transaction reverts.
- Tokens of fewer than 18 decimals.
- Swaps, joins and exits of the pool itself: they are in the external base
  contract; `Trade` changes the balances by one unit at a time.
- Torn writes of files (`writeFileSync` is one step). With `--force`, a run stopped
  between a factory and its pool leaves the pool of the old factory until the next
  complete run, so `PoolOfFactory` is checked without.
- Tasks whose identifier begins with `00000000-` have tokens only: they have an
  output from the beginning (`ActionIds`), and `check-deployments` skips them. The
  aliases of task identifiers (`task.ts:375`) are left out.
- The vault task's `ProtocolFeesCollector` is read from the Vault it deployed and
  saved in every mode; a check then writes `output/test.json`, which no property
  of the network's output reads.
- The order of the keys in the file of collisions: `JSON.stringify` compares two
  files as text, but both were written by the same code in the same order.
- The linking of libraries in a verification request, and the arguments of the
  constructor, which are copied from the creation transaction.
- Address lookup: one synchronous read and write per task, of what
  `OutputsDeployed` says is right.
- Test support (`setupTests.ts`, `test/`, `shared-dependencies`), mocks, and the
  Yarn release in the repository: none is part of the program.

## Plan

Done, in this order: the factories with their abstract registry and proofs; the
wrapped tokens and rebalancing with their proofs; deployment tasks, with inputs
from other tasks and the check of all of them, and their proofs; the share values;
build-info, artifacts and verification; action identifiers and their proofs; the
proofs of the share values, of verification, and of what a caller must add to a
rebalance. Next:

1. The type of a Tetu vault as a property of its run.
2. Decimals: the rate scale factors of ERC-4626, Euler and Midas, for tokens of
   different decimals.
3. The address lookup as a composition with `DeploymentTask`.
