------------------------- MODULE LinearPoolFactory -------------------------
(***************************************************************************)
(* The Linear Pool factories and their `create`: one transaction that      *)
(* deploys a pool and, at an address predicted before the pool exists, the *)
(* rebalancer the pool already named as its asset manager.  The circle is  *)
(* closed through the factory's storage: the rebalancer's constructor asks *)
(* the factory for `getLastCreatedPool`.                                   *)
(*                                                                         *)
(* A transaction is a sequence of steps over the storage of the chain; it  *)
(* either reaches its last step or is reverted, at any step, to the        *)
(* storage it began with (`journal`).  The calls `create` makes into token *)
(* contracts are static calls, so no step of another transaction happens   *)
(* in between.                                                             *)
(*                                                                         *)
(* One factory of each kind is enough: those of Aave, Yearn, Midas,        *)
(* Gearbox and Tetu differ in names only ("plain"), ERC-4626 pools do not  *)
(* compare their tokens ("erc4626"), Silo and Euler pass one more argument *)
(* to the rebalancer.                                                      *)
(***************************************************************************)
EXTENDS Naturals

CONSTANTS Factories,    \* factories that share one Vault
          Kind,         \* [Factories -> Kinds]
          Tokens,       \* ERC20 tokens
          Underlying,   \* [Tokens -> Tokens]: the token each one wraps
          Salts,        \* salts a caller may pass to create
          Params,       \* targets, fee, owner and names of a pool
          ValidParams,  \* those the pool's constructor accepts
          WindowEnd,    \* [Factories -> Nat]: _poolsPauseWindowEndTime
          MaxTime,      \* bound on the timestamp
          MaxPools,     \* bound on the creations of one factory
          NoPool,       \* address(0)
          EulerProtocol \* the immutable eulerProtocol of the Euler factories

Kinds == {"plain", "erc4626", "silo", "euler"}

ASSUME FactoriesAssumption ==
    /\ Kind \in [Factories -> Kinds]
    /\ Underlying \in [Tokens -> Tokens]
    /\ ValidParams \subseteq Params
    /\ WindowEnd \in [Factories -> 0 .. MaxTime]
    /\ MaxTime \in Nat
    /\ MaxPools \in Nat

-----------------------------------------------------------------------------
\* Addresses: create2 hashes the deployer, the salt and the creation code with
\* its constructor arguments, and is taken to be injective.

Extras == Tokens \cup {"none", EulerProtocol}
Managers == [deployer : Factories, salt : 0 .. MaxPools, extra : Extras]
PoolArgs == [main : Tokens, wrapped : Tokens, params : Params,
             assetManager : Managers, pauseWindowDuration : 0 .. MaxTime]
Pools == [deployer : Factories, salt : Salts, args : PoolArgs]

Requests == [main : Tokens, wrapped : Tokens, params : Params, salt : Salts]


VARIABLES now,          \* block timestamp
          disabled,     \* factories that were disabled, for good
          nextSalt,     \* [Factories -> Nat]: _nextRebalancerSalt
          lastCreated,  \* [Factories -> pool]: _lastCreatedPool
          fromFactory,  \* pools with _isPoolFromFactory
          assetManager, \* in the Vault: manager of both tokens of each pool
          pools,        \* state of the pool contracts, by address
          rebalancers,  \* immutables of the rebalancer contracts, by address
          journal,      \* the last six before the running transaction: what
                        \* everybody else sees, and what a revert restores
          pc,           \* where the running `create` is, or "idle"
          frame         \* its local variables

storage == <<nextSalt, lastCreated, fromFactory, assetManager, pools, rebalancers>>
vars == <<now, disabled, storage, journal, pc, frame>>

Current == [nextSalt |-> nextSalt, lastCreated |-> lastCreated,
            fromFactory |-> fromFactory, assetManager |-> assetManager,
            pools |-> pools, rebalancers |-> rebalancers]

Nothing == [x \in {} |-> x]
Put(g, x, v) == [y \in DOMAIN g \cup {x} |-> IF y = x THEN v ELSE g[y]]

Init == /\ now = 0
        /\ disabled = {}
        /\ nextSalt = [f \in Factories |-> 0]
        /\ lastCreated = [f \in Factories |-> NoPool]
        /\ fromFactory = {}
        /\ assetManager = Nothing
        /\ pools = Nothing
        /\ rebalancers = Nothing
        /\ journal = Current
        /\ pc = "idle"
        /\ frame = <<>>

-----------------------------------------------------------------------------
\* The steps of create.

\* The last constructor argument of the rebalancer: the Silo factory passes
\* the wrapped token, the Euler factory the protocol, the others nothing.
MainPassed(r) == r.main  \* mutant: the other token
SiloExtra(r) == r.wrapped
EulerExtra == EulerProtocol
RebalancerExtra(f, r) == IF Kind[f] = "silo" THEN SiloExtra(r)
                         ELSE IF Kind[f] = "euler" THEN EulerExtra
                         ELSE "none"

ManagerAddress(f, salt, extra) == [deployer |-> f, salt |-> salt, extra |-> extra]
PoolAddress(f, salt, args) == [deployer |-> f, salt |-> salt, args |-> args]

\* The prediction hashes the creation code with its constructor arguments.
BareCreationCode(f, salt, extra) == ManagerAddress(f, salt, "none")  \* mutant
ExpectedRebalancer(f, salt, extra) == ManagerAddress(f, salt, extra)

\* The part of getPauseConfiguration that decreases over time.
UncheckedDuration(f) == WindowEnd[f] - now  \* mutant: without the comparison
PauseWindowDuration(f) == IF now < WindowEnd[f] THEN WindowEnd[f] - now ELSE 0

Args(f, r, manager) == [main |-> r.main, wrapped |-> r.wrapped,
                        params |-> r.params, assetManager |-> manager,
                        pauseWindowDuration |-> PauseWindowDuration(f)]

\* _nextRebalancerSalt += 1
SaltKept(f) == nextSalt' = nextSalt  \* mutant: forgets to
TakeSalt(f) == nextSalt' = [nextSalt EXCEPT ![f] = @ + 1]

\* create up to the arguments of the pool: it takes a salt and predicts the
\* address of the rebalancer.
BeginCreate(f, r) ==
    LET salt == nextSalt[f]
        expected == ExpectedRebalancer(f, salt, RebalancerExtra(f, r))
    IN  /\ pc = "idle"
        /\ salt < MaxPools
        /\ TakeSalt(f)
        /\ frame' = [factory |-> f, salt |-> r.salt, rebalancerSalt |-> salt,
                     extra |-> RebalancerExtra(f, r), expected |-> expected,
                     args |-> Args(f, r, expected)]
        /\ pc' = "salted"
        /\ UNCHANGED <<now, disabled, lastCreated, fromFactory, assetManager,
                       pools, rebalancers, journal>>

\* ERC4626LinearPool accepts any two tokens, every other pool requires the
\* wrapped token to wrap the main one.
TokensMatch(f, args) == Kind[f] # "erc4626" => Underlying[args.wrapped] = args.main

ConstructorAccepts(f, args) == /\ args.main # args.wrapped
                               /\ args.params \in ValidParams
                               /\ TokensMatch(f, args)

AlwaysEnabled(f) == TRUE  \* mutant
EnsureEnabled(f) == f \notin disabled

\* _create: the pool is deployed, its constructor registers it and its asset
\* manager in the Vault, and the factory remembers it.
DeployPool ==
    LET f == frame.factory
        pool == PoolAddress(f, frame.salt, frame.args)
    IN  /\ pc = "salted"
        /\ EnsureEnabled(f)
        /\ pool \notin DOMAIN pools
        /\ ConstructorAccepts(f, frame.args)
        /\ pools' = Put(pools, pool,
                        [initialized |-> FALSE,
                         pausableUntil |-> now + frame.args.pauseWindowDuration])
        /\ assetManager' = Put(assetManager, pool, frame.args.assetManager)
        /\ fromFactory' = fromFactory \cup {pool}
        /\ lastCreated' = [lastCreated EXCEPT ![f] = pool]
        /\ pc' = "created"
        /\ UNCHANGED <<now, disabled, nextSalt, rebalancers, journal, frame>>

\* pool.initialize(): the initial join, which only works once.
InitializePool ==
    LET pool == PoolAddress(frame.factory, frame.salt, frame.args)
    IN  /\ pc = "created"
        /\ ~pools[pool].initialized
        /\ pools' = [pools EXCEPT ![pool] =
                        [initialized |-> TRUE, pausableUntil |-> @.pausableUntil]]
        /\ pc' = "initialized"
        /\ UNCHANGED <<now, disabled, nextSalt, lastCreated, fromFactory,
                       assetManager, rebalancers, journal, frame>>

\* What the constructor of a rebalancer stores: the pool the deploying factory
\* names, and the extra argument.
PoolBefore(f, extra) == \* mutant: the pool of the creation before this one
    [pool |-> journal.lastCreated[f], extra |-> extra]
RebalancerConstructor(f, extra) ==
    [pool |-> lastCreated[f], extra |-> extra]

\* Only the Euler factory looks at the rebalancer it deployed.
EulerCheck(f, rebalancer) == Kind[f] = "euler" => rebalancer.extra = EulerProtocol

\* The rebalancer is deployed and the prediction verified; the transaction
\* succeeds.
DeployRebalancer ==
    LET f == frame.factory
        actual == ManagerAddress(f, frame.rebalancerSalt, frame.extra)
        rebalancer == RebalancerConstructor(f, frame.extra)
    IN  /\ pc = "initialized"
        /\ actual \notin DOMAIN rebalancers
        /\ frame.expected = actual
        /\ EulerCheck(f, rebalancer)
        /\ rebalancers' = Put(rebalancers, actual, rebalancer)
        /\ UNCHANGED <<now, disabled, nextSalt, lastCreated, fromFactory,
                       assetManager, pools>>
        /\ journal' = Current'
        /\ pc' = "idle"
        /\ frame' = <<>>

\* Mutant of Revert: the counter survives.
RevertKeepsSalt == /\ pc # "idle"
                   /\ lastCreated' = journal.lastCreated
                   /\ fromFactory' = journal.fromFactory
                   /\ assetManager' = journal.assetManager
                   /\ pools' = journal.pools
                   /\ rebalancers' = journal.rebalancers
                   /\ journal' = [journal EXCEPT !.nextSalt = nextSalt]
                   /\ pc' = "idle"
                   /\ frame' = <<>>
                   /\ UNCHANGED <<now, disabled, nextSalt>>

\* Any call may revert, and gas may run out anywhere.
Revert == /\ pc # "idle"
          /\ nextSalt' = journal.nextSalt
          /\ lastCreated' = journal.lastCreated
          /\ fromFactory' = journal.fromFactory
          /\ assetManager' = journal.assetManager
          /\ pools' = journal.pools
          /\ rebalancers' = journal.rebalancers
          /\ pc' = "idle"
          /\ frame' = <<>>
          /\ UNCHANGED <<now, disabled, journal>>

-----------------------------------------------------------------------------
\* disable() is permanent and can be called once.
Disable(f) == /\ pc = "idle"
              /\ f \notin disabled
              /\ disabled' = disabled \cup {f}
              /\ UNCHANGED <<now, storage, journal, pc, frame>>

Tick == /\ pc = "idle"
        /\ now < MaxTime
        /\ now' = now + 1
        /\ UNCHANGED <<disabled, storage, journal, pc, frame>>

Next == \/ \E f \in Factories, r \in Requests : BeginCreate(f, r)
        \/ DeployPool
        \/ InitializePool
        \/ DeployRebalancer
        \/ Revert
        \/ \E f \in Factories : Disable(f)
        \/ Tick

Spec == Init /\ [][Next]_vars

-----------------------------------------------------------------------------
\* Types.

PoolState == [initialized : BOOLEAN, pausableUntil : Nat]
Rebalancer == [pool : Pools \cup {NoPool}, extra : Extras]

StorageOK(s) ==
    /\ s.nextSalt \in [Factories -> 0 .. MaxPools]
    /\ s.lastCreated \in [Factories -> Pools \cup {NoPool}]
    /\ s.fromFactory \subseteq Pools
    /\ DOMAIN s.pools \subseteq Pools
    /\ \A p \in DOMAIN s.pools : s.pools[p] \in PoolState
    /\ DOMAIN s.assetManager \subseteq Pools
    /\ \A p \in DOMAIN s.assetManager : s.assetManager[p] \in Managers
    /\ DOMAIN s.rebalancers \subseteq Managers
    /\ \A m \in DOMAIN s.rebalancers : s.rebalancers[m] \in Rebalancer

Frame == [factory : Factories, salt : Salts, rebalancerSalt : 0 .. MaxPools,
          extra : Extras, expected : Managers, args : PoolArgs]

TypeOK == /\ now \in 0 .. MaxTime
          /\ disabled \subseteq Factories
          /\ StorageOK(Current)
          /\ StorageOK(journal)
          /\ pc \in {"idle", "salted", "created", "initialized"}
          /\ pc # "idle" => frame \in Frame

-----------------------------------------------------------------------------
\* Properties.

\* The two contracts of one creation know each other: the Vault lets the
\* rebalancer manage the pool and the rebalancer manages that pool.
Linked(s, p) ==
    LET m == s.assetManager[p]
    IN  /\ p \in s.fromFactory
        /\ s.pools[p].initialized
        /\ m \in DOMAIN s.rebalancers
        /\ s.rebalancers[m].pool = p

\* No transaction leaves a pool behind that is half made: every pool of the
\* chain is initialized and its asset manager is the rebalancer deployed for
\* it, built (in a Silo factory) for the pool's own wrapped token and (in an
\* Euler factory) for the factory's protocol.  The pool is registered before
\* its manager exists, and the manager reads its pool from shared storage.
EveryPoolLinked ==
    \A p \in DOMAIN journal.pools :
        /\ Linked(journal, p)
        /\ journal.rebalancers[journal.assetManager[p]].extra =
               IF Kind[p.deployer] = "silo" THEN p.args.wrapped
               ELSE IF Kind[p.deployer] = "euler" THEN EulerProtocol
               ELSE "none"

\* No rebalancer is shared: distinct pools have distinct managers, and every
\* rebalancer is the manager of the pool it names.
ManagersDistinct ==
    /\ \A p, q \in DOMAIN journal.pools :
          journal.assetManager[p] = journal.assetManager[q] => p = q
    /\ \A m \in DOMAIN journal.rebalancers :
          LET p == journal.rebalancers[m].pool
          IN  p \in DOMAIN journal.pools /\ journal.assetManager[p] = m

\* Whatever was created before, and with the same salt and arguments as often
\* as one likes, the next creation finds both its addresses free: the salt of
\* the caller need not be fresh, since the predicted manager is part of the
\* pool's creation code.  A counter that a reverted creation failed to restore,
\* or that two pools shared, would block the factory for good.
NextAddressesFree ==
    \A f \in Factories, r \in Requests :
        LET m == ManagerAddress(f, journal.nextSalt[f], RebalancerExtra(f, r))
        IN  /\ m \notin DOMAIN journal.rebalancers
            /\ \A p \in DOMAIN journal.pools : p.args.assetManager # m

\* The requires at the end of create never fire: when the rebalancer is about
\* to be deployed its address is the predicted one and is free, and the pool it
\* is going to read from the factory is the pool of this very transaction.
PredictionHolds ==
    pc = "initialized" =>
        /\ frame.expected = ManagerAddress(frame.factory, frame.rebalancerSalt, frame.extra)
        /\ frame.expected \notin DOMAIN rebalancers
        /\ LET p == lastCreated[frame.factory]
           IN  /\ p \in DOMAIN pools
               /\ assetManager[p] = frame.expected
        /\ EulerCheck(frame.factory, RebalancerConstructor(frame.factory, frame.extra))

\* The rebalancers of a factory were deployed with the salts 0, 1, 2, ...
\* without a gap, although creations fail, and getLastCreatedPool answers with
\* the pool of the highest of them.
SaltsDense ==
    \A f \in Factories :
        LET n == journal.nextSalt[f]
            mine == {m \in DOMAIN journal.rebalancers : m.deployer = f}
            last == journal.lastCreated[f]
        IN  /\ {m.salt : m \in mine} = 0 .. n - 1
            /\ IF n = 0 THEN last = NoPool
               ELSE /\ last \in DOMAIN journal.pools
                    /\ journal.assetManager[last].deployer = f
                    /\ journal.assetManager[last].salt = n - 1

\* Seen from outside, a creation is one step: it adds one link between a new
\* pool and a new manager, or nothing.
Links == {[factory |-> p.deployer, pool |-> p, manager |-> journal.assetManager[p],
           pausableUntil |-> journal.pools[p].pausableUntil] :
              p \in {q \in DOMAIN journal.pools : Linked(journal, q)}}

Registry == INSTANCE LinearPoolRegistry WITH links <- Links

ImplementsRegistry == Registry!Spec

=============================================================================
