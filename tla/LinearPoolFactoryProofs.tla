---------------------- MODULE LinearPoolFactoryProofs ----------------------
(***************************************************************************)
(* Proofs about LinearPoolFactory, for any set of factories, tokens, salts *)
(* and parameters and any bounds.                                          *)
(*                                                                         *)
(* The properties speak of `journal`, what everybody sees, but no step of  *)
(* a creation can be judged from the journal alone: the last one publishes *)
(* what the earlier ones wrote.  The inductive invariant IInv therefore    *)
(* describes the storage of a running transaction as the journal plus the  *)
(* effects of the steps done so far (Running), next to what holds of every *)
(* published storage (Consistent).                                         *)
(***************************************************************************)
EXTENDS LinearPoolFactory, TLAPS

\* What holds of every storage a transaction leaves behind: every pool and its
\* manager name each other, and every salt used is below the counter of the
\* factory that used it.
Consistent(s) ==
    /\ DOMAIN s.assetManager = DOMAIN s.pools
    /\ \A p \in DOMAIN s.pools :
          /\ Linked(s, p)
          /\ s.assetManager[p] = p.args.assetManager
          /\ s.assetManager[p].deployer = p.deployer
          /\ s.assetManager[p].extra = RebalancerExtra(p.deployer, p.args)
          /\ s.assetManager[p].salt < s.nextSalt[p.deployer]
    /\ \A m \in DOMAIN s.rebalancers :
          /\ s.rebalancers[m].pool \in DOMAIN s.pools
          /\ s.assetManager[s.rebalancers[m].pool] = m
          /\ s.rebalancers[m].extra = m.extra

MyPool == PoolAddress(frame.factory, frame.salt, frame.args)

\* The local variables of create, between its first and its last step.
FrameInv ==
    /\ frame.rebalancerSalt = journal.nextSalt[frame.factory]
    /\ frame.rebalancerSalt < MaxPools
    /\ frame.extra = RebalancerExtra(frame.factory, frame.args)
    /\ frame.expected = ManagerAddress(frame.factory, frame.rebalancerSalt, frame.extra)
    /\ frame.args.assetManager = frame.expected
    /\ frame.args.pauseWindowDuration = PauseWindowDuration(frame.factory)

\* Nothing is running.
Settled ==
    /\ nextSalt = journal.nextSalt
    /\ lastCreated = journal.lastCreated
    /\ fromFactory = journal.fromFactory
    /\ assetManager = journal.assetManager
    /\ pools = journal.pools
    /\ rebalancers = journal.rebalancers

\* The storage once the salt is taken, and from there on.
SaltTaken ==
    /\ nextSalt = [journal.nextSalt EXCEPT ![frame.factory] = frame.rebalancerSalt + 1]
    /\ rebalancers = journal.rebalancers

PoolsUntouched ==
    /\ pools = journal.pools
    /\ assetManager = journal.assetManager
    /\ fromFactory = journal.fromFactory
    /\ lastCreated = journal.lastCreated

\* The storage once the pool is deployed.
PoolAdded(initialized) ==
    /\ frame.factory \notin disabled
    /\ DOMAIN pools = DOMAIN journal.pools \cup {MyPool}
    /\ DOMAIN assetManager = DOMAIN journal.assetManager \cup {MyPool}
    /\ \A p \in DOMAIN journal.pools :
          /\ pools[p] = journal.pools[p]
          /\ assetManager[p] = journal.assetManager[p]
    /\ pools[MyPool] = [initialized |-> initialized,
                                pausableUntil |-> now + frame.args.pauseWindowDuration]
    /\ assetManager[MyPool] = frame.expected
    /\ fromFactory = journal.fromFactory \cup {MyPool}
    /\ lastCreated = [journal.lastCreated EXCEPT ![frame.factory] = MyPool]
    /\ MyPool \notin DOMAIN journal.pools

Running ==
    /\ pc = "idle" => Settled
    /\ pc # "idle" => FrameInv /\ SaltTaken
    /\ pc = "salted" => PoolsUntouched
    /\ pc = "created" => PoolAdded(FALSE)
    /\ pc = "initialized" => PoolAdded(TRUE)

IInv == TypeOK /\ Consistent(journal) /\ Running

-----------------------------------------------------------------------------
\* Types.

LEMMA ArgsType ==
    ASSUME TypeOK, NEW f \in Factories, NEW r \in Requests, NEW m \in Managers
    PROVE  /\ Args(f, r, m) \in PoolArgs
           /\ RebalancerExtra(f, r) \in Extras
<1>1. PauseWindowDuration(f) \in 0 .. MaxTime
  BY FactoriesAssumption DEF PauseWindowDuration, TypeOK
<1>2. RebalancerExtra(f, r) \in Extras
  BY DEF RebalancerExtra, SiloExtra, EulerExtra, Extras, Requests
<1> QED BY <1>1, <1>2 DEF Args, PoolArgs, Requests

LEMMA InitIInv == Init => IInv
<1> SUFFICES ASSUME Init PROVE IInv
  OBVIOUS
<1> USE FactoriesAssumption DEF Init
<1>1. StorageOK(Current)
  BY DEF Current, StorageOK, Nothing
<1>2. Consistent(Current)
  BY DEF Current, Nothing, Consistent
<1>3. Settled
  BY DEF Current, Settled
<1> QED BY <1>1, <1>2, <1>3 DEF IInv, TypeOK, Running

-----------------------------------------------------------------------------
\* Every action preserves the invariant.

LEMMA BeginCreateStep ==
    ASSUME IInv, NEW f \in Factories, NEW r \in Requests, BeginCreate(f, r)
    PROVE  IInv'
<1> DEFINE salt == nextSalt[f]
           extra == RebalancerExtra(f, r)
           expected == ManagerAddress(f, salt, extra)
           args == Args(f, r, expected)
<1>1. Settled /\ TypeOK /\ nextSalt \in [Factories -> 0 .. MaxPools]
  BY DEF IInv, Running, BeginCreate, TypeOK, StorageOK, Current
<1>2. salt \in 0 .. MaxPools /\ salt < MaxPools /\ salt + 1 \in 0 .. MaxPools
  BY <1>1, FactoriesAssumption DEF BeginCreate, TakeSalt, ExpectedRebalancer
<1>3. expected \in Managers /\ extra \in Extras
  <2>1. extra \in Extras
    BY DEF RebalancerExtra, SiloExtra, EulerExtra, Extras, Requests
  <2> QED BY <1>2, <2>1 DEF ManagerAddress, Managers
<1>4. args \in PoolArgs
  BY <1>1, <1>3, ArgsType
<1>5. frame' = [factory |-> f, salt |-> r.salt, rebalancerSalt |-> salt,
                extra |-> extra, expected |-> expected, args |-> args]
  BY DEF BeginCreate, TakeSalt, ExpectedRebalancer
<1>6. frame' \in Frame
  BY <1>2, <1>3, <1>4, <1>5 DEF Frame, Requests
<1>7. TypeOK'
  BY <1>1, <1>2, <1>6 DEF BeginCreate, TakeSalt, ExpectedRebalancer, TypeOK, StorageOK, Current
<1>8. Consistent(journal)'
  BY DEF BeginCreate, TakeSalt, ExpectedRebalancer, IInv, Consistent, Linked, RebalancerExtra
<1>9. FrameInv'
  <2>1. PauseWindowDuration(f)' = PauseWindowDuration(f)
    BY DEF BeginCreate, TakeSalt, ExpectedRebalancer, PauseWindowDuration
  <2>2. /\ args.assetManager = expected
        /\ args.pauseWindowDuration = PauseWindowDuration(f)
        /\ args.wrapped = r.wrapped
    BY DEF Args
  <2>3. extra = RebalancerExtra(f, args)
    BY <2>2 DEF RebalancerExtra, SiloExtra, EulerExtra
  <2>4. journal' = journal /\ salt = journal.nextSalt[f]
    BY <1>1 DEF BeginCreate, TakeSalt, ExpectedRebalancer, Settled
  <2> HIDE DEF salt, extra, expected, args
  <2>5. /\ frame'.factory = f
        /\ frame'.rebalancerSalt = salt
        /\ frame'.extra = extra
        /\ frame'.expected = expected
        /\ frame'.args = args
    BY <1>5
  <2>6. expected = ManagerAddress(f, salt, extra)
    BY DEF expected
  <2> QED BY <1>2, <2>1, <2>2, <2>3, <2>4, <2>5, <2>6
          DEF FrameInv, RebalancerExtra, SiloExtra, EulerExtra, PauseWindowDuration
<1>10. (SaltTaken /\ PoolsUntouched)'
  BY <1>1, <1>5 DEF BeginCreate, TakeSalt, ExpectedRebalancer, SaltTaken, PoolsUntouched, Settled
<1>11. pc' = "salted"
  BY DEF BeginCreate, TakeSalt, ExpectedRebalancer
<1> QED BY <1>7, <1>8, <1>9, <1>10, <1>11 DEF IInv, Running

LEMMA DeployPoolStep == IInv /\ DeployPool => IInv'
<1> SUFFICES ASSUME IInv, DeployPool PROVE IInv'
  OBVIOUS
<1>1. /\ pc = "salted" /\ pc' = "created"
      /\ FrameInv /\ SaltTaken /\ PoolsUntouched
      /\ frame \in Frame /\ frame.factory \in Factories /\ frame.args \in PoolArgs
      /\ frame.expected \in Managers
  BY DEF DeployPool, EnsureEnabled, IInv, Running, TypeOK, Frame
<1>2. MyPool \in Pools
  BY <1>1 DEF Frame, MyPool, PoolAddress, Pools
<1>3. frame' = frame /\ journal' = journal /\ now' = now /\ MyPool' = MyPool
  BY DEF DeployPool, EnsureEnabled, MyPool, PoolAddress
<1>4. [initialized |-> FALSE, pausableUntil |-> now + frame.args.pauseWindowDuration]
          \in PoolState
  BY <1>1, FactoriesAssumption DEF IInv, TypeOK, Frame, PoolArgs, PoolState
<1>5. TypeOK'
  <2>1. StorageOK(Current)
    BY DEF IInv, TypeOK
  <2>2. lastCreated' \in [Factories -> Pools \cup {NoPool}]
    BY <2>1, <1>1, <1>2 DEF DeployPool, EnsureEnabled, StorageOK, Current, MyPool
  <2>3. fromFactory' \subseteq Pools
    BY <2>1, <1>2 DEF DeployPool, EnsureEnabled, StorageOK, Current, MyPool
  <2>4. DOMAIN pools' \subseteq Pools /\ \A p \in DOMAIN pools' : pools'[p] \in PoolState
    BY <2>1, <1>2, <1>4 DEF DeployPool, EnsureEnabled, StorageOK, Current, MyPool, Put
  <2>5. /\ DOMAIN assetManager' \subseteq Pools
        /\ \A p \in DOMAIN assetManager' : assetManager'[p] \in Managers
    BY <2>1, <1>1, <1>2 DEF DeployPool, EnsureEnabled, StorageOK, Current, MyPool, Put, FrameInv
  <2>6. StorageOK(Current)'
    BY <2>1, <2>2, <2>3, <2>4, <2>5 DEF DeployPool, EnsureEnabled, StorageOK, Current
  <2> QED BY <2>6, <1>1, <1>3 DEF DeployPool, EnsureEnabled, IInv, TypeOK
<1>6. Consistent(journal)'
  BY <1>3 DEF IInv, Consistent, Linked, RebalancerExtra
<1>7. (FrameInv /\ SaltTaken)'
  BY <1>1, <1>3 DEF DeployPool, EnsureEnabled, FrameInv, SaltTaken, PauseWindowDuration, RebalancerExtra
<1>8. PoolAdded(FALSE)'
  <2>1. MyPool \notin DOMAIN journal.pools
    BY <1>1 DEF DeployPool, EnsureEnabled, PoolsUntouched, MyPool
  <2>2. DOMAIN journal.assetManager = DOMAIN journal.pools
    BY DEF IInv, Consistent
  <2>3. /\ pools' = Put(journal.pools, MyPool,
                       [initialized |-> FALSE,
                        pausableUntil |-> now + frame.args.pauseWindowDuration])
        /\ assetManager' = Put(journal.assetManager, MyPool, frame.expected)
        /\ fromFactory' = journal.fromFactory \cup {MyPool}
        /\ lastCreated' = [journal.lastCreated EXCEPT ![frame.factory] = MyPool]
        /\ frame.factory \notin disabled'
    BY <1>1 DEF DeployPool, EnsureEnabled, PoolsUntouched, MyPool, FrameInv
  <2> HIDE DEF MyPool
  <2> QED BY <2>1, <2>2, <2>3, <1>3 DEF PoolAdded, Put
<1> QED BY <1>1, <1>5, <1>6, <1>7, <1>8 DEF IInv, Running

LEMMA InitializePoolStep == IInv /\ InitializePool => IInv'
<1> SUFFICES ASSUME IInv, InitializePool PROVE IInv'
  OBVIOUS
<1>1. /\ pc = "created" /\ pc' = "initialized"
      /\ FrameInv /\ SaltTaken /\ PoolAdded(FALSE)
  BY DEF InitializePool, IInv, Running
<1>2. /\ frame' = frame /\ journal' = journal /\ now' = now /\ MyPool' = MyPool
      /\ disabled' = disabled /\ assetManager' = assetManager
      /\ fromFactory' = fromFactory /\ lastCreated' = lastCreated
      /\ nextSalt' = nextSalt /\ rebalancers' = rebalancers
  BY DEF InitializePool, MyPool, PoolAddress
<1>3. MyPool \in DOMAIN pools /\ pools[MyPool] \in PoolState
  BY <1>1 DEF PoolAdded, IInv, TypeOK, StorageOK, Current
<1>4. pools' = [pools EXCEPT ![MyPool] = [initialized |-> TRUE,
                                          pausableUntil |-> pools[MyPool].pausableUntil]]
  BY DEF InitializePool, MyPool
<1>5. TypeOK'
  <2>1. StorageOK(Current)
    BY DEF IInv, TypeOK
  <2>2. DOMAIN pools' \subseteq Pools /\ \A p \in DOMAIN pools' : pools'[p] \in PoolState
    BY <2>1, <1>3, <1>4 DEF StorageOK, Current, PoolState
  <2>3. StorageOK(Current)'
    BY <2>1, <2>2, <1>2 DEF StorageOK, Current
  <2> QED BY <2>3, <1>1, <1>2 DEF InitializePool, IInv, TypeOK
<1>6. Consistent(journal)'
  BY <1>2 DEF IInv, Consistent, Linked, RebalancerExtra
<1>7. (FrameInv /\ SaltTaken)'
  BY <1>1, <1>2 DEF FrameInv, SaltTaken, PauseWindowDuration, RebalancerExtra
<1>8. PoolAdded(TRUE)'
  <2>1. pools'[MyPool] = [initialized |-> TRUE,
                          pausableUntil |-> now + frame.args.pauseWindowDuration]
    BY <1>1, <1>3, <1>4 DEF PoolAdded
  <2>2. DOMAIN pools' = DOMAIN pools /\ \A p \in DOMAIN journal.pools : pools'[p] = pools[p]
    BY <1>1, <1>4 DEF PoolAdded
  <2> HIDE DEF MyPool
  <2> QED BY <2>1, <2>2, <1>1, <1>2 DEF PoolAdded
<1> QED BY <1>1, <1>5, <1>6, <1>7, <1>8 DEF IInv, Running

LEMMA DeployRebalancerStep == IInv /\ DeployRebalancer => IInv'
<1> SUFFICES ASSUME IInv, DeployRebalancer PROVE IInv'
  OBVIOUS
<1> DEFINE f == frame.factory
           actual == ManagerAddress(f, frame.rebalancerSalt, frame.extra)
           rebalancer == [pool |-> MyPool, extra |-> frame.extra]
<1>1. /\ pc = "initialized"
      /\ FrameInv /\ SaltTaken /\ PoolAdded(TRUE) /\ Consistent(journal)
      /\ StorageOK(Current) /\ StorageOK(journal)
      /\ f \in Factories /\ frame.extra \in Extras /\ frame.rebalancerSalt \in 0 .. MaxPools
      /\ actual = frame.expected /\ actual \in Managers
      /\ actual \notin DOMAIN rebalancers
  BY DEF DeployRebalancer, IInv, Running, TypeOK, Frame
<1>2. MyPool \in DOMAIN pools /\ MyPool \in Pools /\ MyPool \notin DOMAIN journal.pools
  BY <1>1 DEF PoolAdded, StorageOK, Current
<1>3. lastCreated[f] = MyPool
  BY <1>1 DEF PoolAdded, StorageOK
<1>4. rebalancers' = Put(rebalancers, actual, rebalancer)
  BY <1>3 DEF DeployRebalancer, RebalancerConstructor
<1>5. /\ UNCHANGED <<now, disabled, nextSalt, lastCreated, fromFactory, assetManager, pools>>
      /\ journal' = Current' /\ pc' = "idle"
  BY DEF DeployRebalancer
<1>6. TypeOK'
  <2>1. rebalancer \in Rebalancer
    BY <1>1, <1>2 DEF Rebalancer
  <2> HIDE DEF actual, rebalancer
  <2>2. /\ DOMAIN rebalancers' \subseteq Managers
        /\ \A m \in DOMAIN rebalancers' : rebalancers'[m] \in Rebalancer
    BY <2>1, <1>1, <1>4 DEF Put, StorageOK, Current
  <2>3. StorageOK(Current)'
    BY <2>2, <1>1, <1>5 DEF StorageOK, Current
  <2> QED BY <2>3, <1>5 DEF IInv, TypeOK
<1>7. Consistent(journal)'
  <2> DEFINE N == journal'
  <2>1. /\ N.nextSalt = [journal.nextSalt EXCEPT ![f] = frame.rebalancerSalt + 1]
        /\ N.fromFactory = journal.fromFactory \cup {MyPool}
        /\ N.assetManager = assetManager
        /\ N.pools = pools
        /\ N.rebalancers = Put(journal.rebalancers, actual, rebalancer)
    BY <1>1, <1>4, <1>5 DEF Current, SaltTaken, PoolAdded
  <2>2. MyPool = [deployer |-> f, salt |-> frame.salt, args |-> frame.args]
    BY DEF MyPool, PoolAddress
  <2>3. /\ MyPool.deployer = f /\ MyPool.args = frame.args
        /\ actual = MyPool.args.assetManager
        /\ actual.deployer = f /\ actual.salt = frame.rebalancerSalt
        /\ actual.extra = frame.extra
        /\ frame.extra = RebalancerExtra(MyPool.deployer, MyPool.args)
    BY <2>2, <1>1 DEF FrameInv, ManagerAddress
  <2>4. rebalancer.pool = MyPool /\ rebalancer.extra = frame.extra
    OBVIOUS
  <2>5. /\ journal.nextSalt \in [Factories -> 0 .. MaxPools]
        /\ journal.nextSalt[f] = frame.rebalancerSalt
        /\ actual \notin DOMAIN journal.rebalancers
        /\ DOMAIN journal.pools \subseteq Pools
        /\ DOMAIN journal.assetManager \subseteq Pools
        /\ \A p \in DOMAIN journal.assetManager : journal.assetManager[p] \in Managers
    BY <1>1 DEF StorageOK, FrameInv, SaltTaken
  <2>6. /\ DOMAIN pools = DOMAIN journal.pools \cup {MyPool}
        /\ DOMAIN assetManager = DOMAIN journal.assetManager \cup {MyPool}
        /\ assetManager[MyPool] = actual
        /\ pools[MyPool].initialized = TRUE
        /\ \A p \in DOMAIN journal.pools :
              pools[p] = journal.pools[p] /\ assetManager[p] = journal.assetManager[p]
    BY <1>1 DEF PoolAdded
  <2> HIDE DEF actual, rebalancer, MyPool, f, N
  <2>7. DOMAIN N.assetManager = DOMAIN N.pools
    BY <2>1, <2>6, <1>1 DEF Consistent
  <2>8. ASSUME NEW p \in DOMAIN N.pools
        PROVE  /\ Linked(N, p)
               /\ N.assetManager[p] = p.args.assetManager
               /\ N.assetManager[p].deployer = p.deployer
               /\ N.assetManager[p].extra = RebalancerExtra(p.deployer, p.args)
               /\ N.assetManager[p].salt < N.nextSalt[p.deployer]
    <3>1. CASE p = MyPool
      <4>1. N.nextSalt[f] = frame.rebalancerSalt + 1 /\ frame.rebalancerSalt \in Nat
        BY <2>1, <2>5, <1>1
      <4>2. Linked(N, p)
        BY <3>1, <2>1, <2>4, <2>6 DEF Linked, Put
      <4> QED BY <4>1, <4>2, <3>1, <2>1, <2>3, <2>6
    <3>2. CASE p \in DOMAIN journal.pools
      <4> DEFINE m == journal.assetManager[p]
      <4>1. /\ Linked(journal, p)
            /\ m = p.args.assetManager
            /\ m.deployer = p.deployer
            /\ m.extra = RebalancerExtra(p.deployer, p.args)
            /\ m.salt < journal.nextSalt[p.deployer]
            /\ m = N.assetManager[p]
            /\ p \in DOMAIN journal.assetManager
        BY <3>2, <2>1, <2>6, <1>1 DEF Consistent
      <4>2. p \in Pools /\ m \in Managers
        BY <4>1, <3>2, <2>5
      <4>3. p.deployer \in Factories /\ m.salt \in Nat
        BY <4>2, FactoriesAssumption DEF Pools, Managers
      <4>4. N.nextSalt[p.deployer] \in Nat
            /\ journal.nextSalt[p.deployer] <= N.nextSalt[p.deployer]
        BY <4>3, <2>1, <2>5, <1>1
      <4>5. m.salt < N.nextSalt[p.deployer]
        BY <4>1, <4>3, <4>4, <2>5
      <4>6. Linked(N, p)
        BY <4>1, <3>2, <2>1, <2>5, <2>6 DEF Linked, Put
      <4> QED BY <4>1, <4>5, <4>6
    <3> QED BY <3>1, <3>2, <2>1, <2>6
  <2>9. ASSUME NEW m \in DOMAIN N.rebalancers
        PROVE  /\ N.rebalancers[m].pool \in DOMAIN N.pools
               /\ N.assetManager[N.rebalancers[m].pool] = m
               /\ N.rebalancers[m].extra = m.extra
    <3>1. CASE m = actual
      BY <3>1, <2>1, <2>3, <2>4, <2>6 DEF Put
    <3>2. CASE m \in DOMAIN journal.rebalancers
      BY <3>2, <2>1, <2>5, <2>6, <1>1 DEF Put, Consistent
    <3> QED BY <3>1, <3>2, <2>1 DEF Put
  <2> QED BY <2>7, <2>8, <2>9 DEF Consistent, N
<1>8. Settled'
  BY <1>5 DEF Settled, Current
<1> QED BY <1>5, <1>6, <1>7, <1>8 DEF IInv, Running

LEMMA RevertStep == IInv /\ Revert => IInv'
<1> SUFFICES ASSUME IInv, Revert PROVE IInv'
  OBVIOUS
<1>1. Settled' /\ pc' = "idle"
  BY DEF Revert, Settled
<1>2. TypeOK'
  <2>1. StorageOK(journal)
    BY DEF IInv, TypeOK
  <2>2. StorageOK(Current)'
    BY <2>1 DEF Revert, StorageOK, Current
  <2> QED BY <2>2, <1>1 DEF Revert, IInv, TypeOK
<1>3. Consistent(journal)'
  BY DEF Revert, IInv, Consistent, Linked, RebalancerExtra
<1> QED BY <1>1, <1>2, <1>3 DEF IInv, Running

\* Steps between transactions, and stuttering.
LEMMA OtherStep ==
    IInv /\ ((\E f \in Factories : Disable(f)) \/ Tick \/ UNCHANGED vars) => IInv'
<1> SUFFICES ASSUME IInv,
                    pc = "idle" \/ UNCHANGED <<now, disabled, frame>>,
                    now' \in 0 .. MaxTime, disabled' \subseteq Factories,
                    UNCHANGED <<storage, journal, pc, frame>>
             PROVE  IInv'
  BY FactoriesAssumption DEF Disable, Tick, vars, IInv, TypeOK
<1>1. TypeOK'
  BY DEF IInv, TypeOK, StorageOK, Current, storage
<1>2. Consistent(journal)'
  BY DEF IInv, Consistent, Linked, RebalancerExtra
<1>3. Running'
  <2>1. CASE pc = "idle"
    BY <2>1 DEF IInv, Running, Settled, storage
  <2>2. CASE UNCHANGED <<now, disabled, frame>>
    BY <2>2 DEF IInv, Running, Settled, storage, FrameInv, SaltTaken, PoolsUntouched,
              PoolAdded, MyPool, PauseWindowDuration, RebalancerExtra
  <2> QED BY <2>1, <2>2
<1> QED BY <1>1, <1>2, <1>3 DEF IInv

LEMMA NextIInv == IInv /\ [Next]_vars => IInv'
BY BeginCreateStep, DeployPoolStep, InitializePoolStep, DeployRebalancerStep, RevertStep,
   OtherStep DEF Next

LEMMA Invariance == Spec => []IInv
<1>1. Init => IInv
  BY InitIInv
<1>2. IInv /\ [Next]_vars => IInv'
  BY NextIInv
<1> QED BY <1>1, <1>2, PTL DEF Spec

-----------------------------------------------------------------------------
\* The theorems.

\* Every state of every run has the types of TypeOK: the counters stay within
\* their bounds and a running creation holds well-typed local variables.
THEOREM TypeCorrect == Spec => []TypeOK
BY Invariance, PTL DEF IInv

\* Every pool on the chain was made completely: it is initialized and managed
\* by the rebalancer that was built for it.
THEOREM PoolsLinked == Spec => []EveryPoolLinked
<1>1. IInv => EveryPoolLinked
  <2> SUFFICES ASSUME IInv, NEW p \in DOMAIN journal.pools
               PROVE  /\ Linked(journal, p)
                      /\ journal.rebalancers[journal.assetManager[p]].extra =
                             RebalancerExtra(p.deployer, p.args)
    BY DEF EveryPoolLinked, RebalancerExtra, SiloExtra, EulerExtra
  <2>1. Linked(journal, p)
    BY DEF IInv, Consistent
  <2>2. journal.assetManager[p] \in DOMAIN journal.rebalancers
    BY <2>1 DEF Linked
  <2> QED BY <2>1, <2>2 DEF IInv, Consistent
<1> QED BY <1>1, Invariance, PTL

\* No two pools share a rebalancer, and no rebalancer names a pool that another
\* one manages.
THEOREM ManagersAreDistinct == Spec => []ManagersDistinct
<1>1. IInv => ManagersDistinct
  <2> SUFFICES ASSUME IInv PROVE ManagersDistinct
    OBVIOUS
  <2>1. ASSUME NEW p \in DOMAIN journal.pools, NEW q \in DOMAIN journal.pools,
               journal.assetManager[p] = journal.assetManager[q]
        PROVE  p = q
    BY <2>1 DEF IInv, Consistent, Linked
  <2> QED BY <2>1 DEF IInv, Consistent, ManagersDistinct
<1> QED BY <1>1, Invariance, PTL

\* The addresses of the next creation are free, whatever was created before and
\* whatever failed.
THEOREM CreationNeverBlocked == Spec => []NextAddressesFree
<1>1. IInv => NextAddressesFree
  <2> SUFFICES ASSUME IInv, NEW f \in Factories, NEW r \in Requests
               PROVE  LET m == ManagerAddress(f, journal.nextSalt[f], RebalancerExtra(f, r))
                      IN  /\ m \notin DOMAIN journal.rebalancers
                          /\ \A p \in DOMAIN journal.pools : p.args.assetManager # m
    BY DEF NextAddressesFree
  <2> DEFINE m == ManagerAddress(f, journal.nextSalt[f], RebalancerExtra(f, r))
  <2>1. /\ m.deployer = f /\ m.salt = journal.nextSalt[f]
        /\ journal.nextSalt[f] \in Nat
    BY FactoriesAssumption DEF ManagerAddress, IInv, TypeOK, StorageOK
  <2> HIDE DEF m
  <2>2. ASSUME NEW p \in DOMAIN journal.pools, p.args.assetManager = m
        PROVE  FALSE
    BY <2>1, <2>2 DEF IInv, Consistent
  <2>3. ASSUME m \in DOMAIN journal.rebalancers PROVE FALSE
    <3>1. PICK p \in DOMAIN journal.pools : journal.assetManager[p] = m
      BY <2>3 DEF IInv, Consistent
    <3> QED BY <3>1, <2>2 DEF IInv, Consistent
  <2> QED BY <2>2, <2>3 DEF m
<1> QED BY <1>1, Invariance, PTL

\* None of the requires after the pool is deployed can fail.
THEOREM PredictionsHold == Spec => []PredictionHolds
<1>1. IInv => PredictionHolds
  <2> SUFFICES ASSUME IInv, pc = "initialized"
               PROVE  /\ frame.expected = ManagerAddress(frame.factory,
                                                         frame.rebalancerSalt, frame.extra)
                      /\ frame.expected \notin DOMAIN rebalancers
                      /\ lastCreated[frame.factory] \in DOMAIN pools
                      /\ assetManager[lastCreated[frame.factory]] = frame.expected
                      /\ EulerCheck(frame.factory,
                                    RebalancerConstructor(frame.factory, frame.extra))
    BY DEF PredictionHolds
  <2>1. FrameInv /\ SaltTaken /\ PoolAdded(TRUE) /\ Consistent(journal)
        /\ StorageOK(journal) /\ frame \in Frame
    BY DEF IInv, Running, TypeOK
  <2>2. frame.factory \in Factories /\ frame.rebalancerSalt \in Nat
    BY <2>1, FactoriesAssumption DEF Frame
  <2>3. frame.expected.deployer = frame.factory
        /\ frame.expected.salt = journal.nextSalt[frame.factory]
    BY <2>1 DEF FrameInv, ManagerAddress
  <2>4. lastCreated[frame.factory] = MyPool
    BY <2>1, <2>2 DEF PoolAdded, StorageOK
  <2>5. ASSUME frame.expected \in DOMAIN journal.rebalancers PROVE FALSE
    <3>1. PICK p \in DOMAIN journal.pools : journal.assetManager[p] = frame.expected
      BY <2>1, <2>5 DEF Consistent
    <3>2. frame.expected.salt < journal.nextSalt[frame.factory]
      BY <3>1, <2>1, <2>3 DEF Consistent
    <3> QED BY <3>2, <2>2, <2>3, <2>1 DEF FrameInv
  <2>6. EulerCheck(frame.factory, RebalancerConstructor(frame.factory, frame.extra))
    BY <2>1 DEF EulerCheck, RebalancerConstructor, FrameInv, RebalancerExtra, EulerExtra
  <2> QED BY <2>1, <2>4, <2>5, <2>6 DEF FrameInv, SaltTaken, PoolAdded
<1> QED BY <1>1, Invariance, PTL

-----------------------------------------------------------------------------
\* Salts: one more conjunct next to IInv, which no other property needs.

\* What the last step of create publishes, for the proofs that compare two
\* journals.
LEMMA Published ==
    ASSUME IInv, DeployRebalancer
    PROVE  /\ journal'.nextSalt = [journal.nextSalt EXCEPT ![frame.factory] =
                                      frame.rebalancerSalt + 1]
           /\ journal'.lastCreated = [journal.lastCreated EXCEPT ![frame.factory] = MyPool]
           /\ journal'.fromFactory = journal.fromFactory \cup {MyPool}
           /\ journal'.assetManager = assetManager
           /\ journal'.pools = pools
           /\ journal'.rebalancers = Put(journal.rebalancers, frame.expected,
                                        [pool |-> MyPool, extra |-> frame.extra])
           /\ frame.factory \in Factories
           /\ frame.expected.deployer = frame.factory
           /\ frame.expected.salt = frame.rebalancerSalt
           /\ frame.rebalancerSalt = journal.nextSalt[frame.factory]
           /\ PoolAdded(TRUE)
           /\ StorageOK(journal)
<1>1. /\ pc = "initialized"
      /\ FrameInv /\ SaltTaken /\ PoolAdded(TRUE) /\ StorageOK(journal)
      /\ frame.factory \in Factories
      /\ ManagerAddress(frame.factory, frame.rebalancerSalt, frame.extra) = frame.expected
  BY DEF DeployRebalancer, IInv, Running, TypeOK, Frame
<1>2. lastCreated[frame.factory] = MyPool
  BY <1>1 DEF PoolAdded, StorageOK
<1>3. /\ rebalancers' = Put(rebalancers, frame.expected,
                           [pool |-> MyPool, extra |-> frame.extra])
      /\ UNCHANGED <<now, disabled, nextSalt, lastCreated, fromFactory, assetManager, pools>>
      /\ journal' = Current'
  BY <1>1, <1>2 DEF DeployRebalancer, RebalancerConstructor
<1> QED BY <1>1, <1>3 DEF Current, SaltTaken, PoolAdded, FrameInv, ManagerAddress

LEMMA JournalOnlyPublished ==
    ASSUME IInv, [Next]_vars
    PROVE  DeployRebalancer \/ journal' = journal
BY DEF Next, vars, BeginCreate, DeployPool, InitializePool, Revert, Disable, Tick

\* The rebalancers of every factory have the salts 0, 1, 2, ..., and the factory
\* remembers the pool of the last.
THEOREM SaltsAreDense == Spec => []SaltsDense
<1>1. Init => SaltsDense
  <2> SUFFICES ASSUME Init PROVE SaltsDense
    OBVIOUS
  <2>1. /\ DOMAIN journal.rebalancers = {}
        /\ \A f \in Factories : journal.nextSalt[f] = 0 /\ journal.lastCreated[f] = NoPool
    BY DEF Init, Current, Nothing
  <2>2. 0 .. 0 - 1 = {}
    OBVIOUS
  <2>3. ASSUME NEW f \in Factories
        PROVE  {m.salt : m \in {m \in DOMAIN journal.rebalancers : m.deployer = f}} = {}
    BY <2>1
  <2> QED BY <2>1, <2>2, <2>3 DEF SaltsDense
<1>2. IInv /\ SaltsDense /\ [Next]_vars => SaltsDense'
  <2> SUFFICES ASSUME IInv, SaltsDense, [Next]_vars, NEW f \in Factories
               PROVE  LET n == journal'.nextSalt[f]
                          mine == {m \in DOMAIN journal'.rebalancers : m.deployer = f}
                          last == journal'.lastCreated[f]
                      IN  /\ {m.salt : m \in mine} = 0 .. n - 1
                          /\ IF n = 0 THEN last = NoPool
                             ELSE /\ last \in DOMAIN journal'.pools
                                  /\ journal'.assetManager[last].deployer = f
                                  /\ journal'.assetManager[last].salt = n - 1
    BY DEF SaltsDense
  <2>1. CASE journal' = journal
    BY <2>1 DEF SaltsDense
  <2>2. CASE DeployRebalancer
    <3> DEFINE J == journal
               N == journal'
               me == frame.factory
               m0 == frame.expected
               k == J.nextSalt[f]
               salts == {m.salt : m \in {m \in DOMAIN J.rebalancers : m.deployer = f}}
    <3>1. /\ N.nextSalt = [J.nextSalt EXCEPT ![me] = frame.rebalancerSalt + 1]
          /\ N.lastCreated = [J.lastCreated EXCEPT ![me] = MyPool]
          /\ N.assetManager = assetManager /\ N.pools = pools
          /\ DOMAIN N.rebalancers = DOMAIN J.rebalancers \cup {m0}
          /\ m0.deployer = me /\ m0.salt = frame.rebalancerSalt
          /\ frame.rebalancerSalt = J.nextSalt[me]
      BY <2>2, Published DEF Put
    <3>2. /\ MyPool \in DOMAIN pools /\ assetManager[MyPool] = m0
          /\ \A p \in DOMAIN J.pools : p \in DOMAIN pools /\ assetManager[p] = J.assetManager[p]
          /\ J.nextSalt \in [Factories -> 0 .. MaxPools]
          /\ J.lastCreated \in [Factories -> Pools \cup {NoPool}]
      BY <2>2, Published DEF PoolAdded, StorageOK
    <3>3. /\ salts = 0 .. k - 1
          /\ IF k = 0 THEN J.lastCreated[f] = NoPool
             ELSE /\ J.lastCreated[f] \in DOMAIN J.pools
                  /\ J.assetManager[J.lastCreated[f]].deployer = f
                  /\ J.assetManager[J.lastCreated[f]].salt = k - 1
      BY DEF SaltsDense
    <3>4. k \in Nat
      BY <3>2, FactoriesAssumption
    <3> HIDE DEF J, N, me, m0
    <3>5. CASE f = me
      <4>1. {m.salt : m \in {m \in DOMAIN N.rebalancers : m.deployer = f}}
                = salts \cup {k}
        BY <3>5, <3>1
      <4>2. N.nextSalt[f] = k + 1 /\ N.lastCreated[f] = MyPool
        BY <3>5, <3>1, <3>2
      <4>3. (0 .. k - 1) \cup {k} = 0 .. (k + 1) - 1
        BY <3>4
      <4>4. k + 1 # 0 /\ (k + 1) - 1 = k
        BY <3>4
      <4> QED BY <4>1, <4>2, <4>3, <4>4, <3>1, <3>2, <3>3, <3>5 DEF N
    <3>6. CASE f # me
      <4>1. {m.salt : m \in {m \in DOMAIN N.rebalancers : m.deployer = f}} = salts
        BY <3>6, <3>1
      <4>2. N.nextSalt[f] = k /\ N.lastCreated[f] = J.lastCreated[f]
        BY <3>6, <3>1, <3>2
      <4> QED BY <4>1, <4>2, <3>1, <3>2, <3>3 DEF N
    <3> QED BY <3>5, <3>6
  <2> QED BY <2>1, <2>2, JournalOnlyPublished
<1> QED BY <1>1, <1>2, InitIInv, Invariance, PTL DEF Spec

-----------------------------------------------------------------------------
\* Refinement.

LEMMA RegistryCreate ==
    ASSUME IInv, IInv', DeployRebalancer
    PROVE  \E new \in Links' \ Links : Registry!Create(new)
<1> DEFINE f == frame.factory
           LinkOf(p) == [factory |-> p.deployer, pool |-> p,
                         manager |-> journal.assetManager[p],
                         pausableUntil |-> journal.pools[p].pausableUntil]
           until == now + frame.args.pauseWindowDuration
           new == [factory |-> f, pool |-> MyPool, manager |-> frame.expected,
                   pausableUntil |-> until]
<1>1. /\ f \in Factories \ disabled
      /\ frame.args.pauseWindowDuration = PauseWindowDuration(f)
  BY Published DEF PoolAdded, IInv, Running, FrameInv, DeployRebalancer
<1>2. now \in Nat /\ WindowEnd[f] \in Nat
  BY <1>1, FactoriesAssumption DEF IInv, TypeOK
<1>3. until = Registry!PausableUntil(f)
  BY <1>1, <1>2 DEF PauseWindowDuration, Registry!PausableUntil
<1>4. MyPool.deployer = f
  BY DEF MyPool, PoolAddress
<1>5. Links = {LinkOf(p) : p \in DOMAIN journal.pools}
  BY DEF Links, IInv, Consistent
<1>6. Links' = {LinkOf(p)' : p \in DOMAIN journal'.pools}
  BY DEF Links, IInv, Consistent
<1>7. /\ DOMAIN journal'.pools = DOMAIN journal.pools \cup {MyPool}
      /\ MyPool \notin DOMAIN journal.pools
      /\ \A p \in DOMAIN journal.pools :
            /\ journal'.pools[p] = journal.pools[p]
            /\ journal'.assetManager[p] = journal.assetManager[p]
      /\ journal'.pools[MyPool].pausableUntil = until
      /\ journal'.assetManager[MyPool] = frame.expected
  BY Published DEF PoolAdded
<1>8. \A p \in DOMAIN journal.pools : frame.expected # journal.assetManager[p]
  <2>1. \A p \in DOMAIN journal.pools : journal.assetManager[p] \in DOMAIN journal.rebalancers
    BY DEF IInv, Consistent, Linked
  <2>2. frame.expected \notin DOMAIN journal.rebalancers
    BY DEF DeployRebalancer, IInv, Running, SaltTaken
  <2> QED BY <2>1, <2>2
<1>9. UNCHANGED <<now, disabled>>
  BY DEF DeployRebalancer
<1> HIDE DEF MyPool, f, until
<1>10. Links' = Links \cup {new}
  BY <1>4, <1>5, <1>6, <1>7
<1>11. \A l \in Links : l.pool # new.pool /\ l.manager # new.manager
  BY <1>5, <1>7, <1>8
<1>12. new \in Links' \ Links
  BY <1>10, <1>11
<1> QED BY <1>1, <1>3, <1>9, <1>10, <1>11, <1>12 DEF Registry!Create

\* The factories, with their transactions of several steps, do what the
\* registry says: seen from outside, a creation that succeeds adds one link with
\* a fresh pool and a fresh manager, pausable until the end of the window of a
\* factory that is not disabled; a creation that fails changes nothing.
THEOREM FactoriesImplementRegistry == Spec => ImplementsRegistry
<1>1. Init => Registry!Init
  BY DEF Init, Registry!Init, Links, Current, Nothing
<1>2. IInv /\ IInv' /\ [Next]_vars => [Registry!Next]_(Registry!vars)
  <2> SUFFICES ASSUME IInv, IInv', [Next]_vars
               PROVE  Registry!Next \/ UNCHANGED Registry!vars
    OBVIOUS
  <2>1. CASE DeployRebalancer
    BY <2>1, RegistryCreate DEF Registry!Next
  <2>2. ASSUME journal' = journal PROVE Links' = Links
    BY <2>2 DEF Links, Linked
  <2>3. CASE journal' = journal /\ UNCHANGED <<now, disabled>>
    BY <2>2, <2>3 DEF Registry!vars
  <2>4. CASE Tick
    BY <2>2, <2>4 DEF Tick, Registry!Tick, Registry!Next
  <2>5. ASSUME NEW f \in Factories, Disable(f) PROVE Registry!Next
    BY <2>2, <2>5 DEF Disable, Registry!Disable, Registry!Next
  <2>6. CASE UNCHANGED vars
    BY <2>3, <2>6 DEF vars
  <2>7. CASE (\E f \in Factories, r \in Requests : BeginCreate(f, r))
             \/ DeployPool \/ InitializePool \/ Revert
    BY <2>3, <2>7 DEF BeginCreate, TakeSalt, ExpectedRebalancer, DeployPool, InitializePool, Revert
  <2> QED BY <2>1, <2>4, <2>5, <2>6, <2>7 DEF Next
<1> QED BY <1>1, <1>2, Invariance, PTL DEF Spec, ImplementsRegistry, Registry!Spec

=============================================================================
