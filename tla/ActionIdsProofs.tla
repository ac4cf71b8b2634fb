--------------------------- MODULE ActionIdsProofs ---------------------------
(***************************************************************************)
(* Proofs about action identifiers, for any number of tasks, contracts and *)
(* functions.  The inductive invariant IInv adds to the properties that    *)
(* outputs name contracts of their task, that a pool is of the task of the *)
(* factory that made it, and what holds of an entry before it is recorded. *)
(***************************************************************************)
EXTENDS ActionIds, TLAPS

OutputsGenuine == \A t \in Tasks, n \in Names : output[t][n] # Unknown =>
                      /\ output[t][n] \in DOMAIN chain
                      /\ chain[output[t][n]].task = t /\ chain[output[t][n]].name = n
MakersKnown == \A a \in DOMAIN chain :
                  chain[a].maker \in DOMAIN chain /\ chain[chain[a].maker].task = chain[a].task
PoolsKnown == cmd.pool \in (DOMAIN chain) \cup {Unknown}
EntryGenuine == pc = "record" => Current \in Records /\ Genuine(Current, entry)
Settled == pc = "done" /\ quiet => Duplicates(ids) = expected

IInv == /\ TypeOK /\ OutputsGenuine /\ MakersKnown /\ PoolsKnown
        /\ RecordsGenuine /\ EntryGenuine /\ Settled

LEMMA ConstantsType ==
    /\ Factory \in Names /\ Pool \in Names /\ Token \in Names
    /\ Factory # Pool /\ Factory # Token /\ Pool # Token
    /\ TaskOrder \in Seq(Tasks) /\ TaskOrder # <<>> /\ TaskOrder[1] \in Tasks
    /\ Unknown \notin Addresses /\ NoEntry \in Entries /\ NoCommand \in Commands
<1>1. TaskOrder[1] \in Tasks
  BY ActionIdAssumption DEF Tasks
<1> QED BY <1>1, ActionIdAssumption DEF Names, Unknown, Addresses, NoEntry, Entries, NoCommand, Commands

\* What the program lists are names.
LEMMA ListedType ==
    ASSUME NEW S
    PROVE  Listed(S) \in Seq(Names)
<1>1. \A n \in Names : Only(n, S) \in Seq(Names)
  BY DEF Only
<1> QED BY <1>1, ConstantsType DEF Listed

\* The contracts are numbered as they are made.
LEMMA Numbered ==
    ASSUME TypeOK
    PROVE  /\ DOMAIN chain \subseteq Addresses
           /\ \A a \in DOMAIN chain : chain[a] \in Contracts
BY ActionIdAssumption DEF TypeOK, Addresses

LEMMA InitialInvariant == Init => IInv
<1> SUFFICES ASSUME Init PROVE IInv
  OBVIOUS
<1>1. chain \in Seq(Contracts) /\ Len(chain) = 1 /\ DOMAIN chain = {1}
      /\ chain[1] = [task |-> TaskOrder[1], name |-> Token, maker |-> 1]
  BY ConstantsType, ActionIdAssumption DEF Init, Contracts, Addresses
<1>2. \A t \in Tasks, n \in Names : output[t][n] \in {Unknown, 1}
      /\ (output[t][n] # Unknown => t = TaskOrder[1] /\ n = Token)
  BY ConstantsType DEF Init
<1>3. output \in [Tasks -> Outputs]
  <2>1. 1 \in Addresses
    BY ActionIdAssumption DEF Addresses
  <2> QED BY <2>1 DEF Init, Outputs, Unknown
<1>4. TypeOK
  <2>1. functions \in [Records -> SUBSET Functions] /\ builds \in 0 .. MaxBuilds
    BY ActionIdAssumption DEF Init, Records
  <2>2. ids \in [Records -> Entries]
    BY ConstantsType DEF Init
  <2>3. Len(chain) <= MaxContracts
    BY <1>1, ActionIdAssumption
  <2>4. expected \subseteq Collisions /\ fresh \subseteq Collisions
    BY DEF Init
  <2>5. cmd \in Commands /\ queue \in Seq(Tasks) /\ todo \in Seq(Names) /\ entry \in Entries
    BY ConstantsType DEF Init
  <2>6. quiet \in BOOLEAN /\ pc \in Labels
    BY DEF Init, Labels, Stopped
  <2>7. pc = "idle"
    BY DEF Init
  <2> QED
    BY <1>1, <1>3, <2>1, <2>2, <2>3, <2>4, <2>5, <2>6, <2>7 DEF TypeOK, Stopped
<1>5. OutputsGenuine /\ MakersKnown
  BY <1>1, <1>2 DEF OutputsGenuine, MakersKnown
<1>6. PoolsKnown /\ RecordsGenuine /\ EntryGenuine /\ Settled
  BY DEF Init, PoolsKnown, NoCommand, RecordsGenuine, EntryGenuine, Settled
<1> QED BY <1>4, <1>5, <1>6 DEF IInv

\* A command begins.
LEMMA BeginKeeps ==
    ASSUME IInv, NEW op \in {"save", "check"}, NEW label \in {"task", "calculate"},
           NEW tasks \in Seq(Tasks), tasks # <<>>, NEW names \in Seq(Names),
           NEW pool \in (DOMAIN chain) \cup {Unknown}, NEW scope \in SUBSET Tasks,
           Begin(op, label, tasks, names, pool, scope)
    PROVE  IInv'
<1>1. pool \in Addresses \cup {Unknown}
  BY Numbered DEF IInv
<1>2. cmd' \in Commands /\ cmd'.pool = pool
  <2>1. Head(tasks) \in Tasks
    OBVIOUS
  <2> QED BY <1>1, <2>1 DEF Begin, Commands
<1>3. TypeOK'
  BY <1>2, ConstantsType DEF IInv, TypeOK, Begin, world, files, Labels, Stopped
<1>4. (OutputsGenuine /\ MakersKnown /\ PoolsKnown /\ RecordsGenuine)'
  BY <1>2 DEF IInv, Begin, world, files, OutputsGenuine, MakersKnown, PoolsKnown, RecordsGenuine, Genuine
<1>5. EntryGenuine' /\ Settled'
  BY DEF Begin, EntryGenuine, Settled
<1> QED BY <1>3, <1>4, <1>5 DEF IInv

LEMMA FailKeeps == IInv /\ Fail => IInv'
<1> SUFFICES ASSUME IInv, Fail PROVE IInv'
  OBVIOUS
<1>1. TypeOK'
  BY ConstantsType DEF IInv, TypeOK, Fail, world, files, Labels, Stopped
<1>2. (OutputsGenuine /\ MakersKnown /\ PoolsKnown /\ RecordsGenuine)'
  BY DEF IInv, Fail, world, files, OutputsGenuine, MakersKnown, PoolsKnown, NoCommand, RecordsGenuine, Genuine
<1>3. EntryGenuine' /\ Settled'
  BY DEF Fail, EntryGenuine, Settled
<1> QED BY <1>1, <1>2, <1>3 DEF IInv

LEMMA BeginTaskKeeps == IInv /\ BeginTask => IInv'
<1> SUFFICES ASSUME IInv, BeginTask PROVE IInv'
  OBVIOUS
<1>1. Head(queue) \in Tasks /\ queue # <<>>
  BY DEF IInv, TypeOK, BeginTask, Stopped
<1>2. cmd' \in Commands /\ cmd'.pool = cmd.pool
  BY <1>1 DEF IInv, TypeOK, BeginTask, Commands
<1>3. todo' \in Seq(Names)
  BY ListedType DEF BeginTask, NamesOf
<1>4. pc' \in {"calculate", "compare"}
  BY DEF BeginTask
<1>5. TypeOK'
  BY <1>1, <1>2, <1>3, <1>4 DEF IInv, TypeOK, BeginTask, world, files, Labels, Stopped
<1>6. (OutputsGenuine /\ MakersKnown /\ PoolsKnown /\ RecordsGenuine)'
  BY <1>2 DEF IInv, BeginTask, world, files, OutputsGenuine, MakersKnown, PoolsKnown, RecordsGenuine, Genuine
<1>7. EntryGenuine' /\ Settled'
  BY <1>4 DEF EntryGenuine, Settled
<1> QED BY <1>5, <1>6, <1>7 DEF IInv

LEMMA EndTaskKeeps == IInv /\ EndTask => IInv'
<1> SUFFICES ASSUME IInv, EndTask PROVE IInv'
  OBVIOUS
<1>1. Tail(queue) \in Seq(Tasks) /\ queue # <<>>
  BY DEF IInv, TypeOK, EndTask, Stopped
<1>2. pc' \in {"task", "uniqueness"} /\ (pc' = "task" => queue' # <<>>)
  BY DEF EndTask, AfterTask
<1>3. TypeOK'
  BY <1>1, <1>2 DEF IInv, TypeOK, EndTask, world, files, Labels, Stopped
<1>4. (OutputsGenuine /\ MakersKnown /\ PoolsKnown /\ RecordsGenuine)'
  BY DEF IInv, EndTask, world, files, OutputsGenuine, MakersKnown, PoolsKnown, RecordsGenuine, Genuine
<1>5. EntryGenuine' /\ Settled'
  BY <1>2 DEF EntryGenuine, Settled
<1> QED BY <1>3, <1>4, <1>5 DEF IInv

\* What getActionIds returns is that of a contract of the task.
LEMMA CalculatedGenuine ==
    ASSUME IInv, NEW t \in Tasks, NEW n \in Names,
           NEW pool \in (DOMAIN chain) \cup {Unknown}, Calculable(<<t, n>>, pool)
    PROVE  /\ <<t, n>> \in Records
           /\ Calculated(<<t, n>>, pool) \in Entries
           /\ Calculated(<<t, n>>, pool).source # Unknown
           /\ Genuine(<<t, n>>, Calculated(<<t, n>>, pool))
<1> DEFINE contract == IF pool = Unknown THEN output[t][n] ELSE pool
<1>1. n \in {Factory, Pool} /\ <<t, n>> \in Records
  BY DEF Calculable, Names, Records
<1>2. contract \in DOMAIN chain /\ chain[contract].task = t /\ chain[contract].name = n
  <2>1. CASE pool = Unknown
    BY <2>1 DEF Calculable, SourceKnown, IInv, OutputsGenuine
  <2>2. CASE pool # Unknown
    <3>1. pool \in DOMAIN chain /\ n = Pool /\ chain[pool].name = Pool
          /\ output[t][Factory] # Unknown /\ chain[pool].maker = output[t][Factory]
      BY <2>2 DEF Calculable, SourceKnown, MadeByFactory
    <3>2. chain[output[t][Factory]].task = t
      BY <3>1, ConstantsType DEF IInv, OutputsGenuine
    <3>3. chain[pool].task = t
      BY <3>1, <3>2 DEF IInv, MakersKnown
    <3> QED BY <2>2, <3>1, <3>3
  <2> QED BY <2>1, <2>2
<1>3. chain[contract].maker \in Addresses /\ chain[contract].maker # Unknown
  BY <1>2, Numbered, ConstantsType DEF IInv, Contracts
<1>4. pool \in Addresses \cup {Unknown} /\ functions[<<t, n>>] \in SUBSET Functions
  BY <1>1, Numbered DEF IInv, TypeOK
<1>5. Calculated(<<t, n>>, pool) = [source |-> chain[contract].maker, pool |-> pool,
                                    functions |-> functions[<<t, n>>]]
  BY DEF Calculated
<1>6. Calculated(<<t, n>>, pool) \in Entries
  BY <1>3, <1>4, <1>5 DEF Entries
<1>7. Genuine(<<t, n>>, Calculated(<<t, n>>, pool))
  <2>1. pool \in {Unknown, contract}
    OBVIOUS
  <2> QED BY <1>2, <1>5, <2>1 DEF Genuine
<1> QED BY <1>1, <1>3, <1>5, <1>6, <1>7

LEMMA CalculateKeeps == IInv /\ Calculate => IInv'
<1> SUFFICES ASSUME IInv, Calculate PROVE IInv'
  OBVIOUS
<1>1. CASE ~Calculable(Current, cmd.pool)
  BY <1>1, FailKeeps DEF Calculate
<1>2. CASE Calculable(Current, cmd.pool)
  <2>1. PICK t \in Tasks, n \in Names : Current = <<t, n>> /\ todo # <<>>
    BY DEF IInv, TypeOK, Calculate, Current, Commands
  <2>2. PICK pool \in (DOMAIN chain) \cup {Unknown} : pool = cmd.pool
    BY DEF IInv, PoolsKnown
  <2>3. /\ Current \in Records /\ entry' \in Entries /\ entry'.source # Unknown
        /\ Genuine(Current, entry')
    BY <1>2, <2>1, <2>2, CalculatedGenuine DEF Calculate
  <2>4. UNCHANGED <<chain, output, functions, builds, ids, expected, fresh, cmd, queue, todo, quiet>>
        /\ pc = "calculate" /\ pc' = "record"
    BY <1>2 DEF Calculate, world, files
  <2>5. entry' # NoEntry
    BY <2>3 DEF NoEntry
  <2>6. TypeOK'
    BY <2>1, <2>3, <2>4, <2>5 DEF IInv, TypeOK, Labels, Stopped
  <2>7. (OutputsGenuine /\ MakersKnown /\ PoolsKnown /\ RecordsGenuine /\ Settled)'
    BY <2>4 DEF IInv, OutputsGenuine, MakersKnown, PoolsKnown, RecordsGenuine, Genuine, Settled
  <2>8. Current' = Current
    BY <2>4 DEF Current
  <2>9. EntryGenuine'
    BY <2>3, <2>4, <2>8 DEF EntryGenuine, Genuine
  <2> QED BY <2>6, <2>7, <2>9 DEF IInv
<1> QED BY <1>1, <1>2

LEMMA RecordKeeps == IInv /\ Record => IInv'
<1> SUFFICES ASSUME IInv, Record PROVE IInv'
  OBVIOUS
<1>1. Current \in Records /\ Genuine(Current, entry) /\ todo # <<>> /\ entry \in Entries
  BY DEF IInv, TypeOK, EntryGenuine, Record
<1>2. PICK r \in Records : r = Current
  BY <1>1
<1>3. UNCHANGED <<chain, output, functions, builds, expected, fresh, cmd, queue, quiet>>
      /\ pc = "record" /\ pc' = "calculate" /\ ids' = [ids EXCEPT ![r] = entry]
      /\ todo' = Tail(todo) /\ entry' = NoEntry
  BY <1>2 DEF Record, world
<1>4. Tail(todo) \in Seq(Names)
  BY <1>1 DEF IInv, TypeOK
<1>5. TypeOK'
  BY <1>1, <1>3, <1>4, ConstantsType DEF IInv, TypeOK, Labels, Stopped
<1>6. \A s \in Records : ids'[s] = IF s = r THEN entry ELSE ids[s]
  BY <1>3 DEF IInv, TypeOK
<1>7. RecordsGenuine'
  BY <1>1, <1>2, <1>3, <1>6 DEF IInv, RecordsGenuine, Genuine
<1>8. (OutputsGenuine /\ MakersKnown /\ PoolsKnown /\ EntryGenuine /\ Settled)'
  BY <1>3 DEF IInv, OutputsGenuine, MakersKnown, PoolsKnown, EntryGenuine, Settled
<1> QED BY <1>5, <1>7, <1>8 DEF IInv

LEMMA CompareKeeps == IInv /\ Compare => IInv'
<1> SUFFICES ASSUME IInv, Compare PROVE IInv'
  OBVIOUS
<1>1. CASE Fail
  BY <1>1, FailKeeps
<1>2. CASE ~Fail
  <2>1. UNCHANGED <<chain, output, functions, builds, ids, expected, fresh, pc, cmd, queue, entry, quiet>>
        /\ todo' = Tail(todo) /\ todo # <<>> /\ pc = "compare"
    BY <1>2 DEF Compare, world, files
  <2>2. Tail(todo) \in Seq(Names)
    BY <2>1 DEF IInv, TypeOK
  <2>3. TypeOK'
    BY <2>1, <2>2 DEF IInv, TypeOK
  <2>4. (OutputsGenuine /\ MakersKnown /\ PoolsKnown /\ RecordsGenuine /\ EntryGenuine /\ Settled)'
    BY <2>1 DEF IInv, OutputsGenuine, MakersKnown, PoolsKnown, RecordsGenuine, Genuine, EntryGenuine, Settled
  <2> QED BY <2>3, <2>4 DEF IInv
<1> QED BY <1>1, <1>2

LEMMA DuplicatesType == ASSUME TypeOK, RecordsGenuine PROVE Duplicates(ids) \subseteq Collisions
<1>1. SUFFICES ASSUME NEW r \in Records, NEW f \in ids[r].functions
               PROVE  <<ids[r].source, f, r>> \in Collisions
  BY DEF Duplicates, Instances
<1>2. ids[r] \in Entries
  BY DEF TypeOK
<1>3. f \in Functions /\ ids[r] # NoEntry
  BY <1>2 DEF Entries, NoEntry
<1>4. PICK a \in DOMAIN chain : chain[a].maker = ids[r].source
  BY <1>3 DEF RecordsGenuine, Genuine
<1>5. ids[r].source \in Addresses
  BY <1>4, Numbered DEF Contracts
<1> QED BY <1>3, <1>5 DEF Collisions

LEMMA CheckUniquenessKeeps == IInv /\ CheckUniqueness => IInv'
<1> SUFFICES ASSUME IInv, CheckUniqueness PROVE IInv'
  OBVIOUS
<1>1. UNCHANGED <<chain, output, functions, builds, ids, expected, queue, todo, entry, quiet>>
      /\ pc' \in {"done", "failed"} /\ (pc' = "done" => Duplicates(ids) = expected)
      /\ fresh' \in {fresh, Duplicates(ids)}
  BY DEF CheckUniqueness, world
<1>2. fresh' \subseteq Collisions
  BY <1>1, DuplicatesType DEF IInv, TypeOK
<1>3. cmd' \in Commands /\ cmd'.pool = Unknown
  BY ConstantsType DEF CheckUniqueness, IInv, TypeOK, Commands
<1>4. TypeOK'
  BY <1>1, <1>2, <1>3 DEF IInv, TypeOK, Labels, Stopped
<1>5. (OutputsGenuine /\ MakersKnown /\ PoolsKnown /\ RecordsGenuine /\ EntryGenuine)'
  BY <1>1, <1>3 DEF IInv, OutputsGenuine, MakersKnown, PoolsKnown, RecordsGenuine, Genuine, EntryGenuine
<1>6. Settled'
  BY <1>1 DEF Settled, Duplicates, Instances
<1> QED BY <1>4, <1>5, <1>6 DEF IInv

\* A contract is made, and perhaps published by its task.
LEMMA MadeKeeps ==
    ASSUME IInv, NEW t \in Tasks, NEW n \in Names, NEW maker \in 1 .. Len(chain) + 1,
           maker # Len(chain) + 1 => chain[maker].task = t,
           Len(chain) < MaxContracts,
           chain' = Append(chain, [task |-> t, name |-> n, maker |-> maker]),
           output' \in {output, [output EXCEPT ![t] = [output[t] EXCEPT ![n] = Len(chain) + 1]]},
           quiet' = FALSE, UNCHANGED <<files, command>>,
           UNCHANGED <<functions, builds>>
    PROVE  IInv'
<1>1. Len(chain) \in Nat /\ DOMAIN chain = 1 .. Len(chain) /\ Len(chain) + 1 \in Addresses
      /\ maker \in Addresses /\ chain \in Seq(Contracts)
  BY ActionIdAssumption DEF IInv, TypeOK, Addresses
<1>2. chain' \in Seq(Contracts) /\ Len(chain') <= MaxContracts
      /\ DOMAIN chain' = 1 .. Len(chain) + 1
  BY <1>1, ActionIdAssumption DEF Contracts
<1>3. /\ \A a \in DOMAIN chain : a \in DOMAIN chain' /\ chain'[a] = chain[a]
      /\ chain'[Len(chain) + 1] = [task |-> t, name |-> n, maker |-> maker]
      /\ DOMAIN chain' = (DOMAIN chain) \cup {Len(chain) + 1}
  BY <1>1, <1>2
<1>4. /\ output' \in [Tasks -> Outputs]
      /\ \A u \in Tasks, m \in Names : \/ output'[u][m] = output[u][m]
                                       \/ u = t /\ m = n /\ output'[u][m] = Len(chain) + 1
  <2>1. output \in [Tasks -> Outputs] /\ output[t] \in [Names -> Addresses \cup {Unknown}]
    BY DEF IInv, TypeOK, Outputs
  <2>2. CASE output' = output
    BY <2>1, <2>2
  <2>3. CASE output' = [output EXCEPT ![t] = [output[t] EXCEPT ![n] = Len(chain) + 1]]
    <3> DEFINE new == [output[t] EXCEPT ![n] = Len(chain) + 1]
    <3>1. new \in Outputs
      BY <1>1, <2>1 DEF Outputs
    <3>2. \A m \in Names : new[m] = IF m = n THEN Len(chain) + 1 ELSE output[t][m]
      BY <2>1
    <3> HIDE DEF new
    <3>3. output' = [output EXCEPT ![t] = new]
      BY <2>3 DEF new
    <3>4. \A u \in Tasks : output'[u] = IF u = t THEN new ELSE output[u]
      BY <2>1, <3>3
    <3> QED BY <2>1, <3>1, <3>2, <3>3, <3>4
  <2> QED BY <2>2, <2>3
<1>5. UNCHANGED <<functions, builds, ids, expected, fresh, pc, cmd, queue, todo, entry>>
  BY DEF files, command
<1>6. TypeOK'
  BY <1>2, <1>4, <1>5 DEF IInv, TypeOK
<1>7. OutputsGenuine'
  <2> SUFFICES ASSUME NEW u \in Tasks, NEW m \in Names, output'[u][m] # Unknown
               PROVE  /\ output'[u][m] \in DOMAIN chain'
                      /\ chain'[output'[u][m]].task = u /\ chain'[output'[u][m]].name = m
    BY DEF OutputsGenuine
  <2>1. CASE output'[u][m] = output[u][m]
    <3>1. PICK a \in DOMAIN chain : a = output[u][m] /\ chain[a].task = u /\ chain[a].name = m
      BY <2>1 DEF IInv, OutputsGenuine
    <3> QED BY <1>3, <2>1, <3>1
  <2>2. CASE u = t /\ m = n /\ output'[u][m] = Len(chain) + 1
    BY <1>3, <2>2
  <2> QED BY <1>4, <2>1, <2>2
<1>8. MakersKnown'
  <2>1. \A a \in DOMAIN chain : chain[a].maker \in DOMAIN chain
                                /\ chain[chain[a].maker].task = chain[a].task
    BY DEF IInv, MakersKnown
  <2>2. maker \in DOMAIN chain' /\ chain'[maker].task = t
    BY <1>1, <1>2, <1>3
  <2>3. SUFFICES ASSUME NEW a \in DOMAIN chain'
                 PROVE  chain'[a].maker \in DOMAIN chain' /\ chain'[chain'[a].maker].task = chain'[a].task
    BY DEF MakersKnown
  <2>4. CASE a \in DOMAIN chain
    <3>1. PICK b \in DOMAIN chain : b = chain[a].maker /\ chain[b].task = chain[a].task
      BY <2>1, <2>4
    <3> QED BY <1>3, <2>4, <3>1
  <2>5. CASE a = Len(chain) + 1
    <3>1. chain'[a].maker = maker /\ chain'[a].task = t
      BY <1>3, <2>5
    <3> QED BY <2>2, <3>1
  <2> QED BY <1>3, <2>4, <2>5
<1>9. PoolsKnown' /\ RecordsGenuine'
  BY <1>3, <1>5 DEF IInv, PoolsKnown, RecordsGenuine, Genuine
<1>10. EntryGenuine' /\ Settled'
  <2>1. Current' = Current
    BY <1>5 DEF Current
  <2> QED BY <1>3, <1>5, <2>1 DEF IInv, EntryGenuine, Genuine, Settled
<1> QED BY <1>6, <1>7, <1>8, <1>9, <1>10 DEF IInv

LEMMA DeployFactoryKeeps == ASSUME IInv, NEW t \in Tasks, DeployFactory(t) PROVE IInv'
<1>1. Len(chain) + 1 \in 1 .. Len(chain) + 1
  BY DEF IInv, TypeOK
<1> QED BY <1>1, MadeKeeps, ConstantsType DEF DeployFactory, Change

LEMMA CreatePoolKeeps ==
    ASSUME IInv, NEW factory \in Addresses, NEW published \in BOOLEAN,
           CreatePool(factory, published)
    PROVE  IInv'
<1>1. factory \in DOMAIN chain /\ chain[factory].task \in Tasks
  BY Numbered DEF IInv, CreatePool, Contracts
<1>2. PICK t \in Tasks : t = chain[factory].task
  BY <1>1
<1>3. factory \in 1 .. Len(chain) + 1
  BY <1>1 DEF IInv, TypeOK
<1>4. output' \in {output, [output EXCEPT ![t] = [output[t] EXCEPT ![Pool] = Len(chain) + 1]]}
  BY <1>2 DEF CreatePool
<1>5. /\ Len(chain) < MaxContracts /\ quiet' = FALSE /\ UNCHANGED <<files, command>>
      /\ UNCHANGED <<functions, builds>>
      /\ chain' = Append(chain, [task |-> t, name |-> Pool, maker |-> factory])
  BY <1>2 DEF CreatePool, Change
<1> QED BY <1>2, <1>3, <1>4, <1>5, MadeKeeps, ConstantsType

\* The other changes leave contracts, outputs and records alone.
LEMMA OtherChangesKeep ==
    ASSUME IInv, \/ \E r \in Records, fs \in SUBSET Functions : Recompile(r, fs)
                 \/ AcceptCollisions \/ UNCHANGED vars
    PROVE  IInv'
<1>1. /\ UNCHANGED <<chain, output, ids, pc, cmd, queue, todo, entry>>
      /\ quiet' = FALSE \/ UNCHANGED <<expected, quiet>>
  BY DEF Recompile, AcceptCollisions, Change, world, files, command, vars
<1>2. functions' \in [Records -> SUBSET Functions] /\ builds' \in 0 .. MaxBuilds
  <2>1. CASE \E r \in Records, fs \in SUBSET Functions : Recompile(r, fs)
    BY <2>1, ActionIdAssumption DEF Recompile, IInv, TypeOK
  <2>2. CASE AcceptCollisions \/ UNCHANGED vars
    BY <2>2 DEF AcceptCollisions, world, vars, IInv, TypeOK
  <2> QED BY <2>1, <2>2
<1>3. quiet' \in BOOLEAN
      /\ expected' \subseteq Collisions /\ fresh' \subseteq Collisions
  BY DEF Recompile, AcceptCollisions, Change, world, files, vars, IInv, TypeOK
<1>4. TypeOK'
  BY <1>1, <1>2, <1>3 DEF IInv, TypeOK
<1>5. (OutputsGenuine /\ MakersKnown /\ PoolsKnown /\ RecordsGenuine)'
  BY <1>1 DEF IInv, OutputsGenuine, MakersKnown, PoolsKnown, RecordsGenuine, Genuine
<1>6. Current' = Current
  BY <1>1 DEF Current
<1>7. EntryGenuine' /\ Settled'
  BY <1>1, <1>6 DEF IInv, EntryGenuine, Genuine, Settled, Duplicates, Instances
<1> QED BY <1>4, <1>5, <1>7 DEF IInv

LEMMA CommandsKeep ==
    ASSUME IInv, \/ \E t \in Tasks, n \in Names : SaveContract(t, n)
                 \/ \E t \in Tasks, n \in Names, pool \in Addresses : SavePool(t, n, pool)
                 \/ \E t \in Tasks : SaveTask(t) \/ CheckTask(t)
                 \/ SaveAll \/ CheckAll
    PROVE  IInv'
<1>1. CASE \E t \in Tasks, n \in Names : SaveContract(t, n)
  <2>1. PICK t \in Tasks, n \in Names : SaveContract(t, n)
    BY <1>1
  <2>2. <<t>> \in Seq(Tasks) /\ <<t>> # <<>> /\ <<n>> \in Seq(Names) /\ {t} \in SUBSET Tasks
    OBVIOUS
  <2> QED BY <2>1, <2>2, BeginKeeps DEF SaveContract
<1>2. CASE \E t \in Tasks, n \in Names, pool \in Addresses : SavePool(t, n, pool)
  <2>1. PICK t \in Tasks, n \in Names, pool \in Addresses : SavePool(t, n, pool)
    BY <1>2
  <2>2. <<t>> \in Seq(Tasks) /\ <<t>> # <<>> /\ <<n>> \in Seq(Names) /\ {t} \in SUBSET Tasks
    OBVIOUS
  <2> QED BY <2>1, <2>2, BeginKeeps DEF SavePool
<1>3. CASE \E t \in Tasks : SaveTask(t) \/ CheckTask(t)
  <2>1. PICK t \in Tasks : SaveTask(t) \/ CheckTask(t)
    BY <1>3
  <2>2. <<t>> \in Seq(Tasks) /\ <<t>> # <<>> /\ <<>> \in Seq(Names) /\ {t} \in SUBSET Tasks
    OBVIOUS
  <2> QED BY <2>1, <2>2, BeginKeeps DEF SaveTask, CheckTask
<1>4. CASE SaveAll \/ CheckAll
  <2>1. <<>> \in Seq(Names) /\ Tasks \in SUBSET Tasks
    OBVIOUS
  <2> QED BY <1>4, <2>1, BeginKeeps, ConstantsType DEF SaveAll, CheckAll
<1> QED BY <1>1, <1>2, <1>3, <1>4

\* Every step keeps the invariant.
THEOREM Inductive == Spec => []IInv
<1>1. IInv /\ [Next]_vars => IInv'
  <2> SUFFICES ASSUME IInv, [Next]_vars PROVE IInv'
    OBVIOUS
  <2>1. CASE Step
    BY <2>1, BeginTaskKeeps, EndTaskKeeps, CalculateKeeps, RecordKeeps, CompareKeeps,
       CheckUniquenessKeeps DEF Step
  <2>2. CASE Kill
    BY <2>2, FailKeeps DEF Kill
  <2>3. CASE \E t \in Tasks : DeployFactory(t)
    BY <2>3, DeployFactoryKeeps
  <2>4. CASE \E factory \in Addresses, published \in BOOLEAN : CreatePool(factory, published)
    BY <2>4, CreatePoolKeeps
  <2> QED BY <2>1, <2>2, <2>3, <2>4, OtherChangesKeep, CommandsKeep DEF Next
<1> QED BY <1>1, InitialInvariant, PTL DEF Spec

\* The types of everything the commands keep.
THEOREM TypeCorrect == Spec => []TypeOK
<1>1. IInv => TypeOK
  BY DEF IInv
<1> QED BY <1>1, Inductive, PTL

\* Whatever addresses are given to save-action-ids, and however its calls mix with
\* deployments, it records only identifiers of contracts of the task, under their
\* names.
THEOREM RecordsAreGenuine == Spec => []RecordsGenuine
<1>1. IInv => RecordsGenuine
  BY DEF IInv
<1> QED BY <1>1, Inductive, PTL

\* A command that passes leaves only collisions that were accepted.
THEOREM CollisionsAreAccepted == Spec => []CollisionsAccepted
<1>1. IInv => CollisionsAccepted
  <2> SUFFICES ASSUME IInv, pc = "done", quiet, NEW r \in Records, NEW s \in Records,
                      NEW f \in ids[r].functions \cap ids[s].functions,
                      r # s, ids[r].source = ids[s].source
               PROVE  Accepted(ids[r].source, f, r) /\ Accepted(ids[r].source, f, s)
    BY DEF CollisionsAccepted
  <2> DEFINE i == <<ids[r].source, f, r>>
             j == <<ids[s].source, f, s>>
  <2>1. i \in Instances(ids) /\ j \in Instances(ids)
    BY DEF Instances
  <2>2. Shares(i, j) /\ Shares(j, i)
    BY DEF Shares
  <2>3. i \in Duplicates(ids) /\ j \in Duplicates(ids)
    BY <2>1, <2>2 DEF Duplicates
  <2>4. Duplicates(ids) = expected
    BY DEF IInv, Settled
  <2> QED BY <2>3, <2>4 DEF Accepted
<1> QED BY <1>1, Inductive, PTL

-----------------------------------------------------------------------------
\* A check goes through the tasks of its scope and the contracts recorded for
\* each.  While nothing else changes, a recorded contract is as recorded or has
\* still to be compared.
Elements(s) == {s[i] : i \in DOMAIN s}
Agreeing(r) == AskedNow(r) \subseteq Recorded(r)
Pending(r) == \/ pc = "task" /\ r[1] \in Elements(queue)
              \/ pc = "compare" /\ r[1] \in Elements(Tail(queue))
              \/ pc = "compare" /\ r[1] = cmd.task /\ r[2] \in Elements(todo)

RightPhase == /\ pc \in {"calculate", "record"} => cmd.op = "save"
              /\ pc = "task" => cmd.op \in {"save", "check"}
              /\ pc = "compare" => cmd.op = "check" /\ cmd.task = Head(queue)
ComparedSoFar ==
    cmd.op = "check" /\ quiet /\ pc \in {"task", "compare", "uniqueness", "done"} =>
        \A r \in Records : r[1] \in cmd.scope /\ ids[r] # NoEntry => Agreeing(r) \/ Pending(r)
Progress == RightPhase /\ ComparedSoFar

\* The first element of a sequence and the others.
LEMMA Split ==
    ASSUME NEW S, NEW q \in Seq(S), q # <<>>
    PROVE  Elements(q) = {Head(q)} \cup Elements(Tail(q))
<1>1. Head(q) = q[1] /\ Len(q) \in Nat /\ Len(q) >= 1 /\ 1 \in DOMAIN q
  OBVIOUS
<1>2. \A i \in DOMAIN Tail(q) : i + 1 \in DOMAIN q /\ Tail(q)[i] = q[i + 1]
  OBVIOUS
<1>3. \A i \in DOMAIN q : i = 1 \/ (i - 1 \in DOMAIN Tail(q) /\ q[i] = Tail(q)[i - 1])
  OBVIOUS
<1>4. \A i \in DOMAIN q : q[i] \in {Head(q)} \cup Elements(Tail(q))
  BY <1>1, <1>3 DEF Elements
<1>5. Head(q) \in Elements(q)
  BY <1>1 DEF Elements
<1>6. \A i \in DOMAIN Tail(q) : Tail(q)[i] \in Elements(q)
  BY <1>2 DEF Elements
<1>7. Elements(q) \subseteq {Head(q)} \cup Elements(Tail(q))
  BY <1>4 DEF Elements
<1>8. Elements(Tail(q)) \subseteq Elements(q)
  BY <1>6 DEF Elements
<1> QED BY <1>5, <1>7, <1>8

\* The contracts listed for a task are all that are recorded.
LEMMA ListedAll ==
    ASSUME NEW S, NEW n \in {Factory, Pool}, n \in S
    PROVE  n \in Elements(Listed(S))
<1>1. /\ Only(Token, S) \in Seq(Names) /\ Only(Factory, S) \in Seq(Names)
      /\ Only(Pool, S) \in Seq(Names)
  BY ConstantsType DEF Only
<1> PICK x \in Seq(Names) : x = Only(Token, S)
  BY <1>1
<1> PICK y \in Seq(Names) : y = Only(Factory, S)
  BY <1>1
<1> PICK z \in Seq(Names) : z = Only(Pool, S)
  BY <1>1
<1>2. Listed(S) = (x \o y) \o z
  BY DEF Listed
<1>3. CASE n = Factory
  <2>1. y = <<n>>
    BY <1>3 DEF Only
  <2>2. Len(x) + 1 \in DOMAIN (x \o y) /\ (x \o y)[Len(x) + 1] = n
    BY <2>1
  <2>3. Len(x) + 1 \in DOMAIN ((x \o y) \o z) /\ ((x \o y) \o z)[Len(x) + 1] = n
    BY <2>2
  <2> QED BY <1>2, <2>3 DEF Elements
<1>4. CASE n = Pool
  <2>1. z = <<n>>
    BY <1>4 DEF Only
  <2>2. PICK w \in Seq(Names) : w = x \o y
    <3>1. x \o y \in Seq(Names)
      OBVIOUS
    <3> QED BY <3>1
  <2>3. Len(w) + 1 \in DOMAIN (w \o z) /\ (w \o z)[Len(w) + 1] = n
    BY <2>1
  <2> QED BY <1>2, <2>2, <2>3 DEF Elements
<1> QED BY <1>3, <1>4

\* What does not touch the program, or ends it, is no step of a check.
LEMMA DisturbanceProgress ==
    ASSUME Progress,
           \/ quiet' = FALSE /\ UNCHANGED <<pc, cmd, queue>>
           \/ Fail
           \/ UNCHANGED vars
    PROVE  Progress'
<1>1. CASE quiet' = FALSE /\ UNCHANGED <<pc, cmd, queue>>
  BY <1>1 DEF Progress, RightPhase, ComparedSoFar
<1>2. CASE Fail
  BY <1>2 DEF Fail, Progress, RightPhase, ComparedSoFar, NoCommand
<1>3. CASE UNCHANGED vars
  BY <1>3 DEF vars, world, files, command, Progress, RightPhase, ComparedSoFar, Agreeing, AskedNow, Recorded, Pending
<1> QED BY <1>1, <1>2, <1>3

LEMMA BeginsProgress ==
    ASSUME \/ \E t \in Tasks, n \in Names : SaveContract(t, n)
           \/ \E t \in Tasks, n \in Names, pool \in Addresses : SavePool(t, n, pool)
           \/ \E t \in Tasks : SaveTask(t) \/ CheckTask(t)
           \/ SaveAll \/ CheckAll
    PROVE  Progress'
<1>1. CASE cmd'.op = "save" /\ pc' \in {"calculate", "task"}
  BY <1>1 DEF Progress, RightPhase, ComparedSoFar
<1>2. CASE cmd'.op = "check" /\ pc' = "task" /\ cmd'.scope \subseteq Elements(queue')
  BY <1>2 DEF Progress, RightPhase, ComparedSoFar, Pending
<1>3. ASSUME NEW t \in Tasks, CheckTask(t) PROVE cmd'.scope \subseteq Elements(queue')
  <2>1. cmd'.scope = {t} /\ queue' = <<t>>
    BY <1>3 DEF CheckTask, Begin
  <2>2. 1 \in DOMAIN <<t>> /\ <<t>>[1] = t
    OBVIOUS
  <2> QED BY <2>1, <2>2 DEF Elements
<1>4. CheckAll => cmd'.scope \subseteq Elements(queue')
  BY DEF CheckAll, Begin, Elements, Tasks
<1>5. \/ cmd'.op = "save" /\ pc' \in {"calculate", "task"}
      \/ cmd'.op = "check" /\ pc' = "task" /\ cmd'.scope \subseteq Elements(queue')
  <2>1. ASSUME NEW op, NEW label, NEW tasks, NEW names, NEW pool, NEW scope,
               Begin(op, label, tasks, names, pool, scope)
        PROVE  cmd'.op = op /\ pc' = label
    BY <2>1 DEF Begin
  <2>2. CASE \E t \in Tasks, n \in Names : SaveContract(t, n)
    BY <2>1, <2>2 DEF SaveContract
  <2>3. CASE \E t \in Tasks, n \in Names, pool \in Addresses : SavePool(t, n, pool)
    BY <2>1, <2>3 DEF SavePool
  <2>4. CASE SaveAll \/ CheckAll
    BY <1>4, <2>1, <2>4 DEF SaveAll, CheckAll
  <2>5. CASE \E t \in Tasks : SaveTask(t) \/ CheckTask(t)
    BY <1>3, <2>1, <2>5 DEF SaveTask, CheckTask
  <2> QED BY <2>2, <2>3, <2>4, <2>5
<1> QED BY <1>1, <1>2, <1>5

LEMMA BeginTaskProgress == IInv /\ Progress /\ BeginTask => Progress'
<1> SUFFICES ASSUME IInv, Progress, BeginTask PROVE Progress'
  OBVIOUS
<1>1. queue \in Seq(Tasks) /\ queue # <<>> /\ pc = "task"
  BY DEF IInv, TypeOK, BeginTask, Stopped
<1>2. /\ UNCHANGED <<chain, output, functions, ids, queue, quiet>>
      /\ cmd'.op = cmd.op /\ cmd'.scope = cmd.scope /\ cmd'.task = Head(queue)
      /\ todo' = NamesOf(Head(queue))
      /\ pc' = IF cmd.op = "save" THEN "calculate" ELSE "compare"
  BY DEF BeginTask, world, files
<1>3. CASE cmd.op = "save"
  BY <1>2, <1>3 DEF Progress, RightPhase, ComparedSoFar
<1>4. CASE cmd.op # "save"
  <2>1. cmd.op = "check" /\ pc' = "compare" /\ RightPhase'
    BY <1>1, <1>2, <1>4 DEF Progress, RightPhase
  <2>2. ASSUME quiet, NEW r \in Records, r[1] \in cmd.scope, ids[r] # NoEntry
        PROVE  Agreeing(r) \/ Pending(r)'
    <3>1. CASE Agreeing(r)
      BY <3>1
    <3>2. CASE r[1] \in Elements(Tail(queue))
      BY <1>2, <2>1, <3>2 DEF Pending
    <3>3. CASE r[1] = Head(queue)
      <4>1. PICK n \in {Factory, Pool} : r[2] = n /\ r = <<Head(queue), n>>
        BY <3>3 DEF Records
      <4>2. NamesOf(Head(queue)) = Listed({m \in {Factory, Pool} : ids[<<Head(queue), m>>] # NoEntry})
        BY <1>4 DEF NamesOf
      <4>3. n \in Elements(todo')
        BY <1>2, <2>2, <4>1, <4>2, ListedAll
      <4> QED BY <1>2, <2>1, <3>3, <4>1, <4>3 DEF Pending
    <3>4. Agreeing(r) \/ r[1] \in Elements(queue)
      BY <1>1, <2>1, <2>2 DEF Progress, ComparedSoFar, Pending
    <3> QED BY <1>1, <3>1, <3>2, <3>3, <3>4, Split
  <2>3. \A r \in Records : Agreeing(r)' <=> Agreeing(r)
    BY <1>2 DEF Agreeing, AskedNow, Recorded
  <2> QED BY <1>2, <2>1, <2>2, <2>3 DEF Progress, ComparedSoFar
<1> QED BY <1>3, <1>4

LEMMA EndTaskProgress == IInv /\ Progress /\ EndTask => Progress'
<1> SUFFICES ASSUME IInv, Progress, EndTask PROVE Progress'
  OBVIOUS
<1>1. /\ UNCHANGED <<chain, output, functions, ids, cmd, quiet>>
      /\ pc \in {"calculate", "compare"} /\ todo = <<>> /\ queue' = Tail(queue)
      /\ pc' = AfterTask(Tail(queue))
  BY DEF EndTask, world, files
<1>2. RightPhase' /\ pc' \in {"task", "uniqueness"}
  BY <1>1 DEF Progress, RightPhase, AfterTask
<1>3. ASSUME cmd.op = "check", quiet, NEW r \in Records, r[1] \in cmd.scope, ids[r] # NoEntry
      PROVE  Agreeing(r) \/ Pending(r)'
  <2>1. pc = "compare"
    BY <1>1, <1>3 DEF Progress, RightPhase
  <2>2. Elements(<<>>) = {}
    BY DEF Elements
  <2>3. Agreeing(r) \/ r[1] \in Elements(Tail(queue))
    BY <1>1, <1>3, <2>1, <2>2 DEF Progress, ComparedSoFar, Pending
  <2>4. Tail(queue) # <<>> => pc' = "task"
    BY <1>1 DEF AfterTask
  <2> QED BY <1>1, <2>2, <2>3, <2>4 DEF Pending
<1>4. \A r \in Records : Agreeing(r)' <=> Agreeing(r)
  BY <1>1 DEF Agreeing, AskedNow, Recorded
<1> QED BY <1>1, <1>2, <1>3, <1>4 DEF Progress, ComparedSoFar

LEMMA CompareProgress == IInv /\ Progress /\ Compare => Progress'
<1> SUFFICES ASSUME IInv, Progress, Compare PROVE Progress'
  OBVIOUS
<1>1. CASE Fail
  BY <1>1, DisturbanceProgress
<1>2. CASE ~Fail
  <2>1. /\ UNCHANGED <<chain, output, functions, ids, pc, cmd, queue, quiet>>
        /\ todo' = Tail(todo) /\ todo # <<>> /\ todo \in Seq(Names) /\ pc = "compare"
        /\ Calculable(Current, ids[Current].pool)
        /\ Agrees(ids[Current], Calculated(Current, ids[Current].pool))
    BY <1>2 DEF Compare, world, files, IInv, TypeOK
  <2>2. RightPhase'
    BY <2>1 DEF Progress, RightPhase
  <2>3. ASSUME quiet, NEW r \in Records, r[1] \in cmd.scope, ids[r] # NoEntry
        PROVE  Agreeing(r) \/ Pending(r)'
    <3>1. CASE Agreeing(r)
      BY <3>1
    <3>2. CASE r[1] \in Elements(Tail(queue)) \/ (r[1] = cmd.task /\ r[2] \in Elements(todo'))
      BY <2>1, <3>2 DEF Pending
    <3>3. CASE r[1] = cmd.task /\ r[2] = Head(todo)
      <4>1. r = Current
        BY <3>3 DEF Current, Records
      <4>2. \A f \in functions[r] : /\ f \in ids[r].functions
                                    /\ ids[r].source = Calculated(r, ids[r].pool).source
        BY <2>1, <4>1 DEF Agrees, Calculated
      <4> QED BY <4>2 DEF Agreeing, AskedNow, Recorded, Calculated
    <3>4. Elements(todo) = {Head(todo)} \cup Elements(todo')
      BY <2>1, Split
    <3>5. cmd.op = "check"
      BY <2>1 DEF Progress, RightPhase
    <3>6. Agreeing(r) \/ Pending(r)
      BY <2>1, <2>3, <3>5 DEF Progress, ComparedSoFar
    <3> QED BY <2>1, <3>1, <3>2, <3>3, <3>4, <3>6 DEF Pending
  <2>4. \A r \in Records : Agreeing(r)' <=> Agreeing(r)
    BY <2>1 DEF Agreeing, AskedNow, Recorded
  <2> QED BY <2>1, <2>2, <2>3, <2>4 DEF Progress, ComparedSoFar
<1> QED BY <1>1, <1>2

\* Saving is no check; the check of collisions leaves what was compared alone.
LEMMA OtherStepsProgress ==
    IInv /\ Progress /\ (Calculate \/ Record \/ CheckUniqueness) => Progress'
<1> SUFFICES ASSUME IInv, Progress PROVE Calculate \/ Record \/ CheckUniqueness => Progress'
  OBVIOUS
<1>1. ASSUME Calculate PROVE Progress'
  <2>1. CASE Fail
    BY <2>1, DisturbanceProgress
  <2>2. CASE ~Fail
    BY <1>1, <2>2 DEF Calculate, Progress, RightPhase, ComparedSoFar
  <2> QED BY <2>1, <2>2
<1>2. ASSUME Record PROVE Progress'
  BY <1>2 DEF Record, Progress, RightPhase, ComparedSoFar
<1>3. ASSUME CheckUniqueness PROVE Progress'
  <2>1. /\ UNCHANGED <<chain, output, functions, ids, quiet>>
        /\ cmd'.op = cmd.op /\ cmd'.scope = cmd.scope
        /\ pc = "uniqueness" /\ pc' \in {"done", "failed"}
    BY <1>3 DEF CheckUniqueness, world
  <2>2. \A r \in Records : Agreeing(r)' <=> Agreeing(r)
    BY <2>1 DEF Agreeing, AskedNow, Recorded
  <2>3. \A r \in Records : ~Pending(r)
    BY <2>1 DEF Pending
  <2> QED BY <2>1, <2>2, <2>3 DEF Progress, RightPhase, ComparedSoFar
<1> QED BY <1>1, <1>2, <1>3

\* While build-info is what it was at first, so are the functions recorded.
Original ==
    builds = 0 =>
        /\ functions = FirstBuilds
        /\ \A r \in Records : ids[r] # NoEntry => ids[r].functions = FirstBuilds[r]
        /\ pc = "record" => entry.functions = FirstBuilds[Current]

LEMMA OriginalKept == IInv /\ Original /\ [Next]_vars => Original'
<1> SUFFICES ASSUME IInv, Original, [Next]_vars PROVE Original'
  OBVIOUS
<1>1. CASE \E r \in Records, fs \in SUBSET Functions : Recompile(r, fs)
  <2>1. builds' = builds + 1 /\ builds \in Nat
    BY <1>1 DEF Recompile, IInv, TypeOK
  <2> QED BY <2>1 DEF Original
<1>2. CASE Calculate
  <2>1. CASE Fail
    BY <2>1 DEF Fail, world, files, Original
  <2>2. CASE ~Fail
    <3>1. /\ UNCHANGED <<functions, builds, ids, cmd, todo>>
          /\ entry'.functions = functions[Current]
      BY <1>2, <2>2 DEF Calculate, Calculated, world, files
    <3> QED BY <3>1 DEF Original, Current
  <2> QED BY <2>1, <2>2
<1>3. CASE Record
  <2>1. PICK r \in Records : r = Current
    BY <1>3 DEF IInv, EntryGenuine, Record
  <2>2. /\ UNCHANGED <<functions, builds>> /\ pc = "record" /\ pc' = "calculate"
        /\ \A s \in Records : ids'[s] = IF s = r THEN entry ELSE ids[s]
    BY <1>3, <2>1 DEF Record, world, IInv, TypeOK
  <2> QED BY <2>1, <2>2 DEF Original
<1>4. CASE UNCHANGED <<functions, builds, ids>> /\ pc' # "record"
  BY <1>4 DEF Original
<1>5. CASE UNCHANGED <<functions, builds, ids, pc, entry, cmd, todo>>
  BY <1>5 DEF Original, Current
<1>6. CASE Step \/ Kill
  <2>1. CASE BeginTask \/ EndTask \/ CheckUniqueness \/ Fail
    <3>1. UNCHANGED <<functions, builds, ids>> /\ pc' # "record"
      BY <2>1 DEF BeginTask, EndTask, CheckUniqueness, Fail, AfterTask, world, files, Stopped
    <3> QED BY <1>4, <3>1
  <2>2. CASE Compare /\ ~Fail
    <3>1. UNCHANGED <<functions, builds, ids, pc>> /\ pc = "compare"
      BY <2>2 DEF Compare, world, files
    <3> QED BY <1>4, <3>1
  <2> QED BY <1>2, <1>3, <1>6, <2>1, <2>2 DEF Step, Kill
<1>7. CASE \/ \E t \in Tasks : DeployFactory(t)
           \/ \E f \in Addresses, published \in BOOLEAN : CreatePool(f, published)
           \/ AcceptCollisions \/ UNCHANGED vars
  <2>1. UNCHANGED <<functions, builds, ids, pc, entry, cmd, todo>>
    BY <1>7 DEF DeployFactory, CreatePool, AcceptCollisions, Change, world, files, command, vars
  <2> QED BY <1>5, <2>1
<1>8. ASSUME NEW op, NEW label \in {"task", "calculate"}, NEW tasks, NEW names, NEW pool, NEW scope,
             Begin(op, label, tasks, names, pool, scope)
      PROVE  Original'
  BY <1>4, <1>8 DEF Begin, world, files
<1>9. CASE \/ \E t \in Tasks, n \in Names : SaveContract(t, n)
           \/ \E t \in Tasks, n \in Names, pool \in Addresses : SavePool(t, n, pool)
           \/ \E t \in Tasks : SaveTask(t) \/ CheckTask(t)
           \/ SaveAll \/ CheckAll
  <2>1. CASE \E t \in Tasks, n \in Names : SaveContract(t, n)
    BY <1>8, <2>1 DEF SaveContract
  <2>2. CASE \E t \in Tasks, n \in Names, pool \in Addresses : SavePool(t, n, pool)
    BY <1>8, <2>2 DEF SavePool
  <2>3. CASE \E t \in Tasks : SaveTask(t) \/ CheckTask(t)
    BY <1>8, <2>3 DEF SaveTask, CheckTask
  <2>4. CASE SaveAll \/ CheckAll
    BY <1>8, <2>4 DEF SaveAll, CheckAll
  <2> QED BY <1>9, <2>1, <2>2, <2>3, <2>4
<1> QED BY <1>1, <1>6, <1>7, <1>9 DEF Next

\* A check that passes while nothing changes has found every identifier that the
\* contracts of its tasks have now, in however many files and commands they were
\* recorded; what is recorded beyond those comes from a change of build-info.
THEOREM RecordsAreComplete == Spec => []RecordsComplete
<1>1. Init => Progress
  BY DEF Init, NoCommand, Progress, RightPhase, ComparedSoFar
<1>2. IInv /\ Progress /\ [Next]_vars => Progress'
  <2> SUFFICES ASSUME IInv, Progress, [Next]_vars PROVE Progress'
    OBVIOUS
  <2>1. CASE Step
    BY <2>1, BeginTaskProgress, EndTaskProgress, CompareProgress, OtherStepsProgress DEF Step
  <2>2. CASE Kill \/ UNCHANGED vars
    BY <2>2, DisturbanceProgress DEF Kill
  <2>3. ASSUME \/ \E t \in Tasks : DeployFactory(t)
               \/ \E factory \in Addresses, published \in BOOLEAN : CreatePool(factory, published)
               \/ \E r \in Records, fs \in SUBSET Functions : Recompile(r, fs)
               \/ AcceptCollisions
        PROVE  quiet' = FALSE /\ UNCHANGED <<pc, cmd, queue>>
    BY <2>3 DEF DeployFactory, CreatePool, Recompile, AcceptCollisions, Change, command
  <2> QED BY <2>1, <2>2, <2>3, DisturbanceProgress, BeginsProgress DEF Next
<1>3. Init => Original
  BY DEF Init, Original
<1>4. ASSUME Progress, Original, pc = "done", cmd.op = "check", quiet,
             NEW r \in Records, r[1] \in cmd.scope, ids[r] # NoEntry
      PROVE  AskedNow(r) \subseteq Recorded(r) /\ (builds = 0 => Recorded(r) \subseteq AskedNow(r))
  <2> DEFINE a == IF ids[r].pool = Unknown THEN output[r[1]][r[2]] ELSE ids[r].pool
  <2>1. AskedNow(r) \subseteq Recorded(r)
    BY <1>4 DEF Progress, ComparedSoFar, Agreeing, Pending
  <2>2. ASSUME builds = 0, NEW f \in ids[r].functions
        PROVE  <<ids[r].source, f>> \in AskedNow(r)
    <3>1. f \in functions[r]
      BY <1>4, <2>2 DEF Original
    <3>2. <<chain[a].maker, f>> \in AskedNow(r)
      BY <3>1 DEF AskedNow
    <3>3. PICK g \in ids[r].functions : <<chain[a].maker, f>> = <<ids[r].source, g>>
      BY <2>1, <3>2 DEF Recorded
    <3> QED BY <3>2, <3>3
  <2> QED BY <2>1, <2>2 DEF Recorded
<1>5. Progress /\ Original => RecordsComplete
  BY <1>4 DEF RecordsComplete
<1> QED BY <1>1, <1>2, <1>3, <1>5, OriginalKept, Inductive, PTL DEF Spec
=============================================================================
