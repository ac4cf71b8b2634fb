--------------------------- MODULE DeploymentTask ---------------------------
(***************************************************************************)
(* Deployment tasks: a run deploys the contracts of its task one after the *)
(* other, skipping those the task's output file already names, and then    *)
(* creates a pool with the deployed factory.  The arguments come from the  *)
(* task's own input and from the outputs of other tasks.  Two files record *)
(* what was done: the output file of the task and one file of transaction  *)
(* hashes per network.  They are updated by reading the file, adding an    *)
(* entry and writing it back; a run may stop anywhere, and is run again.   *)
(*                                                                         *)
(* An address stands for the contract deployed at it, and for the hash of  *)
(* the transaction that deployed it.                                       *)
(***************************************************************************)
EXTENDS Naturals, Sequences

CONSTANTS Runners,    \* processes
          TaskOrder,  \* the tasks, in the order of their identifiers
          Needs,      \* [Tasks -> SUBSET (Tasks \X Names)]: inputs of other tasks
          Factory,    \* the contract deployed in every mode
          Others,     \* sequence of the contracts a live run deploys then
          Pool,       \* the pool it creates last, with the factory
          Inputs,     \* versions of input.ts
          Builds,     \* versions of build-info
          Modes,      \* modes in use
          Forces,     \* values of --force in use
          MaxDeploys  \* bound on deployments

AllModes == {"LIVE", "TEST", "CHECK", "READ_ONLY"}
Tasks == {TaskOrder[i] : i \in DOMAIN TaskOrder}
Contracts == <<Factory>> \o Others
Names == {Contracts[i] : i \in DOMAIN Contracts} \cup {Pool}
Addresses == 1 .. MaxDeploys
Unknown == 0

ASSUME DeploymentAssumption ==
    /\ TaskOrder \in Seq(Tasks) /\ TaskOrder # <<>>
    /\ Needs \in [Tasks -> SUBSET (Tasks \X Names)]
    /\ Others \in Seq(Names)
    /\ \A i \in DOMAIN Contracts : Contracts[i] # Pool
    /\ \A i \in DOMAIN Others : Others[i] # Factory
    /\ Modes \subseteq AllModes /\ Forces \subseteq BOOLEAN
    /\ Inputs # {} /\ Builds # {}
    /\ MaxDeploys \in Nat

VARIABLES chain,    \* deployed contracts: [task, name, code, args, factory, live]
          file,     \* output/<network>.json and output/test.json of each task
          txs,      \* deployment-txs/<network>.json: addresses with a hash
          input,    \* [Tasks -> Inputs]
          build,    \* [Tasks -> Builds]
          pc, job,  \* of each process: where it is; task, mode, force, arguments
          todo,     \* the contracts it has still to deploy or check
          queue,    \* the tasks check-deployments has still to look at
          factory,  \* the factory it has deployed or found
          mem,      \* the address it has just made, and the file it has read
          quiet     \* history: the processes since the start of whose check
                    \* no output, input or build-info has changed

files == <<file, txs, input, build>>
process == <<pc, job, todo, queue, factory, mem>>
vars == <<chain, file, txs, input, build, pc, job, todo, queue, factory, mem, quiet>>

Files == Tasks \X {"network", "test"}
Nowhere == [n \in Names |-> Unknown]
NoMemory == [made |-> Unknown, seen |-> Nowhere, txs |-> {}]
NoArgs == [version |-> CHOOSE i \in Inputs : TRUE, needs |-> <<>>]
NoJob == [task |-> TaskOrder[1], mode |-> "READ_ONLY", force |-> FALSE, scope |-> {},
          args |-> NoArgs]
Stopped == {"idle", "done", "failed"}

Init == /\ chain = <<>>
        /\ file = [f \in Files |-> Nowhere]
        /\ txs = {}
        /\ input \in [Tasks -> Inputs] /\ build \in [Tasks -> Builds]
        /\ pc = [r \in Runners |-> "idle"]
        /\ job = [r \in Runners |-> NoJob]
        /\ todo = [r \in Runners |-> <<>>]
        /\ queue = [r \in Runners |-> <<>>]
        /\ factory = [r \in Runners |-> Unknown]
        /\ mem = [r \in Runners |-> NoMemory]
        /\ quiet = {}

-----------------------------------------------------------------------------
\* Where a run reads and saves its output.
OutputFile(r) == <<job[r].task, IF job[r].mode # "TEST" THEN "network" ELSE "test">>
SavesTestToNetwork(r) == <<job[r].task, "network">>  \* mutant
SaveFile(r) == <<job[r].task, IF job[r].mode = "LIVE" THEN "network" ELSE "test">>
NetworkFile(t) == file[<<t, "network">>]

Output(r, n) == file[OutputFile(r)][n]
Current(r) == Head(todo[r])
Deploys(r) == job[r].mode \in {"LIVE", "TEST"}

Goto(r, label) == pc' = [pc EXCEPT ![r] = label]

\* _parseRawInput: what other tasks deployed is taken from their output for the
\* network, in every mode, and it is an error if it is not there.
OwnOutput(t, mode) == \* mutant: a test run takes what tests have deployed
    [d \in Needs[t] |-> file[<<d[1], IF mode = "TEST" THEN "test" ELSE "network">>][d[2]]]
NeededOutput(t, mode) == [d \in Needs[t] |-> NetworkFile(d[1])[d[2]]]
Args(t, mode) == [version |-> input[t], needs |-> NeededOutput(t, mode)]
InputsFound(t, mode) == \A d \in Needs[t] : NeededOutput(t, mode)[d] # Unknown

\* Only a live run goes on after the factory.
Todo(mode) == IF mode = "LIVE" THEN Contracts \o <<Pool>> ELSE <<Factory>>

\* A process may be killed, and any call may throw: its memory is lost, nothing
\* else is undone.
Fail(r) == /\ Goto(r, "failed")
           /\ job' = [job EXCEPT ![r] = NoJob]
           /\ todo' = [todo EXCEPT ![r] = <<>>]
           /\ queue' = [queue EXCEPT ![r] = <<>>]
           /\ factory' = [factory EXCEPT ![r] = Unknown]
           /\ mem' = [mem EXCEPT ![r] = NoMemory]
           /\ quiet' = quiet \ {r}
           /\ UNCHANGED <<chain, files>>

\* run: index.ts reads its arguments first.
Enter(r, t, mode, force, scope) ==
    /\ job' = [job EXCEPT ![r] = [task |-> t, mode |-> mode, force |-> force,
                                  scope |-> scope, args |-> Args(t, mode)]]
    /\ todo' = [todo EXCEPT ![r] = Todo(mode)]
    /\ factory' = [factory EXCEPT ![r] = Unknown]
    /\ mem' = [mem EXCEPT ![r] = NoMemory]
    /\ Goto(r, "next")
    /\ UNCHANGED <<chain, files>>

\* The commands deploy and check-deployments --id, and the tests.
Start(r, t, mode, force) ==
    /\ pc[r] \in Stopped /\ InputsFound(t, mode)
    /\ Enter(r, t, mode, force, {t})
    /\ queue' = [queue EXCEPT ![r] = <<>>]
    /\ quiet' = IF mode = "CHECK" THEN quiet \cup {r} ELSE quiet \ {r}

InputMissing(r, t, mode) == pc[r] \in Stopped /\ ~InputsFound(t, mode) /\ Fail(r)

\* check-deployments: every task with an output for the network is checked, until
\* the first error.
CheckDeployments(r) ==
    /\ pc[r] \in Stopped /\ "CHECK" \in Modes
    /\ job' = [job EXCEPT ![r] = [task |-> TaskOrder[1], mode |-> "CHECK", force |-> FALSE,
                                  scope |-> Tasks, args |-> NoArgs]]
    /\ queue' = [queue EXCEPT ![r] = TaskOrder]
    /\ todo' = [todo EXCEPT ![r] = <<>>]
    /\ factory' = [factory EXCEPT ![r] = Unknown]
    /\ mem' = [mem EXCEPT ![r] = NoMemory]
    /\ Goto(r, "between")
    /\ quiet' = quiet \cup {r}
    /\ UNCHANGED <<chain, files>>

Onward(q) == "between"  \* mutant: looks for a task after the last one
After(q) == IF q = <<>> THEN "done" ELSE "between"

SkipTask(r) ==
    /\ pc[r] = "between" /\ NetworkFile(Head(queue[r])) = Nowhere
    /\ queue' = [queue EXCEPT ![r] = Tail(@)]
    /\ Goto(r, After(Tail(queue[r])))
    /\ UNCHANGED <<chain, files, job, todo, factory, mem, quiet>>

NextTask(r) ==
    /\ pc[r] = "between" /\ NetworkFile(Head(queue[r])) # Nowhere
    /\ IF InputsFound(Head(queue[r]), "CHECK")
       THEN /\ Enter(r, Head(queue[r]), "CHECK", FALSE, job[r].scope)
            /\ queue' = [queue EXCEPT ![r] = Tail(@)]
            /\ UNCHANGED quiet
       ELSE Fail(r)

\* Killed.
Stop(r) == pc[r] \notin Stopped /\ Fail(r)

\* The current contract is at `address`: go on with the next one.
Advance(r, address) ==
    /\ todo' = [todo EXCEPT ![r] = Tail(@)]
    /\ factory' = [factory EXCEPT ![r] = IF Current(r) = Factory THEN address
                                         ELSE IF Tail(todo[r]) = <<>> THEN Unknown ELSE @]
    /\ mem' = [mem EXCEPT ![r] = NoMemory]
    /\ Goto(r, IF Tail(todo[r]) # <<>> THEN "next" ELSE After(queue[r]))
    /\ UNCHANGED <<job, queue>>

\* check: the recorded address has a recorded transaction, whose data is the
\* creation code of the contract in the build-info of now with the arguments that
\* the task has read.
Matches(r, a) == /\ chain[a].task = job[r].task /\ chain[a].name = Current(r)
                 /\ chain[a].code = build[job[r].task]
                 /\ chain[a].args = job[r].args
MatchesArguments(r, a) == /\ a # Unknown /\ a \in txs  \* mutant: whatever code
                          /\ chain[a].task = job[r].task /\ chain[a].name = Current(r)
                          /\ chain[a].args = job[r].args
Checks(r, a) == a # Unknown /\ a \in txs /\ Matches(r, a)

Check(r) ==
    /\ pc[r] = "next" /\ job[r].mode = "CHECK"
    /\ Checks(r, Output(r, Current(r)))
    /\ Advance(r, Output(r, Current(r)))
    /\ UNCHANGED <<chain, files, quiet>>

CheckRetries(r) == \* mutant: tries again until it passes
    /\ pc[r] = "next" /\ job[r].mode = "CHECK"
    /\ ~Checks(r, Output(r, Current(r)))
    /\ UNCHANGED vars
CheckFails(r) ==
    /\ pc[r] = "next" /\ job[r].mode = "CHECK"
    /\ ~Checks(r, Output(r, Current(r)))
    /\ Fail(r)

Refuse(r) == pc[r] = "next" /\ job[r].mode = "READ_ONLY" /\ Fail(r)

-----------------------------------------------------------------------------
\* deploy, for the contracts of the task, and the part of index.ts that mimics
\* it for the pool.

IgnoresOutput(r) == TRUE  \* mutant: deploys again
MustDeploy(r) == job[r].force \/ Output(r, Current(r)) = Unknown

Reuse(r) ==
    /\ pc[r] = "next" /\ Deploys(r) /\ ~MustDeploy(r)
    /\ IF Current(r) = Pool
       THEN Goto(r, "lookup") /\ UNCHANGED <<job, todo, queue, factory, mem>>
       ELSE Advance(r, Output(r, Current(r)))
    /\ UNCHANGED <<chain, files, quiet>>

\* The pool's hash is saved before its address, those of contracts after.
OutputFirst(r) == "readOutput"  \* mutant
SavedFirst(r) == IF Current(r) = Pool THEN "readHashes" ELSE "readOutput"

\* The artifact is read from build-info now.  A pool is created by the factory,
\* with the code that the factory has.
Deploy(r) ==
    /\ pc[r] = "next" /\ Deploys(r) /\ MustDeploy(r)
    /\ Len(chain) < MaxDeploys
    /\ chain' = Append(chain, [task |-> job[r].task, name |-> Current(r),
                               code |-> build[job[r].task], args |-> job[r].args,
                               factory |-> IF Current(r) = Pool THEN factory[r] ELSE Unknown,
                               live |-> job[r].mode = "LIVE"])
    /\ mem' = [mem EXCEPT ![r] = [made |-> Len(chain) + 1, seen |-> Nowhere, txs |-> {}]]
    /\ Goto(r, SavedFirst(r))
    /\ UNCHANGED <<files, job, todo, queue, factory, quiet>>

\* The transaction fails.
DeployFails(r) == pc[r] = "next" /\ Deploys(r) /\ MustDeploy(r) /\ Fail(r)

\* save: the entry is added to what was read.
ReadOutput(r) ==
    /\ pc[r] = "readOutput"
    /\ mem' = [mem EXCEPT ![r] = [made |-> mem[r].made, seen |-> file[SaveFile(r)], txs |-> {}]]
    /\ Goto(r, "writeOutput")
    /\ UNCHANGED <<chain, files, job, todo, queue, factory, quiet>>

FactoryForPool(r, seen) == \* mutant: the address of the factory
    [seen EXCEPT ![Current(r)] = IF Current(r) = Pool THEN factory[r] ELSE mem[r].made]
WithEntry(r, seen) == [seen EXCEPT ![Current(r)] = mem[r].made]

WriteOutput(r) ==
    /\ pc[r] = "writeOutput"
    /\ file' = [file EXCEPT ![SaveFile(r)] = WithEntry(r, mem[r].seen)]
    /\ quiet' = {}
    /\ IF Current(r) = Pool \/ job[r].mode = "LIVE"
       THEN /\ Goto(r, IF Current(r) = Pool THEN "lookup" ELSE "readHashes")
            /\ UNCHANGED <<job, todo, queue, factory, mem>>
       ELSE Advance(r, mem[r].made)
    /\ UNCHANGED <<chain, txs, input, build>>

\* saveContractDeploymentTransactionHash
ReadHashes(r) ==
    /\ pc[r] = "readHashes"
    /\ mem' = [mem EXCEPT ![r] = [made |-> mem[r].made, seen |-> Nowhere, txs |-> txs]]
    /\ Goto(r, "writeHashes")
    /\ UNCHANGED <<chain, files, job, todo, queue, factory, quiet>>

NewHashes(r) == mem[r].txs \cup {mem[r].made}

WriteHashes(r) ==
    /\ pc[r] = "writeHashes"
    /\ txs' = NewHashes(r)
    /\ IF Current(r) = Pool
       THEN Goto(r, "readOutput") /\ UNCHANGED <<job, todo, queue, factory, mem>>
       ELSE Advance(r, mem[r].made)
    /\ UNCHANGED <<chain, file, input, build, quiet>>

\* The pool, the tasks it was created from and the transaction that created it
\* are looked up in the files.
PoolKnown(r) == /\ Output(r, Pool) # Unknown /\ Output(r, Pool) \in txs
                /\ InputsFound(job[r].task, job[r].mode)

Lookup(r) == /\ pc[r] = "lookup" /\ PoolKnown(r)
             /\ Advance(r, Output(r, Pool))
             /\ UNCHANGED <<chain, files, quiet>>

LookupFails(r) == pc[r] = "lookup" /\ ~PoolKnown(r) /\ Fail(r)

\* Somebody edits the inputs of a task, or replaces its build-info.
EditInput(t) == /\ \E i \in Inputs \ {input[t]} : input' = [input EXCEPT ![t] = i]
                /\ quiet' = {}
                /\ UNCHANGED <<chain, file, txs, build, process>>
EditBuild(t) == /\ \E i \in Builds \ {build[t]} : build' = [build EXCEPT ![t] = i]
                /\ quiet' = {}
                /\ UNCHANGED <<chain, file, txs, input, process>>

Step(r) == \/ SkipTask(r) \/ NextTask(r)
           \/ Check(r) \/ CheckFails(r) \/ Refuse(r)
           \/ Reuse(r) \/ Deploy(r) \/ DeployFails(r)
           \/ ReadOutput(r) \/ WriteOutput(r)
           \/ ReadHashes(r) \/ WriteHashes(r)
           \/ Lookup(r) \/ LookupFails(r)

Next == \/ \E r \in Runners :
              \/ \E t \in Tasks, mode \in Modes, force \in Forces : Start(r, t, mode, force)
              \/ \E t \in Tasks, mode \in Modes : InputMissing(r, t, mode)
              \/ CheckDeployments(r)
              \/ Stop(r)
              \/ Step(r)
        \/ \E t \in Tasks : EditInput(t) \/ EditBuild(t)

Spec == Init /\ [][Next]_vars

\* A process that was started goes on until it ends or is killed.
FairSpec == Spec /\ \A r \in Runners : WF_vars(Step(r))

-----------------------------------------------------------------------------
Outputs == [Names -> Addresses \cup {Unknown}]
ArgumentsOf(t) == [version : Inputs, needs : [Needs[t] -> Addresses \cup {Unknown}]]
Arguments == (UNION {ArgumentsOf(t) : t \in Tasks}) \cup {NoArgs}
Labels == Stopped \cup {"between", "next", "readOutput", "writeOutput", "readHashes",
                        "writeHashes", "lookup"}

Deployments == [task : Tasks, name : Names, code : Builds, args : Arguments,
                factory : Addresses \cup {Unknown}, live : BOOLEAN]
Jobs == [task : Tasks, mode : AllModes, force : BOOLEAN, scope : SUBSET Tasks, args : Arguments]
Memories == [made : Addresses \cup {Unknown}, seen : Outputs, txs : SUBSET Addresses]

TypeOK == /\ chain \in Seq(Deployments) /\ Len(chain) <= MaxDeploys
          /\ file \in [Files -> Outputs]
          /\ txs \subseteq Addresses
          /\ input \in [Tasks -> Inputs] /\ build \in [Tasks -> Builds]
          /\ pc \in [Runners -> Labels]
          /\ job \in [Runners -> Jobs]
          /\ todo \in [Runners -> Seq(Names)]
          /\ queue \in [Runners -> Seq(Tasks)]
          /\ factory \in [Runners -> Addresses \cup {Unknown}]
          /\ mem \in [Runners -> Memories]
          /\ quiet \subseteq Runners
          /\ \A r \in Runners : pc[r] \notin Stopped =>
                 IF pc[r] = "between" THEN queue[r] # <<>> ELSE todo[r] # <<>>

Deployed == DOMAIN chain
Made(a, t, n) == a \in Deployed /\ chain[a].task = t /\ chain[a].name = n

-----------------------------------------------------------------------------
\* Properties.

\* However runs are stopped and repeated, and whatever else is deployed at the
\* same time, a recorded address is that of a contract of that name, deployed by
\* that task; the output for the network names only what live runs deployed.
OutputsDeployed ==
    \A f \in Files, n \in Names : file[f][n] # Unknown =>
        Made(file[f][n], f[1], n) /\ (f[2] = "network" => chain[file[f][n]].live)

\* The arguments of a contract are read when its task starts, from files that
\* other runs go on writing: they are always the addresses of contracts that
\* exist, with the names the task asks for, deployed before it by a live run.
DependenciesDeployed ==
    \A i \in Deployed : \A d \in Needs[chain[i].task] :
        LET a == chain[i].args.needs[d]
        IN  Made(a, d[1], d[2]) /\ a < i /\ chain[a].live

\* Without --force, stopping a run and running the task again never replaces an
\* address that the task's output has published.
OutputsStable ==
    [][\A f \in Files, n \in Names : file[f][n] # Unknown => file'[f][n] = file[f][n]]_vars

\* Without --force, the published pool was created by the published factory,
\* although they are deployed and published in separate steps and perhaps by
\* different runs.
PoolOfFactory ==
    \A t \in Tasks : NetworkFile(t)[Pool] # Unknown =>
                         chain[NetworkFile(t)[Pool]].factory = NetworkFile(t)[Factory]

\* The pool's transaction can be looked up wherever its address is published,
\* so that a rerun that finds the pool does not fail on its hash.
PoolHashKnown ==
    \A t \in Tasks : NetworkFile(t)[Pool] # Unknown => NetworkFile(t)[Pool] \in txs

\* check-deployments means what it says: if it passes and nothing changed while
\* it ran, the factory each task publishes was deployed from the build-info and
\* the inputs of now, those taken from the present outputs of other tasks included.
CheckSound ==
    \A r \in quiet : pc[r] = "done" /\ job[r].mode = "CHECK" =>
        \A t \in job[r].scope : NetworkFile(t) # Nowhere =>
            LET a == NetworkFile(t)[Factory]
            IN  /\ Made(a, t, Factory)
                /\ chain[a].code = build[t] /\ chain[a].args = Args(t, "CHECK")

\* "Check that all tasks' deployments correspond to their build-info and
\* inputs": when they do, the check passes.
CheckComplete ==
    \A r \in Runners :
        /\ pc[r] = "next" /\ job[r].mode = "CHECK"
        /\ Made(Output(r, Factory), job[r].task, Factory)
        /\ Matches(r, Output(r, Factory))
        => Checks(r, Output(r, Factory))

\* Every run ends.
RunsEnd == \A r \in Runners : pc[r] # "idle" ~> pc[r] \in Stopped
=============================================================================
