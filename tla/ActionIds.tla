------------------------------ MODULE ActionIds ------------------------------
(***************************************************************************)
(* The action identifiers of the deployed contracts: the Authorizer gives  *)
(* permissions by identifiers that a contract derives from the function    *)
(* and from a disambiguator, its own address or, for a pool, that of its   *)
(* factory, so that all pools of a factory, and the factory, share them.   *)
(* save-action-ids asks contracts for them and records them in a file,     *)
(* check-action-ids compares the file with what contracts say now, and     *)
(* both end with the check that only expected contracts share identifiers. *)
(* One command runs at a time, and calls to contracts take place between   *)
(* its steps: contracts are deployed, outputs and build-info replaced.     *)
(***************************************************************************)
EXTENDS Naturals, Sequences

CONSTANTS TaskOrder,     \* the tasks, in the order of their identifiers
          Factory, Pool, \* names of contracts in the outputs
          Token,         \* a name in an output without build-info
          Functions,     \* functions of contracts, those to be ignored left out
          FirstBuilds,   \* [Tasks \X {Factory, Pool} -> SUBSET Functions]
          MaxContracts,  \* bound on contracts
          MaxBuilds      \* bound on changes of build-info

Tasks == {TaskOrder[i] : i \in DOMAIN TaskOrder}
Names == {Factory, Pool, Token}
Addresses == 1 .. MaxContracts
Unknown == 0

ASSUME ActionIdAssumption ==
    /\ TaskOrder \in Seq(Tasks) /\ TaskOrder # <<>>
    /\ Factory # Pool /\ Token \notin {Factory, Pool}
    /\ FirstBuilds \in [Tasks \X {Factory, Pool} -> SUBSET Functions]
    /\ MaxContracts \in Nat \ {0} /\ MaxBuilds \in Nat

VARIABLES chain,      \* the contracts: [task, name, maker]
          output,     \* outputs of the tasks for the network
          functions,  \* build-info: what functions the contracts have
          builds,     \* how often build-info was changed
          ids,        \* action-ids.json
          expected,   \* expected-collisions.json
          fresh,      \* new-collisions.json
          pc, cmd,    \* the command: where it is, what it does
          queue, todo,\* tasks left; names left of the current task
          entry,      \* what it has calculated
          quiet       \* history: nothing else has changed since it began

world == <<chain, output, functions, builds>>
files == <<ids, expected, fresh>>
command == <<pc, cmd, queue, todo, entry>>
vars == <<world, files, command, quiet>>

Records == Tasks \X {Factory, Pool}
NoEntry == [source |-> Unknown, pool |-> Unknown, functions |-> {}]
NoCommand == [op |-> "none", task |-> TaskOrder[1], pool |-> Unknown, scope |-> {}]
Stopped == {"idle", "done", "failed"}

\* The tokens are there from the beginning, in the output of the first task.
Init == /\ chain = <<[task |-> TaskOrder[1], name |-> Token, maker |-> 1]>>
        /\ output \in {[t \in Tasks |-> [n \in Names |-> IF <<t, n>> = <<TaskOrder[1], Token>>
                                                         THEN token ELSE Unknown]]
                           : token \in {Unknown, 1}}
        /\ functions = FirstBuilds
        /\ builds = 0
        /\ ids = [r \in Records |-> NoEntry]
        /\ expected = {} /\ fresh = {}
        /\ pc = "idle" /\ cmd = NoCommand /\ queue = <<>> /\ todo = <<>> /\ entry = NoEntry
        /\ quiet = TRUE

-----------------------------------------------------------------------------
\* getActionIds: the contract is the given pool, which the factory of the task
\* must have made, or the one in the output.  Tokens have no build-info; contracts
\* that do not know the Authorizer would use an adaptor whose task is not there.
MadeByFactory(t, pool) ==
    /\ output[t][Factory] # Unknown
    /\ chain[pool].name = Pool /\ chain[pool].maker = output[t][Factory]
AnyPool(r, pool) == IF pool = Unknown THEN output[r[1]][r[2]] # Unknown  \* mutant
                    ELSE chain[pool].name # Token
SourceKnown(r, pool) == IF pool = Unknown THEN output[r[1]][r[2]] # Unknown
                        ELSE r[2] = Pool /\ MadeByFactory(r[1], pool)

Calculable(r, pool) == r[2] # Token /\ SourceKnown(r, pool)
Calculated(r, pool) ==
    LET contract == IF pool = Unknown THEN output[r[1]][r[2]] ELSE pool
    IN  [source |-> chain[contract].maker, pool |-> pool, functions |-> functions[r]]

\* getDuplicateActionIds: identifiers that several contracts share, with these.
Instances(file) == UNION {{<<file[r].source, f, r>> : f \in file[r].functions} : r \in Records}
Shares(i, j) == i[1] = j[1] /\ i[2] = j[2] /\ i[3] # j[3]
AcrossTasks(file) == \* mutant: contracts of one task may share
    {i \in Instances(file) : \E j \in Instances(file) : Shares(i, j) /\ i[3][1] # j[3][1]}
Duplicates(file) == {i \in Instances(file) : \E j \in Instances(file) : Shares(i, j)}

-----------------------------------------------------------------------------
Begin(op, label, tasks, names, pool, scope) ==
    /\ pc \in Stopped
    /\ pc' = label
    /\ cmd' = [op |-> op, task |-> Head(tasks), pool |-> pool, scope |-> scope]
    /\ queue' = tasks /\ todo' = names /\ entry' = NoEntry
    /\ quiet' = TRUE
    /\ UNCHANGED <<world, files>>

\* save-action-ids for a contract, a pool, a task and all tasks.
SaveContract(t, n) == Begin("save", "calculate", <<t>>, <<n>>, Unknown, {t})
SavePool(t, n, pool) == pool \in DOMAIN chain /\ Begin("save", "calculate", <<t>>, <<n>>, pool, {t})
SaveTask(t) == Begin("save", "task", <<t>>, <<>>, Unknown, {t})
SaveAll == Begin("save", "task", TaskOrder, <<>>, Unknown, Tasks)

\* check-action-ids for a task and all tasks.
CheckTask(t) == Begin("check", "task", <<t>>, <<>>, Unknown, {t})
CheckAll == Begin("check", "task", TaskOrder, <<>>, Unknown, Tasks)

Fail == /\ pc' = "failed"
        /\ cmd' = NoCommand /\ queue' = <<>> /\ todo' = <<>> /\ entry' = NoEntry
        /\ UNCHANGED <<world, files, quiet>>
Kill == pc \notin Stopped /\ Fail

\* The contracts of a task are those in its output, or those recorded.
Only(n, S) == IF n \in S THEN <<n>> ELSE <<>>
Listed(S) == Only(Token, S) \o Only(Factory, S) \o Only(Pool, S)
NamesOf(t) == Listed(IF cmd.op = "save" THEN {n \in Names : output[t][n] # Unknown}
                     ELSE {n \in {Factory, Pool} : ids[<<t, n>>] # NoEntry})

BeginTask == /\ pc = "task"
             /\ todo' = NamesOf(Head(queue))
             /\ cmd' = [op |-> cmd.op, task |-> Head(queue), pool |-> cmd.pool,
                        scope |-> cmd.scope]
             /\ pc' = IF cmd.op = "save" THEN "calculate" ELSE "compare"
             /\ UNCHANGED <<world, files, queue, entry, quiet>>

AnotherTask(tasks) == "task"  \* mutant: goes on after the last task
AfterTask(tasks) == IF tasks = <<>> THEN "uniqueness" ELSE "task"

EndTask == /\ pc \in {"calculate", "compare"} /\ todo = <<>>
           /\ queue' = Tail(queue)
           /\ pc' = AfterTask(Tail(queue))
           /\ UNCHANGED <<world, files, cmd, todo, entry, quiet>>

Current == <<cmd.task, Head(todo)>>

\* saveActionIds: what the contract says is added to the file.
Calculate ==
    /\ pc = "calculate" /\ todo # <<>>
    /\ IF Calculable(Current, cmd.pool)
       THEN /\ entry' = Calculated(Current, cmd.pool)
            /\ pc' = "record"
            /\ UNCHANGED <<world, files, cmd, queue, todo, quiet>>
       ELSE Fail

Record == /\ pc = "record"
          /\ ids' = [ids EXCEPT ![Current] = entry]
          /\ todo' = Tail(todo) /\ entry' = NoEntry
          /\ pc' = "calculate"
          /\ UNCHANGED <<world, expected, fresh, cmd, queue, quiet>>

\* checkActionIds: every function of the contract is recorded with the identifier
\* it has now.
RecordedAgree(recorded, calculated) == \* mutant: every function that is recorded
    \A f \in recorded.functions : f \in calculated.functions /\ recorded.source = calculated.source
Agrees(recorded, calculated) ==
    \A f \in calculated.functions : f \in recorded.functions /\ recorded.source = calculated.source

Compare ==
    /\ pc = "compare" /\ todo # <<>>
    /\ IF /\ Calculable(Current, ids[Current].pool)
          /\ Agrees(ids[Current], Calculated(Current, ids[Current].pool))
       THEN todo' = Tail(todo) /\ UNCHANGED <<world, files, pc, cmd, queue, entry, quiet>>
       ELSE Fail

\* checkActionIdUniqueness
CheckUniqueness ==
    /\ pc = "uniqueness"
    /\ pc' = IF Duplicates(ids) = expected THEN "done" ELSE "failed"
    /\ fresh' = IF Duplicates(ids) = expected THEN fresh ELSE Duplicates(ids)
    /\ cmd' = [op |-> cmd.op, task |-> TaskOrder[1], pool |-> Unknown, scope |-> cmd.scope]
    /\ UNCHANGED <<world, ids, expected, queue, todo, entry, quiet>>

-----------------------------------------------------------------------------
\* What others do: a task deploys a factory anew, anybody creates pools with a
\* factory, which the task may publish, and build-info is replaced.
Change == quiet' = FALSE /\ UNCHANGED <<files, command>>

DeployFactory(t) ==
    /\ Len(chain) < MaxContracts
    /\ chain' = Append(chain, [task |-> t, name |-> Factory, maker |-> Len(chain) + 1])
    /\ output' = [output EXCEPT ![t] = [output[t] EXCEPT ![Factory] = Len(chain) + 1]]
    /\ Change /\ UNCHANGED <<functions, builds>>

CreatePool(factory, published) ==
    /\ factory \in DOMAIN chain /\ chain[factory].name = Factory
    /\ Len(chain) < MaxContracts
    /\ chain' = Append(chain, [task |-> chain[factory].task, name |-> Pool, maker |-> factory])
    /\ output' = IF published
                 THEN LET t == chain[factory].task
                      IN  [output EXCEPT ![t] = [output[t] EXCEPT ![Pool] = Len(chain) + 1]]
                 ELSE output
    /\ Change /\ UNCHANGED <<functions, builds>>

Recompile(r, fs) == /\ builds < MaxBuilds /\ fs # functions[r]
                    /\ builds' = builds + 1
                    /\ functions' = [functions EXCEPT ![r] = fs]
                    /\ Change /\ UNCHANGED <<chain, output>>

\* "if we accept them, we can just copy them across"
AcceptCollisions == /\ pc \in Stopped /\ expected # fresh
                    /\ expected' = fresh
                    /\ quiet' = FALSE
                    /\ UNCHANGED <<world, ids, fresh, command>>

Step == BeginTask \/ EndTask \/ Calculate \/ Record \/ Compare \/ CheckUniqueness

Next == \/ \E t \in Tasks, n \in Names : SaveContract(t, n)
        \/ \E t \in Tasks, n \in Names, pool \in Addresses : SavePool(t, n, pool)
        \/ \E t \in Tasks : SaveTask(t) \/ CheckTask(t)
        \/ SaveAll \/ CheckAll
        \/ Step \/ Kill
        \/ \E t \in Tasks : DeployFactory(t)
        \/ \E factory \in Addresses, published \in BOOLEAN : CreatePool(factory, published)
        \/ \E r \in Records, fs \in SUBSET Functions : Recompile(r, fs)
        \/ AcceptCollisions

Spec == Init /\ [][Next]_vars

-----------------------------------------------------------------------------
Entries == [source : Addresses \cup {Unknown}, pool : Addresses \cup {Unknown},
            functions : SUBSET Functions]
Collisions == Addresses \X Functions \X Records
Outputs == [Names -> Addresses \cup {Unknown}]
Contracts == [task : Tasks, name : Names, maker : Addresses]
Commands == [op : {"none", "save", "check"}, task : Tasks, pool : Addresses \cup {Unknown},
             scope : SUBSET Tasks]
Labels == Stopped \cup {"task", "calculate", "record", "compare", "uniqueness"}

TypeOK == /\ chain \in Seq(Contracts) /\ Len(chain) <= MaxContracts
          /\ output \in [Tasks -> Outputs]
          /\ functions \in [Records -> SUBSET Functions] /\ builds \in 0 .. MaxBuilds
          /\ ids \in [Records -> Entries]
          /\ expected \subseteq Collisions /\ fresh \subseteq Collisions
          /\ pc \in Labels /\ cmd \in Commands
          /\ queue \in Seq(Tasks) /\ todo \in Seq(Names) /\ entry \in Entries
          /\ quiet \in BOOLEAN
          /\ pc \notin Stopped \cup {"uniqueness"} => queue # <<>>
          /\ pc = "record" => todo # <<>> /\ entry # NoEntry

-----------------------------------------------------------------------------
\* Properties.

\* Permissions are given by what is recorded: the identifiers of a contract of a
\* task are those of a contract that this task deployed under that name, or of a
\* pool that a factory of this task made, whatever address is given, and although
\* the factory may be replaced between the calls and the record.
Genuine(r, e) == \E a \in DOMAIN chain : /\ chain[a].task = r[1] /\ chain[a].name = r[2]
                                         /\ chain[a].maker = e.source
                                         /\ e.pool \in {Unknown, a}
RecordsGenuine == \A r \in Records : ids[r] # NoEntry => Genuine(r, ids[r])

\* If check-action-ids passes and nothing changed while it ran, the identifiers
\* that the contracts of its tasks would be asked for now are all recorded, and
\* under their names.  Only a change of build-info can leave more: identifiers
\* of functions that a contract no longer has are not looked at.
AskedNow(r) == LET a == IF ids[r].pool = Unknown THEN output[r[1]][r[2]] ELSE ids[r].pool
               IN  {<<chain[a].maker, f>> : f \in functions[r]}
Recorded(r) == {<<ids[r].source, f>> : f \in ids[r].functions}
RecordsComplete ==
    pc = "done" /\ cmd.op = "check" /\ quiet =>
        \A r \in Records : r[1] \in cmd.scope /\ ids[r] # NoEntry =>
            /\ AskedNow(r) \subseteq Recorded(r)
            /\ builds = 0 => Recorded(r) \subseteq AskedNow(r)

\* A command that passes leaves no two contracts with a common identifier but
\* those that somebody has accepted together, in any of the tasks.
Accepted(source, f, r) == <<source, f, r>> \in expected
CollisionsAccepted ==
    pc = "done" /\ quiet =>
        \A r, s \in Records : \A f \in ids[r].functions \cap ids[s].functions :
            r # s /\ ids[r].source = ids[s].source =>
                Accepted(ids[r].source, f, r) /\ Accepted(ids[r].source, f, s)
=============================================================================
