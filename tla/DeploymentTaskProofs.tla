------------------------ MODULE DeploymentTaskProofs ------------------------
(***************************************************************************)
(* Proofs about deployment tasks, for any number of processes, tasks and   *)
(* contracts.  The inductive invariant IInv adds to the properties what    *)
(* each process has in its memory: that the address it is about to record  *)
(* and the entries it has read are those of contracts of its task, and     *)
(* that the tasks a check has passed still correspond.  RInv, in the       *)
(* second part, says how far a run has come between deploying a contract,  *)
(* recording its transaction and publishing its address.                   *)
(***************************************************************************)
EXTENDS DeploymentTask, TLAPS


LEMMA ConstantsType ==
    /\ Factory \in Names /\ Pool \in Names /\ Factory # Pool
    /\ Contracts \in Seq(Names) /\ Contracts # <<>>
    /\ Unknown \notin Addresses /\ Unknown \in Addresses \cup {Unknown}
    /\ Tasks # {} /\ TaskOrder[1] \in Tasks
    /\ NoArgs \in Arguments
<1>1. Contracts[1] = Factory /\ 1 \in DOMAIN Contracts
  BY DeploymentAssumption DEF Contracts
<1>2. Factory \in Names /\ Pool \in Names /\ Factory # Pool
  BY <1>1, DeploymentAssumption DEF Names
<1>3. Contracts \in Seq(Names) /\ Contracts # <<>>
  BY <1>2, DeploymentAssumption DEF Contracts
<1>4. Unknown \notin Addresses
  BY DeploymentAssumption DEF Unknown, Addresses
<1>5. TaskOrder[1] \in Tasks
  BY DeploymentAssumption DEF Tasks
<1>6. NoArgs \in Arguments
  <2>1. \A S : NoArgs \in S \cup {NoArgs}
    OBVIOUS
  <2> QED BY <2>1 DEF Arguments
<1>7. Unknown \in Addresses \cup {Unknown} /\ Tasks # {}
  BY <1>5
<1> QED BY <1>2, <1>3, <1>4, <1>5, <1>6, <1>7

LEMMA TodoType ==
    ASSUME NEW mode \in AllModes
    PROVE  Todo(mode) \in Seq(Names) /\ Todo(mode) # <<>>
BY ConstantsType, DeploymentAssumption DEF Todo

LEMMA JobType ==
    ASSUME TypeOK, NEW t \in Tasks, NEW mode \in AllModes
    PROVE  Args(t, mode) \in Arguments
<1>1. \A d \in Needs[t] : NetworkFile(d[1])[d[2]] \in Addresses \cup {Unknown}
  BY DeploymentAssumption DEF TypeOK, Outputs, NetworkFile, Files
<1>2. NeededOutput(t, mode) \in [Needs[t] -> Addresses \cup {Unknown}]
  <2> DEFINE out(d) == NetworkFile(d[1])[d[2]]
  <2> HIDE DEF out
  <2>1. \A d \in Needs[t] : out(d) \in Addresses \cup {Unknown}
    BY <1>1 DEF out
  <2>2. [d \in Needs[t] |-> out(d)] \in [Needs[t] -> Addresses \cup {Unknown}]
    BY <2>1
  <2> QED BY <2>2 DEF NeededOutput, out
<1>3. input[t] \in Inputs
  BY DEF TypeOK
<1>4. Args(t, mode) \in ArgumentsOf(t)
  BY <1>2, <1>3 DEF Args, ArgumentsOf
<1> QED BY <1>4 DEF Arguments

LEMMA InitialValues ==
    /\ Nowhere \in Outputs /\ NoMemory \in Memories /\ NoJob \in Jobs
    /\ <<>> \in Seq(Names) /\ <<>> \in Seq(Tasks)
<1>1. Nowhere \in Outputs
  BY DEF Nowhere, Outputs
<1>2. NoMemory \in Memories
  BY <1>1 DEF NoMemory, Memories
<1>3. NoJob \in Jobs
  BY ConstantsType DEF NoJob, AllModes, Jobs
<1> QED BY <1>1, <1>2, <1>3

LEMMA InitType == Init => TypeOK
<1> SUFFICES ASSUME Init PROVE TypeOK
  OBVIOUS
<1>1. chain \in Seq(Deployments) /\ Len(chain) <= MaxDeploys
  BY DeploymentAssumption DEF Init
<1>2. /\ file \in [Files -> Outputs] /\ txs \subseteq Addresses /\ input \in [Tasks -> Inputs] /\ build \in [Tasks -> Builds]
      /\ pc \in [Runners -> Labels] /\ \A r \in Runners : pc[r] \in Stopped
  BY InitialValues DEF Init, Labels, Stopped
<1>3. /\ todo \in [Runners -> Seq(Names)] /\ queue \in [Runners -> Seq(Tasks)]
      /\ factory \in [Runners -> Addresses \cup {Unknown}] /\ quiet \subseteq Runners
      /\ mem \in [Runners -> Memories] /\ job \in [Runners -> Jobs]
  BY InitialValues, ConstantsType DEF Init
<1> QED BY <1>1, <1>2, <1>3 DEF TypeOK

-----------------------------------------------------------------------------
\* The type invariant.

LEMMA FailType ==
    ASSUME TypeOK, NEW r \in Runners, Fail(r)
    PROVE  TypeOK'
<1>1. UNCHANGED <<chain, file, txs, input, build>>
  BY DEF Fail, files
<1>2. pc' \in [Runners -> Labels] /\ job' \in [Runners -> Jobs] /\ todo' \in [Runners -> Seq(Names)]
  BY InitialValues DEF TypeOK, Fail, Goto, Labels, Stopped
<1>3. queue' \in [Runners -> Seq(Tasks)] /\ quiet' \subseteq Runners
      /\ factory' \in [Runners -> Addresses \cup {Unknown}] /\ mem' \in [Runners -> Memories]
  BY InitialValues, ConstantsType DEF TypeOK, Fail
<1>4. \A q \in Runners : pc'[q] \notin Stopped =>
          IF pc'[q] = "between" THEN queue'[q] # <<>> ELSE todo'[q] # <<>>
  BY DEF TypeOK, Fail, Goto, Stopped
<1> QED BY <1>1, <1>2, <1>3, <1>4 DEF TypeOK

LEMMA AdvanceType ==
    ASSUME TypeOK, NEW r \in Runners, NEW a \in Addresses \cup {Unknown}, Advance(r, a),
           pc[r] \notin Stopped, pc[r] # "between"
    PROVE  /\ pc' \in [Runners -> Labels] /\ job' \in [Runners -> Jobs]
           /\ todo' \in [Runners -> Seq(Names)] /\ queue' \in [Runners -> Seq(Tasks)]
           /\ factory' \in [Runners -> Addresses \cup {Unknown}] /\ mem' \in [Runners -> Memories]
           /\ \A q \in Runners : pc'[q] \notin Stopped =>
                  IF pc'[q] = "between" THEN queue'[q] # <<>> ELSE todo'[q] # <<>>
<1>1. todo[r] \in Seq(Names) /\ todo[r] # <<>>
  BY DEF TypeOK
<1>2. Tail(todo[r]) \in Seq(Names)
  BY <1>1
<1>3. pc' \in [Runners -> Labels] /\ job' \in [Runners -> Jobs] /\ todo' \in [Runners -> Seq(Names)]
  BY <1>2 DEF TypeOK, Advance, Goto, Labels, Stopped, After
<1>4. queue' \in [Runners -> Seq(Tasks)] /\ mem' \in [Runners -> Memories]
      /\ factory' \in [Runners -> Addresses \cup {Unknown}]
  BY InitialValues, ConstantsType DEF TypeOK, Advance
<1>5. \A q \in Runners : pc'[q] \notin Stopped =>
          IF pc'[q] = "between" THEN queue'[q] # <<>> ELSE todo'[q] # <<>>
  BY DEF TypeOK, Advance, Goto, Stopped, After
<1> QED BY <1>3, <1>4, <1>5

LEMMA OutputType ==
    ASSUME TypeOK, NEW r \in Runners, NEW n \in Names
    PROVE  /\ OutputFile(r) \in Files /\ SaveFile(r) \in Files
           /\ Output(r, n) \in Addresses \cup {Unknown}
<1>1. job[r].task \in Tasks
  BY DEF TypeOK, Jobs
<1>2. OutputFile(r) \in Files /\ SaveFile(r) \in Files
  BY <1>1 DEF OutputFile, SaveFile, Files
<1> QED BY <1>2 DEF TypeOK, Output, Outputs

LEMMA CurrentType ==
    ASSUME TypeOK, NEW r \in Runners, pc[r] \notin Stopped, pc[r] # "between"
    PROVE  Current(r) \in Names
BY DEF TypeOK, Current

\* A step that leaves the program alone but for where it is.
LEMMA GotoType ==
    ASSUME TypeOK, NEW r \in Runners, pc[r] \notin Stopped, pc[r] # "between",
           NEW l \in Labels \ {"between"}, Goto(r, l), UNCHANGED <<todo, queue>>
    PROVE  /\ pc' \in [Runners -> Labels]
           /\ \A q \in Runners : pc'[q] \notin Stopped =>
                  IF pc'[q] = "between" THEN queue'[q] # <<>> ELSE todo'[q] # <<>>
<1>1. pc' = [pc EXCEPT ![r] = l] /\ pc \in [Runners -> Labels]
  BY DEF TypeOK, Goto
<1>2. todo[r] # <<>>
  BY DEF TypeOK
<1> QED BY <1>1, <1>2 DEF TypeOK

LEMMA EnterType ==
    ASSUME TypeOK, NEW r \in Runners, NEW t \in Tasks, NEW mode \in AllModes,
           NEW force \in BOOLEAN, NEW scope \in SUBSET Tasks, Enter(r, t, mode, force, scope)
    PROVE  /\ chain' = chain /\ file' = file /\ txs' = txs /\ input' = input /\ build' = build
           /\ pc' = [pc EXCEPT ![r] = "next"] /\ job' \in [Runners -> Jobs]
           /\ todo' \in [Runners -> Seq(Names)] /\ todo'[r] # <<>>
           /\ \A q \in Runners \ {r} : todo'[q] = todo[q]
           /\ factory' \in [Runners -> Addresses \cup {Unknown}] /\ mem' \in [Runners -> Memories]
<1>1. [task |-> t, mode |-> mode, force |-> force, scope |-> scope, args |-> Args(t, mode)] \in Jobs
  BY JobType DEF Jobs
<1>2. job' \in [Runners -> Jobs]
  BY <1>1 DEF Enter, TypeOK
<1>3. Todo(mode) \in Seq(Names) /\ Todo(mode) # <<>>
  BY TodoType
<1>4. /\ todo' \in [Runners -> Seq(Names)] /\ todo'[r] # <<>>
      /\ \A q \in Runners \ {r} : todo'[q] = todo[q]
  BY <1>3 DEF Enter, TypeOK
<1>5. factory' \in [Runners -> Addresses \cup {Unknown}] /\ mem' \in [Runners -> Memories]
  BY InitialValues, ConstantsType DEF Enter, TypeOK
<1> QED BY <1>2, <1>4, <1>5 DEF Enter, Goto, files

LEMMA StartType ==
    ASSUME TypeOK, NEW r \in Runners, NEW t \in Tasks, NEW mode \in Modes,
           NEW force \in Forces, Start(r, t, mode, force)
    PROVE  TypeOK'
<1>1. mode \in AllModes /\ force \in BOOLEAN /\ {t} \in SUBSET Tasks
  BY DeploymentAssumption
<1>2. Enter(r, t, mode, force, {t}) /\ queue' = [queue EXCEPT ![r] = <<>>]
      /\ quiet' = (IF mode = "CHECK" THEN quiet \cup {r} ELSE quiet \ {r})
  BY DEF Start
<1>3. /\ chain' = chain /\ file' = file /\ txs' = txs /\ input' = input /\ build' = build
      /\ pc' = [pc EXCEPT ![r] = "next"] /\ job' \in [Runners -> Jobs]
      /\ todo' \in [Runners -> Seq(Names)] /\ todo'[r] # <<>>
      /\ \A q \in Runners \ {r} : todo'[q] = todo[q]
      /\ factory' \in [Runners -> Addresses \cup {Unknown}] /\ mem' \in [Runners -> Memories]
  BY <1>1, <1>2, EnterType
<1>4. quiet' \subseteq Runners /\ queue' \in [Runners -> Seq(Tasks)] /\ pc' \in [Runners -> Labels]
  BY <1>2, <1>3, InitialValues DEF TypeOK, Labels
<1>5. \A q \in Runners : pc'[q] \notin Stopped =>
          IF pc'[q] = "between" THEN queue'[q] # <<>> ELSE todo'[q] # <<>>
  BY <1>2, <1>3 DEF TypeOK
<1> QED BY <1>3, <1>4, <1>5 DEF TypeOK

LEMMA CheckDeploymentsType ==
    ASSUME TypeOK, NEW r \in Runners, CheckDeployments(r)
    PROVE  TypeOK'
<1>1. chain' = chain /\ file' = file /\ txs' = txs /\ input' = input /\ build' = build
  BY DEF CheckDeployments, files
<1>2. job' \in [Runners -> Jobs]
  BY ConstantsType DEF CheckDeployments, TypeOK, Jobs, AllModes
<1>3. queue' \in [Runners -> Seq(Tasks)] /\ todo' \in [Runners -> Seq(Names)] /\ quiet' \subseteq Runners
      /\ factory' \in [Runners -> Addresses \cup {Unknown}] /\ mem' \in [Runners -> Memories]
  BY InitialValues, ConstantsType, DeploymentAssumption DEF CheckDeployments, TypeOK
<1>4. pc' \in [Runners -> Labels]
      /\ \A q \in Runners : pc'[q] \notin Stopped =>
             IF pc'[q] = "between" THEN queue'[q] # <<>> ELSE todo'[q] # <<>>
  BY DeploymentAssumption DEF CheckDeployments, TypeOK, Goto, Labels, Stopped
<1> QED BY <1>1, <1>2, <1>3, <1>4 DEF TypeOK

LEMMA NextTaskType ==
    ASSUME TypeOK, NEW r \in Runners, NextTask(r)
    PROVE  TypeOK'
<1>1. CASE Fail(r)
  BY <1>1, FailType
<1>2. CASE /\ Enter(r, Head(queue[r]), "CHECK", FALSE, job[r].scope)
           /\ queue' = [queue EXCEPT ![r] = Tail(@)] /\ UNCHANGED quiet
  <2>1. queue[r] \in Seq(Tasks) /\ queue[r] # <<>>
    BY DEF NextTask, TypeOK, Stopped
  <2>2. Head(queue[r]) \in Tasks /\ Tail(queue[r]) \in Seq(Tasks)
    BY <2>1
  <2>3. job[r].scope \in SUBSET Tasks /\ "CHECK" \in AllModes
    BY DEF TypeOK, Jobs, AllModes
  <2>4. /\ chain' = chain /\ file' = file /\ txs' = txs /\ input' = input /\ build' = build
        /\ pc' = [pc EXCEPT ![r] = "next"] /\ job' \in [Runners -> Jobs]
        /\ todo' \in [Runners -> Seq(Names)] /\ todo'[r] # <<>>
        /\ \A q \in Runners \ {r} : todo'[q] = todo[q]
        /\ factory' \in [Runners -> Addresses \cup {Unknown}] /\ mem' \in [Runners -> Memories]
    BY <1>2, <2>2, <2>3, EnterType
  <2>5. quiet' \subseteq Runners /\ queue' \in [Runners -> Seq(Tasks)] /\ pc' \in [Runners -> Labels]
    BY <1>2, <2>2, <2>4 DEF TypeOK, Labels
  <2>6. \A q \in Runners : pc'[q] \notin Stopped =>
            IF pc'[q] = "between" THEN queue'[q] # <<>> ELSE todo'[q] # <<>>
    BY <1>2, <2>4 DEF TypeOK
  <2> QED BY <2>4, <2>5, <2>6 DEF TypeOK
<1> QED BY <1>1, <1>2 DEF NextTask

LEMMA SkipTaskType ==
    ASSUME TypeOK, NEW r \in Runners, SkipTask(r)
    PROVE  TypeOK'
<1>1. queue[r] \in Seq(Tasks) /\ queue[r] # <<>>
  BY DEF SkipTask, TypeOK, Stopped
<1>2. Tail(queue[r]) \in Seq(Tasks)
  BY <1>1
<1>3. UNCHANGED <<chain, file, txs, input, build, job, todo, factory, mem, quiet>>
  BY DEF SkipTask, files
<1>4. queue' \in [Runners -> Seq(Tasks)] /\ pc' \in [Runners -> Labels]
  BY <1>2 DEF TypeOK, SkipTask, Goto, Labels, Stopped, After
<1>5. \A q \in Runners : pc'[q] \notin Stopped =>
          IF pc'[q] = "between" THEN queue'[q] # <<>> ELSE todo'[q] # <<>>
  BY DEF TypeOK, SkipTask, Goto, Stopped, After
<1> QED BY <1>3, <1>4, <1>5 DEF TypeOK

LEMMA CheckType ==
    ASSUME TypeOK, NEW r \in Runners, Check(r)
    PROVE  TypeOK'
<1>1. pc[r] = "next" /\ UNCHANGED <<chain, file, txs, input, build, quiet>>
  BY DEF Check, files
<1>2. Output(r, Current(r)) \in Addresses \cup {Unknown}
  BY <1>1, CurrentType, OutputType DEF Stopped
<1>3. Advance(r, Output(r, Current(r)))
  BY DEF Check
<1> QED BY <1>1, <1>2, <1>3, AdvanceType DEF TypeOK, Stopped

LEMMA ReuseType ==
    ASSUME TypeOK, NEW r \in Runners, Reuse(r)
    PROVE  TypeOK'
<1>1. pc[r] = "next" /\ UNCHANGED <<chain, file, txs, input, build, quiet>>
  BY DEF Reuse, files
<1>2. Output(r, Current(r)) \in Addresses \cup {Unknown}
  BY <1>1, CurrentType, OutputType DEF Stopped
<1>3. CASE Advance(r, Output(r, Current(r)))
  BY <1>1, <1>2, <1>3, AdvanceType DEF TypeOK, Stopped
<1>4. CASE Goto(r, "lookup") /\ UNCHANGED <<job, todo, queue, factory, mem>>
  <2>1. "lookup" \in Labels \ {"between"}
    BY DEF Labels
  <2>2. /\ pc' \in [Runners -> Labels]
        /\ \A q \in Runners : pc'[q] \notin Stopped =>
               IF pc'[q] = "between" THEN queue'[q] # <<>> ELSE todo'[q] # <<>>
    BY <1>1, <1>4, <2>1, GotoType DEF Stopped
  <2> QED BY <1>1, <1>4, <2>2 DEF TypeOK
<1> QED BY <1>3, <1>4 DEF Reuse

LEMMA DeployType ==
    ASSUME TypeOK, NEW r \in Runners, Deploy(r)
    PROVE  TypeOK'
<1>1. pc[r] = "next" /\ UNCHANGED <<file, txs, input, build, job, todo, queue, factory, quiet>>
  BY DEF Deploy, files
<1>2. Current(r) \in Names /\ job[r] \in Jobs /\ factory[r] \in Addresses \cup {Unknown}
  BY <1>1, CurrentType DEF TypeOK, Stopped
<1>0. build[job[r].task] \in Builds
  BY <1>2 DEF TypeOK, Jobs
<1> DEFINE new == [task |-> job[r].task, name |-> Current(r),
                   code |-> build[job[r].task], args |-> job[r].args,
                   factory |-> IF Current(r) = Pool THEN factory[r] ELSE Unknown,
                   live |-> job[r].mode = "LIVE"]
<1>3. new \in Deployments
  BY <1>0, <1>2, ConstantsType DEF Deployments, Jobs
<1>4. chain' = Append(chain, new) /\ Len(chain) < MaxDeploys
  BY DEF Deploy
<1> HIDE DEF new
<1>5. chain' \in Seq(Deployments) /\ Len(chain') <= MaxDeploys
  BY <1>3, <1>4, DeploymentAssumption DEF TypeOK
<1>6. Len(chain) + 1 \in Addresses
  BY <1>4, DeploymentAssumption DEF TypeOK, Addresses
<1>7. mem' \in [Runners -> Memories]
  BY <1>6, InitialValues DEF Deploy, TypeOK, Memories
<1>8. SavedFirst(r) \in Labels \ {"between"} /\ Goto(r, SavedFirst(r))
  BY DEF Deploy, SavedFirst, Labels
<1>9. /\ pc' \in [Runners -> Labels]
      /\ \A q \in Runners : pc'[q] \notin Stopped =>
             IF pc'[q] = "between" THEN queue'[q] # <<>> ELSE todo'[q] # <<>>
  BY <1>1, <1>8, GotoType DEF Stopped
<1> QED BY <1>1, <1>5, <1>7, <1>9 DEF TypeOK

LEMMA ReadOutputType ==
    ASSUME TypeOK, NEW r \in Runners, ReadOutput(r)
    PROVE  TypeOK'
<1>1. pc[r] = "readOutput" /\ UNCHANGED <<chain, file, txs, input, build, job, todo, queue, factory, quiet>>
      /\ Goto(r, "writeOutput") /\ "writeOutput" \in Labels \ {"between"}
  BY DEF ReadOutput, files, Labels
<1>2. [made |-> mem[r].made, seen |-> file[SaveFile(r)], txs |-> {}] \in Memories
  <2>1. SaveFile(r) \in Files
    BY ConstantsType, OutputType
  <2>2. file[SaveFile(r)] \in Outputs /\ mem[r] \in Memories
    BY <2>1 DEF TypeOK
  <2> QED BY <2>2 DEF Memories
<1>3. mem' \in [Runners -> Memories]
  BY <1>2 DEF ReadOutput, TypeOK
<1>4. /\ pc' \in [Runners -> Labels]
      /\ \A q \in Runners : pc'[q] \notin Stopped =>
             IF pc'[q] = "between" THEN queue'[q] # <<>> ELSE todo'[q] # <<>>
  BY <1>1, GotoType DEF Stopped
<1> QED BY <1>1, <1>3, <1>4 DEF TypeOK

LEMMA WriteOutputType ==
    ASSUME TypeOK, NEW r \in Runners, WriteOutput(r)
    PROVE  TypeOK'
<1>1. /\ pc[r] = "writeOutput" /\ UNCHANGED <<chain, txs, input, build>>
      /\ file' = [file EXCEPT ![SaveFile(r)] = WithEntry(r, mem[r].seen)] /\ quiet' = {}
  BY DEF WriteOutput
<1>2. mem[r] \in Memories /\ Current(r) \in Names
  BY <1>1, CurrentType DEF TypeOK, Stopped
<1>3. mem[r].made \in Addresses \cup {Unknown} /\ mem[r].seen \in Outputs
  BY <1>2 DEF Memories
<1>4. WithEntry(r, mem[r].seen) \in Outputs
  BY <1>2, <1>3 DEF WithEntry, Outputs
<1>5. file' \in [Files -> Outputs]
  BY <1>1, <1>4 DEF TypeOK
<1>6. CASE Advance(r, mem[r].made)
  BY <1>1, <1>3, <1>5, <1>6, AdvanceType DEF TypeOK, Stopped
<1>7. CASE /\ Goto(r, IF Current(r) = Pool THEN "lookup" ELSE "readHashes")
           /\ UNCHANGED <<job, todo, queue, factory, mem>>
  <2>1. PICK l \in {"lookup", "readHashes"} : Goto(r, l)
    BY <1>7
  <2>2. l \in Labels \ {"between"}
    BY DEF Labels
  <2>3. /\ pc' \in [Runners -> Labels]
        /\ \A q \in Runners : pc'[q] \notin Stopped =>
               IF pc'[q] = "between" THEN queue'[q] # <<>> ELSE todo'[q] # <<>>
    BY <1>1, <1>7, <2>1, <2>2, GotoType DEF Stopped
  <2> QED BY <1>1, <1>5, <1>7, <2>3 DEF TypeOK
<1> QED BY <1>6, <1>7 DEF WriteOutput

LEMMA ReadHashesType ==
    ASSUME TypeOK, NEW r \in Runners, ReadHashes(r)
    PROVE  TypeOK'
<1>1. pc[r] = "readHashes" /\ UNCHANGED <<chain, file, txs, input, build, job, todo, queue, factory, quiet>>
      /\ Goto(r, "writeHashes") /\ "writeHashes" \in Labels \ {"between"}
  BY DEF ReadHashes, files, Labels
<1>2. [made |-> mem[r].made, seen |-> Nowhere, txs |-> txs] \in Memories
  BY InitialValues DEF TypeOK, Memories
<1>3. mem' \in [Runners -> Memories]
  BY <1>2 DEF ReadHashes, TypeOK
<1>4. /\ pc' \in [Runners -> Labels]
      /\ \A q \in Runners : pc'[q] \notin Stopped =>
             IF pc'[q] = "between" THEN queue'[q] # <<>> ELSE todo'[q] # <<>>
  BY <1>1, GotoType DEF Stopped
<1> QED BY <1>1, <1>3, <1>4 DEF TypeOK

LEMMA WriteHashesType ==
    ASSUME TypeOK, NEW r \in Runners, WriteHashes(r), mem[r].made \in Addresses
    PROVE  TypeOK'
<1>1. pc[r] = "writeHashes" /\ UNCHANGED <<chain, file, input, build, quiet>> /\ mem[r] \in Memories
  BY DEF WriteHashes, TypeOK
<1>2. txs' \subseteq Addresses
  BY <1>1 DEF WriteHashes, NewHashes, Memories
<1>3. CASE Advance(r, mem[r].made)
  BY <1>1, <1>2, <1>3, AdvanceType DEF TypeOK, Stopped
<1>4. CASE Goto(r, "readOutput") /\ UNCHANGED <<job, todo, queue, factory, mem>>
  <2>1. "readOutput" \in Labels \ {"between"}
    BY DEF Labels
  <2>2. /\ pc' \in [Runners -> Labels]
        /\ \A q \in Runners : pc'[q] \notin Stopped =>
               IF pc'[q] = "between" THEN queue'[q] # <<>> ELSE todo'[q] # <<>>
    BY <1>1, <1>4, <2>1, GotoType DEF Stopped
  <2> QED BY <1>1, <1>2, <1>4, <2>2 DEF TypeOK
<1> QED BY <1>3, <1>4 DEF WriteHashes

LEMMA LookupType ==
    ASSUME TypeOK, NEW r \in Runners, Lookup(r)
    PROVE  TypeOK'
<1>1. pc[r] = "lookup" /\ UNCHANGED <<chain, file, txs, input, build, quiet>>
  BY DEF Lookup, files
<1>2. Output(r, Pool) \in Addresses \cup {Unknown}
  BY ConstantsType, OutputType
<1>3. Advance(r, Output(r, Pool))
  BY DEF Lookup
<1> QED BY <1>1, <1>2, <1>3, AdvanceType DEF TypeOK, Stopped

LEMMA EditType ==
    ASSUME TypeOK, NEW t \in Tasks, EditInput(t) \/ EditBuild(t)
    PROVE  TypeOK'
BY DEF TypeOK, EditInput, EditBuild, process

-----------------------------------------------------------------------------
\* What a step may change: the chain only grows, and a process changes nothing of
\* another process but its claim that nothing has changed.

Writing == {"readOutput", "writeOutput", "readHashes", "writeHashes"}

Same(q) == /\ pc'[q] = pc[q] /\ job'[q] = job[q] /\ todo'[q] = todo[q]
           /\ queue'[q] = queue[q] /\ mem'[q] = mem[q]
           /\ q \in quiet' => q \in quiet

\* Every way a process can fail.
Fails(r) == \/ Stop(r) \/ CheckFails(r) \/ Refuse(r) \/ DeployFails(r) \/ LookupFails(r)
            \/ \E t \in Tasks, mode \in Modes : InputMissing(r, t, mode)
            \/ NextTask(r) /\ Fail(r)

LEMMA FailsIsFail ==
    ASSUME NEW r \in Runners, Fails(r)
    PROVE  Fail(r)
BY DEF Fails, Stop, CheckFails, Refuse, DeployFails, LookupFails, InputMissing

LEMMA FailSame ==
    ASSUME TypeOK, NEW r \in Runners, Fail(r)
    PROVE  \A q \in Runners \ {r} : Same(q)
BY DEF TypeOK, Fail, Goto, Same

LEMMA AdvanceSame ==
    ASSUME TypeOK, NEW r \in Runners, NEW a, Advance(r, a), quiet' \subseteq quiet
    PROVE  \A q \in Runners \ {r} : Same(q)
BY DEF TypeOK, Advance, Goto, Same

LEMMA EnterSame ==
    ASSUME TypeOK, NEW r \in Runners, NEW t, NEW mode, NEW force, NEW scope,
           Enter(r, t, mode, force, scope), \A q \in Runners \ {r} : queue'[q] = queue[q],
           quiet' \subseteq quiet \cup {r}
    PROVE  \A q \in Runners \ {r} : Same(q)
BY DEF TypeOK, Enter, Goto, Same

LEMMA GotoSame ==
    ASSUME TypeOK, NEW r \in Runners, NEW l, Goto(r, l), UNCHANGED <<job, todo, queue>>,
           \A q \in Runners \ {r} : mem'[q] = mem[q], quiet' \subseteq quiet
    PROVE  \A q \in Runners \ {r} : Same(q)
BY DEF TypeOK, Goto, Same

-----------------------------------------------------------------------------
\* The inductive invariant.

\* What a process has just deployed, and what it has read of its output.
MemoryTrue(r) ==
    pc[r] \in Writing =>
        /\ Made(mem[r].made, job[r].task, Current(r))
        /\ chain[mem[r].made].live = (job[r].mode = "LIVE")
        /\ \A n \in Names : mem[r].seen[n] # Unknown =>
               /\ Made(mem[r].seen[n], job[r].task, n)
               /\ job[r].mode = "LIVE" => chain[mem[r].seen[n]].live

\* The addresses it has as arguments.
ArgumentsTrue(r) ==
    pc[r] \notin Stopped \cup {"between"} =>
        \A d \in Needs[job[r].task] :
            Made(job[r].args.needs[d], d[1], d[2]) /\ chain[job[r].args.needs[d]].live

\* The tasks it has still to check, and what holds of the others.
Rest(r) == {queue[r][i] : i \in DOMAIN queue[r]} \cup (IF pc[r] = "next" THEN {job[r].task} ELSE {})

Corresponds(t) ==
    NetworkFile(t) # Nowhere =>
        /\ Made(NetworkFile(t)[Factory], t, Factory)
        /\ chain[NetworkFile(t)[Factory]].code = build[t]
        /\ chain[NetworkFile(t)[Factory]].args = Args(t, "CHECK")

ChecksTrue(r) ==
    r \in quiet =>
        /\ job[r].mode = "CHECK" /\ pc[r] \in {"between", "next", "done"}
        /\ pc[r] = "done" => queue[r] = <<>>
        /\ pc[r] = "next" => /\ todo[r] = <<Factory>>
                             /\ job[r].args = Args(job[r].task, "CHECK")
        /\ \A t \in job[r].scope \ Rest(r) : Corresponds(t)

IInv == /\ TypeOK
        /\ OutputsDeployed
        /\ DependenciesDeployed
        /\ \A r \in Runners : MemoryTrue(r) /\ ArgumentsTrue(r) /\ ChecksTrue(r)

LEMMA InitInv == Init => IInv
<1> SUFFICES ASSUME Init PROVE IInv
  OBVIOUS
<1>1. OutputsDeployed
  BY DEF Init, OutputsDeployed, Nowhere
<1>2. DependenciesDeployed
  BY DEF Init, DependenciesDeployed, Deployed
<1>3. \A r \in Runners : MemoryTrue(r) /\ ArgumentsTrue(r) /\ ChecksTrue(r)
  BY DEF Init, MemoryTrue, ArgumentsTrue, ChecksTrue, Writing, Stopped
<1> QED BY <1>1, <1>2, <1>3, InitType DEF IInv

Grows == \A a \in Deployed : a \in Deployed' /\ chain'[a] = chain[a]

LEMMA SameChainGrows == ASSUME chain' = chain PROVE Grows
BY DEF Grows, Deployed

LEMMA AppendGrows ==
    ASSUME TypeOK, NEW x, chain' = Append(chain, x)
    PROVE  /\ Grows
           /\ Deployed' = Deployed \cup {Len(chain) + 1} /\ Len(chain) + 1 \notin Deployed
           /\ chain'[Len(chain) + 1] = x
           /\ \A a \in Deployed : a \in Nat /\ a < Len(chain) + 1
BY DEF Grows, Deployed, TypeOK

LEMMA MadeStays ==
    ASSUME Grows, NEW a, NEW t, NEW n, Made(a, t, n)
    PROVE  Made(a, t, n)' /\ chain'[a] = chain[a]
BY DEF Grows, Made

LEMMA OthersKeep ==
    ASSUME NEW q \in Runners, MemoryTrue(q), ArgumentsTrue(q), ChecksTrue(q),
           Grows, Same(q), q \in quiet' => UNCHANGED <<file, input, build>>
    PROVE  MemoryTrue(q)' /\ ArgumentsTrue(q)' /\ ChecksTrue(q)'
<1>1. MemoryTrue(q)'
  BY MadeStays DEF MemoryTrue, Same, Current
<1>2. ArgumentsTrue(q)'
  BY MadeStays DEF ArgumentsTrue, Same
<1>3. ChecksTrue(q)'
  <2> SUFFICES ASSUME q \in quiet' PROVE ChecksTrue(q)'
    BY DEF ChecksTrue
  <2>1. q \in quiet /\ UNCHANGED <<file, input, build>>
    BY DEF Same
  <2>2. Rest(q)' = Rest(q) /\ \A t : Args(t, "CHECK")' = Args(t, "CHECK")
    BY <2>1 DEF Same, Rest, Args, NeededOutput, NetworkFile
  <2>3. \A t : Corresponds(t) => Corresponds(t)'
    BY <2>1, <2>2, MadeStays DEF Corresponds, NetworkFile
  <2> QED BY <2>1, <2>2, <2>3 DEF ChecksTrue, Same
<1> QED BY <1>1, <1>2, <1>3

\* A step of a process that neither deploys nor writes an output.
LEMMA LocalStep ==
    ASSUME IInv, TypeOK', NEW r \in Runners, \A q \in Runners \ {r} : Same(q),
           UNCHANGED <<chain, file, input, build>>,
           MemoryTrue(r)', ArgumentsTrue(r)', ChecksTrue(r)'
    PROVE  IInv'
<1>1. Grows
  BY SameChainGrows
<1>2. \A q \in Runners \ {r} : MemoryTrue(q)' /\ ArgumentsTrue(q)' /\ ChecksTrue(q)'
  BY <1>1, OthersKeep DEF IInv
<1>3. OutputsDeployed'
  BY <1>1, MadeStays DEF IInv, OutputsDeployed
<1>4. DependenciesDeployed'
  BY <1>1, MadeStays DEF IInv, DependenciesDeployed, Deployed
<1> QED BY <1>2, <1>3, <1>4 DEF IInv

LEMMA FailInv ==
    ASSUME IInv, NEW r \in Runners, Fail(r)
    PROVE  IInv'
<1>1. TypeOK' /\ \A q \in Runners \ {r} : Same(q)
  BY FailType, FailSame DEF IInv
<1>2. pc'[r] = "failed" /\ r \notin quiet' /\ UNCHANGED <<chain, file, input, build>>
  BY DEF Fail, Goto, files, IInv, TypeOK
<1>3. MemoryTrue(r)' /\ ArgumentsTrue(r)' /\ ChecksTrue(r)'
  BY <1>2 DEF MemoryTrue, ArgumentsTrue, ChecksTrue, Writing, Stopped
<1> QED BY <1>1, <1>2, <1>3, LocalStep

\* The arguments a task starts with.
LEMMA EnterArguments ==
    ASSUME IInv, NEW r \in Runners, NEW t \in Tasks, NEW mode \in AllModes, NEW force,
           NEW scope, Enter(r, t, mode, force, scope), InputsFound(t, mode)
    PROVE  /\ MemoryTrue(r)' /\ ArgumentsTrue(r)'
           /\ job'[r] = [task |-> t, mode |-> mode, force |-> force, scope |-> scope,
                         args |-> Args(t, mode)]
           /\ pc'[r] = "next" /\ todo'[r] = Todo(mode)
           /\ UNCHANGED <<chain, file, input, build>>
<1>1. /\ job'[r] = [task |-> t, mode |-> mode, force |-> force, scope |-> scope, args |-> Args(t, mode)]
      /\ pc'[r] = "next" /\ todo'[r] = Todo(mode) /\ UNCHANGED <<chain, file, input, build>>
  BY DEF Enter, Goto, files, IInv, TypeOK
<1>2. MemoryTrue(r)'
  BY <1>1 DEF MemoryTrue, Writing
<1>3. \A d \in Needs[t] : /\ Made(NetworkFile(d[1])[d[2]], d[1], d[2])
                          /\ chain[NetworkFile(d[1])[d[2]]].live
  <2> SUFFICES ASSUME NEW d \in Needs[t]
               PROVE  Made(NetworkFile(d[1])[d[2]], d[1], d[2]) /\ chain[NetworkFile(d[1])[d[2]]].live
    OBVIOUS
  <2>1. d[1] \in Tasks /\ d[2] \in Names /\ <<d[1], "network">> \in Files
    BY DeploymentAssumption DEF Files
  <2>2. file[<<d[1], "network">>][d[2]] # Unknown
    BY DEF InputsFound, NeededOutput, NetworkFile
  <2> QED BY <2>1, <2>2 DEF IInv, OutputsDeployed, NetworkFile
<1>4. job'[r].args.needs = NeededOutput(t, mode) /\ job'[r].task = t
  BY <1>1 DEF Args
<1>5. ArgumentsTrue(r)'
  BY <1>1, <1>3, <1>4, SameChainGrows, MadeStays DEF ArgumentsTrue, NeededOutput
<1> QED BY <1>1, <1>2, <1>5

LEMMA StartInv ==
    ASSUME IInv, NEW r \in Runners, NEW t \in Tasks, NEW mode \in Modes, NEW force \in Forces,
           Start(r, t, mode, force)
    PROVE  IInv'
<1>1. mode \in AllModes /\ InputsFound(t, mode) /\ Enter(r, t, mode, force, {t})
  BY DeploymentAssumption DEF Start
<1>2. /\ MemoryTrue(r)' /\ ArgumentsTrue(r)'
      /\ job'[r] = [task |-> t, mode |-> mode, force |-> force, scope |-> {t}, args |-> Args(t, mode)]
      /\ pc'[r] = "next" /\ todo'[r] = Todo(mode) /\ UNCHANGED <<chain, file, input, build>>
  BY <1>1, EnterArguments
<1>3. TypeOK'
  BY StartType DEF IInv
<1>4. queue'[r] = <<>> /\ (\A q \in Runners \ {r} : queue'[q] = queue[q])
      /\ quiet' \subseteq quiet \cup {r} /\ (r \in quiet' => mode = "CHECK")
  BY DEF Start, IInv, TypeOK
<1>5. \A q \in Runners \ {r} : Same(q)
  BY <1>1, <1>4, EnterSame DEF IInv
<1>6. ChecksTrue(r)'
  <2> SUFFICES ASSUME r \in quiet' PROVE ChecksTrue(r)'
    BY DEF ChecksTrue
  <2>1. mode = "CHECK" /\ todo'[r] = <<Factory>>
    BY <1>2, <1>4 DEF Todo
  <2>2. Args(t, "CHECK")' = Args(t, "CHECK") /\ Args(t, mode) = Args(t, "CHECK")
    BY <1>2 DEF Args, NeededOutput, NetworkFile
  <2>3. Rest(r)' = {t}
    BY <1>2, <1>4 DEF Rest
  <2> QED BY <1>2, <2>1, <2>2, <2>3 DEF ChecksTrue
<1> QED BY <1>2, <1>3, <1>5, <1>6, LocalStep

LEMMA CheckDeploymentsInv ==
    ASSUME IInv, NEW r \in Runners, CheckDeployments(r)
    PROVE  IInv'
<1>1. TypeOK'
  BY CheckDeploymentsType DEF IInv
<1>2. /\ pc'[r] = "between" /\ queue'[r] = TaskOrder /\ UNCHANGED <<chain, file, input, build>>
      /\ job'[r].mode = "CHECK" /\ job'[r].scope = Tasks
  BY DEF CheckDeployments, Goto, files, IInv, TypeOK
<1>3. \A q \in Runners \ {r} : Same(q)
  BY DEF CheckDeployments, Goto, IInv, TypeOK, Same
<1>4. MemoryTrue(r)' /\ ArgumentsTrue(r)'
  BY <1>2 DEF MemoryTrue, ArgumentsTrue, Writing
<1>5. Tasks \subseteq Rest(r)'
  BY <1>2 DEF Rest, Tasks
<1>6. ChecksTrue(r)'
  BY <1>2, <1>5 DEF ChecksTrue
<1> QED BY <1>1, <1>2, <1>3, <1>4, <1>6, LocalStep

\* A task leaves the queue.
LEMMA QueueSplit ==
    ASSUME NEW q \in Seq(Tasks), q # <<>>
    PROVE  /\ Head(q) \in Tasks /\ Tail(q) \in Seq(Tasks)
           /\ {q[i] : i \in DOMAIN q} = {Head(q)} \cup {Tail(q)[i] : i \in DOMAIN Tail(q)}
<1>1. Head(q) = q[1] /\ Len(Tail(q)) = Len(q) - 1 /\ Len(q) \in Nat /\ Len(q) >= 1
  OBVIOUS
<1>2. \A i \in DOMAIN Tail(q) : i + 1 \in DOMAIN q /\ Tail(q)[i] = q[i + 1]
  OBVIOUS
<1>3. \A i \in DOMAIN q : i = 1 \/ (i - 1 \in DOMAIN Tail(q) /\ q[i] = Tail(q)[i - 1])
  OBVIOUS
<1>4. 1 \in DOMAIN q
  OBVIOUS
<1>5. \A i \in DOMAIN q : q[i] \in {Head(q)} \cup {Tail(q)[j] : j \in DOMAIN Tail(q)}
  BY <1>1, <1>3
<1>6. Head(q) \in {q[i] : i \in DOMAIN q}
  BY <1>1, <1>4
<1>7. \A j \in DOMAIN Tail(q) : Tail(q)[j] \in {q[i] : i \in DOMAIN q}
  BY <1>2
<1> QED BY <1>5, <1>6, <1>7

LEMMA SkipTaskInv ==
    ASSUME IInv, NEW r \in Runners, SkipTask(r)
    PROVE  IInv'
<1>1. TypeOK'
  BY SkipTaskType DEF IInv
<1>2. /\ pc[r] = "between" /\ NetworkFile(Head(queue[r])) = Nowhere
      /\ queue' = [queue EXCEPT ![r] = Tail(@)]
      /\ UNCHANGED <<chain, file, input, build, job, todo, mem, quiet>>
      /\ Goto(r, After(Tail(queue[r])))
  BY DEF SkipTask, files
<1>3. \A q \in Runners \ {r} : Same(q)
  BY <1>2 DEF Goto, IInv, TypeOK, Same
<1>4. pc'[r] = After(Tail(queue[r])) /\ queue'[r] = Tail(queue[r])
  BY <1>2 DEF Goto, IInv, TypeOK
<1>5. pc'[r] \in {"between", "done"} /\ (pc'[r] = "done" => queue'[r] = <<>>)
  BY <1>4 DEF After
<1>6. MemoryTrue(r)' /\ ArgumentsTrue(r)'
  BY <1>5 DEF MemoryTrue, ArgumentsTrue, Writing, Stopped
<1>7. queue[r] \in Seq(Tasks) /\ queue[r] # <<>>
  BY <1>2 DEF IInv, TypeOK, Stopped
<1>8. Rest(r) = {Head(queue[r])} \cup Rest(r)'
  <2>1. Rest(r) = {queue[r][i] : i \in DOMAIN queue[r]}
    BY <1>2 DEF Rest
  <2>2. Rest(r)' = {Tail(queue[r])[i] : i \in DOMAIN Tail(queue[r])}
    BY <1>4, <1>5 DEF Rest
  <2> QED BY <2>1, <2>2, <1>7, QueueSplit
<1>9. ChecksTrue(r)'
  <2> SUFFICES ASSUME r \in quiet PROVE ChecksTrue(r)'
    BY <1>2 DEF ChecksTrue
  <2>1. \A t : Corresponds(t)' <=> Corresponds(t)
    BY <1>2 DEF Corresponds, NetworkFile, Args, NeededOutput, Made, Deployed
  <2>2. Corresponds(Head(queue[r]))
    BY <1>2 DEF Corresponds
  <2>3. ChecksTrue(r)
    BY DEF IInv
  <2> QED BY <1>2, <1>5, <1>8, <2>1, <2>2, <2>3 DEF ChecksTrue
<1> QED BY <1>1, <1>2, <1>3, <1>6, <1>9, LocalStep

LEMMA NextTaskInv ==
    ASSUME IInv, NEW r \in Runners, NextTask(r)
    PROVE  IInv'
<1>1. CASE Fail(r)
  BY <1>1, FailInv
<1>2. CASE /\ InputsFound(Head(queue[r]), "CHECK")
           /\ Enter(r, Head(queue[r]), "CHECK", FALSE, job[r].scope)
           /\ queue' = [queue EXCEPT ![r] = Tail(@)] /\ UNCHANGED quiet
  <2>1. queue[r] \in Seq(Tasks) /\ queue[r] # <<>> /\ pc[r] = "between"
    BY DEF NextTask, IInv, TypeOK, Stopped
  <2> PICK t \in Tasks : t = Head(queue[r])
    BY <2>1, QueueSplit
  <2>2. "CHECK" \in AllModes
    BY DEF AllModes
  <2>3. /\ MemoryTrue(r)' /\ ArgumentsTrue(r)'
        /\ job'[r] = [task |-> t, mode |-> "CHECK", force |-> FALSE,
                      scope |-> job[r].scope, args |-> Args(t, "CHECK")]
        /\ pc'[r] = "next" /\ todo'[r] = Todo("CHECK") /\ UNCHANGED <<chain, file, input, build>>
    BY <1>2, <2>2, EnterArguments
  <2>4. TypeOK'
    BY NextTaskType DEF IInv
  <2>5. queue'[r] = Tail(queue[r]) /\ (\A q \in Runners \ {r} : queue'[q] = queue[q])
    BY <1>2 DEF IInv, TypeOK
  <2>6. \A q \in Runners \ {r} : Same(q)
    BY <1>2, <2>5, EnterSame DEF IInv
  <2>7. Rest(r)' = Rest(r)
    <3>1. Rest(r) = {queue[r][i] : i \in DOMAIN queue[r]}
      BY <2>1 DEF Rest
    <3>2. Rest(r)' = {Tail(queue[r])[i] : i \in DOMAIN Tail(queue[r])} \cup {t}
      BY <2>3, <2>5 DEF Rest
    <3> QED BY <3>1, <3>2, <2>1, QueueSplit
  <2>8. ChecksTrue(r)'
    <3> SUFFICES ASSUME r \in quiet PROVE ChecksTrue(r)'
      BY <1>2 DEF ChecksTrue
    <3>1. \A u : Corresponds(u)' <=> Corresponds(u)
      BY <2>3 DEF Corresponds, NetworkFile, Args, NeededOutput, Made, Deployed
    <3>2. Args(t, "CHECK")' = Args(t, "CHECK")
      BY <2>3 DEF Args, NeededOutput, NetworkFile
    <3>3. todo'[r] = <<Factory>>
      BY <2>3 DEF Todo
    <3>4. ChecksTrue(r)
      BY DEF IInv
    <3>5. /\ job'[r].mode = "CHECK" /\ job'[r].args = Args(t, "CHECK") /\ job'[r].task = t
          /\ job'[r].scope = job[r].scope
      BY <2>3
    <3>6. (job[r].args = Args(job[r].task, "CHECK"))'
      BY <3>2, <3>5
    <3> QED BY <2>3, <2>7, <3>1, <3>3, <3>4, <3>5, <3>6 DEF ChecksTrue
  <2> QED BY <2>3, <2>4, <2>6, <2>8, LocalStep
<1> QED BY <1>1, <1>2 DEF NextTask

\* A process that goes on has nothing in its memory.
LEMMA AdvanceLocal ==
    ASSUME IInv, NEW r \in Runners, NEW a, Advance(r, a), pc[r] \notin Stopped, pc[r] # "between"
    PROVE  /\ pc'[r] \in {"next", "between", "done"} /\ job'[r] = job[r] /\ queue'[r] = queue[r]
           /\ pc'[r] = "next" => todo'[r] = Tail(todo[r]) /\ Tail(todo[r]) # <<>>
           /\ pc'[r] = "done" => queue[r] = <<>>
           /\ MemoryTrue(r)'
           /\ chain' = chain => ArgumentsTrue(r)'
<1>1. /\ pc'[r] \in {"next", "between", "done"} /\ job'[r] = job[r] /\ queue'[r] = queue[r]
      /\ pc'[r] = "next" => todo'[r] = Tail(todo[r]) /\ Tail(todo[r]) # <<>>
      /\ pc'[r] = "done" => queue[r] = <<>>
  BY DEF Advance, Goto, After, IInv, TypeOK
<1>2. MemoryTrue(r)'
  BY <1>1 DEF MemoryTrue, Writing
<1>3. ASSUME chain' = chain PROVE ArgumentsTrue(r)'
  BY <1>1, <1>3 DEF IInv, ArgumentsTrue, Made, Deployed
<1> QED BY <1>1, <1>2, <1>3

LEMMA CheckInv ==
    ASSUME IInv, NEW r \in Runners, Check(r)
    PROVE  IInv'
<1>1. TypeOK'
  BY CheckType DEF IInv
<1> DEFINE a == Output(r, Current(r))
<1>2. /\ pc[r] = "next" /\ job[r].mode = "CHECK" /\ Checks(r, a) /\ Advance(r, a)
      /\ UNCHANGED <<chain, file, input, build, quiet>>
  BY DEF Check, files
<1>3. \A q \in Runners \ {r} : Same(q)
  BY <1>2, AdvanceSame DEF IInv
<1>4. /\ pc'[r] \in {"next", "between", "done"} /\ job'[r] = job[r] /\ queue'[r] = queue[r]
      /\ pc'[r] = "next" => todo'[r] = Tail(todo[r]) /\ Tail(todo[r]) # <<>>
      /\ pc'[r] = "done" => queue[r] = <<>>
      /\ MemoryTrue(r)' /\ ArgumentsTrue(r)'
  BY <1>2, AdvanceLocal DEF Stopped
<1>5. ChecksTrue(r)'
  <2> SUFFICES ASSUME r \in quiet PROVE ChecksTrue(r)'
    BY <1>2 DEF ChecksTrue
  <2>1. ChecksTrue(r) /\ todo[r] = <<Factory>> /\ job[r].args = Args(job[r].task, "CHECK")
    BY <1>2 DEF IInv, ChecksTrue
  <2>2. Tail(todo[r]) = <<>> /\ Current(r) = Factory
    BY <2>1 DEF Current
  <2>3. Rest(r) = Rest(r)' \cup {job[r].task}
    BY <1>2, <1>4, <2>2 DEF Rest
  <2>4. Corresponds(job[r].task)
    <3>1. a = NetworkFile(job[r].task)[Factory]
      BY <1>2, <2>2 DEF Output, OutputFile, NetworkFile
    <3>2. Matches(r, a) /\ a # Unknown /\ job[r].task \in Tasks /\ Factory \in Names
      BY <1>2, ConstantsType DEF Checks, IInv, TypeOK, Jobs
    <3>3. Made(a, job[r].task, Factory)
      BY <3>1, <3>2 DEF IInv, OutputsDeployed, NetworkFile, Files
    <3> QED BY <2>1, <3>1, <3>2, <3>3 DEF Corresponds, Matches
  <2>5. \A t : Corresponds(t)' <=> Corresponds(t)
    BY <1>2 DEF Corresponds, NetworkFile, Args, NeededOutput, Made, Deployed
  <2> QED BY <1>2, <1>4, <2>1, <2>2, <2>3, <2>4, <2>5 DEF ChecksTrue
<1> QED BY <1>1, <1>2, <1>3, <1>4, <1>5, LocalStep

LEMMA NotQuiet ==
    ASSUME IInv, NEW r \in Runners, Deploys(r) \/ pc[r] \in Writing \cup {"lookup"}
    PROVE  r \notin quiet
BY DEF IInv, ChecksTrue, Deploys, Writing

LEMMA ReuseInv ==
    ASSUME IInv, NEW r \in Runners, Reuse(r)
    PROVE  IInv'
<1>1. TypeOK'
  BY ReuseType DEF IInv
<1>2. pc[r] = "next" /\ UNCHANGED <<chain, file, input, build, quiet>> /\ Deploys(r)
  BY DEF Reuse, files
<1>3. r \notin quiet /\ ChecksTrue(r)'
  BY <1>2, NotQuiet DEF ChecksTrue
<1>4. CASE Advance(r, Output(r, Current(r)))
  <2>1. MemoryTrue(r)' /\ ArgumentsTrue(r)'
    BY <1>2, <1>4, AdvanceLocal DEF Stopped
  <2>2. \A q \in Runners \ {r} : Same(q)
    BY <1>2, <1>4, AdvanceSame DEF IInv
  <2> QED BY <1>1, <1>2, <1>3, <2>1, <2>2, LocalStep
<1>5. CASE Goto(r, "lookup") /\ UNCHANGED <<job, todo, queue, factory, mem>>
  <2>1. pc'[r] = "lookup" /\ job'[r] = job[r]
    BY <1>5 DEF Goto, IInv, TypeOK
  <2>2. MemoryTrue(r)' /\ ArgumentsTrue(r)'
    BY <1>2, <2>1 DEF MemoryTrue, ArgumentsTrue, Writing, IInv, Stopped, Made, Deployed
  <2>3. \A q \in Runners \ {r} : Same(q)
    BY <1>2, <1>5, GotoSame DEF IInv
  <2> QED BY <1>1, <1>2, <1>3, <2>2, <2>3, LocalStep
<1> QED BY <1>4, <1>5 DEF Reuse

LEMMA DeployInv ==
    ASSUME IInv, NEW r \in Runners, Deploy(r)
    PROVE  IInv'
<1>1. TypeOK'
  BY DeployType DEF IInv
<1> DEFINE new == [task |-> job[r].task, name |-> Current(r),
                   code |-> build[job[r].task], args |-> job[r].args,
                   factory |-> IF Current(r) = Pool THEN factory[r] ELSE Unknown,
                   live |-> job[r].mode = "LIVE"]
<1> PICK a \in Nat : a = Len(chain) + 1
  BY DEF IInv, TypeOK
<1>2. /\ pc[r] = "next" /\ Deploys(r) /\ chain' = Append(chain, new)
      /\ UNCHANGED <<file, input, build, job, todo, queue, quiet>> /\ Goto(r, SavedFirst(r))
      /\ mem' = [mem EXCEPT ![r] = [made |-> a, seen |-> Nowhere, txs |-> {}]]
  BY DEF Deploy, files
<1>3. new.task = job[r].task /\ new.name = Current(r) /\ new.args = job[r].args
      /\ new.live = (job[r].mode = "LIVE")
  OBVIOUS
<1> HIDE DEF new
<1>4. /\ Grows /\ Deployed' = Deployed \cup {a} /\ a \notin Deployed /\ chain'[a] = new
      /\ \A i \in Deployed : i \in Nat /\ i < a
  BY <1>2, AppendGrows DEF IInv
<1>5. \A q \in Runners \ {r} : Same(q)
  BY <1>2, GotoSame DEF IInv, TypeOK
<1>6. \A q \in Runners \ {r} : MemoryTrue(q)' /\ ArgumentsTrue(q)' /\ ChecksTrue(q)'
  BY <1>2, <1>4, <1>5, OthersKeep DEF IInv
<1>7. OutputsDeployed'
  BY <1>2, <1>4, MadeStays DEF IInv, OutputsDeployed
<1>8. \A d \in Needs[job[r].task] :
         /\ Made(job[r].args.needs[d], d[1], d[2]) /\ chain[job[r].args.needs[d]].live
  BY <1>2 DEF IInv, ArgumentsTrue, Stopped
<1>9. DependenciesDeployed'
  <2> SUFFICES ASSUME NEW i \in Deployed', NEW d \in Needs[chain'[i].task],
                      NEW b, b = chain'[i].args.needs[d]
               PROVE  Made(b, d[1], d[2])' /\ b < i /\ chain'[b].live
    BY DEF DependenciesDeployed
  <2>1. CASE i \in Deployed
    <3>1. chain'[i] = chain[i]
      BY <2>1, <1>4 DEF Grows
    <3>2. Made(b, d[1], d[2]) /\ b < i /\ chain[b].live
      BY <2>1, <3>1 DEF IInv, DependenciesDeployed
    <3> QED BY <3>2, <1>4, MadeStays
  <2>2. CASE i = a
    <3>1. chain'[i].task = job[r].task /\ chain'[i].args = job[r].args
      BY <2>2, <1>3, <1>4
    <3>2. Made(b, d[1], d[2]) /\ chain[b].live
      BY <3>1, <1>8
    <3>3. b < i
      BY <3>2, <2>2, <1>4 DEF Made
    <3> QED BY <3>2, <3>3, <1>4, MadeStays
  <2> QED BY <2>1, <2>2, <1>4
<1>10. MemoryTrue(r)'
  <2>1. mem'[r].made = a /\ mem'[r].seen = Nowhere /\ job'[r] = job[r] /\ Current(r)' = Current(r)
    BY <1>2 DEF IInv, TypeOK, Current
  <2>2. Made(mem[r].made, job[r].task, Current(r))' /\ chain'[a].live = (job[r].mode = "LIVE")
    BY <1>3, <1>4, <2>1 DEF Made
  <2>3. \A n \in Names : mem'[r].seen[n] = Unknown
    BY <2>1 DEF Nowhere
  <2> QED BY <2>1, <2>2, <2>3 DEF MemoryTrue
<1>11. ArgumentsTrue(r)'
  BY <1>2, <1>4, <1>8, MadeStays DEF ArgumentsTrue
<1>12. ChecksTrue(r)'
  BY <1>2, NotQuiet DEF ChecksTrue
<1> QED BY <1>1, <1>6, <1>7, <1>9, <1>10, <1>11, <1>12 DEF IInv

LEMMA ReadOutputInv ==
    ASSUME IInv, NEW r \in Runners, ReadOutput(r)
    PROVE  IInv'
<1>1. TypeOK'
  BY ReadOutputType DEF IInv
<1>2. /\ pc[r] = "readOutput" /\ UNCHANGED <<chain, file, input, build, job, todo, queue, quiet>>
      /\ mem' = [mem EXCEPT ![r] = [made |-> mem[r].made, seen |-> file[SaveFile(r)], txs |-> {}]]
      /\ Goto(r, "writeOutput")
  BY DEF ReadOutput, files
<1>3. \A q \in Runners \ {r} : Same(q)
  BY <1>2, GotoSame DEF IInv, TypeOK
<1>4. /\ pc'[r] = "writeOutput" /\ job'[r] = job[r] /\ Current(r)' = Current(r)
      /\ mem'[r].made = mem[r].made /\ mem'[r].seen = file[SaveFile(r)]
  BY <1>2 DEF Goto, IInv, TypeOK, Current
<1>5. ArgumentsTrue(r)'
  BY <1>2, <1>4 DEF ArgumentsTrue, IInv, Stopped, Made, Deployed
<1>6. MemoryTrue(r)'
  <2>1. /\ Made(mem[r].made, job[r].task, Current(r))
        /\ chain[mem[r].made].live = (job[r].mode = "LIVE")
    BY <1>2 DEF IInv, MemoryTrue, Writing
  <2>2. SaveFile(r) \in Files /\ SaveFile(r)[1] = job[r].task
        /\ (job[r].mode = "LIVE" => SaveFile(r)[2] = "network")
    BY ConstantsType, OutputType DEF IInv, SaveFile
  <2>3. \A n \in Names : file[SaveFile(r)][n] # Unknown =>
            /\ Made(file[SaveFile(r)][n], job[r].task, n)
            /\ job[r].mode = "LIVE" => chain[file[SaveFile(r)][n]].live
    BY <2>2 DEF IInv, OutputsDeployed
  <2> QED BY <1>2, <1>4, <2>1, <2>3 DEF MemoryTrue, Made, Deployed
<1>7. ChecksTrue(r)'
  BY <1>2, NotQuiet DEF ChecksTrue, Writing
<1> QED BY <1>1, <1>2, <1>3, <1>5, <1>6, <1>7, LocalStep

LEMMA WriteOutputInv ==
    ASSUME IInv, NEW r \in Runners, WriteOutput(r)
    PROVE  IInv'
<1>1. TypeOK'
  BY WriteOutputType DEF IInv
<1>2. /\ pc[r] = "writeOutput" /\ UNCHANGED <<chain, input, build>> /\ quiet' = {}
      /\ file' = [file EXCEPT ![SaveFile(r)] = WithEntry(r, mem[r].seen)]
  BY DEF WriteOutput
<1>3. Grows
  BY <1>2, SameChainGrows
<1>4. \A q \in Runners \ {r} : Same(q)
  <2>1. CASE Advance(r, mem[r].made)
    BY <1>2, <2>1, AdvanceSame DEF IInv
  <2>2. CASE /\ Goto(r, IF Current(r) = Pool THEN "lookup" ELSE "readHashes")
             /\ UNCHANGED <<job, todo, queue, factory, mem>>
    BY <1>2, <2>2, GotoSame DEF IInv
  <2> QED BY <2>1, <2>2 DEF WriteOutput
<1>5. \A q \in Runners \ {r} : MemoryTrue(q)' /\ ArgumentsTrue(q)' /\ ChecksTrue(q)'
  BY <1>2, <1>3, <1>4, OthersKeep DEF IInv
<1>6. /\ Made(mem[r].made, job[r].task, Current(r))
      /\ chain[mem[r].made].live = (job[r].mode = "LIVE")
      /\ \A n \in Names : mem[r].seen[n] # Unknown =>
             /\ Made(mem[r].seen[n], job[r].task, n)
             /\ job[r].mode = "LIVE" => chain[mem[r].seen[n]].live
  BY <1>2 DEF IInv, MemoryTrue, Writing
<1>7. /\ SaveFile(r) \in Files /\ SaveFile(r)[1] = job[r].task
      /\ (SaveFile(r)[2] = "network" => job[r].mode = "LIVE")
  BY ConstantsType, OutputType DEF IInv, SaveFile
<1>8. mem[r].seen \in Outputs /\ Current(r) \in Names
  BY <1>2, CurrentType DEF IInv, TypeOK, Memories, Stopped
<1>9. OutputsDeployed'
  <2> SUFFICES ASSUME NEW f \in Files, NEW n \in Names, file'[f][n] # Unknown
               PROVE  /\ Made(file'[f][n], f[1], n)
                      /\ f[2] = "network" => chain[file'[f][n]].live
    BY <1>2 DEF OutputsDeployed, Made, Deployed
  <2>1. CASE f # SaveFile(r)
    BY <1>2, <2>1 DEF IInv, TypeOK, OutputsDeployed
  <2>2. CASE f = SaveFile(r)
    <3>1. file'[f] = WithEntry(r, mem[r].seen)
      BY <1>2, <1>7, <2>2 DEF IInv, TypeOK
    <3>2. CASE n = Current(r)
      <4>1. file'[f][n] = mem[r].made
        BY <3>1, <3>2, <1>8 DEF WithEntry, Outputs
      <4> QED BY <4>1, <3>2, <2>2, <1>6, <1>7
    <3>3. CASE n # Current(r)
      <4>1. file'[f][n] = mem[r].seen[n]
        BY <3>1, <3>3, <1>8 DEF WithEntry, Outputs
      <4> QED BY <4>1, <2>2, <1>6, <1>7
    <3> QED BY <3>2, <3>3
  <2> QED BY <2>1, <2>2
<1>10. DependenciesDeployed'
  BY <1>2 DEF IInv, DependenciesDeployed, Made, Deployed
<1>11. MemoryTrue(r)' /\ ArgumentsTrue(r)'
  <2>1. CASE Advance(r, mem[r].made)
    BY <1>2, <2>1, AdvanceLocal DEF Stopped
  <2>2. CASE /\ Goto(r, IF Current(r) = Pool THEN "lookup" ELSE "readHashes")
             /\ UNCHANGED <<job, todo, queue, factory, mem>>
    <3>1. /\ pc'[r] \in {"lookup", "readHashes"} /\ job'[r] = job[r] /\ mem'[r] = mem[r]
          /\ Current(r)' = Current(r)
      BY <2>2 DEF Goto, IInv, TypeOK, Current
    <3>2. ArgumentsTrue(r)'
      BY <1>2, <3>1 DEF ArgumentsTrue, IInv, Stopped, Made, Deployed
    <3>3. MemoryTrue(r)'
      BY <1>2, <1>6, <3>1 DEF MemoryTrue, Made, Deployed
    <3> QED BY <3>2, <3>3
  <2> QED BY <2>1, <2>2 DEF WriteOutput
<1>12. ChecksTrue(r)'
  BY <1>2 DEF ChecksTrue
<1> QED BY <1>1, <1>5, <1>9, <1>10, <1>11, <1>12 DEF IInv

LEMMA ReadHashesInv ==
    ASSUME IInv, NEW r \in Runners, ReadHashes(r)
    PROVE  IInv'
<1>1. TypeOK'
  BY ReadHashesType DEF IInv
<1>2. /\ pc[r] = "readHashes" /\ UNCHANGED <<chain, file, input, build, job, todo, queue, quiet>>
      /\ mem' = [mem EXCEPT ![r] = [made |-> mem[r].made, seen |-> Nowhere, txs |-> txs]]
      /\ Goto(r, "writeHashes")
  BY DEF ReadHashes, files
<1>3. \A q \in Runners \ {r} : Same(q)
  BY <1>2, GotoSame DEF IInv, TypeOK
<1>4. /\ pc'[r] = "writeHashes" /\ job'[r] = job[r] /\ Current(r)' = Current(r)
      /\ mem'[r].made = mem[r].made /\ mem'[r].seen = Nowhere
  BY <1>2 DEF Goto, IInv, TypeOK, Current
<1>5. ArgumentsTrue(r)'
  BY <1>2, <1>4 DEF ArgumentsTrue, IInv, Stopped, Made, Deployed
<1>6. MemoryTrue(r)'
  BY <1>2, <1>4 DEF MemoryTrue, IInv, Writing, Nowhere, Made, Deployed
<1>7. ChecksTrue(r)'
  BY <1>2, NotQuiet DEF ChecksTrue, Writing
<1> QED BY <1>1, <1>2, <1>3, <1>5, <1>6, <1>7, LocalStep

LEMMA WriteHashesInv ==
    ASSUME IInv, NEW r \in Runners, WriteHashes(r)
    PROVE  IInv'
<1>1. pc[r] = "writeHashes" /\ UNCHANGED <<chain, file, input, build, quiet>>
  BY DEF WriteHashes
<1>2. /\ Made(mem[r].made, job[r].task, Current(r))
      /\ mem[r].made \in Addresses
  BY <1>1, DeploymentAssumption DEF IInv, MemoryTrue, Writing, Made, Deployed, TypeOK, Addresses
<1>3. TypeOK'
  BY <1>2, WriteHashesType DEF IInv
<1>4. ChecksTrue(r)'
  BY <1>1, NotQuiet DEF ChecksTrue, Writing
<1>5. CASE Advance(r, mem[r].made)
  <2>1. MemoryTrue(r)' /\ ArgumentsTrue(r)'
    BY <1>1, <1>5, AdvanceLocal DEF Stopped
  <2>2. \A q \in Runners \ {r} : Same(q)
    BY <1>1, <1>5, AdvanceSame DEF IInv
  <2> QED BY <1>1, <1>3, <1>4, <2>1, <2>2, LocalStep
<1>6. CASE Goto(r, "readOutput") /\ UNCHANGED <<job, todo, queue, factory, mem>>
  <2>1. /\ pc'[r] = "readOutput" /\ job'[r] = job[r] /\ mem'[r] = mem[r]
        /\ Current(r)' = Current(r)
    BY <1>6 DEF Goto, IInv, TypeOK, Current
  <2>2. ArgumentsTrue(r)'
    BY <1>1, <2>1 DEF ArgumentsTrue, IInv, Stopped, Made, Deployed
  <2>3. MemoryTrue(r)'
    BY <1>1, <2>1 DEF MemoryTrue, IInv, Writing, Made, Deployed
  <2>4. \A q \in Runners \ {r} : Same(q)
    BY <1>1, <1>6, GotoSame DEF IInv
  <2> QED BY <1>1, <1>3, <1>4, <2>2, <2>3, <2>4, LocalStep
<1> QED BY <1>5, <1>6 DEF WriteHashes

LEMMA LookupInv ==
    ASSUME IInv, NEW r \in Runners, Lookup(r)
    PROVE  IInv'
<1>1. TypeOK'
  BY LookupType DEF IInv
<1>2. pc[r] = "lookup" /\ UNCHANGED <<chain, file, input, build, quiet>> /\ Advance(r, Output(r, Pool))
  BY DEF Lookup, files
<1>3. ChecksTrue(r)'
  BY <1>2, NotQuiet DEF ChecksTrue
<1>4. MemoryTrue(r)' /\ ArgumentsTrue(r)'
  BY <1>2, AdvanceLocal DEF Stopped
<1>5. \A q \in Runners \ {r} : Same(q)
  BY <1>2, AdvanceSame DEF IInv
<1> QED BY <1>1, <1>2, <1>3, <1>4, <1>5, LocalStep

LEMMA EditInv ==
    ASSUME IInv, NEW t \in Tasks, EditInput(t) \/ EditBuild(t)
    PROVE  IInv'
<1>1. TypeOK'
  BY EditType DEF IInv
<1>2. UNCHANGED <<chain, file, pc, job, todo, queue, mem>> /\ quiet' = {}
  BY DEF EditInput, EditBuild, process
<1>3. OutputsDeployed' /\ DependenciesDeployed'
  BY <1>2 DEF IInv, OutputsDeployed, DependenciesDeployed, Made, Deployed
<1>4. \A r \in Runners : MemoryTrue(r)' /\ ArgumentsTrue(r)' /\ ChecksTrue(r)'
  BY <1>2 DEF IInv, MemoryTrue, ArgumentsTrue, ChecksTrue, Made, Deployed, Current
<1> QED BY <1>1, <1>3, <1>4 DEF IInv

LEMMA StutterInv == IInv /\ UNCHANGED vars => IInv'
<1> SUFFICES ASSUME IInv, UNCHANGED vars PROVE IInv'
  OBVIOUS
<1>1. UNCHANGED <<chain, file, txs, input, build, pc, job, todo, queue, factory, mem, quiet>>
  BY DEF vars
<1>2. TypeOK'
  BY <1>1 DEF IInv, TypeOK
<1>3. OutputsDeployed' /\ DependenciesDeployed'
  BY <1>1 DEF IInv, OutputsDeployed, DependenciesDeployed, Made, Deployed
<1>4. \A r \in Runners : MemoryTrue(r)' /\ ArgumentsTrue(r)' /\ ChecksTrue(r)'
  <2> TAKE r \in Runners
  <2>1. MemoryTrue(r) /\ ArgumentsTrue(r) /\ ChecksTrue(r) /\ Same(r) /\ Grows
    BY <1>1, SameChainGrows DEF IInv, Same
  <2> QED BY <1>1, <2>1, OthersKeep
<1> QED BY <1>2, <1>3, <1>4 DEF IInv

LEMMA StepInv == IInv /\ [Next]_vars => IInv'
<1> SUFFICES ASSUME IInv, Next PROVE IInv'
  BY StutterInv
<1>1. CASE \E t \in Tasks : EditInput(t) \/ EditBuild(t)
  BY <1>1, EditInv
<1>2. ASSUME NEW r \in Runners, Fails(r)
      PROVE  IInv'
  BY <1>2, FailsIsFail, FailInv
<1>3. ASSUME NEW r \in Runners, Step(r)
      PROVE  IInv'
  BY <1>2, <1>3, SkipTaskInv, NextTaskInv, CheckInv, ReuseInv, DeployInv, ReadOutputInv,
     WriteOutputInv, ReadHashesInv, WriteHashesInv, LookupInv DEF Step, Fails
<1>4. ASSUME NEW r \in Runners, NEW t \in Tasks, NEW mode \in Modes, NEW force \in Forces,
             Start(r, t, mode, force)
      PROVE  IInv'
  BY <1>4, StartInv
<1> QED BY <1>1, <1>2, <1>3, <1>4, CheckDeploymentsInv DEF Next, Fails

LEMMA Invariance == Spec => []IInv
BY InitInv, StepInv, PTL DEF Spec

-----------------------------------------------------------------------------
\* The values of the files, the chain and the processes keep their types: no run
\* ever records something that is not an address (task.ts, network.ts).
THEOREM TypeCorrect == Spec => []TypeOK
<1>1. IInv => TypeOK
  BY DEF IInv
<1> QED BY <1>1, Invariance, PTL

\* However many processes deploy, with --force or without, and wherever they
\* stop, an output names only what that task has deployed under that name, and
\* the output for the network only what live runs have deployed.
THEOREM OutputsAreDeployed == Spec => []OutputsDeployed
<1>1. IInv => OutputsDeployed
  BY DEF IInv
<1> QED BY <1>1, Invariance, PTL

\* Every contract was given addresses of contracts of other tasks that existed
\* before it on the network (_parseRawInput).
THEOREM DependenciesAreDeployed == Spec => []DependenciesDeployed
<1>1. IInv => DependenciesDeployed
  BY DEF IInv
<1> QED BY <1>1, Invariance, PTL

\* A check that passes undisturbed is right about every task it looked at,
\* although it reads the files one after the other.
THEOREM ChecksAreSound == Spec => []CheckSound
<1>1. IInv => CheckSound
  <2> SUFFICES ASSUME IInv, NEW r \in quiet, pc[r] = "done", job[r].mode = "CHECK",
                      NEW t \in job[r].scope
               PROVE  Corresponds(t)
    BY DEF CheckSound, Corresponds
  <2>1. r \in Runners /\ ChecksTrue(r)
    BY DEF IInv, TypeOK
  <2>2. Rest(r) = {}
    BY <2>1 DEF ChecksTrue, Rest
  <2> QED BY <2>1, <2>2 DEF ChecksTrue
<1> QED BY <1>1, Invariance, PTL

-----------------------------------------------------------------------------
\* What holds of a task that one process runs again and again without --force,
\* wherever the runs stop: what is published stays, the pool is that of the
\* factory and its transaction can be found.

\* One process, and no --force.
Alone == (\A r, s \in Runners : r = s) /\ Forces \subseteq {FALSE}

Active(r) == pc[r] \notin Stopped \cup {"between"}

\* What a run publishes of a contract is published already: only its
\* transaction is still to be recorded.
Published(r) == pc[r] \in {"readHashes", "writeHashes"} /\ Current(r) # Pool

\* A run goes by what the output says, and only a live one goes on after the
\* factory, which it has found or published.
RunTrue(r) ==
    /\ ~job[r].force
    /\ Active(r) /\ job[r].mode # "LIVE" => todo[r] = <<Factory>>
    /\ pc[r] \in Writing => Deploys(r)
    /\ pc[r] = "lookup" => Deploys(r) /\ Current(r) = Pool
    /\ Active(r) /\ Current(r) # Factory =>
           factory[r] # Unknown /\ factory[r] = NetworkFile(job[r].task)[Factory]

\* What it has read is what is there, and the file names the contract as soon as
\* it is published, not before.
FilesTrue(r) ==
    /\ pc[r] = "writeOutput" => mem[r].seen = file[SaveFile(r)]
    /\ pc[r] = "writeHashes" => mem[r].txs = txs
    /\ pc[r] \in Writing =>
           file[SaveFile(r)][Current(r)] = IF Published(r) THEN mem[r].made ELSE Unknown

\* The pool it has made is of the factory, and recorded before it is published.
PoolTrue(r) ==
    pc[r] \in Writing /\ Current(r) = Pool =>
        /\ chain[mem[r].made].factory = factory[r]
        /\ pc[r] \in {"readOutput", "writeOutput"} => mem[r].made \in txs

FactoryFirst == \A t \in Tasks : NetworkFile(t)[Pool] # Unknown => NetworkFile(t)[Factory] # Unknown

RInv == /\ PoolOfFactory /\ PoolHashKnown /\ FactoryFirst
        /\ \A r \in Runners : RunTrue(r) /\ FilesTrue(r) /\ PoolTrue(r)

Kept == PoolOfFactory /\ PoolHashKnown /\ FactoryFirst

LEMMA SameFiles == Kept /\ UNCHANGED <<chain, file, txs>> => Kept'
BY DEF Kept, PoolOfFactory, PoolHashKnown, FactoryFirst, NetworkFile

LEMMA OneRun ==
    ASSUME Alone, NEW r \in Runners, Kept', RunTrue(r)', FilesTrue(r)', PoolTrue(r)'
    PROVE  RInv'
BY DEF Alone, RInv, Kept

LEMMA InitRecovery == Init => RInv
<1> SUFFICES ASSUME Init PROVE RInv
  OBVIOUS
<1>1. \A t \in Tasks : NetworkFile(t)[Pool] = Unknown
  BY ConstantsType DEF Init, NetworkFile, Files, Nowhere
<1>2. \A r \in Runners : pc[r] = "idle" /\ ~job[r].force
  BY DEF Init, NoJob
<1> QED BY <1>1, <1>2 DEF RInv, PoolOfFactory, PoolHashKnown, FactoryFirst, RunTrue, FilesTrue,
           PoolTrue, Active, Writing, Stopped

\* A run that is not at work has nothing to keep.
LEMMA AtRest ==
    ASSUME NEW r \in Runners, pc'[r] \in Stopped \cup {"between"}, ~job'[r].force
    PROVE  RunTrue(r)' /\ FilesTrue(r)' /\ PoolTrue(r)'
BY DEF RunTrue, FilesTrue, PoolTrue, Active, Writing, Stopped

LEMMA FailRecovery ==
    ASSUME Alone, IInv, RInv, NEW r \in Runners, Fail(r)
    PROVE  RInv'
<1>1. pc'[r] = "failed" /\ ~job'[r].force /\ UNCHANGED <<chain, file, txs>>
  BY DEF Fail, Goto, files, NoJob, IInv, TypeOK
<1> QED BY <1>1, AtRest, OneRun, SameFiles DEF RInv, Kept, Stopped

LEMMA EnterRecovery ==
    ASSUME Alone, IInv, RInv, NEW r \in Runners, NEW t, NEW mode, NEW scope,
           Enter(r, t, mode, FALSE, scope)
    PROVE  RInv'
<1>1. /\ pc'[r] = "next" /\ todo'[r] = Todo(mode) /\ UNCHANGED <<chain, file, txs>>
      /\ job'[r].mode = mode /\ ~job'[r].force
  BY DEF Enter, Goto, files, IInv, TypeOK
<1>2. Current(r)' = Factory /\ (mode # "LIVE" => todo'[r] = <<Factory>>)
  BY <1>1, DeploymentAssumption DEF Current, Todo, Contracts
<1>3. RunTrue(r)' /\ FilesTrue(r)' /\ PoolTrue(r)'
  BY <1>1, <1>2 DEF RunTrue, FilesTrue, PoolTrue, Writing
<1> QED BY <1>1, <1>3, OneRun, SameFiles DEF RInv, Kept

LEMMA CheckDeploymentsRecovery ==
    ASSUME Alone, IInv, RInv, NEW r \in Runners, CheckDeployments(r)
    PROVE  RInv'
<1>1. pc'[r] = "between" /\ ~job'[r].force /\ UNCHANGED <<chain, file, txs>>
  BY DEF CheckDeployments, Goto, files, IInv, TypeOK
<1> QED BY <1>1, AtRest, OneRun, SameFiles DEF RInv, Kept

LEMMA SkipTaskRecovery ==
    ASSUME Alone, IInv, RInv, NEW r \in Runners, SkipTask(r)
    PROVE  RInv'
<1>1. pc'[r] \in {"between", "done"} /\ job'[r] = job[r] /\ UNCHANGED <<chain, file, txs>>
  BY DEF SkipTask, Goto, After, files, IInv, TypeOK
<1> QED BY <1>1, AtRest, OneRun, SameFiles DEF RInv, Kept, RunTrue, Stopped

\* A run goes on with the next contract: it knows the factory if it has published
\* or found the factory at this address.
LEMMA AdvanceRecovery ==
    ASSUME IInv, RInv, NEW r \in Runners, NEW a, Advance(r, a), Active(r),
           NEW t, t = job[r].task,
           Current(r) = Factory /\ job[r].mode = "LIVE" =>
               a # Unknown /\ a = file'[<<t, "network">>][Factory],
           Current(r) # Factory =>
               file'[<<t, "network">>][Factory] = file[<<t, "network">>][Factory]
    PROVE  RunTrue(r)' /\ FilesTrue(r)' /\ PoolTrue(r)'
<1>1. job'[r] = job[r] /\ pc'[r] \in {"next", "between", "done"}
  BY AdvanceLocal DEF Active
<1>2. CASE pc'[r] # "next"
  BY <1>1, <1>2, AtRest DEF RInv, RunTrue, Stopped
<1>3. CASE pc'[r] = "next"
  <2>1. Tail(todo[r]) # <<>> /\ todo'[r] = Tail(todo[r])
    BY <1>3, AdvanceLocal DEF Active
  <2>2. job[r].mode = "LIVE"
    <3>1. Tail(<<Factory>>) = <<>>
      OBVIOUS
    <3>2. RunTrue(r)
      BY DEF RInv
    <3> QED BY <2>1, <3>1, <3>2 DEF RunTrue
  <2>3. factory'[r] = IF Current(r) = Factory THEN a ELSE factory[r]
    BY <2>1 DEF Advance, IInv, TypeOK
  <2>4. factory'[r] # Unknown /\ factory'[r] = file'[<<t, "network">>][Factory]
    BY <2>2, <2>3 DEF RInv, RunTrue, NetworkFile
  <2>5. RunTrue(r)'
    BY <1>1, <1>3, <2>2, <2>4 DEF RInv, RunTrue, Writing, NetworkFile
  <2> QED BY <1>3, <2>5 DEF FilesTrue, PoolTrue, Writing
<1> QED BY <1>2, <1>3

LEMMA CheckRecovery ==
    ASSUME Alone, IInv, RInv, NEW r \in Runners, Check(r)
    PROVE  RInv'
<1>1. /\ pc[r] = "next" /\ job[r].mode = "CHECK" /\ Advance(r, Output(r, Current(r)))
      /\ UNCHANGED <<chain, file, txs>>
  BY DEF Check, files
<1>2. RunTrue(r)' /\ FilesTrue(r)' /\ PoolTrue(r)'
  BY <1>1, AdvanceRecovery DEF Active, Stopped
<1> QED BY <1>1, <1>2, OneRun, SameFiles DEF RInv, Kept

LEMMA ReuseRecovery ==
    ASSUME Alone, IInv, RInv, NEW r \in Runners, Reuse(r)
    PROVE  RInv'
<1>1. pc[r] = "next" /\ UNCHANGED <<chain, file, txs>> /\ Deploys(r) /\ Active(r)
      /\ Output(r, Current(r)) # Unknown
  BY DEF Reuse, files, MustDeploy, Active, Stopped
<1>2. CASE Advance(r, Output(r, Current(r))) /\ Current(r) # Pool
  <2>1. Current(r) = Factory /\ job[r].mode = "LIVE" =>
            Output(r, Current(r)) = file[<<job[r].task, "network">>][Factory]
    BY DEF Output, OutputFile
  <2>2. RunTrue(r)' /\ FilesTrue(r)' /\ PoolTrue(r)'
    BY <1>1, <1>2, <2>1, AdvanceRecovery
  <2> QED BY <1>1, <2>2, OneRun, SameFiles DEF RInv, Kept
<1>3. CASE Goto(r, "lookup") /\ Current(r) = Pool /\ UNCHANGED <<job, todo, queue, factory, mem>>
  <2>1. pc'[r] = "lookup"
    BY <1>3 DEF Goto, IInv, TypeOK
  <2>2. RunTrue(r) /\ RunTrue(r)'
    BY <1>1, <1>3, <2>1 DEF RInv, RunTrue, Active, Writing, Deploys, Current, NetworkFile
  <2>3. FilesTrue(r)' /\ PoolTrue(r)'
    BY <2>1 DEF FilesTrue, PoolTrue, Writing
  <2> QED BY <1>1, <2>2, <2>3, OneRun, SameFiles DEF RInv, Kept
<1> QED BY <1>2, <1>3 DEF Reuse

LEMMA LookupRecovery ==
    ASSUME Alone, IInv, RInv, NEW r \in Runners, Lookup(r)
    PROVE  RInv'
<1>1. /\ pc[r] = "lookup" /\ Advance(r, Output(r, Pool)) /\ UNCHANGED <<chain, file, txs>>
      /\ Active(r) /\ Current(r) # Factory
  BY ConstantsType DEF Lookup, files, Active, Stopped, RInv, RunTrue
<1>2. RunTrue(r)' /\ FilesTrue(r)' /\ PoolTrue(r)'
  BY <1>1, AdvanceRecovery
<1> QED BY <1>1, <1>2, OneRun, SameFiles DEF RInv, Kept

LEMMA DeployRecovery ==
    ASSUME Alone, IInv, RInv, NEW r \in Runners, Deploy(r)
    PROVE  RInv'
<1> DEFINE new == [task |-> job[r].task, name |-> Current(r),
                   code |-> build[job[r].task], args |-> job[r].args,
                   factory |-> IF Current(r) = Pool THEN factory[r] ELSE Unknown,
                   live |-> job[r].mode = "LIVE"]
<1> PICK a \in Nat : a = Len(chain) + 1
  BY DEF IInv, TypeOK
<1>1. /\ pc[r] = "next" /\ Deploys(r) /\ MustDeploy(r) /\ chain' = Append(chain, new)
      /\ UNCHANGED <<file, txs, job, todo, queue, factory>> /\ Goto(r, SavedFirst(r))
      /\ mem' = [mem EXCEPT ![r] = [made |-> a, seen |-> Nowhere, txs |-> {}]]
  BY DEF Deploy, files
<1>2. Current(r) = Pool => new.factory = factory[r]
  OBVIOUS
<1> HIDE DEF new
<1>3. Grows /\ chain'[a] = new
  BY <1>1, AppendGrows DEF IInv
<1>4. pc'[r] = SavedFirst(r) /\ mem'[r].made = a /\ Current(r)' = Current(r) /\ Active(r)
  BY <1>1 DEF Goto, IInv, TypeOK, Current, Active, Stopped
<1>5. pc'[r] = IF Current(r) = Pool THEN "readHashes" ELSE "readOutput"
  BY <1>4 DEF SavedFirst
<1>6. file[SaveFile(r)][Current(r)] = Unknown
  <2>1. OutputFile(r) = SaveFile(r)
    BY <1>1 DEF Deploys, OutputFile, SaveFile
  <2> QED BY <1>1, <2>1 DEF MustDeploy, Output, RInv, RunTrue
<1>7. RunTrue(r)'
  BY <1>1, <1>4, <1>5 DEF RInv, RunTrue, Deploys, Active, NetworkFile
<1>8. FilesTrue(r)'
  BY <1>1, <1>4, <1>5, <1>6 DEF FilesTrue, Published, SaveFile
<1>9. PoolTrue(r)'
  BY <1>1, <1>2, <1>3, <1>4, <1>5 DEF PoolTrue
<1>10. Kept'
  <2>1. \A t \in Tasks : NetworkFile(t)' = NetworkFile(t)
    BY <1>1 DEF NetworkFile
  <2>2. \A t \in Tasks : NetworkFile(t)[Pool] # Unknown =>
            chain'[NetworkFile(t)[Pool]] = chain[NetworkFile(t)[Pool]]
    BY <1>3, ConstantsType DEF IInv, OutputsDeployed, NetworkFile, Files, Made, Grows
  <2> QED BY <1>1, <2>1, <2>2 DEF RInv, Kept, PoolOfFactory, PoolHashKnown, FactoryFirst
<1> QED BY <1>7, <1>8, <1>9, <1>10, OneRun

LEMMA ReadOutputRecovery ==
    ASSUME Alone, IInv, RInv, NEW r \in Runners, ReadOutput(r)
    PROVE  RInv'
<1>1. /\ pc[r] = "readOutput" /\ UNCHANGED <<chain, file, txs, job, todo, factory>>
      /\ pc'[r] = "writeOutput" /\ mem'[r].made = mem[r].made
      /\ mem'[r].seen = file[SaveFile(r)]
  BY DEF ReadOutput, Goto, files, IInv, TypeOK
<1>2. Current(r)' = Current(r) /\ SaveFile(r)' = SaveFile(r) /\ Deploys(r)' = Deploys(r)
  BY <1>1 DEF Current, SaveFile, Deploys
<1>3. RunTrue(r)'
  BY <1>1, <1>2 DEF RInv, RunTrue, Active, Writing, Stopped, NetworkFile
<1>4. FilesTrue(r)' /\ PoolTrue(r)'
  BY <1>1, <1>2 DEF RInv, FilesTrue, PoolTrue, Published, Writing
<1> QED BY <1>1, <1>3, <1>4, OneRun, SameFiles DEF RInv, Kept

LEMMA ReadHashesRecovery ==
    ASSUME Alone, IInv, RInv, NEW r \in Runners, ReadHashes(r)
    PROVE  RInv'
<1>1. /\ pc[r] = "readHashes" /\ UNCHANGED <<chain, file, txs, job, todo, factory>>
      /\ pc'[r] = "writeHashes" /\ mem'[r].made = mem[r].made /\ mem'[r].txs = txs
  BY DEF ReadHashes, Goto, files, IInv, TypeOK
<1>2. Current(r)' = Current(r) /\ SaveFile(r)' = SaveFile(r) /\ Deploys(r)' = Deploys(r)
  BY <1>1 DEF Current, SaveFile, Deploys
<1>3. RunTrue(r)'
  BY <1>1, <1>2 DEF RInv, RunTrue, Active, Writing, Stopped, NetworkFile
<1>4. FilesTrue(r)' /\ PoolTrue(r)'
  BY <1>1, <1>2 DEF RInv, FilesTrue, PoolTrue, Published, Writing
<1> QED BY <1>1, <1>3, <1>4, OneRun, SameFiles DEF RInv, Kept

\* The hash of a contract is recorded: nothing recorded is lost.
LEMMA WriteHashesRecovery ==
    ASSUME Alone, IInv, RInv, NEW r \in Runners, WriteHashes(r)
    PROVE  RInv'
<1>1. /\ pc[r] = "writeHashes" /\ UNCHANGED <<chain, file>> /\ Active(r) /\ Deploys(r)
      /\ txs' = txs \cup {mem[r].made}
  BY DEF WriteHashes, NewHashes, RInv, FilesTrue, RunTrue, Writing, Active, Stopped
<1>2. Kept'
  BY <1>1 DEF RInv, Kept, PoolOfFactory, PoolHashKnown, FactoryFirst, NetworkFile
<1>3. CASE Advance(r, mem[r].made) /\ Current(r) # Pool
  <2>1. file[SaveFile(r)][Current(r)] = mem[r].made
    BY <1>1, <1>3 DEF RInv, FilesTrue, Published, Writing
  <2>2. mem[r].made # Unknown
    BY <1>1, ConstantsType DEF IInv, MemoryTrue, Writing, Made, Deployed, TypeOK, Unknown
  <2>3. Current(r) = Factory /\ job[r].mode = "LIVE" =>
            mem[r].made = file[<<job[r].task, "network">>][Factory]
    BY <2>1 DEF SaveFile
  <2>4. RunTrue(r)' /\ FilesTrue(r)' /\ PoolTrue(r)'
    BY <1>1, <1>3, <2>2, <2>3, AdvanceRecovery
  <2> QED BY <1>2, <2>4, OneRun
<1>4. CASE /\ Goto(r, "readOutput") /\ Current(r) = Pool
           /\ UNCHANGED <<job, todo, queue, factory, mem>>
  <2>1. pc'[r] = "readOutput"
    BY <1>4 DEF Goto, IInv, TypeOK
  <2>2. Current(r)' = Current(r) /\ SaveFile(r)' = SaveFile(r) /\ Deploys(r)' = Deploys(r)
    BY <1>4 DEF Current, SaveFile, Deploys
  <2>3. RunTrue(r)'
    BY <1>1, <1>4, <2>1, <2>2 DEF RInv, RunTrue, Active, NetworkFile
  <2>4. FilesTrue(r)' /\ PoolTrue(r)'
    BY <1>1, <1>4, <2>1, <2>2 DEF RInv, FilesTrue, PoolTrue, Published, Writing
  <2> QED BY <1>2, <2>3, <2>4, OneRun
<1> QED BY <1>3, <1>4 DEF WriteHashes

\* What a write of the output changes: one entry, which was not there.
LEMMA OneEntry ==
    ASSUME IInv, RInv, NEW r \in Runners, WriteOutput(r)
    PROVE  /\ SaveFile(r) \in Files /\ Current(r) \in Names
           /\ file[SaveFile(r)][Current(r)] = Unknown
           /\ \A f \in Files, n \in Names :
                 file'[f][n] = IF f = SaveFile(r) /\ n = Current(r) THEN mem[r].made ELSE file[f][n]
<1>1. /\ pc[r] = "writeOutput" /\ mem[r].seen = file[SaveFile(r)]
      /\ file' = [file EXCEPT ![SaveFile(r)] = WithEntry(r, mem[r].seen)]
  BY DEF WriteOutput, RInv, FilesTrue
<1>2. SaveFile(r) \in Files /\ Current(r) \in Names
  BY <1>1, ConstantsType, OutputType, CurrentType DEF IInv, Stopped
<1>3. file[SaveFile(r)][Current(r)] = Unknown
  BY <1>1 DEF RInv, FilesTrue, Published, Writing
<1>4. file[SaveFile(r)] \in Outputs /\ file \in [Files -> Outputs]
  BY <1>2 DEF IInv, TypeOK
<1> DEFINE entry == WithEntry(r, mem[r].seen)
<1>5. \A n \in Names : entry[n] = IF n = Current(r) THEN mem[r].made ELSE file[SaveFile(r)][n]
  BY <1>1, <1>4 DEF WithEntry, Outputs
<1> HIDE DEF entry
<1>6. \A f \in Files : file'[f] = IF f = SaveFile(r) THEN entry ELSE file[f]
  BY <1>1, <1>4 DEF entry
<1> QED BY <1>2, <1>3, <1>5, <1>6

LEMMA WriteOutputRecovery ==
    ASSUME Alone, IInv, RInv, NEW r \in Runners, WriteOutput(r)
    PROVE  RInv'
<1> PICK t \in Tasks : t = job[r].task
  BY DEF IInv, TypeOK, Jobs
<1> PICK m : m = mem[r].made
  OBVIOUS
<1>1. /\ pc[r] = "writeOutput" /\ UNCHANGED <<chain, txs>> /\ Active(r) /\ Deploys(r)
      /\ RunTrue(r) /\ PoolTrue(r)
  BY DEF WriteOutput, RInv, RunTrue, Writing, Active, Stopped
<1>2. /\ SaveFile(r) = <<t, IF job[r].mode = "LIVE" THEN "network" ELSE "test">>
      /\ SaveFile(r) \in Files /\ Current(r) \in Names /\ file[SaveFile(r)][Current(r)] = Unknown
      /\ \A f \in Files, n \in Names :
            file'[f][n] = IF f = SaveFile(r) /\ n = Current(r) THEN m ELSE file[f][n]
  BY OneEntry DEF SaveFile
<1>3. m # Unknown
  BY <1>1, ConstantsType DEF IInv, MemoryTrue, Writing, Made, Deployed, TypeOK, Unknown
<1>4. \A u \in Tasks, n \in Names : (NetworkFile(u)')[n] =
          IF u = t /\ job[r].mode = "LIVE" /\ n = Current(r) THEN m ELSE NetworkFile(u)[n]
  BY <1>2 DEF NetworkFile, Files
<1>5. Current(r) = Pool => /\ chain[m].factory = factory[r] /\ m \in txs
                           /\ job[r].mode = "LIVE" /\ factory[r] # Unknown
                           /\ factory[r] = NetworkFile(t)[Factory]
  <2>1. Current(r) = Pool => job[r].mode = "LIVE"
    BY <1>1, ConstantsType DEF RunTrue, Current
  <2> QED BY <1>1, <2>1, ConstantsType DEF RunTrue, PoolTrue, Writing
<1>6. Current(r) = Factory /\ job[r].mode = "LIVE" => NetworkFile(t)[Pool] = Unknown
  BY <1>2 DEF RInv, FactoryFirst, NetworkFile
<1>7. Kept'
  <2> SUFFICES ASSUME NEW u \in Tasks, NEW p, p = (NetworkFile(u)')[Pool], p # Unknown
               PROVE  /\ chain[p].factory = (NetworkFile(u)')[Factory] /\ p \in txs
                      /\ (NetworkFile(u)')[Factory] # Unknown
    BY <1>1 DEF Kept, PoolOfFactory, PoolHashKnown, FactoryFirst, NetworkFile
  <2>1. CASE u = t /\ job[r].mode = "LIVE" /\ Current(r) = Pool
    BY <1>4, <1>5, <2>1, ConstantsType
  <2>2. CASE u = t /\ job[r].mode = "LIVE" /\ Current(r) = Factory
    BY <1>4, <1>6, <2>2, ConstantsType
  <2>3. CASE ~(u = t /\ job[r].mode = "LIVE" /\ Current(r) \in {Factory, Pool})
    <3>1. p = NetworkFile(u)[Pool] /\ (NetworkFile(u)')[Factory] = NetworkFile(u)[Factory]
      BY <1>4, <2>3, ConstantsType
    <3> QED BY <3>1 DEF RInv, PoolOfFactory, PoolHashKnown, FactoryFirst
  <2> QED BY <2>1, <2>2, <2>3
<1>8. CASE Advance(r, mem[r].made)
  <2>1. Current(r) = Factory /\ job[r].mode = "LIVE" => m = file'[<<t, "network">>][Factory]
    BY <1>4, ConstantsType DEF NetworkFile
  <2>2. Current(r) # Factory => file'[<<t, "network">>][Factory] = file[<<t, "network">>][Factory]
    BY <1>4, ConstantsType DEF NetworkFile
  <2>3. RunTrue(r)' /\ FilesTrue(r)' /\ PoolTrue(r)'
    BY <1>1, <1>3, <1>8, <2>1, <2>2, AdvanceRecovery
  <2> QED BY <1>7, <2>3, OneRun
<1>9. CASE /\ Goto(r, IF Current(r) = Pool THEN "lookup" ELSE "readHashes")
           /\ UNCHANGED <<job, todo, queue, factory, mem>>
  <2>1. /\ pc'[r] = IF Current(r) = Pool THEN "lookup" ELSE "readHashes"
        /\ Current(r)' = Current(r) /\ SaveFile(r)' = SaveFile(r) /\ Deploys(r)' = Deploys(r)
        /\ UNCHANGED <<job, todo, factory, mem>>
    BY <1>9 DEF Goto, IInv, TypeOK, Current, SaveFile, Deploys
  <2>2. Current(r) # Factory => (NetworkFile(t)')[Factory] = NetworkFile(t)[Factory]
    BY <1>4, ConstantsType
  <2>3. RunTrue(r)'
    BY <1>1, <2>1, <2>2 DEF RunTrue, Active, Writing, NetworkFile
  <2>4. file'[SaveFile(r)][Current(r)] = m
    BY <1>2
  <2>5. FilesTrue(r)'
    BY <2>1, <2>4 DEF FilesTrue, Published, Writing
  <2>6. PoolTrue(r)'
    BY <2>1 DEF PoolTrue, Writing
  <2> QED BY <1>7, <2>3, <2>5, <2>6, OneRun
<1> QED BY <1>8, <1>9 DEF WriteOutput

LEMMA EditRecovery ==
    ASSUME IInv, RInv, \/ \E t \in Tasks : EditInput(t) \/ EditBuild(t)
                       \/ UNCHANGED vars
    PROVE  RInv'
<1>1. UNCHANGED <<chain, file, txs, pc, job, todo, queue, factory, mem>>
  BY DEF EditInput, EditBuild, process, vars
<1>2. Kept'
  BY <1>1, SameFiles DEF RInv, Kept
<1>3. ASSUME NEW r \in Runners PROVE RunTrue(r)' /\ FilesTrue(r)' /\ PoolTrue(r)'
  <2>1. RunTrue(r) /\ FilesTrue(r) /\ PoolTrue(r)
    BY DEF RInv
  <2>2. Current(r)' = Current(r) /\ SaveFile(r)' = SaveFile(r) /\ Deploys(r)' = Deploys(r)
        /\ Active(r)' = Active(r) /\ Published(r)' = Published(r)
    BY <1>1 DEF Current, SaveFile, Deploys, Active, Published
  <2> QED BY <1>1, <2>1, <2>2 DEF RunTrue, FilesTrue, PoolTrue, NetworkFile
<1> QED BY <1>2, <1>3 DEF RInv, Kept

LEMMA RecoveryStep == Alone /\ IInv /\ RInv /\ [Next]_vars => RInv'
<1> SUFFICES ASSUME Alone, IInv, RInv, [Next]_vars PROVE RInv'
  OBVIOUS
<1>1. CASE UNCHANGED vars \/ \E t \in Tasks : EditInput(t) \/ EditBuild(t)
  BY <1>1, EditRecovery
<1>2. ASSUME NEW r \in Runners, Fails(r) PROVE RInv'
  BY <1>2, FailsIsFail, FailRecovery
<1>3. ASSUME NEW r \in Runners, NextTask(r) PROVE RInv'
  BY <1>3, FailRecovery, EnterRecovery DEF NextTask
<1>4. ASSUME NEW r \in Runners, Step(r) PROVE RInv'
  BY <1>2, <1>3, <1>4, SkipTaskRecovery, CheckRecovery, ReuseRecovery, DeployRecovery,
     ReadOutputRecovery, WriteOutputRecovery, ReadHashesRecovery, WriteHashesRecovery,
     LookupRecovery DEF Step, Fails
<1>5. ASSUME NEW r \in Runners, NEW t \in Tasks, NEW mode \in Modes, NEW force \in Forces,
             Start(r, t, mode, force)
      PROVE  RInv'
  BY <1>5, EnterRecovery DEF Start, Alone
<1> QED BY <1>1, <1>2, <1>4, <1>5, CheckDeploymentsRecovery DEF Next, Fails

LEMMA Recovery == ASSUME Alone PROVE Spec => [](IInv /\ RInv)
<1>1. IInv /\ RInv /\ [Next]_vars => (IInv /\ RInv)'
  BY RecoveryStep, StepInv
<1>2. Init => IInv /\ RInv
  BY InitInv, InitRecovery
<1> QED BY <1>1, <1>2, PTL DEF Spec

-----------------------------------------------------------------------------
\* One process without --force, stopped anywhere and run again in any mode: the
\* published pool was created by the published factory, for any number of tasks
\* and of contracts in between (index.ts, task.ts).
THEOREM PoolsAreOfFactories == ASSUME Alone PROVE Spec => []PoolOfFactory
<1>1. RInv => PoolOfFactory
  BY DEF RInv
<1> QED BY <1>1, Recovery, PTL

\* A rerun finds the transaction of every pool that is published: it is recorded
\* first, and no later write of the file of hashes loses it (network.ts).
THEOREM PoolHashesAreKnown == ASSUME Alone PROVE Spec => []PoolHashKnown
<1>1. RInv => PoolHashKnown
  BY DEF RInv
<1> QED BY <1>1, Recovery, PTL

\* What is published stays: no run, in whatever mode and after whatever failure,
\* replaces an address (deploy and save in task.ts).
THEOREM OutputsAreStable == ASSUME Alone PROVE Spec => OutputsStable
<1>1. IInv /\ RInv /\ [Next]_vars =>
          [\A f \in Files, n \in Names : file[f][n] # Unknown => file'[f][n] = file[f][n]]_vars
  <2> SUFFICES ASSUME IInv, RInv, Next, NEW f \in Files, NEW n \in Names, file[f][n] # Unknown
               PROVE  file'[f][n] = file[f][n]
    OBVIOUS
  <2>1. CASE file' = file
    BY <2>1
  <2>2. ASSUME NEW r \in Runners, WriteOutput(r) PROVE file'[f][n] = file[f][n]
    BY <2>2, OneEntry
  <2>3. file' = file \/ \E r \in Runners : WriteOutput(r)
    BY DEF Next, Step, Start, InputMissing, CheckDeployments, Stop, SkipTask, NextTask, Check,
       CheckFails, Refuse, Reuse, Deploy, DeployFails, ReadOutput, ReadHashes, WriteHashes,
       Lookup, LookupFails, EditInput, EditBuild, Enter, Fail, files
  <2> QED BY <2>1, <2>2, <2>3
<1> QED BY <1>1, Recovery, PTL DEF Spec, OutputsStable
=============================================================================
