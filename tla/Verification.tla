----------------------------- MODULE Verification -----------------------------
(***************************************************************************)
(* What is done with the build-info of a task besides deploying: artifacts *)
(* are extracted and checked, and the deployed contracts are verified on   *)
(* Etherscan.  One command runs at a time, one step after the other; it    *)
(* may be killed anywhere, build-info may be replaced under it, and every  *)
(* call to Etherscan may fail.  Etherscan indexes contracts and processes  *)
(* the requests it has accepted in its own time.                           *)
(***************************************************************************)
EXTENDS BuildInfo

CONSTANTS Imports,          \* [Sources -> SUBSET Sources]
          Compilations,     \* builds of these sources
          MaxDeploys,       \* bound on deployed contracts
          MaxRequests,      \* bound on requests that Etherscan accepts
          MaxCompilations   \* bound on replacements of the build-info

MAX_VERIFICATION_INTENTS == 3
Unknown == 0
Addresses == 1 .. MaxDeploys

ASSUME VerificationAssumption ==
    /\ Imports \in [Sources -> SUBSET Sources]
    /\ Compilations \subseteq Builds
    /\ \A b \in Compilations : Closed(Imports, b.sources)
    /\ MaxDeploys \in Nat /\ MaxRequests \in Nat /\ MaxCompilations \in Nat

VARIABLES dir,              \* build-info of the task
          compilations,     \* how often build-info was replaced
          artifacts,        \* the artifact files
          output,           \* [Contracts -> Addresses \cup {Unknown}]
          chain,            \* code at each address
          indexed,          \* Etherscan: the contracts it knows,
          requests,         \* what it was asked to verify,
          verified,         \* and what it shows as verified
          pc, cmd, queue,   \* the command: where it is, its data, the files left
          quiet             \* history: build-info is as when the command began

files == <<dir, compilations, artifacts>>
etherscan == <<indexed, requests, verified>>
command == <<pc, cmd, queue>>
vars == <<files, output, chain, etherscan, command, quiet>>

Compiled == [FileNames -> Compilations \cup {NoBuild}]

NoRequest == [contract |-> Absent, sources |-> {}]
NewCommand(op, name, address) ==
    [op |-> op, name |-> name, address |-> address, intent |-> 1,
     guid |-> 0, request |-> NoRequest, report |-> "none"]
NoCommand == NewCommand("none", Absent, Unknown)
Stopped == {"idle", "done", "failed"}

Init == /\ dir \in Compiled
        /\ compilations = 0
        /\ artifacts = [n \in Contracts \cup FileNames |-> NoCode]
        /\ output = [n \in Contracts |-> Unknown]
        /\ chain = <<>>
        /\ indexed = {} /\ requests = <<>> /\ verified = {}
        /\ pc = "idle" /\ cmd = NoCommand /\ queue = {}
        /\ quiet = TRUE

-----------------------------------------------------------------------------
Begin(op, name, label, files_) ==
    /\ pc \in Stopped
    /\ pc' = label
    /\ cmd' = NewCommand(op, name, Unknown)
    /\ queue' = files_
    /\ quiet' = TRUE

\* The command with what it has asked Etherscan forgotten.
Renewed(intent, report) ==
    [op |-> cmd.op, name |-> cmd.name, address |-> cmd.address, intent |-> intent,
     guid |-> 0, request |-> NoRequest, report |-> report]

\* What a command leaves behind is its report.
End(label, report) ==
    /\ pc' = label
    /\ cmd' = IF report \in {"verified", "bytecode missing"}
              THEN Renewed(cmd.intent, report)
              ELSE NewCommand(IF label = "done" THEN cmd.op ELSE "none", Absent, Unknown)
    /\ queue' = {}

\* An error that nobody catches, or the process is killed.
Fail == End("failed", "none") /\ UNCHANGED <<files, output, chain, etherscan, quiet>>
Kill == pc \notin Stopped /\ Fail

Recompile == /\ compilations < MaxCompilations
             /\ compilations' = compilations + 1
             /\ dir' \in Compiled \ {dir}
             /\ quiet' = FALSE
             /\ UNCHANGED <<artifacts, output, chain, etherscan, command>>

-----------------------------------------------------------------------------
\* extract-artifacts: for every file, or the file of the --file option, the
\* artifact of the contract of the --name option, or the one named as the file.
\* Files are taken in the order in which they were listed.
NextFile == First(FileOrder, queue)

ExtractArtifacts(fileOption, name) ==
    /\ Begin(IF fileOption = Absent /\ name = Absent THEN "extract" ELSE "extractOne", name, "extract",
             IF fileOption = Absent THEN Files(dir) ELSE {fileOption})
    /\ UNCHANGED <<files, output, chain, etherscan>>

Extracted == IF cmd.name = Absent THEN NextFile ELSE cmd.name

EndOfFiles == pc = "extract" /\ queue = {} /\ End("done", "none")
              /\ UNCHANGED <<files, output, chain, etherscan, quiet>>

WrittenMerged(name, fileName) == OfMergedBuilds(dir, name)  \* mutant: of all builds
Written(name, fileName) == ArtifactIn(dir, name, fileName)

ExtractFile ==
    /\ pc = "extract" /\ queue # {}
    /\ IF Written(Extracted, NextFile) = Error THEN Fail
       ELSE /\ artifacts' = [artifacts EXCEPT ![Extracted] = Written(Extracted, NextFile)]
            /\ queue' = queue \ {NextFile}
            /\ UNCHANGED <<dir, compilations, output, chain, etherscan, pc, cmd, quiet>>

\* check-artifacts: every file has the artifact of the contract named as it is.
CheckArtifacts == /\ Begin("check", Absent, "check", Files(dir))
                  /\ UNCHANGED <<files, output, chain, etherscan>>

CheckFile ==
    /\ pc = "check" /\ queue # {}
    /\ LET expected == ArtifactIn(dir, NextFile, NextFile)
       IN  IF expected = Error \/ artifacts[NextFile] # expected THEN Fail
           ELSE /\ queue' = queue \ {NextFile}
                /\ UNCHANGED <<files, output, chain, etherscan, pc, cmd, quiet>>

EndOfCheck == pc = "check" /\ queue = {} /\ End("done", "none")
              /\ UNCHANGED <<files, output, chain, etherscan, quiet>>

-----------------------------------------------------------------------------
\* deployAndVerify of a live run: the contract is deployed unless the output has
\* it, and then verified.
DeployAndVerify(n) == /\ output[n] = Unknown => Len(chain) < MaxDeploys
                      /\ Begin("deploy", n, "deploy", {})
                      /\ UNCHANGED <<files, output, chain, etherscan>>

Deploy ==
    /\ pc = "deploy" /\ output[cmd.name] = Unknown
    /\ IF Artifact(dir, cmd.name) = Error THEN Fail
       ELSE /\ chain' = Append(chain, Artifact(dir, cmd.name))
            /\ output' = [output EXCEPT ![cmd.name] = Len(chain) + 1]
            /\ cmd' = [cmd EXCEPT !.address = Len(chain) + 1]
            /\ pc' = "verify"
            /\ UNCHANGED <<files, etherscan, queue, quiet>>

SavedFirst == \* mutant: the address is saved before the transaction is mined
    /\ pc = "deploy" /\ output[cmd.name] = Unknown /\ End("failed", "none")
    /\ output' = [output EXCEPT ![cmd.name] = Len(chain) + 1]
    /\ UNCHANGED <<files, chain, etherscan, quiet>>
DeployFails == pc = "deploy" /\ output[cmd.name] = Unknown /\ Fail

Reuse ==
    /\ pc = "deploy" /\ output[cmd.name] # Unknown
    /\ IF Artifact(dir, cmd.name) = Error THEN Fail
       ELSE /\ cmd' = [cmd EXCEPT !.address = output[cmd.name]]
            /\ pc' = "verify"
            /\ UNCHANGED <<files, output, chain, etherscan, queue, quiet>>

\* verify-contract: any contract at any address.
VerifyContract(n, a) ==
    /\ pc \in Stopped
    /\ pc' = "verify" /\ queue' = {} /\ quiet' = TRUE
    /\ cmd' = NewCommand("verify", n, a)
    /\ UNCHANGED <<files, output, chain, etherscan>>

\* Task.verify does without a verifier, and catches all that the verifier throws.
NoVerifier == pc = "verify" /\ End("done", "none")
              /\ UNCHANGED <<files, output, chain, etherscan, quiet>>

Throw(report) == End("done", report) /\ UNCHANGED <<files, output, chain, quiet>>

\* What each build submits for its sources, and what they need.
TrimmedFor == [b \in Compilations |-> [s \in b.sources |-> Trimmed(b, Imports, s)]]
NeededFor == [s \in Sources |-> Needed(Imports, s)]

\* What the verifier submits for a contract with this code: the sources of the
\* first build that has the contract, if the name is that of one source only and
\* the build's output is the code.
Request(contract, code) ==
    IF FilesDefining(dir, contract) = {} THEN Error
    ELSE LET build == BuildWith(dir, contract)
             source == First(SourceOrder, Defining(build, contract))
         IN  IF Cardinality(Defining(build, contract)) > 1 \/ ArtifactFrom(build, source) # code
             THEN Error
             ELSE [contract |-> contract, source |-> source, version |-> build.version,
                   sources |-> TrimmedFor[build][source]]

\* Verifier.verify: the request is made of the code at the address and of the
\* build-info as it is now.
Prepared == IF cmd.address \in DOMAIN chain
            THEN Request(cmd.name, chain[cmd.address]) ELSE Error

Prepare == /\ pc = "verify" /\ Prepared # Error
           /\ pc' = "post"
           /\ cmd' = [cmd EXCEPT !.request = Prepared]
           /\ UNCHANGED <<files, output, chain, etherscan, queue, quiet>>

PrepareFails == pc = "verify" /\ Prepared = Error /\ Throw("none") /\ UNCHANGED etherscan

\* Etherscan knows the contract, has not verified it yet, and has the capacity.
Acceptable == cmd.address \in indexed \ verified /\ Len(requests) < MaxRequests

Accept == /\ Acceptable
          /\ requests' = Append(requests, [address |-> cmd.address, request |-> cmd.request,
                                           status |-> "pending"])
          /\ UNCHANGED <<indexed, verified>>

Post == /\ pc = "post" /\ Accept
        /\ pc' = "poll"
        /\ cmd' = [cmd EXCEPT !.guid = Len(requests) + 1]
        /\ UNCHANGED <<files, output, chain, queue, quiet>>

\* The request or its answer is lost: the verifier cannot tell.
PostFails == pc = "post" /\ (Accept \/ UNCHANGED etherscan) /\ Throw("none")

\* An answer that is not OK is an error, whatever it says.
RefusalIgnored == "verified"  \* mutant: is not looked at
Refusal == IF cmd.address \notin indexed THEN "bytecode missing" ELSE "none"
Refused == pc = "post" /\ ~Acceptable /\ Throw(Refusal) /\ UNCHANGED etherscan

\* call: verify returns a success only, so that nothing is ever tried again.
Respond(status) ==
    IF status = "pass" THEN End("done", "verified")
    ELSE IF status = "bytecode missing" /\ cmd.intent < MAX_VERIFICATION_INTENTS
    THEN /\ pc' = "verify" /\ UNCHANGED queue
         /\ cmd' = Renewed(cmd.intent + 1, cmd.report)
    ELSE End("done", "none")

\* attemptVerification waits until the request is no longer pending.
AnsweredWell == requests[cmd.guid].status = "pass"  \* mutant: waits for a success
Answered == requests[cmd.guid].status # "pending"

Poll == /\ pc = "poll" /\ Answered
        /\ IF requests[cmd.guid].status = "pass" THEN Respond(requests[cmd.guid].status)
           ELSE End("done", "none")
        /\ UNCHANGED <<files, output, chain, etherscan, quiet>>

PollFails == pc = "poll" /\ Throw("none") /\ UNCHANGED etherscan

-----------------------------------------------------------------------------
\* Etherscan indexes contracts, and compiles what it was sent: it verifies the
\* contract if the sources are complete and give its code.
Index(a) == /\ a \in DOMAIN chain \ indexed
            /\ indexed' = indexed \cup {a}
            /\ UNCHANGED <<files, output, chain, requests, verified, command, quiet>>

Passes(a, request) ==
    /\ NeededFor[request.source] \subseteq request.sources
    /\ chain[a] = [source |-> request.source, version |-> request.version]

Process(j) ==
    /\ j \in DOMAIN requests /\ requests[j].status = "pending"
    /\ LET passes == Passes(requests[j].address, requests[j].request)
       IN  /\ requests' = [requests EXCEPT ![j] =
                              [address |-> requests[j].address, request |-> requests[j].request,
                               status |-> IF passes THEN "pass" ELSE "fail"]]
           /\ verified' = IF passes THEN verified \cup {requests[j].address} ELSE verified
    /\ UNCHANGED <<files, output, chain, indexed, command, quiet>>

Proceed == \/ ExtractFile \/ EndOfFiles \/ CheckFile \/ EndOfCheck
           \/ Deploy \/ Reuse \/ Prepare \/ PrepareFails \/ Post \/ Refused \/ Poll

Next == \/ \E f \in FileNames \cup {Absent}, n \in Contracts \cup {Absent} : ExtractArtifacts(f, n)
        \/ CheckArtifacts
        \/ \E n \in Contracts : DeployAndVerify(n)
        \/ \E n \in Contracts, a \in Addresses : VerifyContract(n, a)
        \/ Proceed
        \/ DeployFails \/ NoVerifier \/ PostFails \/ PollFails
        \/ Kill \/ Recompile
        \/ \E a \in Addresses : Index(a)
        \/ \E j \in 1 .. MaxRequests : Process(j)

Spec == Init /\ [][Next]_vars

\* A command that runs goes on, and Etherscan processes what it has accepted;
\* nothing is assumed to fail, to be indexed or to be killed.
Work == pc \notin Stopped /\ (Proceed \/ \E j \in 1 .. MaxRequests : Process(j))
FairSpec == Spec /\ WF_vars(Work)

-----------------------------------------------------------------------------
Requests == [contract : Contracts, source : Sources, version : Versions,
             sources : SUBSET Sources]
Labels == Stopped \cup {"extract", "check", "deploy", "verify", "post", "poll"}
Commands == [op : {"none", "extract", "extractOne", "check", "deploy", "verify"},
             name : Contracts \cup {Absent}, address : Addresses \cup {Unknown},
             intent : 1 .. MAX_VERIFICATION_INTENTS, guid : 0 .. MaxRequests,
             request : Requests \cup {NoRequest},
             report : {"none", "verified", "bytecode missing"}]

TypeOK == /\ dir \in Directories
          /\ compilations \in 0 .. MaxCompilations
          /\ artifacts \in [Contracts \cup FileNames -> Codes \cup {NoCode}]
          /\ chain \in Seq(Codes) /\ Len(chain) <= MaxDeploys
          /\ output \in [Contracts -> (DOMAIN chain) \cup {Unknown}]
          /\ indexed \subseteq DOMAIN chain /\ verified \subseteq indexed
          /\ requests \in Seq([address : Addresses, request : Requests,
                               status : {"pending", "pass", "fail"}])
          /\ pc \in Labels /\ cmd \in Commands /\ queue \subseteq FileNames
          /\ quiet \in BOOLEAN
          /\ pc = "post" => cmd.request \in Requests
          /\ pc = "poll" => cmd.guid \in DOMAIN requests

-----------------------------------------------------------------------------
\* Properties.

\* A verification that is reported as a success is one: Etherscan shows the
\* contract as verified, and did so for a complete set of sources that compile
\* to the code at the address, whatever has become of the build-info since.
ReportedVerified ==
    pc = "done" /\ cmd.report = "verified" =>
        /\ cmd.address \in verified
        /\ \E j \in DOMAIN requests : /\ requests[j].address = cmd.address
                                      /\ requests[j].request.contract = cmd.name
                                      /\ Passes(cmd.address, requests[j].request)

\* Sources are found by their base names, which two of them may share.  Where the
\* base names of the sources a contract needs are unambiguous, exactly those are
\* submitted, however they import each other: none is missing, and no unrelated
\* one is made public.
Ambiguous(b, s) == \E t \in b.sources \ {s} : Base[t] = Base[s]
ExactFor(imports, build, s) ==
    (\A t \in Needed(imports, s) : ~Ambiguous(build, t)) =>
        Trimmed(build, imports, s) = Needed(imports, s)
TrimmedWell == {b \in Compilations : \A imports \in [b.sources -> SUBSET b.sources] :
                                         \A s \in b.sources : ExactFor(imports, b, s)}
TrimmedExactly == \A f \in Files(dir) : dir[f] \in TrimmedWell

\* The task takes the code it deploys from one part of the build-info, and the
\* verifier looks for the sources in another way: when one source of one file
\* defines the contract, and no name is ambiguous, what was deployed from this
\* build-info can be verified with it.
DeployedVerifiable ==
    \A n \in Contracts :
        LET a == output[n]
        IN  /\ a # Unknown /\ chain[a] = Artifact(dir, n)
            /\ Cardinality(FilesDefining(dir, n)) = 1
            /\ \A s \in BuildWith(dir, n).sources : ~Ambiguous(BuildWith(dir, n), s)
            => LET request == Request(n, chain[a])
               IN  request # Error /\ Passes(a, request)

\* An extraction of all artifacts, or a check of them, that ran to its end while
\* the build-info stayed the same means that every artifact file holds what a
\* task would deploy, although files are written one by one, in runs that stop.
ArtifactsMatch ==
    pc = "done" /\ cmd.op \in {"extract", "check"} /\ quiet =>
        \A f \in Files(dir) : artifacts[f] = Artifact(dir, f)

\* "Could not find deployed bytecode in network, retrying": it gives up only
\* after MAX_VERIFICATION_INTENTS.
MissingIsRetried ==
    cmd.report = "bytecode missing" => cmd.intent = MAX_VERIFICATION_INTENTS

\* Every command ends, if only Etherscan answers the requests it has accepted.
CommandsEnd == pc \notin Stopped ~> pc \in Stopped
=============================================================================
