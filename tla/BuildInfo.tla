------------------------------ MODULE BuildInfo ------------------------------
(***************************************************************************)
(* The build-info directory of a task: JSON files with the sources and the *)
(* output of one compilation each.  Two parts of the program look for a    *)
(* contract in it, and they do so in different ways: the task, for the     *)
(* artifact it deploys, and the verifier, for the sources it submits.      *)
(*                                                                         *)
(* A source file defines the contract it is named for; its name without    *)
(* the directories is Base[source], and two sources can share it.  What a  *)
(* compilation makes of a source is the record of the source and of the    *)
(* version that was compiled.                                              *)
(***************************************************************************)
EXTENDS Naturals, Sequences, FiniteSets

CONSTANTS FileOrder,    \* names of the build-info files, as readdir lists them
          SourceOrder,  \* source files, in the order of the keys of a build
          Base,         \* [Sources -> Contracts]
          Versions

FileNames == {FileOrder[i] : i \in DOMAIN FileOrder}
Sources == {SourceOrder[i] : i \in DOMAIN SourceOrder}
Contracts == {Base[s] : s \in Sources}

ASSUME BuildInfoAssumption ==
    /\ FileOrder \in Seq(FileNames) /\ SourceOrder \in Seq(Sources)
    /\ \A i, j \in DOMAIN FileOrder : FileOrder[i] = FileOrder[j] => i = j
    /\ \A i, j \in DOMAIN SourceOrder : SourceOrder[i] = SourceOrder[j] => i = j
    /\ DOMAIN Base = Sources

Absent == "absent"
NoBuild == [sources |-> {}]
NoCode == [source |-> Absent]
Error == [error |-> TRUE]

Builds == [sources : SUBSET Sources, version : Versions]
Directories == [FileNames -> Builds \cup {NoBuild}]
Codes == [source : Sources, version : Versions]

\* The first element of a sequence in a set that has one.
First(order, S) == order[CHOOSE i \in DOMAIN order :
                            order[i] \in S /\ \A j \in 1 .. i - 1 : order[j] \notin S]

Files(dir) == {f \in FileNames : dir[f] # NoBuild}

\* getAllFullyQualifiedNames: the sources of a build that define the contract.
Defining(build, contract) == {s \in build.sources : Base[s] = contract}
FilesDefining(dir, contract) == {f \in Files(dir) : Defining(dir[f], contract) # {}}

\* getArtifactFromContractOutput
ArtifactFrom(build, source) == [source |-> source, version |-> build.version]

-----------------------------------------------------------------------------
\* Task.artifact.

\* One build: the first of its sources that defines the contract.
OfBuild(build, contract) ==
    IF Defining(build, contract) = {} THEN Error
    ELSE ArtifactFrom(build, First(SourceOrder, Defining(build, contract)))

\* All builds merged: a source is in the place where it first appears, with the
\* output of the last file that has it.
LastFile(dir, source) ==
    LET having == {i \in DOMAIN FileOrder :
                      FileOrder[i] \in Files(dir) /\ source \in dir[FileOrder[i]].sources}
    IN  FileOrder[CHOOSE i \in having : \A j \in having : j <= i]

OfMergedBuilds(dir, contract) ==
    IF FilesDefining(dir, contract) = {} THEN Error
    ELSE LET first == dir[First(FileOrder, FilesDefining(dir, contract))]
             source == First(SourceOrder, Defining(first, contract))
         IN  ArtifactFrom(dir[LastFile(dir, source)], source)

\* A file name says whether the builds are merged, but not which build is read.
ArtifactIn(dir, contract, fileName) ==
    IF fileName \notin Files(dir) THEN OfMergedBuilds(dir, contract)
    ELSE IF contract \in Files(dir) THEN OfBuild(dir[contract], contract)
    ELSE Error

Artifact(dir, contract) == ArtifactIn(dir, contract, contract)

-----------------------------------------------------------------------------
\* Verifier.

\* getAbsoluteSourcePath guesses the source of an import by its base name, which
\* it takes from behind the last directory of the path: imports are written with
\* one (of a bare file name the match is null, and the verifier throws).
GuessedSource(build, import) ==
    First(SourceOrder, {s \in build.sources : Base[s] = Base[import]})
GuessedImports(build, imports, source) ==
    {GuessedSource(build, i) : i \in imports[source]}

\* getContractImportedSourceNames: what is reached from a source.
Reached(next, source) ==
    LET step[n \in Nat] == IF n = 0 THEN {source}
                           ELSE step[n - 1] \cup UNION {next[s] : s \in step[n - 1]}
    IN  step[Len(SourceOrder)]

WholeBuild(build, imports, source) == build.sources  \* mutant
OnlyDirectImports(build, imports, source) == \* mutant
    {source} \cup GuessedImports(build, imports, source)
Trimmed(build, imports, source) ==
    Reached([s \in build.sources |-> GuessedImports(build, imports, s)], source)

\* A set of sources that compiles has all they import.
Closed(imports, S) == \A s \in S : imports[s] \subseteq S

\* What the compiler needs: the smallest set with the source and all imports.
Needed(imports, source) ==
    {s \in DOMAIN imports : \A S \in SUBSET DOMAIN imports :
                               source \in S /\ Closed(imports, S) => s \in S}

\* findBuildInfoWithContract: the first build with the contract.
BuildWith(dir, contract) == dir[First(FileOrder, FilesDefining(dir, contract))]
=============================================================================
