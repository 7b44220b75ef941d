---------------------------- MODULE ScriptService ----------------------------
(***************************************************************************)
(* The script service of the package manager (oprc-pm/src/services:        *)
(* script.rs, artifact.rs, compiler.rs).  A request compiles a source with *)
(* the compiler service, stores the module under the hash of its bytes,    *)
(* stores the source and, to deploy it, replaces the package and deploys   *)
(* the class.  Requests interleave at every await, the file system fails   *)
(* a call now and then, and the process may crash between two of them.     *)
(***************************************************************************)
EXTENDS Naturals, FiniteSets

CONSTANTS
    ScriptJobs,     \* requests in flight
    ScriptRequests, \* [kind : {"build", "deploy", "compile"}, source, pkg, class]
    Hash,           \* [sources -> id of the module the compiler makes of it, or NoFile]
    Packages,
    Classes,
    NoFile,
    MaxRetries,     \* CompilerConfig::max_retries
    MaxFaults,      \* bound: failures of the file system, the store and deployments
    MaxCrashes      \* bound: crashes of the process

\* A request names a source the compiler answers for; NoFile names no file.
ASSUME ScriptAssumption ==
    /\ NoFile \notin ScriptJobs
    /\ \A r \in ScriptRequests : r.source \in DOMAIN Hash

VARIABLES
    scriptJob,      \* [ScriptJobs -> the handler's state]
    tmpFile,        \* <id>.wasm.tmp: [module ids -> file, or NoFile]
    wasmFile,       \* <id>.wasm: [module ids -> file, or NoFile]
    wholeFiles,     \* the files with all bytes written
    metas,          \* <id>.meta.json: [module ids -> <<package, class>>, or NoFile]
    sources,        \* [Packages \X Classes -> source, or NoFile]
    packages,       \* [Packages -> the class and the module its function names, or NoFile]
    overlapped,     \* history: modules two requests were writing at the same time
    faults, crashes

scriptVars == <<scriptJob, tmpFile, wasmFile, wholeFiles, metas, sources, packages,
                overlapped, faults, crashes>>

files == <<tmpFile, wasmFile, wholeFiles, overlapped>>
Modules == {Hash[s] : s \in DOMAIN Hash} \ {NoFile}

NoJob == [pc |-> "idle", req |-> NoFile, tries |-> 0, file |-> NoFile, found |-> FALSE, res |-> "none"]

ScriptInit ==
    /\ scriptJob = [j \in ScriptJobs |-> NoJob]
    /\ tmpFile = [a \in Modules |-> NoFile]
    /\ wasmFile = [a \in Modules |-> NoFile]
    /\ wholeFiles = {}
    /\ metas = [a \in Modules |-> NoFile]
    /\ sources = [k \in Packages \X Classes |-> NoFile]
    /\ packages = [p \in Packages |-> NoFile]
    /\ overlapped = {} /\ faults = 0 /\ crashes = 0

At(j, pc) == scriptJob[j].pc = pc
MoveTo(j, pc) == scriptJob' = [scriptJob EXCEPT ![j].pc = pc]
Ends(j, res) == scriptJob' = [scriptJob EXCEPT ![j].pc = "done", ![j].res = res]
AskedFor(j) == scriptJob[j].req
Module(j) == Hash[AskedFor(j).source]
Fault == faults < MaxFaults /\ faults' = faults + 1

ScriptBegin(j, req) ==
    /\ At(j, "idle")
    /\ scriptJob' = [scriptJob EXCEPT ![j].pc = "compile", ![j].req = req]
    /\ UNCHANGED <<files, metas, sources, packages, faults, crashes>>

-----------------------------------------------------------------------------
(* CompilerClient                                                          *)

\* The attempts of compile count from zero to max_retries.
MayRetry(j) == scriptJob[j].tries < MaxRetries

\* compile and do_compile: only an unavailable service (no connection, 5xx) is
\* asked again; a 400 is the compiler's verdict and anything else is final.
Compile(j) ==
    /\ At(j, "compile")
    /\ \/ Module(j) # NoFile /\ UNCHANGED faults
          /\ IF AskedFor(j).kind = "compile" THEN Ends(j, "ok") ELSE MoveTo(j, "store")
       \/ Module(j) = NoFile /\ Ends(j, "not compiled") /\ UNCHANGED faults
       \/ Fault /\ Ends(j, "compiler error")
       \/ Fault /\ IF MayRetry(j) THEN scriptJob' = [scriptJob EXCEPT ![j].tries = @ + 1]
                   ELSE Ends(j, "compiler error")
    /\ UNCHANGED <<files, metas, sources, packages, crashes>>

-----------------------------------------------------------------------------
(* FsArtifactStore::store                                                  *)

\* A module that is there already is not written again.
StoreCheck(j) ==
    /\ At(j, "store")
    /\ MoveTo(j, IF wasmFile[Module(j)] # NoFile THEN "stored" ELSE "open")
    /\ UNCHANGED <<files, metas, sources, packages, faults, crashes>>

Writing(a) == {k \in ScriptJobs : scriptJob[k].pc \in {"write", "rename"} /\ Module(k) = a}

\* Mutant: the final file is written in place.
OpenInPlace(j) ==
    /\ At(j, "open")
    /\ scriptJob' = [scriptJob EXCEPT ![j].pc = "write", ![j].file = j]
    /\ wasmFile' = [wasmFile EXCEPT ![Module(j)] = j]
    /\ tmpFile' = [tmpFile EXCEPT ![Module(j)] = j]
    /\ UNCHANGED <<wholeFiles, overlapped, metas, sources, packages, faults, crashes>>

\* fs::write opens the temporary file, truncating the one it finds (a new file
\* is named after the request that created it), ...
OpenTmp(j) ==
    /\ At(j, "open")
    /\ LET a == Module(j)
           file == IF tmpFile[a] = NoFile THEN j ELSE tmpFile[a]
       IN  /\ scriptJob' = [scriptJob EXCEPT ![j].pc = "write", ![j].file = file]
           /\ tmpFile' = [tmpFile EXCEPT ![a] = file]
           /\ wholeFiles' = wholeFiles \ {file}
           /\ overlapped' = IF Writing(a) = {} THEN overlapped ELSE overlapped \cup {a}
    /\ UNCHANGED <<wasmFile, metas, sources, packages, faults, crashes>>

\* ... and writes it, or fails on the way.
WriteTmp(j) ==
    /\ At(j, "write")
    /\ \/ /\ wholeFiles' = wholeFiles \cup {scriptJob[j].file}
          /\ MoveTo(j, "rename") /\ UNCHANGED faults
       \/ Fault /\ Ends(j, "store failed") /\ UNCHANGED wholeFiles
    /\ UNCHANGED <<tmpFile, wasmFile, overlapped, metas, sources, packages, crashes>>

\* The rename fails when another request has renamed the file away.
RenameTmp(j) ==
    /\ At(j, "rename")
    /\ LET a == Module(j)
       IN  \/ /\ tmpFile[a] # NoFile
              /\ wasmFile' = [wasmFile EXCEPT ![a] = tmpFile[a]]
              /\ tmpFile' = [tmpFile EXCEPT ![a] = NoFile]
              /\ MoveTo(j, "stored")
           \/ /\ tmpFile[a] = NoFile
              /\ Ends(j, "store failed")
              /\ UNCHANGED <<wasmFile, tmpFile>>
    /\ UNCHANGED <<wholeFiles, overlapped, metas, sources, packages, faults, crashes>>
-----------------------------------------------------------------------------
(* ScriptService::build_script and deploy_script after the store           *)

\* build_script records who built the module; deploy_script does not.  A failure
\* is logged and the request goes on.
StoreMeta(j) ==
    /\ At(j, "stored")
    /\ MoveTo(j, "source")
    /\ \/ /\ AskedFor(j).kind = "build"
          /\ metas' = [metas EXCEPT ![Module(j)] = <<AskedFor(j).pkg, AskedFor(j).class>>]
          /\ UNCHANGED faults
       \/ AskedFor(j).kind = "deploy" /\ UNCHANGED <<metas, faults>>
       \/ AskedFor(j).kind = "build" /\ Fault /\ UNCHANGED metas
    /\ UNCHANGED <<files, sources, packages, crashes>>

\* store_source writes the file in place; a failure is logged.
StoreSource(j) ==
    /\ At(j, "source")
    /\ IF AskedFor(j).kind = "build" THEN Ends(j, "ok") ELSE MoveTo(j, "look")
    /\ \/ /\ sources' = [sources EXCEPT ![<<AskedFor(j).pkg, AskedFor(j).class>>] = AskedFor(j).source]
          /\ UNCHANGED faults
       \/ Fault /\ UNCHANGED sources
    /\ UNCHANGED <<files, metas, packages, crashes>>

\* ensure_package looks first, ...
LookPackage(j) ==
    /\ At(j, "look")
    /\ \/ /\ scriptJob' = [scriptJob EXCEPT ![j].pc = "package",
                                            ![j].found = packages[AskedFor(j).pkg] # NoFile]
          /\ UNCHANGED faults
       \/ Fault /\ Ends(j, "package failed")
    /\ UNCHANGED <<files, metas, sources, packages, crashes>>

\* ... then creates the package, which must still be missing, or updates it: the
\* package holds this request's class and function only.  The service's own look
\* before the write is one step with it here; PackageManager has them apart.
PutPackage(j) ==
    /\ At(j, "package")
    /\ LET p == AskedFor(j).pkg
       IN  \/ /\ scriptJob[j].found = (packages[p] # NoFile)
              /\ packages' = [packages EXCEPT ![p] = [class |-> AskedFor(j).class, module |-> Module(j)]]
              /\ MoveTo(j, "deploy") /\ UNCHANGED faults
           \/ /\ scriptJob[j].found # (packages[p] # NoFile)
              /\ Ends(j, "package failed") /\ UNCHANGED <<packages, faults>>
           \/ Fault /\ Ends(j, "package failed") /\ UNCHANGED packages
    /\ UNCHANGED <<files, metas, sources, crashes>>

\* DeploymentService::deploy_class is the subject of PackageManager.
Deploy(j) ==
    /\ At(j, "deploy")
    /\ \/ Ends(j, "ok") /\ UNCHANGED faults
       \/ Fault /\ Ends(j, "deployment failed")
    /\ UNCHANGED <<files, metas, sources, packages, crashes>>

\* The process crashes: its requests are gone, files and packages stay.
Crash ==
    /\ crashes < MaxCrashes /\ crashes' = crashes + 1
    /\ scriptJob' = [j \in ScriptJobs |->
                        IF scriptJob[j].pc \in {"idle", "done"} THEN scriptJob[j]
                        ELSE [scriptJob[j] EXCEPT !.pc = "done", !.res = "lost"]]
    /\ UNCHANGED <<files, metas, sources, packages, faults>>

ScriptStep(j) ==
    \/ Compile(j) \/ StoreCheck(j) \/ OpenTmp(j) \/ WriteTmp(j) \/ RenameTmp(j)
    \/ StoreMeta(j) \/ StoreSource(j) \/ LookPackage(j) \/ PutPackage(j) \/ Deploy(j)

ScriptNext ==
    \/ \E j \in ScriptJobs : ScriptStep(j) \/ \E req \in ScriptRequests : ScriptBegin(j, req)
    \/ Crash

ScriptSpec == ScriptInit /\ [][ScriptNext]_scriptVars

-----------------------------------------------------------------------------
(* What clients read                                                       *)

\* get_artifact, as ODGM downloads a module.
GetArtifact(a) ==
    IF a \notin Modules THEN "bad request"
    ELSE IF wasmFile[a] = NoFile THEN "not found"
    ELSE IF wasmFile[a] \in wholeFiles THEN "whole" ELSE "torn"

\* list_artifacts: has_source follows from the metadata.
ListArtifacts ==
    {[id |-> a, has_source |-> metas[a] # NoFile, source |-> metas[a]] :
        a \in {b \in Modules : wasmFile[b] # NoFile}}

-----------------------------------------------------------------------------
(* Properties                                                              *)

\* A package never names a module that cannot be downloaded, whatever fails or
\* crashes on the way: the module is stored before the package that names it
\* (script.rs deploy_script).
PackagesServable ==
    \A p \in Packages : packages[p] # NoFile =>
        GetArtifact(packages[p].module) \in {"whole", "torn"}

\* The file a module is served from holds all its bytes after every failure and
\* crash, because it is renamed into place only when it is written (artifact.rs
\* store).  Two requests that store the same module at the same time share the
\* temporary file, and void this.
WholeUnlessOverlapped ==
    \A a \in Modules : GetArtifact(a) = "torn" => a \in overlapped

\* A source that can be opened for editing has been compiled and its module
\* stored; a listed module that claims a source was built by that class.
SourceHasArtifact ==
    /\ \A k \in DOMAIN sources : sources[k] # NoFile => GetArtifact(Hash[sources[k]]) # "not found"
    /\ \A e \in ListArtifacts : e.has_source =>
          \E r \in ScriptRequests : <<r.pkg, r.class>> = e.source /\ Hash[r.source] = e.id

\* Packages, stored modules and sources fit together after every failure and crash:
\* what is named can be downloaded, whole, and what can be edited was built.
ArtifactsServed == PackagesServable /\ WholeUnlessOverlapped /\ SourceHasArtifact
=============================================================================
