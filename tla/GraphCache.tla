----------------------------- MODULE GraphCache -----------------------------
(***************************************************************************)
(* The graph cache of one repository directory: GraphService.generate_graph*)
(* (backend/app/services/graph_services.py) over the files RepositoryCache *)
(* keeps (backend/app/cache/repository_cache.py).                          *)
(*                                                                         *)
(* Each worker runs generate_graph for a request: fingerprint the tree,    *)
(* validate the cache, load it or parse the tree file by file, build, and  *)
(* write the three cache files one after the other.  Nothing locks the     *)
(* cache or the tree, so the steps of the workers interleave with each     *)
(* other and with the git commands that rewrite the tree.                  *)
(*                                                                         *)
(* A file's content is the number of the commit that wrote it (0: the file *)
(* is absent), its mtime the number of the checkout that wrote it, so two  *)
(* writes of a file never have the same mtime and size.  A graph is the    *)
(* content of the files it was parsed from.  The walks of the fingerprint  *)
(* and of git's checkout are one step each.                                *)
(***************************************************************************)
EXTENDS Integers, Sequences, FiniteSets

CONSTANTS
    PyFiles,     \* tracked .py files
    TsFiles,     \* TypeScript and JavaScript files
    Workers,     \* threads running generate_graph on this directory
    Deletable,   \* environment: the files a commit may delete
    Reclones,    \* environment: whether the directory may be cloned afresh
    Faults,      \* environment: whether the process may die and a save may fail
    Quiet,       \* environment: the tree changes only while no request runs
    MaxCommits,  \* bound on the commits of the repository
    MaxWrites    \* bound on the checkouts of the tree

Files == PyFiles \cup TsFiles

ASSUME GraphCacheAssumption ==
    /\ PyFiles \cap TsFiles = {}
    /\ IsFiniteSet(Files)
    /\ Deletable \subseteq Files
    /\ {Reclones, Faults, Quiet} \subseteq BOOLEAN
    /\ MaxCommits \in Nat \ {0} /\ MaxWrites \in Nat \ {0}

VARIABLES
    tree,        \* the working tree: file -> content, 0 when absent
    mtime,       \* file -> the checkout that last wrote it, 0 when absent
    writes,      \* the number of checkouts so far
    commits,     \* the trees of the commits, oldest first; HEAD is the last
    known,       \* the commits git can resolve in this clone
    graphFile,   \* repository_graph.pkl
    hashFile,    \* repository_hash.json
    commitFile,  \* last_commit.txt: a commit, 0 when missing or empty
    work         \* worker -> what its call of generate_graph holds

repoVars  == <<tree, mtime, writes, commits, known>>
cacheVars == <<graphFile, hashFile, commitFile>>
vars == <<repoVars, cacheVars, work>>

Content  == [Files -> Nat]
Absent   == [f \in Files |-> 0]
NoPrint  == [f \in PyFiles |-> 0]

\* A cache file is missing, torn (truncated or half written) or whole; mixed
\* tells that two writers had it open at once.
FileOf(D) == [state : {"missing", "torn", "whole"}, data : D, mixed : BOOLEAN]

Steps == {"idle", "validate", "compare", "load", "detect", "parse",
          "writeGraph", "openHash", "writeHash", "readHead", "openCommit",
          "writeCommit", "done"}

Job == [pc : Steps, print : [PyFiles -> Nat], todo : SUBSET Files,
        graph : Content, head : Nat]

Idle == [pc |-> "idle", print |-> NoPrint, todo |-> {}, graph |-> Absent,
         head |-> 0]

TypeOK ==
    /\ tree \in Content /\ mtime \in Content
    /\ writes \in Nat
    /\ commits \in Seq(Content) /\ known \subseteq Nat
    /\ graphFile \in FileOf(Content)
    /\ hashFile \in FileOf([PyFiles -> Nat])
    /\ commitFile \in Nat
    /\ work \in [Workers -> Job]

-----------------------------------------------------------------------------
Present(t) == {f \in Files : t[f] # 0}

\* _detect_language: TypeScript only when it has more files than Python.
SourceFiles(t) ==
    IF Cardinality(Present(t) \cap TsFiles) > Cardinality(Present(t) \cap PyFiles)
    THEN TsFiles ELSE PyFiles

\* The graph the parser and the builder make of a tree that holds still.
GraphOf(t) == [f \in Files |-> IF f \in SourceFiles(t) THEN t[f] ELSE 0]

PrintOfNames(m) == [f \in PyFiles |-> IF m[f] = 0 THEN 0 ELSE 1]

\* compute_fingerprint: the names, mtimes and sizes of the tracked .py files.
Fingerprint(m) == [f \in PyFiles |-> m[f]]

HeadFromZero == Len(commits) - 2

HeadCommit == Len(commits)

NoDiff(since) == {}

\* _changed_files_since: the surviving source files the diff names, and
\* nothing when git cannot resolve the old commit.
ChangedSince(since) ==
    IF since \in known
    THEN {f \in Present(tree) : commits[since][f] # commits[HeadCommit][f]}
    ELSE {}

Init ==
    /\ \E p \in SUBSET Files : tree = [f \in Files |-> IF f \in p THEN 1 ELSE 0]
    /\ mtime = tree
    /\ writes = 1
    /\ commits = <<tree>>
    /\ known = {1}
    /\ graphFile = [state |-> "missing", data |-> Absent, mixed |-> FALSE]
    /\ hashFile = [state |-> "missing", data |-> NoPrint, mixed |-> FALSE]
    /\ commitFile = 0
    /\ work = [w \in Workers |-> Idle]

-----------------------------------------------------------------------------
(***************************************************************************)
(* The tree changes: clone_repository, called by other requests.           *)
(***************************************************************************)
MayChange ==
    /\ Quiet => \A w \in Workers : work[w].pc = "idle"
    /\ writes < MaxWrites

\* The tree of the next commit, with changed files written and removed ones gone.
NextTree(changed, removed) ==
    [f \in Files |-> IF f \in changed THEN Len(commits) + 1
                     ELSE IF f \in removed THEN 0 ELSE tree[f]]

\* git pull: a new commit; only the files it touches are rewritten.
Pull(changed, removed) ==
    /\ MayChange /\ Len(commits) < MaxCommits
    /\ removed \subseteq (Present(tree) \cap Deletable) \ changed
    /\ changed \cup removed # {}
    /\ tree' = NextTree(changed, removed)
    /\ commits' = Append(commits, tree')
    /\ known' = known \cup {Len(commits')}
    /\ writes' = writes + 1
    /\ mtime' = [f \in Files |-> IF f \in changed THEN writes'
                                 ELSE IF f \in removed THEN 0 ELSE mtime[f]]
    /\ UNCHANGED <<cacheVars, work>>

\* The directory is removed and cloned again with --depth=1, at the same
\* commit or at a new one: every file is rewritten, old commits are unknown.
Reclone(changed, removed) ==
    /\ Reclones /\ MayChange
    /\ removed \subseteq (Present(tree) \cap Deletable) \ changed
    /\ changed \cup removed # {} => Len(commits) < MaxCommits
    /\ tree' = NextTree(changed, removed)
    /\ commits' = IF tree' = tree THEN commits ELSE Append(commits, tree')
    /\ known' = {Len(commits')}
    /\ writes' = writes + 1
    /\ mtime' = [f \in Files |-> IF tree'[f] = 0 THEN 0 ELSE writes']
    /\ UNCHANGED <<cacheVars, work>>

-----------------------------------------------------------------------------
(***************************************************************************)
(* generate_graph, step by step.                                           *)
(***************************************************************************)
Start(w) ==
    /\ work[w].pc = "idle"
    /\ work' = [work EXCEPT ![w].pc = "validate", ![w].print = Fingerprint(mtime)]
    /\ UNCHANGED <<repoVars, cacheVars>>

\* is_cache_valid: both files are there, the hash is readable and it matches.
CacheValid(print) ==
    /\ hashFile.state # "missing" /\ graphFile.state # "missing"
    /\ hashFile.state = "whole"
    /\ hashFile.data = print

Validate(w) ==
    /\ work[w].pc = "validate"
    /\ work' = [work EXCEPT ![w].pc =
                  IF CacheValid(work[w].print) THEN "compare" ELSE "detect"]
    /\ UNCHANGED <<repoVars, cacheVars>>

\* A valid cache is rebuilt all the same when git shows surviving source
\* files that changed since the commit the cache was saved at.
Compare(w) ==
    /\ work[w].pc = "compare"
    /\ LET moved == commitFile # 0 /\ commitFile # HeadCommit
       IN  work' = [work EXCEPT ![w].pc =
                      IF moved /\ ChangedSince(commitFile) # {}
                      THEN "detect" ELSE "load"]
    /\ UNCHANGED <<repoVars, cacheVars>>

\* cache.load(); a pickle that does not load is rebuilt.
Load(w) ==
    /\ work[w].pc = "load"
    /\ work' = [work EXCEPT ![w] =
                  IF graphFile.state = "whole"
                  THEN [@ EXCEPT !.pc = "done", !.graph = graphFile.data]
                  ELSE [@ EXCEPT !.pc = "detect"]]
    /\ UNCHANGED <<repoVars, cacheVars>>

Detect(w) ==
    /\ work[w].pc = "detect"
    /\ work' = [work EXCEPT ![w].pc = "parse",
                            ![w].todo = SourceFiles(tree)]
    /\ UNCHANGED <<repoVars, cacheVars>>

\* parse_repository reads one file; a file that is gone is skipped.
ParseFile(w, f) ==
    /\ work[w].pc = "parse" /\ f \in work[w].todo
    /\ work' = [work EXCEPT ![w].todo = @ \ {f}, ![w].graph[f] = tree[f]]
    /\ UNCHANGED <<repoVars, cacheVars>>

Parsed(w) == work[w].pc = "parse" /\ work[w].todo = {}

\* open(path, "w") truncates the file, under whoever is writing it too.
Truncated(empty, writers) ==
    [state |-> "torn", data |-> empty, mixed |-> writers # {}]

\* The content after a write that shared the file with another writer is
\* either of them or neither.
Written(file, data) ==
    {[state |-> "whole", data |-> data, mixed |-> file.mixed]}
      \cup (IF file.mixed THEN {[file EXCEPT !.state = "torn"]} ELSE {})

Others(w, pc) == {v \in Workers \ {w} : work[v].pc = pc}

\* Every file is parsed: build_graph, then save() opens the graph file.
OpenGraph(w) ==
    /\ Parsed(w)
    /\ graphFile' = Truncated(Absent, Others(w, "writeGraph"))
    /\ work' = [work EXCEPT ![w].pc = "writeGraph"]
    /\ UNCHANGED <<repoVars, hashFile, commitFile>>

WriteGraph(w) ==
    /\ work[w].pc = "writeGraph"
    /\ graphFile' \in Written(graphFile, work[w].graph)
    /\ work' = [work EXCEPT ![w].pc = "openHash"]
    /\ UNCHANGED <<repoVars, hashFile, commitFile>>

OpenHash(w) ==
    /\ work[w].pc = "openHash"
    /\ hashFile' = Truncated(NoPrint, Others(w, "writeHash"))
    /\ work' = [work EXCEPT ![w].pc = "writeHash"]
    /\ UNCHANGED <<repoVars, graphFile, commitFile>>

PrintLate(w) == Fingerprint(mtime)

\* The fingerprint saved is the one taken before the tree was parsed.
PrintToSave(w) == work[w].print

WriteHash(w) ==
    /\ work[w].pc = "writeHash"
    /\ hashFile' \in Written(hashFile, PrintToSave(w))
    /\ work' = [work EXCEPT ![w].pc = "readHead", ![w].print = NoPrint]
    /\ UNCHANGED <<repoVars, graphFile, commitFile>>

\* _get_head_commit after the build, then save_commit.
ReadHead(w) ==
    /\ work[w].pc = "readHead"
    /\ work' = [work EXCEPT ![w].pc = "openCommit", ![w].head = HeadCommit]
    /\ UNCHANGED <<repoVars, cacheVars>>

OpenCommit(w) ==
    /\ work[w].pc = "openCommit"
    /\ commitFile' = 0
    /\ work' = [work EXCEPT ![w].pc = "writeCommit"]
    /\ UNCHANGED <<repoVars, graphFile, hashFile>>

WriteCommit(w) ==
    /\ work[w].pc = "writeCommit"
    /\ commitFile' = work[w].head
    /\ work' = [work EXCEPT ![w].pc = "done", ![w].head = 0]
    /\ UNCHANGED <<repoVars, graphFile, hashFile>>

\* An OSError while saving is logged; the graph is returned all the same.
SaveFails(w) ==
    /\ Faults
    /\ \/ Parsed(w)
       \/ work[w].pc \in {"writeGraph", "openHash", "writeHash", "openCommit",
                           "writeCommit"}
    /\ work' = [work EXCEPT ![w].pc = "done"]
    /\ UNCHANGED <<repoVars, cacheVars>>

\* The caller has the graph.
Return(w) ==
    /\ work[w].pc = "done"
    /\ work' = [work EXCEPT ![w] = Idle]
    /\ UNCHANGED <<repoVars, cacheVars>>

\* The process dies: every call is gone, the files stay as they are.
Crash ==
    /\ Faults
    /\ \E w \in Workers : work[w].pc # "idle"
    /\ work' = [w \in Workers |-> Idle]
    /\ UNCHANGED <<repoVars, cacheVars>>

Generate(w) ==
    \/ Start(w) \/ Validate(w) \/ Compare(w) \/ Load(w) \/ Detect(w)
    \/ \E f \in Files : ParseFile(w, f)
    \/ OpenGraph(w) \/ WriteGraph(w) \/ OpenHash(w) \/ WriteHash(w)
    \/ ReadHead(w) \/ OpenCommit(w) \/ WriteCommit(w) \/ SaveFails(w) \/ Return(w)

Next ==
    \/ \E changed, removed \in SUBSET Files :
         Pull(changed, removed) \/ Reclone(changed, removed)
    \/ \E w \in Workers : Generate(w)
    \/ Crash

Spec == Init /\ [][Next]_vars

-----------------------------------------------------------------------------
\* No fingerprint and no diff can tell the tree from the one that was cached:
\* it has no Python file, and git cannot resolve the commit of the cache.
Unresolvable == Present(tree) \cap PyFiles = {} /\ commitFile \notin known \cup {0}

\* "Unchanged repos skip the full parse/build step", but for one kind only
\* those: while the tree only changes between requests, loses no file, and the
\* saves succeed, an older graph is served to a repository without Python whose
\* cached commit a fresh clone has lost, and to no other: no pull, no other
\* clone and no interleaving with another request does it.
StaleOnlyWhenUnresolvable ==
    \A w \in Workers :
        work[w].pc = "done" => work[w].graph = GraphOf(tree) \/ Unresolvable

\* A cache the service accepts holds the current content of every tracked
\* file: a tree that moved under the parser leaves a fingerprint that no
\* later tree has.
ValidCacheIsCurrent ==
    CacheValid(Fingerprint(mtime)) /\ graphFile.state = "whole" =>
        \A f \in PyFiles : tree[f] # 0 => graphFile.data[f] = tree[f]

=============================================================================
