-------------------------- MODULE GraphCacheProofs --------------------------
(***************************************************************************)
(* Two things about the cache, for every set of files and any number of    *)
(* commits and checkouts:                                                  *)
(*   - what the service accepts is current (ValidCacheIsCurrent), with the *)
(*     tree moving under the parser, crashes and failed saves -- as long   *)
(*     as one request at a time builds the graph of the directory and the  *)
(*     repository has no TypeScript;                                       *)
(*   - a request returns the graph of the tree, unless git cannot resolve  *)
(*     the cached commit of a tree without Python                          *)
(*     (StaleOnlyWhenUnresolvable), with any number of builders and        *)
(*     languages -- as long as nothing of that happens to the tree while   *)
(*     they run.                                                           *)
(* Section 6 of the README says what happens otherwise.                    *)
(***************************************************************************)
EXTENDS GraphCache, FiniteSetTheorems, TLAPS

OneBuilder == \A v, w \in Workers : v = w

OnlyPython == TsFiles = {}

\* If print p saw the file that is there now, g holds what is in it.
Sound(p, g, f) == p[f] # 0 /\ p[f] = mtime[f] => g[f] = tree[f]

\* A file that is there has a stamp, and no stamp is ahead of the last
\* checkout: the next one is fresh.
Stamps ==
    /\ \A f \in Files : tree[f] # 0 => mtime[f] # 0
    /\ \A f \in Files : mtime[f] <= writes

Bounded ==
    /\ \A f \in PyFiles : hashFile.data[f] <= writes
    /\ \A w \in Workers : \A f \in PyFiles : work[w].print[f] <= writes

NotMixed == ~graphFile.mixed /\ ~hashFile.mixed

\* The files of the graph in memory that have been parsed.
Read(job) ==
    {f \in PyFiles : \/ job.pc = "parse" /\ f \notin job.todo
                     \/ job.pc = "writeGraph"}

\* The graph in memory agrees with the print that will be saved with it, and
\* with the old print it will stand beside until then.
GraphRead ==
    \A w \in Workers : \A f \in Read(work[w]) :
        /\ Sound(work[w].print, work[w].graph, f)
        /\ Sound(hashFile.data, work[w].graph, f)

GraphSaved ==
    \A w \in Workers : work[w].pc \in {"openHash", "writeHash"} =>
        \A f \in PyFiles : Sound(work[w].print, graphFile.data, f)

Pair ==
    hashFile.state = "whole" /\ graphFile.state = "whole" =>
        \A f \in PyFiles : Sound(hashFile.data, graphFile.data, f)

IInv ==
    /\ TypeOK /\ Stamps /\ Bounded /\ NotMixed
    /\ GraphRead /\ GraphSaved /\ Pair

-----------------------------------------------------------------------------
\* A repository without TypeScript is parsed as Python.
LEMMA PythonSources ==
    ASSUME OnlyPython, NEW t
    PROVE  SourceFiles(t) = PyFiles
<1>1. IsFiniteSet(Present(t) \cap PyFiles)
  <2>1. IsFiniteSet(Files)
    BY GraphCacheAssumption
  <2>2. Present(t) \cap PyFiles \subseteq Files
    BY DEF Files
  <2> QED BY <2>1, <2>2, FS_Subset
<1>2. Cardinality(Present(t) \cap PyFiles) \in Nat
  BY <1>1, FS_CardinalityType
<1>3. Present(t) \cap TsFiles = {}
  BY DEF OnlyPython
<1>4. Cardinality(Present(t) \cap TsFiles) = 0
  BY <1>3, FS_EmptySet
<1> QED BY <1>2, <1>4 DEF SourceFiles

\* The new tree and its stamps are of their types.
LEMMA TreeTypes ==
    ASSUME TypeOK, NEW changed \in SUBSET Files, NEW removed \in SUBSET Files
    PROVE  NextTree(changed, removed) \in Content
<1>1. Len(commits) + 1 \in Nat
  BY DEF TypeOK
<1> QED BY <1>1 DEF TypeOK, NextTree, Content

\* Every step keeps the types.
LEMMA TypeStep ==
    ASSUME TypeOK, [Next]_vars
    PROVE  TypeOK'
<1> USE DEF TypeOK
<1>1. ASSUME NEW changed \in SUBSET Files, NEW removed \in SUBSET Files,
             Pull(changed, removed) \/ Reclone(changed, removed)
      PROVE  TypeOK'
  <2>1. NextTree(changed, removed) \in Content
    BY TreeTypes
  <2>2. tree' \in Content /\ writes' \in Nat
    BY <1>1, <2>1 DEF Pull, Reclone
  <2>3. commits' \in Seq(Content)
    <3>1. commits' = commits \/ commits' = Append(commits, tree')
      BY <1>1 DEF Pull, Reclone
    <3> QED BY <2>2, <3>1
  <2>4. mtime' \in Content
    <3>1. CASE Pull(changed, removed)
      <4>1. mtime' = [f \in Files |-> IF f \in changed THEN writes'
                                     ELSE IF f \in removed THEN 0 ELSE mtime[f]]
        BY <3>1 DEF Pull
      <4> QED BY <4>1, <2>2 DEF Content
    <3>2. CASE Reclone(changed, removed)
      <4>1. mtime' = [f \in Files |-> IF tree'[f] = 0 THEN 0 ELSE writes']
        BY <3>2 DEF Reclone
      <4> QED BY <4>1, <2>2 DEF Content
    <3> QED BY <1>1, <3>1, <3>2
  <2>5. known' \subseteq Nat
    <3>1. Len(commits') \in Nat
      BY <2>3
    <3> QED BY <1>1, <3>1 DEF Pull, Reclone
  <2>6. UNCHANGED <<graphFile, hashFile, commitFile, work>>
    BY <1>1 DEF Pull, Reclone, cacheVars
  <2> QED BY <2>2, <2>3, <2>4, <2>5, <2>6
<1>2. ASSUME NEW w \in Workers, Generate(w)
      PROVE  TypeOK'
  <2>0. work[w] \in Job
    OBVIOUS
  <2>1. CASE Start(w)
    <3>1. Fingerprint(mtime) \in [PyFiles -> Nat]
      BY DEF Fingerprint, Content, Files
    <3> QED BY <2>1, <3>1, <2>0 DEF Start, Job, Steps, repoVars, cacheVars
  <2>2. CASE Validate(w)
    BY <2>2, <2>0 DEF Validate, Job, Steps, repoVars, cacheVars
  <2>3. CASE Compare(w)
    BY <2>3, <2>0 DEF Compare, Job, Steps, repoVars, cacheVars
  <2>4. CASE Load(w)
    BY <2>4, <2>0 DEF Load, Job, Steps, FileOf, repoVars, cacheVars
  <2>5. CASE Detect(w)
    <3>1. SourceFiles(tree) \subseteq Files
      BY DEF SourceFiles, Files
    <3> QED BY <2>5, <3>1, <2>0 DEF Detect, Job, Steps, repoVars, cacheVars
  <2>6. ASSUME NEW f \in Files, ParseFile(w, f)
        PROVE  TypeOK'
    <3>1. [work[w].graph EXCEPT ![f] = tree[f]] \in Content
      BY <2>0 DEF Job, Content
    <3> QED BY <2>6, <3>1, <2>0 DEF ParseFile, Job, Steps, repoVars, cacheVars
  <2>7. CASE OpenGraph(w)
    <3>1. Absent \in Content
      BY DEF Absent, Content
    <3> QED BY <2>7, <3>1, <2>0 DEF OpenGraph, Truncated, FileOf, Job, Steps, repoVars
  <2>8. CASE WriteGraph(w)
    <3>1. graphFile' \in FileOf(Content)
      <4>1. graphFile' \in Written(graphFile, work[w].graph)
        BY <2>8 DEF WriteGraph
      <4>2. work[w].graph \in Content /\ graphFile.mixed \in BOOLEAN
        BY <2>0 DEF Job, FileOf
      <4>3. [state |-> "whole", data |-> work[w].graph, mixed |-> graphFile.mixed]
              \in FileOf(Content)
        BY <4>2 DEF FileOf
      <4>4. [graphFile EXCEPT !.state = "torn"] \in FileOf(Content)
        BY DEF FileOf
      <4> QED BY <4>1, <4>3, <4>4 DEF Written
    <3> QED BY <2>8, <3>1, <2>0 DEF WriteGraph, Job, Steps, repoVars
  <2>9. CASE OpenHash(w)
    <3>1. NoPrint \in [PyFiles -> Nat]
      BY DEF NoPrint
    <3> QED BY <2>9, <3>1, <2>0 DEF OpenHash, Truncated, FileOf, Job, Steps, repoVars
  <2>10. CASE WriteHash(w)
    <3>1. NoPrint \in [PyFiles -> Nat]
      BY DEF NoPrint
    <3>2. hashFile' \in FileOf([PyFiles -> Nat])
      BY <2>10, <2>0 DEF WriteHash, Written, PrintToSave, FileOf, Job
    <3> QED BY <2>10, <3>1, <3>2, <2>0 DEF WriteHash, Job, Steps, repoVars
  <2>11. CASE ReadHead(w)
    <3>1. HeadCommit \in Nat
      BY DEF HeadCommit
    <3> QED BY <2>11, <3>1, <2>0 DEF ReadHead, Job, Steps, repoVars, cacheVars
  <2>12. CASE OpenCommit(w)
    BY <2>12, <2>0 DEF OpenCommit, Job, Steps, repoVars
  <2>13. CASE WriteCommit(w)
    BY <2>13, <2>0 DEF WriteCommit, Job, Steps, repoVars
  <2>14. CASE SaveFails(w)
    BY <2>14, <2>0 DEF SaveFails, Job, Steps, repoVars, cacheVars
  <2>15. CASE Return(w)
    BY <2>15 DEF Return, Idle, Job, Steps, NoPrint, Absent, Content, repoVars, cacheVars
  <2> QED BY <1>2, <2>1, <2>2, <2>3, <2>4, <2>5, <2>6, <2>7, <2>8, <2>9, <2>10,
             <2>11, <2>12, <2>13, <2>14, <2>15 DEF Generate
<1>3. CASE Crash
  BY <1>3 DEF Crash, Idle, Job, Steps, NoPrint, Absent, Content, repoVars, cacheVars
<1>4. CASE UNCHANGED vars
  BY <1>4 DEF vars, repoVars, cacheVars
<1> QED BY <1>1, <1>2, <1>3, <1>4 DEF Next

\* What the new invariant of a step that leaves the tree and the three files
\* alone needs: nothing new has been read, prints are no newer.
LEMMA QuietStep ==
    ASSUME IInv, TypeOK', UNCHANGED <<tree, mtime, writes, graphFile, hashFile>>,
           \A w \in Workers : \A f \in PyFiles :
             work'[w].print[f] <= writes,
           \A w \in Workers : \A f \in Read(work'[w]) :
             /\ Sound(work'[w].print, work'[w].graph, f)
             /\ Sound(hashFile.data, work'[w].graph, f),
           \A w \in Workers : work'[w].pc \in {"openHash", "writeHash"} =>
             \A f \in PyFiles : Sound(work'[w].print, graphFile.data, f)
    PROVE  IInv'
BY DEF IInv, Stamps, Bounded, NotMixed, GraphRead, GraphSaved, Pair, Sound, Read

\* A checkout gives what it writes a fresh stamp: no print saw it.
LEMMA CheckoutStep ==
    ASSUME IInv, TypeOK', NEW changed \in SUBSET Files, NEW removed \in SUBSET Files,
           Pull(changed, removed) \/ Reclone(changed, removed)
    PROVE  IInv'
<1> USE DEF IInv
<1>1. /\ UNCHANGED <<graphFile, hashFile, work>>
      /\ writes' = writes + 1 /\ writes \in Nat
  BY DEF Pull, Reclone, cacheVars, TypeOK
<1>2. \A f \in Files : /\ mtime[f] \in Nat /\ mtime'[f] \in Nat
                       /\ tree[f] \in Nat /\ tree'[f] \in Nat
  BY DEF TypeOK, Content
<1>3. \A f \in Files : \/ mtime'[f] = writes + 1
                       \/ mtime'[f] = 0 /\ tree'[f] = 0
                       \/ mtime'[f] = mtime[f] /\ tree'[f] = tree[f]
  <2>1. tree' = NextTree(changed, removed)
    BY DEF Pull, Reclone
  <2>2. CASE Pull(changed, removed)
    <3>1. mtime' = [f \in Files |-> IF f \in changed THEN writes'
                                   ELSE IF f \in removed THEN 0 ELSE mtime[f]]
      BY <2>2 DEF Pull
    <3> QED BY <2>1, <3>1, <1>1 DEF NextTree
  <2>3. CASE Reclone(changed, removed)
    <3>1. mtime' = [f \in Files |-> IF tree'[f] = 0 THEN 0 ELSE writes']
      BY <2>3 DEF Reclone
    <3> QED BY <3>1, <1>1
  <2> QED BY <2>2, <2>3
<1>4. Stamps'
  BY <1>1, <1>2, <1>3 DEF Stamps
<1>5. Bounded'
  <2>1. \A f \in PyFiles : hashFile.data[f] \in Nat
    BY DEF TypeOK, FileOf
  <2>2. \A w \in Workers : \A f \in PyFiles : work[w].print[f] \in Nat
    BY DEF TypeOK, Job
  <2> QED BY <1>1, <2>1, <2>2 DEF Bounded
<1>6. ASSUME NEW p \in [PyFiles -> Nat], NEW g, NEW f \in PyFiles,
             p[f] <= writes, Sound(p, g, f)
      PROVE  Sound(p, g, f)'
  <2>1. f \in Files /\ p[f] \in Nat
    BY DEF Files
  <2>2. mtime'[f] = writes + 1 => p[f] # mtime'[f]
    BY <1>1, <1>6, <2>1
  <2> QED BY <1>3, <1>6, <2>1, <2>2 DEF Sound
<1>7. GraphRead'
  <2> SUFFICES ASSUME NEW w \in Workers, NEW f \in Read(work[w])
               PROVE  /\ Sound(work[w].print, work[w].graph, f)'
                      /\ Sound(hashFile.data, work[w].graph, f)'
    BY <1>1 DEF GraphRead, Read
  <2>1. f \in PyFiles
    BY DEF Read
  <2>2. /\ work[w].print \in [PyFiles -> Nat] /\ hashFile.data \in [PyFiles -> Nat]
        /\ work[w].print[f] <= writes /\ hashFile.data[f] <= writes
    BY <2>1 DEF TypeOK, Job, FileOf, Bounded
  <2>3. Sound(work[w].print, work[w].graph, f) /\ Sound(hashFile.data, work[w].graph, f)
    BY DEF GraphRead
  <2> QED BY <2>1, <2>2, <2>3, <1>6, <1>1 DEF Sound
<1>8. GraphSaved'
  <2> SUFFICES ASSUME NEW w \in Workers, work[w].pc \in {"openHash", "writeHash"},
                      NEW f \in PyFiles
               PROVE  Sound(work[w].print, graphFile.data, f)'
    BY <1>1 DEF GraphSaved
  <2>1. /\ work[w].print \in [PyFiles -> Nat] /\ work[w].print[f] <= writes
    BY DEF TypeOK, Job, Bounded
  <2>2. Sound(work[w].print, graphFile.data, f)
    BY DEF GraphSaved
  <2> QED BY <2>1, <2>2, <1>6, <1>1 DEF Sound
<1>9. Pair'
  <2> SUFFICES ASSUME hashFile.state = "whole", graphFile.state = "whole",
                      NEW f \in PyFiles
               PROVE  Sound(hashFile.data, graphFile.data, f)'
    BY <1>1 DEF Pair
  <2>1. hashFile.data \in [PyFiles -> Nat] /\ hashFile.data[f] <= writes
    BY DEF TypeOK, FileOf, Bounded
  <2>2. Sound(hashFile.data, graphFile.data, f)
    BY DEF Pair
  <2> QED BY <2>1, <2>2, <1>6, <1>1 DEF Sound
<1> QED BY <1>1, <1>4, <1>5, <1>7, <1>8, <1>9 DEF NotMixed

\* The steps of generate_graph up to the first write.
LEMMA ReadingStep ==
    ASSUME IInv, TypeOK', OneBuilder, OnlyPython, NEW w \in Workers,
           \/ Start(w) \/ Validate(w) \/ Compare(w) \/ Load(w) \/ Detect(w)
           \/ \E f \in Files : ParseFile(w, f)
    PROVE  IInv'
<1>1. UNCHANGED <<tree, mtime, writes, graphFile, hashFile>>
  BY DEF Start, Validate, Compare, Load, Detect, ParseFile, repoVars, cacheVars
<1>2. \A v \in Workers : v = w
  BY DEF OneBuilder
<1>3. work \in [Workers -> Job]
  BY DEF IInv, TypeOK
<1>4. \A f \in PyFiles : work'[w].print[f] <= writes
  <2>1. CASE Start(w)
    <3>1. work'[w].print = Fingerprint(mtime)
      BY <2>1, <1>3 DEF Start, Job
    <3> QED BY <3>1 DEF Fingerprint, IInv, Stamps, Files
  <2>2. CASE ~Start(w)
    <3>1. work'[w].print = work[w].print
      BY <2>2, <1>3 DEF Validate, Compare, Load, Detect, ParseFile, Job
    <3> QED BY <3>1 DEF IInv, Bounded
  <2> QED BY <2>1, <2>2
<1>5. \A f \in Read(work'[w]) :
        /\ Sound(work'[w].print, work'[w].graph, f)
        /\ Sound(hashFile.data, work'[w].graph, f)
  <2>1. CASE Start(w) \/ Validate(w) \/ Compare(w) \/ Load(w)
    <3>1. work'[w].pc \notin {"parse", "writeGraph"}
      BY <2>1, <1>3 DEF Start, Validate, Compare, Load, Job
    <3> QED BY <3>1 DEF Read
  <2>2. CASE Detect(w)
    <3>1. work'[w].pc = "parse" /\ work'[w].todo = PyFiles
      BY <2>2, <1>3, PythonSources DEF Detect, Job
    <3> QED BY <3>1 DEF Read
  <2>3. ASSUME NEW f \in Files, ParseFile(w, f)
        PROVE  \A g \in Read(work'[w]) :
                 /\ Sound(work'[w].print, work'[w].graph, g)
                 /\ Sound(hashFile.data, work'[w].graph, g)
    <3>1. /\ work'[w].pc = "parse" /\ work'[w].print = work[w].print
          /\ work'[w].todo = work[w].todo \ {f}
          /\ work'[w].graph = [work[w].graph EXCEPT ![f] = tree[f]]
          /\ work[w].pc = "parse"
      <4>1. work'[w] = [work[w] EXCEPT !.todo = @ \ {f}, !.graph[f] = tree[f]]
        BY <2>3, <1>3 DEF ParseFile
      <4>2. work[w] \in Job /\ work[w].pc = "parse"
        BY <2>3, <1>3 DEF ParseFile
      <4> QED BY <4>1, <4>2 DEF Job
    <3>2. work[w].graph \in [Files -> Nat]
      BY <1>3 DEF Job, Content
    <3>3. TAKE g \in Read(work'[w])
    <3>4. CASE g = f
      BY <3>1, <3>2, <3>4 DEF Sound
    <3>5. CASE g # f
      <4>1. g \in Read(work[w])
        BY <3>1, <3>5 DEF Read
      <4>2. work'[w].graph[g] = work[w].graph[g]
        BY <3>1, <3>2, <3>5, <4>1 DEF Read, Files
      <4> QED BY <3>1, <4>1, <4>2 DEF IInv, GraphRead, Sound
    <3> QED BY <3>4, <3>5
  <2> QED BY <2>1, <2>2, <2>3
<1>6. work'[w].pc \notin {"openHash", "writeHash"}
  BY <1>3 DEF Start, Validate, Compare, Load, Detect, ParseFile, Job
<1> QED BY <1>1, <1>2, <1>4, <1>5, <1>6, QuietStep

\* Nobody else is at a step of its own.
LEMMA NoOthers ==
    ASSUME OneBuilder, NEW w \in Workers, NEW pc
    PROVE  Others(w, pc) = {}
BY DEF OneBuilder, Others

\* The steps that write the three files.
LEMMA SavingStep ==
    ASSUME IInv, TypeOK', OneBuilder, OnlyPython, NEW w \in Workers,
           \/ OpenGraph(w) \/ WriteGraph(w) \/ OpenHash(w) \/ WriteHash(w)
    PROVE  IInv'
<1> USE DEF IInv
<1>1. UNCHANGED <<tree, mtime, writes>>
  BY DEF OpenGraph, WriteGraph, OpenHash, WriteHash, repoVars
<1>2. \A v \in Workers : v = w
  BY DEF OneBuilder
<1>3. work \in [Workers -> Job] /\ writes \in Nat
  BY DEF TypeOK
<1>4. Stamps'
  BY <1>1 DEF Stamps
<1>5. CASE OpenGraph(w)
  <2>1. /\ UNCHANGED hashFile
        /\ graphFile' = [state |-> "torn", data |-> Absent, mixed |-> FALSE]
    BY <1>5, NoOthers DEF OpenGraph, Truncated
  <2>2. /\ work'[w].pc = "writeGraph" /\ work'[w].print = work[w].print
        /\ work'[w].graph = work[w].graph
        /\ work[w].pc = "parse" /\ work[w].todo = {}
    BY <1>5, <1>3 DEF OpenGraph, Parsed, Job
  <2>3. Bounded' /\ NotMixed' /\ GraphSaved' /\ Pair'
    BY <1>1, <1>2, <2>1, <2>2 DEF Bounded, NotMixed, GraphSaved, Pair
  <2>4. Read(work'[w]) = Read(work[w])
    BY <2>2 DEF Read
  <2>5. GraphRead'
    BY <1>1, <1>2, <2>1, <2>2, <2>4 DEF GraphRead, Sound
  <2> QED BY <1>4, <2>3, <2>5
<1>6. CASE WriteGraph(w)
  <2>1. /\ UNCHANGED hashFile
        /\ graphFile' = [state |-> "whole", data |-> work[w].graph, mixed |-> FALSE]
    BY <1>6 DEF WriteGraph, Written, NotMixed
  <2>2. /\ work'[w].pc = "openHash" /\ work'[w].print = work[w].print
        /\ work[w].pc = "writeGraph"
    BY <1>6, <1>3 DEF WriteGraph, Job
  <2>3. \A f \in PyFiles : /\ Sound(work[w].print, work[w].graph, f)
                           /\ Sound(hashFile.data, work[w].graph, f)
    BY <2>2 DEF GraphRead, Read
  <2>4. Bounded' /\ NotMixed' /\ GraphRead'
    BY <1>1, <1>2, <2>1, <2>2 DEF Bounded, NotMixed, GraphRead, Read
  <2>5. GraphSaved' /\ Pair'
    BY <1>1, <1>2, <2>1, <2>2, <2>3 DEF GraphSaved, Pair, Sound
  <2> QED BY <1>4, <2>4, <2>5
<1>7. CASE OpenHash(w)
  <2>1. /\ UNCHANGED graphFile
        /\ hashFile' = [state |-> "torn", data |-> NoPrint, mixed |-> FALSE]
    BY <1>7, NoOthers DEF OpenHash, Truncated
  <2>2. /\ work'[w].pc = "writeHash" /\ work'[w].print = work[w].print
        /\ work[w].pc = "openHash"
    BY <1>7, <1>3 DEF OpenHash, Job
  <2>3. Bounded'
    BY <1>1, <1>2, <1>3, <2>1, <2>2 DEF Bounded, NoPrint
  <2>4. NotMixed' /\ GraphRead' /\ Pair'
    BY <1>1, <1>2, <2>1, <2>2 DEF NotMixed, GraphRead, Read, Pair
  <2>5. GraphSaved'
    BY <1>1, <1>2, <2>1, <2>2 DEF GraphSaved, Sound
  <2> QED BY <1>4, <2>3, <2>4, <2>5
<1>8. CASE WriteHash(w)
  <2>1. /\ UNCHANGED graphFile
        /\ hashFile' = [state |-> "whole", data |-> work[w].print, mixed |-> FALSE]
    BY <1>8 DEF WriteHash, Written, PrintToSave, NotMixed
  <2>2. /\ work'[w].pc = "readHead" /\ work'[w].print = NoPrint
        /\ work[w].pc = "writeHash"
    BY <1>8, <1>3 DEF WriteHash, Job
  <2>3. Bounded'
    BY <1>1, <1>2, <1>3, <2>1, <2>2 DEF Bounded, NoPrint
  <2>4. NotMixed' /\ GraphRead' /\ GraphSaved'
    BY <1>1, <1>2, <2>1, <2>2 DEF NotMixed, GraphRead, Read, GraphSaved
  <2>5. Pair'
    BY <1>1, <1>2, <2>1, <2>2 DEF Pair, GraphSaved, Sound
  <2> QED BY <1>4, <2>3, <2>4, <2>5
<1> QED BY <1>5, <1>6, <1>7, <1>8

\* What comes after the fingerprint is saved, and a save that fails.
LEMMA EndingStep ==
    ASSUME IInv, TypeOK', OneBuilder, NEW w \in Workers,
           \/ ReadHead(w) \/ OpenCommit(w) \/ WriteCommit(w)
           \/ SaveFails(w) \/ Return(w)
    PROVE  IInv'
<1>1. UNCHANGED <<tree, mtime, writes, graphFile, hashFile>>
  BY DEF ReadHead, OpenCommit, WriteCommit, SaveFails, Return, repoVars, cacheVars
<1>2. \A v \in Workers : v = w
  BY DEF OneBuilder
<1>3. work \in [Workers -> Job] /\ writes \in Nat
  BY DEF IInv, TypeOK
<1>4. work'[w].pc \notin {"parse", "writeGraph", "openHash", "writeHash"}
  BY <1>3 DEF ReadHead, OpenCommit, WriteCommit, SaveFails, Return, Idle, Job
<1>5. work'[w].print \in {work[w].print, NoPrint}
  BY <1>3 DEF ReadHead, OpenCommit, WriteCommit, SaveFails, Return, Idle, Job
<1>6. \A f \in PyFiles : work'[w].print[f] <= writes
  BY <1>3, <1>5 DEF IInv, Bounded, NoPrint
<1> QED BY <1>1, <1>2, <1>4, <1>6, QuietStep DEF Read

LEMMA CrashStep ==
    ASSUME IInv, TypeOK', Crash
    PROVE  IInv'
<1>1. UNCHANGED <<tree, mtime, writes, graphFile, hashFile>>
  BY DEF Crash, repoVars, cacheVars
<1>2. writes \in Nat
  BY DEF IInv, TypeOK
<1>3. \A w \in Workers : work'[w] = Idle
  BY DEF Crash
<1> QED BY <1>1, <1>2, <1>3, QuietStep DEF Read, Idle, NoPrint

LEMMA Initially ==
    ASSUME Init
    PROVE  IInv
<1>1. TypeOK
  <2>1. tree \in Content
    BY DEF Init, Content
  <2>2. Absent \in Content /\ NoPrint \in [PyFiles -> Nat]
    BY DEF Absent, NoPrint, Content
  <2>3. graphFile \in FileOf(Content) /\ hashFile \in FileOf([PyFiles -> Nat])
    BY <2>2 DEF Init, FileOf
  <2>4. Idle \in Job
    BY <2>2 DEF Idle, Job, Steps
  <2> QED BY <2>1, <2>3, <2>4 DEF Init, TypeOK
<1>2. Stamps
  BY DEF Init, Stamps
<1>3. Bounded /\ NotMixed /\ GraphRead /\ GraphSaved /\ Pair
  BY DEF Init, Bounded, NotMixed, GraphRead, GraphSaved, Pair, Idle, NoPrint, Read
<1> QED BY <1>1, <1>2, <1>3 DEF IInv

-----------------------------------------------------------------------------
\* The inductive invariant: every pair of prints and graphs that is, or may
\* come to be, on disk together agrees on the files the print has seen.
THEOREM CacheInvariant == OneBuilder /\ OnlyPython => (Spec => []IInv)
<1> SUFFICES ASSUME OneBuilder, OnlyPython
             PROVE  Spec => []IInv
  OBVIOUS
<1>1. Init => IInv
  BY Initially
<1>2. IInv /\ [Next]_vars => IInv'
  <2> SUFFICES ASSUME IInv, [Next]_vars
               PROVE  IInv'
    OBVIOUS
  <2>1. TypeOK'
    BY TypeStep DEF IInv
  <2>2. ASSUME NEW changed \in SUBSET Files, NEW removed \in SUBSET Files,
               Pull(changed, removed) \/ Reclone(changed, removed)
        PROVE  IInv'
    BY <2>1, <2>2, CheckoutStep
  <2>3. ASSUME NEW w \in Workers, Generate(w)
        PROVE  IInv'
    BY <2>1, <2>3, ReadingStep, SavingStep, EndingStep DEF Generate
  <2>4. CASE Crash
    BY <2>1, <2>4, CrashStep
  <2>5. CASE UNCHANGED vars
    BY <2>5, <2>1 DEF vars, repoVars, cacheVars, IInv, Stamps, Bounded, NotMixed,
                      GraphRead, GraphSaved, Pair, Sound, Read
  <2> QED BY <2>2, <2>3, <2>4, <2>5 DEF Next
<1> QED BY <1>1, <1>2, PTL DEF Spec

\* Every variable of the cache keeps its type, whoever runs and whatever the
\* repository holds.
THEOREM CacheTypeCorrect == Spec => []TypeOK
<1>1. Init => TypeOK
  BY Initially DEF IInv
<1>2. TypeOK /\ [Next]_vars => TypeOK'
  BY TypeStep
<1> QED BY <1>1, <1>2, PTL DEF Spec

\* A cache that is_cache_valid accepts and load() can read holds the present
\* content of every tracked file, whatever moved, failed or crashed before.
THEOREM CacheIsCurrent == OneBuilder /\ OnlyPython => (Spec => []ValidCacheIsCurrent)
<1>1. IInv => ValidCacheIsCurrent
  <2> SUFFICES ASSUME IInv, CacheValid(Fingerprint(mtime)), graphFile.state = "whole",
                      NEW f \in PyFiles, tree[f] # 0
               PROVE  graphFile.data[f] = tree[f]
    BY DEF ValidCacheIsCurrent
  <2>1. hashFile.state = "whole" /\ hashFile.data[f] = mtime[f]
    BY DEF CacheValid, Fingerprint
  <2>2. mtime[f] # 0
    BY DEF IInv, Stamps, Files
  <2> QED BY <2>1, <2>2 DEF IInv, Pair, Sound
<1> QED BY <1>1, CacheInvariant, PTL

-----------------------------------------------------------------------------
(***************************************************************************)
(* An older graph is served to a repository without Python whose cached    *)
(* commit a fresh clone has lost, and to no other                          *)
(* (StaleOnlyWhenUnresolvable), with any number of requests at once and    *)
(* any languages, as long as the tree changes between the requests only,   *)
(* loses no file, and the saves succeed.  None of the three can be         *)
(* dropped: see section 6 of the README.                                   *)
(***************************************************************************)
NothingLost == Quiet /\ ~Faults /\ Deletable = {}

Current(g) == g = GraphOf(tree)

\* The tree is the last commit, and holds every file an earlier one held.
History ==
    /\ Len(commits) \in Nat \ {0} /\ tree = commits[Len(commits)]
    /\ Len(commits) \in known
    /\ \A c \in 1 .. Len(commits) : \A f \in Files : commits[c][f] # 0 => tree[f] # 0

\* What Compare looks at.
Moved == commitFile # 0 /\ commitFile # HeadCommit /\ ChangedSince(commitFile) # {}

\* What the service accepts is older than the tree, and nothing can tell.
Old ==
    /\ CacheValid(Fingerprint(mtime)) /\ graphFile.state = "whole"
    /\ ~Current(graphFile.data) /\ Unresolvable

\* The three files are of one commit, and as long as the print holds git can
\* resolve it, or there is no Python file the print could be of.
Past(p, g, c) ==
    /\ c \in 1 .. Len(commits) /\ g = GraphOf(commits[c])
    /\ p = Fingerprint(mtime) => c \in known \/ Present(tree) \cap PyFiles = {}

\* The graph is written, the commit is not.
Saved(w) == work[w].pc \in {"openHash", "writeHash", "readHead", "openCommit", "writeCommit"}

JobOK(w) ==
    /\ work[w].pc \in {"idle", "validate", "compare", "load", "detect"} => work[w].graph = Absent
    /\ work[w].pc = "validate" => work[w].print = Fingerprint(mtime)
    /\ work[w].pc = "compare" =>
         (graphFile.state = "whole" => Current(graphFile.data) \/ Moved \/ Old)
    /\ work[w].pc = "load" => (graphFile.state = "whole" => Current(graphFile.data) \/ Old)
    /\ work[w].pc = "parse" =>
         /\ work[w].todo \subseteq SourceFiles(tree)
         /\ \A f \in Files :
              work[w].graph[f] = IF f \in SourceFiles(tree) \ work[w].todo THEN tree[f] ELSE 0
    /\ work[w].pc = "writeGraph" \/ Saved(w) => Current(work[w].graph)
    /\ work[w].pc = "done" =>
         Current(work[w].graph) \/ (Old /\ work[w].graph = graphFile.data)
    /\ work[w].pc \in {"openCommit", "writeCommit"} => work[w].head = HeadCommit

Disk ==
    graphFile.state = "whole" =>
      /\ (\E w \in Workers : Saved(w)) => Current(graphFile.data)
      /\ (\A w \in Workers : ~Saved(w)) /\ hashFile.state = "whole" =>
           Past(hashFile.data, graphFile.data, commitFile)

\* Nobody builds while such a cache is there: it is accepted.
Calm ==
    Old => \A w \in Workers : work[w].pc \in {"idle", "validate", "compare", "load", "done"}

CInv ==
    /\ TypeOK /\ Stamps /\ Bounded /\ History /\ Disk /\ Calm
    /\ \A w \in Workers : JobOK(w)

\* No stamp is ahead of the last checkout, whoever runs.
LEMMA StampsStep ==
    ASSUME TypeOK, Stamps, Bounded, [Next]_vars
    PROVE  Stamps' /\ Bounded'
<1>0. /\ writes \in Nat /\ work \in [Workers -> Job]
      /\ hashFile \in FileOf([PyFiles -> Nat])
      /\ \A f \in Files : mtime[f] \in Nat
      /\ \A f \in PyFiles : hashFile.data[f] \in Nat
      /\ \A w \in Workers : \A f \in PyFiles : work[w].print[f] \in Nat
  BY DEF TypeOK, Content, FileOf, Job
<1>1. ASSUME NEW changed \in SUBSET Files, NEW removed \in SUBSET Files,
             Pull(changed, removed) \/ Reclone(changed, removed)
      PROVE  Stamps' /\ Bounded'
  <2>1. UNCHANGED <<hashFile, work>> /\ writes' = writes + 1 /\ tree' = NextTree(changed, removed)
    BY <1>1 DEF Pull, Reclone, cacheVars
  <2>2. \A f \in Files : \/ mtime'[f] = writes + 1
                         \/ mtime'[f] = 0 /\ tree'[f] = 0
                         \/ mtime'[f] = mtime[f] /\ tree'[f] = tree[f]
    <3>1. CASE Pull(changed, removed)
      <4>1. mtime' = [f \in Files |-> IF f \in changed THEN writes'
                                     ELSE IF f \in removed THEN 0 ELSE mtime[f]]
        BY <3>1 DEF Pull
      <4> QED BY <2>1, <4>1 DEF NextTree
    <3>2. CASE Reclone(changed, removed)
      <4>1. mtime' = [f \in Files |-> IF tree'[f] = 0 THEN 0 ELSE writes']
        BY <3>2 DEF Reclone
      <4> QED BY <2>1, <4>1
    <3> QED BY <1>1, <3>1, <3>2
  <2>3. Stamps'
    BY <1>0, <2>1, <2>2 DEF Stamps
  <2> QED BY <1>0, <2>1, <2>3 DEF Bounded
<1>2. ASSUME NEW w \in Workers, Generate(w)
      PROVE  Stamps' /\ Bounded'
  <2>1. UNCHANGED <<tree, mtime, writes>>
    BY <1>2 DEF Generate, Start, Validate, Compare, Load, Detect, ParseFile, OpenGraph, WriteGraph,
                OpenHash, WriteHash, ReadHead, OpenCommit, WriteCommit, SaveFails, Return, repoVars
  <2>2. \A v \in Workers \ {w} : work'[v] = work[v]
    BY <1>0, <1>2 DEF Generate, Start, Validate, Compare, Load, Detect, ParseFile, OpenGraph, WriteGraph,
                OpenHash, WriteHash, ReadHead, OpenCommit, WriteCommit, SaveFails, Return
  <2>3. work'[w].print \in {work[w].print, NoPrint, Fingerprint(mtime)}
    <3>1. CASE Start(w) \/ WriteHash(w) \/ Return(w)
      BY <1>0, <3>1 DEF Start, WriteHash, Return, Idle, Job
    <3>2. CASE Validate(w) \/ Compare(w) \/ Detect(w)
      BY <1>0, <3>2 DEF Validate, Compare, Detect, Job
    <3>6. CASE Load(w) \/ SaveFails(w)
      BY <1>0, <3>6 DEF Load, SaveFails, Job
    <3>3. CASE \E f \in Files : ParseFile(w, f)
      <4>1. PICK f \in Files : work' = [work EXCEPT ![w].todo = @ \ {f}, ![w].graph[f] = tree[f]]
        BY <3>3 DEF ParseFile
      <4> QED BY <1>0, <4>1 DEF Job
    <3>4. CASE OpenGraph(w) \/ WriteGraph(w) \/ OpenHash(w)
      BY <1>0, <3>4 DEF OpenGraph, WriteGraph, OpenHash, Job
    <3>5. CASE ReadHead(w) \/ OpenCommit(w) \/ WriteCommit(w)
      BY <1>0, <3>5 DEF ReadHead, OpenCommit, WriteCommit, Job
    <3> QED BY <1>2, <3>1, <3>2, <3>3, <3>4, <3>5, <3>6 DEF Generate
  <2>4. hashFile'.data \in {hashFile.data, NoPrint, work[w].print}
    <3>1. CASE OpenHash(w)
      BY <3>1 DEF OpenHash, Truncated
    <3>2. CASE WriteHash(w)
      <4>1. hashFile' \in Written(hashFile, work[w].print)
        BY <3>2 DEF WriteHash, PrintToSave
      <4>2. [hashFile EXCEPT !.state = "torn"].data = hashFile.data
        BY <1>0 DEF FileOf
      <4>3. \/ hashFile' = [state |-> "whole", data |-> work[w].print, mixed |-> hashFile.mixed]
            \/ hashFile' = [hashFile EXCEPT !.state = "torn"]
        BY <4>1 DEF Written
      <4>4. CASE hashFile' = [state |-> "whole", data |-> work[w].print, mixed |-> hashFile.mixed]
        BY <4>4
      <4> QED BY <4>2, <4>3, <4>4
    <3>3. CASE ~OpenHash(w) /\ ~WriteHash(w)
      <4>1. hashFile' = hashFile
        BY <1>2, <3>3 DEF Generate, Start, Validate, Compare, Load, Detect, ParseFile, OpenGraph,
              WriteGraph, ReadHead, OpenCommit, WriteCommit, SaveFails, Return, cacheVars
      <4> QED BY <4>1
    <3> QED BY <3>1, <3>2, <3>3
  <2>5. \A f \in PyFiles : NoPrint[f] <= writes /\ Fingerprint(mtime)[f] <= writes
    BY <1>0 DEF NoPrint, Fingerprint, Stamps, Files
  <2>6. \A f \in PyFiles : hashFile'.data[f] <= writes
    BY <2>4, <2>5 DEF Bounded
  <2>7. \A v \in Workers : \A f \in PyFiles : work'[v].print[f] <= writes
    BY <2>2, <2>3, <2>5 DEF Bounded
  <2> QED BY <2>1, <2>6, <2>7 DEF Stamps, Bounded
<1>3. CASE Crash
  BY <1>0, <1>3 DEF Crash, repoVars, cacheVars, Idle, NoPrint, Stamps, Bounded
<1>4. CASE UNCHANGED vars
  BY <1>4 DEF vars, repoVars, cacheVars, Stamps, Bounded
<1> QED BY <1>1, <1>2, <1>3, <1>4 DEF Next

\* A cache that validates is current, or the commits tell, or nothing can.
LEMMA ValidIsCurrent ==
    ASSUME CInv, CacheValid(Fingerprint(mtime)), graphFile.state = "whole"
    PROVE  Current(graphFile.data) \/ Moved \/ Old
<1>1. CASE \E w \in Workers : Saved(w)
  BY <1>1 DEF CInv, Disk
<1>2. CASE \A w \in Workers : ~Saved(w)
  <2> DEFINE c == commitFile
  <2>1. hashFile.state = "whole" /\ hashFile.data = Fingerprint(mtime)
    BY DEF CacheValid
  <2>2. Past(hashFile.data, graphFile.data, c)
    BY <1>2, <2>1 DEF CInv, Disk
  <2>4. /\ c \in 1 .. Len(commits) /\ graphFile.data = GraphOf(commits[c])
        /\ c \in known \/ Present(tree) \cap PyFiles = {}
    BY <2>1, <2>2 DEF Past
  <2>5. History /\ commits \in Seq(Content) /\ tree \in Content
    BY DEF CInv, TypeOK
  <2>6. CASE c = HeadCommit
    BY <2>4, <2>5, <2>6 DEF HeadCommit, History, Current
  <2>7. CASE c # HeadCommit /\ ~Moved /\ c \in known
    <3>1. c # 0
      BY <2>4, <2>5 DEF History
    <3>2. \A f \in Present(tree) : commits[c][f] = tree[f]
      BY <2>4, <2>5, <2>7, <3>1 DEF Moved, ChangedSince, HeadCommit, History, Present
    <3>3. \A f \in Files : commits[c][f] = tree[f]
      BY <2>4, <2>5, <3>2 DEF History, Present
    <3>4. commits[c] \in Content
      BY <2>4, <2>5
    <3>5. commits[c] = tree
      BY <2>5, <3>3, <3>4 DEF Content
    <3> QED BY <2>4, <3>5 DEF Current
  <2>8. CASE c \notin known
    BY <2>4, <2>8 DEF Old, Unresolvable
  <2> QED BY <2>6, <2>7, <2>8
<1> QED BY <1>1, <1>2

\* While a cache is accepted that nothing can tell is older, no commit tells.
LEMMA OldIsNotMoved == Old => ~Moved
BY DEF Old, Unresolvable, Moved, ChangedSince

-----------------------------------------------------------------------------
\* What the step of one worker leaves to the others.
LEMMA OthersStay ==
    ASSUME CInv, UNCHANGED repoVars, NEW v \in Workers, work'[v] = work[v],
           \/ UNCHANGED cacheVars
           \/ ~Old /\ (graphFile'.state = "whole" => Current(graphFile'.data))
    PROVE  JobOK(v)'
BY DEF CInv, JobOK, Saved, Current, Moved, ChangedSince, Present, HeadCommit, Fingerprint, repoVars,
       cacheVars, Old, CacheValid, Unresolvable

\* A step of a worker that writes no file and is not between the graph and the commit.
LEMMA WorkerStep ==
    ASSUME CInv, TypeOK', Stamps', Bounded', NEW w \in Workers,
           UNCHANGED repoVars, UNCHANGED cacheVars,
           \A v \in Workers \ {w} : work'[v] = work[v],
           Saved(w)' <=> Saved(w), JobOK(w)',
           Old => work'[w].pc \in {"idle", "validate", "compare", "load", "done"}
    PROVE  CInv'
<1>1. \A v \in Workers : JobOK(v)'
  BY OthersStay
<1>2. \A v \in Workers : Saved(v)' <=> Saved(v)
  BY DEF Saved
<1>3. Disk'
  BY <1>2 DEF CInv, Disk, Current, Past, Fingerprint, Present, repoVars, cacheVars
<1>4. History'
  BY DEF CInv, History, repoVars
<1>5. Calm'
  <2>1. Old' <=> Old
    BY DEF Old, Current, CacheValid, Fingerprint, Unresolvable, Present, repoVars, cacheVars
  <2> QED BY <2>1 DEF CInv, Calm
<1> QED BY <1>1, <1>3, <1>4, <1>5 DEF CInv

\* The checkouts: nobody runs, and a Python file that is written has a fresh stamp.
LEMMA CheckoutBetween ==
    ASSUME CInv, TypeOK', Stamps', Bounded', NothingLost,
           NEW changed \in SUBSET Files, NEW removed \in SUBSET Files,
           Pull(changed, removed) \/ Reclone(changed, removed)
    PROVE  CInv'
<1>1. /\ UNCHANGED <<graphFile, hashFile, commitFile, work>>
      /\ writes' = writes + 1 /\ writes \in Nat
      /\ tree' = NextTree(changed, removed) /\ removed = {}
      /\ \A w \in Workers : work[w].pc = "idle"
  BY DEF Pull, Reclone, MayChange, NothingLost, cacheVars, CInv, TypeOK
<1>2. /\ commits \in Seq(Content) /\ tree \in Content /\ tree' \in Content /\ commits' \in Seq(Content)
      /\ Len(commits) \in Nat \ {0}
  BY DEF CInv, TypeOK, History
<1>3. \/ commits' = commits /\ tree' = tree
      \/ commits' = Append(commits, tree')
  BY DEF Pull, Reclone
<1>4. /\ Len(commits') \in Nat \ {0} /\ Len(commits) <= Len(commits')
      /\ tree' = commits'[Len(commits')]
      /\ \A c \in 1 .. Len(commits) : commits'[c] = commits[c]
      /\ \A c \in 1 .. Len(commits') : c \in 1 .. Len(commits) \/ commits'[c] = tree'
  BY <1>2, <1>3 DEF CInv, History
<1>5. \A f \in Files : tree[f] # 0 => tree'[f] # 0
  BY <1>1, <1>2 DEF NextTree
<1>6. History'
  <2>1. Len(commits') \in known'
    BY DEF Pull, Reclone
  <2>2. \A c \in 1 .. Len(commits') : \A f \in Files : commits'[c][f] # 0 => tree'[f] # 0
    BY <1>4, <1>5 DEF CInv, History
  <2> QED BY <1>4, <2>1, <2>2 DEF History
<1>7. \A w \in Workers : JobOK(w)'
  BY <1>1 DEF CInv, JobOK, Saved
<1>8. ASSUME graphFile.state = "whole", hashFile.state = "whole"
      PROVE  Past(hashFile.data, graphFile.data, commitFile)'
  <2> DEFINE c == commitFile
             p == hashFile.data
  <2>1. Past(p, graphFile.data, c)
    BY <1>1, <1>8 DEF CInv, Disk, Saved
  <2>2. c \in 1 .. Len(commits') /\ graphFile.data = GraphOf(commits'[c])
    BY <1>4, <1>2, <2>1 DEF Past
  <2>3. \A f \in PyFiles : p[f] \in Nat /\ p[f] <= writes
    BY DEF CInv, TypeOK, FileOf, Bounded
  <2>4. ASSUME p = Fingerprint(mtime)'
        PROVE  c \in known' \/ Present(tree') \cap PyFiles = {}
    <3>1. ASSUME NEW f \in PyFiles PROVE f \in Files /\ mtime'[f] # writes + 1
      BY <1>1, <2>3, <2>4 DEF Fingerprint, Files
    <3>2. CASE Pull(changed, removed)
      <4>1. mtime' = [f \in Files |-> IF f \in changed THEN writes'
                                     ELSE IF f \in removed THEN 0 ELSE mtime[f]]
        BY <3>2 DEF Pull
      <4>2. ASSUME NEW f \in PyFiles PROVE f \notin changed /\ mtime'[f] = mtime[f]
        BY <1>1, <3>1, <4>1
      <4>3. p = Fingerprint(mtime)
        BY <2>4, <4>2 DEF Fingerprint
      <4>4. \A f \in PyFiles : tree'[f] = tree[f]
        BY <1>1, <3>1, <4>2 DEF NextTree
      <4>5. known \subseteq known'
        BY <3>2 DEF Pull
      <4> QED BY <2>1, <4>3, <4>4, <4>5 DEF Past, Present
    <3>3. CASE Reclone(changed, removed)
      <4>1. \A f \in PyFiles : tree'[f] = 0
        BY <1>1, <3>1, <3>3 DEF Reclone
      <4> QED BY <4>1 DEF Present
    <3> QED BY <3>2, <3>3
  <2>5. UNCHANGED <<graphFile, hashFile, commitFile>>
    BY <1>1
  <2> QED BY <2>2, <2>4, <2>5 DEF Past
<1>9. Disk'
  BY <1>1, <1>8 DEF Disk, Saved
<1>10. Calm'
  BY <1>1 DEF Calm
<1> QED BY <1>6, <1>7, <1>9, <1>10 DEF CInv

\* The steps up to the first write, and the return.
LEMMA ReadingBetween ==
    ASSUME CInv, TypeOK', Stamps', Bounded', NEW w \in Workers,
           \/ Start(w) \/ Validate(w) \/ Compare(w) \/ Load(w) \/ Detect(w)
           \/ \E f \in Files : ParseFile(w, f)
           \/ ReadHead(w) \/ Return(w)
    PROVE  CInv'
<1>1. UNCHANGED repoVars /\ UNCHANGED cacheVars
  BY DEF Start, Validate, Compare, Load, Detect, ParseFile, ReadHead, Return
<1>2. work \in [Workers -> Job] /\ work[w] \in Job /\ JobOK(w)
  BY DEF CInv, TypeOK
<1>3. ASSUME NEW j \in Job, work' = [work EXCEPT ![w] = j],
             Saved(w)' <=> Saved(w), JobOK(w)',
             Old => j.pc \in {"idle", "validate", "compare", "load", "done"}
      PROVE  CInv'
  <2>1. \A v \in Workers \ {w} : work'[v] = work[v]
    BY <1>2, <1>3
  <2>2. work'[w] = j
    BY <1>2, <1>3
  <2> QED BY <1>1, <1>3, <2>1, <2>2, WorkerStep
<1> DEFINE j == work'[w]
<1>4. work' = [work EXCEPT ![w] = j] /\ j \in Job
  BY <1>2 DEF Start, Validate, Compare, Load, Detect, ParseFile, ReadHead, Return, TypeOK
<1>5. UNCHANGED <<tree, mtime, graphFile, hashFile, commitFile, commits, known>>
  BY <1>1 DEF repoVars, cacheVars
<1>0. Old => Old' /\ work[w].pc \in {"idle", "validate", "compare", "load", "done"}
  BY <1>5 DEF CInv, Calm, Old, Current, CacheValid, Fingerprint, Unresolvable, Present
<1>6. CASE Start(w)
  <2>1. j.pc = "validate" /\ j.print = Fingerprint(mtime) /\ j.graph = Absent /\ ~Saved(w)
    BY <1>2, <1>6 DEF Start, Job, JobOK, Saved
  <2>2. JobOK(w)' /\ ~Saved(w)'
    BY <1>5, <2>1 DEF JobOK, Saved, Fingerprint
  <2> QED BY <1>3, <1>4, <2>1, <2>2
<1>7. CASE Validate(w)
  <2>1. /\ j.pc \in {"compare", "detect"} /\ j.graph = Absent /\ ~Saved(w)
        /\ j.pc = "compare" <=> CacheValid(Fingerprint(mtime))
    BY <1>2, <1>7 DEF Validate, Job, JobOK, Saved
  <2>2. j.pc = "compare" => (graphFile.state = "whole" => Current(graphFile.data) \/ Moved \/ Old)
    BY <2>1, ValidIsCurrent
  <2>3. JobOK(w)' /\ ~Saved(w)'
    BY <1>0, <1>5, <2>1, <2>2 DEF JobOK, Saved, Current, Moved, HeadCommit, ChangedSince, Present
  <2>4. Old => j.pc = "compare"
    BY <2>1 DEF Old
  <2> QED BY <1>3, <1>4, <2>1, <2>3, <2>4
<1>8. CASE Compare(w)
  <2>1. /\ j.pc \in {"load", "detect"} /\ j.graph = Absent /\ ~Saved(w)
        /\ j.pc = "load" <=> ~Moved
    BY <1>2, <1>8 DEF Compare, Job, JobOK, Saved, Moved
  <2>2. work[w].pc = "compare"
    BY <1>8 DEF Compare
  <2>3. JobOK(w)' /\ ~Saved(w)'
    BY <1>0, <1>2, <1>5, <2>1, <2>2 DEF JobOK, Saved, Current
  <2>4. Old => j.pc = "load"
    BY <2>1, OldIsNotMoved
  <2> QED BY <1>3, <1>4, <2>1, <2>3, <2>4
<1>9. CASE Load(w)
  <2>1. /\ ~Saved(w) /\ work[w].pc = "load"
        /\ \/ j.pc = "done" /\ j.graph = graphFile.data /\ graphFile.state = "whole"
           \/ j.pc = "detect" /\ j.graph = Absent /\ graphFile.state # "whole"
    BY <1>2, <1>9 DEF Load, Job, JobOK, Saved
  <2>2. JobOK(w)' /\ ~Saved(w)'
    BY <1>0, <1>2, <1>5, <2>1 DEF JobOK, Saved, Current
  <2>3. Old => j.pc = "done"
    BY <2>1 DEF Old
  <2> QED BY <1>3, <1>4, <2>1, <2>2, <2>3
<1>10. CASE Detect(w)
  <2>1. j.pc = "parse" /\ j.todo = SourceFiles(tree) /\ j.graph = Absent /\ ~Saved(w)
    BY <1>2, <1>10 DEF Detect, Job, JobOK, Saved
  <2>2. \A f \in Files : j.graph[f] = 0
    BY <2>1 DEF Absent
  <2>3. JobOK(w)' /\ ~Saved(w)'
    BY <1>5, <2>1, <2>2 DEF JobOK, Saved
  <2>4. ~Old
    BY <1>0, <1>10 DEF Detect
  <2> QED BY <1>3, <1>4, <2>1, <2>3, <2>4
<1>11. ASSUME NEW f \in Files, ParseFile(w, f) PROVE CInv'
  <2>1. /\ work[w].pc = "parse" /\ f \in work[w].todo
        /\ j = [work[w] EXCEPT !.todo = @ \ {f}, !.graph[f] = tree[f]]
    BY <1>2, <1>11 DEF ParseFile
  <2>2. /\ j.pc = "parse" /\ j.todo = work[w].todo \ {f}
        /\ j.graph = [work[w].graph EXCEPT ![f] = tree[f]] /\ ~Saved(w)
    BY <1>2, <2>1 DEF Job, Saved
  <2>3. work[w].graph \in [Files -> Nat]
    BY <1>2 DEF Job, Content
  <2>4. \A g \in Files : j.graph[g] = IF g = f THEN tree[f] ELSE work[w].graph[g]
    BY <2>2, <2>3
  <2>5. /\ j.todo \subseteq SourceFiles(tree)
        /\ \A g \in Files : j.graph[g] = IF g \in SourceFiles(tree) \ j.todo THEN tree[g] ELSE 0
    BY <1>2, <2>1, <2>2, <2>4 DEF JobOK
  <2>6. JobOK(w)' /\ ~Saved(w)'
    BY <1>5, <2>2, <2>5 DEF JobOK, Saved
  <2>7. ~Old
    BY <1>0, <2>1
  <2> QED BY <1>3, <1>4, <2>2, <2>6, <2>7
<1>12. CASE ReadHead(w)
  <2>1. /\ j.pc = "openCommit" /\ j.head = HeadCommit /\ j.graph = work[w].graph
        /\ work[w].pc = "readHead"
    BY <1>2, <1>12 DEF ReadHead, Job
  <2>2. JobOK(w)' /\ Saved(w)' /\ Saved(w)
    BY <1>2, <1>5, <2>1 DEF JobOK, Saved, Current, HeadCommit
  <2>3. ~Old
    BY <1>0, <2>1
  <2> QED BY <1>3, <1>4, <2>2, <2>3
<1>13. CASE Return(w)
  <2>1. j = Idle /\ ~Saved(w)
    BY <1>2, <1>13 DEF Return, Saved
  <2>2. JobOK(w)' /\ ~Saved(w)'
    BY <2>1 DEF JobOK, Saved, Idle
  <2>3. j.pc = "idle"
    BY <2>1 DEF Idle
  <2> QED BY <1>3, <1>4, <2>1, <2>2, <2>3
<1> QED BY <1>6, <1>7, <1>8, <1>9, <1>10, <1>11, <1>12, <1>13

\* The steps that write the three files.
LEMMA SavingBetween ==
    ASSUME CInv, TypeOK', Stamps', Bounded', NEW w \in Workers,
           \/ OpenGraph(w) \/ WriteGraph(w) \/ OpenHash(w) \/ WriteHash(w)
           \/ OpenCommit(w) \/ WriteCommit(w)
    PROVE  CInv'
<1>1. UNCHANGED repoVars
  BY DEF OpenGraph, WriteGraph, OpenHash, WriteHash, OpenCommit, WriteCommit
<1>2. work \in [Workers -> Job] /\ work[w] \in Job /\ JobOK(w)
  BY DEF CInv, TypeOK
<1>3. UNCHANGED <<tree, mtime, commits, known>>
  BY <1>1 DEF repoVars
<1>4. \A v \in Workers \ {w} : work'[v] = work[v]
  BY <1>2 DEF OpenGraph, WriteGraph, OpenHash, WriteHash, OpenCommit, WriteCommit
<1>5. History'
  BY <1>1 DEF CInv, History, repoVars
<1>0. ~Old
  BY DEF CInv, Calm, OpenGraph, Parsed, WriteGraph, OpenHash, WriteHash, OpenCommit, WriteCommit
<1>6. ASSUME graphFile'.state = "whole" => Current(graphFile'.data), JobOK(w)', Disk'
      PROVE  CInv'
  <2>1. \A v \in Workers \ {w} : JobOK(v)'
    BY <1>0, <1>1, <1>4, <1>6, OthersStay
  <2>2. Calm'
    BY <1>3, <1>6 DEF Calm, Old, Current
  <2> QED BY <1>5, <1>6, <2>1, <2>2 DEF CInv
<1>7. CASE OpenGraph(w)
  <2>1. graphFile'.state = "torn" /\ UNCHANGED <<hashFile, commitFile>>
    BY <1>7 DEF OpenGraph, Truncated
  <2>2. /\ work[w].pc = "parse" /\ work[w].todo = {}
        /\ work'[w].pc = "writeGraph" /\ work'[w].graph = work[w].graph
    BY <1>2, <1>7 DEF OpenGraph, Parsed, Job
  <2>3. work[w].graph \in [Files -> Nat]
    BY <1>2 DEF Job, Content
  <2>4. \A f \in Files : work[w].graph[f] = GraphOf(tree)[f]
    BY <1>2, <2>2 DEF JobOK, GraphOf
  <2>5. Current(work[w].graph)
    BY <2>3, <2>4 DEF Current, GraphOf
  <2>6. JobOK(w)'
    BY <1>3, <2>2, <2>5 DEF JobOK, Saved, Current
  <2> QED BY <1>6, <2>1, <2>6 DEF Disk
<1>8. CASE WriteGraph(w)
  <2>1. graphFile' \in Written(graphFile, work[w].graph) /\ UNCHANGED <<hashFile, commitFile>>
    BY <1>8 DEF WriteGraph
  <2>2. /\ work[w].pc = "writeGraph" /\ work'[w].pc = "openHash" /\ work'[w].graph = work[w].graph
    BY <1>2, <1>8 DEF WriteGraph, Job
  <2>3. Current(work[w].graph)
    BY <1>2, <2>2 DEF JobOK
  <2>4. graphFile'.state = "whole" => graphFile'.data = work[w].graph
    <3>1. graphFile \in FileOf(Content)
      BY DEF CInv, TypeOK
    <3>2. \/ graphFile' = [state |-> "whole", data |-> work[w].graph, mixed |-> graphFile.mixed]
          \/ graphFile' = [graphFile EXCEPT !.state = "torn"]
      BY <2>1 DEF Written
    <3> QED BY <3>1, <3>2 DEF FileOf
  <2>5. JobOK(w)' /\ Saved(w)'
    BY <1>3, <2>2, <2>3 DEF JobOK, Saved, Current
  <2>6. graphFile'.state = "whole" => Current(graphFile'.data)
    BY <2>3, <2>4
  <2>7. Disk'
    BY <1>3, <2>5, <2>6 DEF Disk, Current
  <2> QED BY <1>6, <2>5, <2>6, <2>7
<1>9. CASE OpenHash(w) \/ WriteHash(w) \/ OpenCommit(w)
  <2>1. /\ UNCHANGED graphFile /\ Saved(w) /\ work'[w].graph = work[w].graph
        /\ work'[w].pc \in {"writeHash", "readHead", "writeCommit"}
        /\ work'[w].pc = "writeCommit" => work[w].pc = "openCommit" /\ work'[w].head = work[w].head
    BY <1>2, <1>9 DEF OpenHash, WriteHash, OpenCommit, Saved, Job
  <2>2. Current(work[w].graph) /\ (graphFile.state = "whole" => Current(graphFile.data))
    BY <1>2, <2>1 DEF JobOK, CInv, Disk
  <2>3. JobOK(w)' /\ Saved(w)'
    BY <1>2, <1>3, <2>1, <2>2 DEF JobOK, Saved, Current, HeadCommit
  <2>4. Disk'
    BY <1>3, <2>1, <2>2, <2>3 DEF Disk, Current
  <2> QED BY <1>6, <2>1, <2>2, <2>3, <2>4
<1>10. CASE WriteCommit(w)
  <2>1. /\ UNCHANGED <<graphFile, hashFile>> /\ Saved(w) /\ work'[w].graph = work[w].graph
        /\ work'[w].pc = "done" /\ commitFile' = HeadCommit
    BY <1>2, <1>10 DEF WriteCommit, Saved, Job, JobOK
  <2>2. Current(work[w].graph) /\ (graphFile.state = "whole" => Current(graphFile.data))
    BY <1>2, <2>1 DEF JobOK, CInv, Disk
  <2>3. JobOK(w)'
    BY <1>3, <2>1, <2>2 DEF JobOK, Saved, Current
  <2>4. ASSUME graphFile.state = "whole"
        PROVE  Past(hashFile.data, graphFile.data, commitFile)'
    <3>1. HeadCommit \in 1 .. Len(commits) /\ commits[HeadCommit] = tree /\ HeadCommit \in known
      BY DEF CInv, History, HeadCommit
    <3> QED BY <1>3, <2>1, <2>2, <2>4, <3>1 DEF Past, Current
  <2>5. Disk'
    BY <1>3, <2>1, <2>2, <2>4 DEF Disk, Current
  <2> QED BY <1>6, <2>1, <2>2, <2>3, <2>5
<1> QED BY <1>7, <1>8, <1>9, <1>10

\* A request that ends returns the graph of the tree, whoever else runs and
\* whatever the languages of the repository, unless the tree has no Python
\* file and git cannot resolve the commit of the cache.
THEOREM CacheStaleOnlyWhenUnresolvable == NothingLost => (Spec => []StaleOnlyWhenUnresolvable)
<1> SUFFICES ASSUME NothingLost
             PROVE  Spec => []StaleOnlyWhenUnresolvable
  OBVIOUS
<1>1. Init => CInv
  <2> SUFFICES ASSUME Init PROVE CInv
    OBVIOUS
  <2>1. TypeOK /\ Stamps /\ Bounded
    BY Initially DEF IInv
  <2>2. commits = <<tree>> /\ tree \in Content
    BY <2>1 DEF Init, TypeOK
  <2>3. Len(commits) = 1 /\ commits[1] = tree
    BY <2>2
  <2>5. 1 .. 1 = {1}
    OBVIOUS
  <2>6. History
    BY <2>3, <2>5 DEF Init, History
  <2>7. Disk /\ Calm /\ \A w \in Workers : JobOK(w)
    BY DEF Init, Disk, Calm, JobOK, Idle, Saved
  <2> QED BY <2>1, <2>6, <2>7 DEF CInv
<1>2. CInv /\ [Next]_vars => CInv'
  <2> SUFFICES ASSUME CInv, [Next]_vars
               PROVE  CInv'
    OBVIOUS
  <2>1. TypeOK' /\ Stamps' /\ Bounded'
    BY TypeStep, StampsStep DEF CInv
  <2>2. ASSUME NEW changed \in SUBSET Files, NEW removed \in SUBSET Files,
               Pull(changed, removed) \/ Reclone(changed, removed)
        PROVE  CInv'
    BY <2>1, <2>2, CheckoutBetween
  <2>3. ASSUME NEW w \in Workers, Generate(w)
        PROVE  CInv'
    <3>1. ~SaveFails(w)
      BY DEF SaveFails, NothingLost
    <3> QED BY <2>1, <2>3, <3>1, ReadingBetween, SavingBetween DEF Generate
  <2>4. CASE Crash
    BY <2>4 DEF Crash, NothingLost
  <2>5. CASE UNCHANGED vars
    <3>1. \A w \in Workers : JobOK(w)'
      BY <2>5, OthersStay DEF vars, repoVars, cacheVars
    <3>2. History' /\ Disk' /\ Calm'
      BY <2>5 DEF vars, repoVars, cacheVars, CInv, History, Disk, Saved, Current, Past, Calm, Old,
                  CacheValid, Fingerprint, Unresolvable, Present
    <3> QED BY <2>1, <3>1, <3>2 DEF CInv
  <2> QED BY <2>2, <2>3, <2>4, <2>5 DEF Next
<1>3. CInv => StaleOnlyWhenUnresolvable
  BY DEF CInv, JobOK, StaleOnlyWhenUnresolvable, Current, Old
<1> QED BY <1>1, <1>2, <1>3, PTL DEF Spec
=============================================================================
