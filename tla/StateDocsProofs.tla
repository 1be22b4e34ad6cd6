--------------------------- MODULE StateDocsProofs --------------------------
(***************************************************************************)
(* The state documents implement DocumentStore, created files are created  *)
(* once, and acknowledged updates can be read, for any number of threads,  *)
(* nodes, updates and faults.                                              *)
(*                                                                         *)
(* The invariant follows a file operation through its stages: until it is  *)
(* named, a document being saved contains the one on disk (nobody else can *)
(* change that one, because of the lock); afterwards the file on disk is   *)
(* the job's; and once its directory is synced no older entry is left.     *)
(***************************************************************************)
EXTENDS StateDocs, FiniteSetTheorems, WellFoundedInduction, TLAPS

\* Documents that have begun, with their updates in one of their maps.
Doc == {d \in Document : d.maps # {} /\ \A u \in d.puts : u.map \in d.maps}

Val(p) == IF p \in Nodes THEN Doc ELSE Values(p)

Entries(p) == {None} \cup [value : Val(p), synced : {TRUE}]

FilesSound ==
    /\ files = [p \in Paths |-> files[p]] /\ previous = [p \in Paths |-> previous[p]]
    /\ \A p \in Paths : files[p] \in Entries(p) /\ previous[p] \subseteq Entries(p)

Jobs == [op : Ops, path : Paths, value : Content, stage : Stages, synced : BOOLEAN]

Tasks(t) == {<<"replace", Home[t]>>, <<"key", KeyFile>>, <<"create", BlockFile>>,
             <<"put", CasFile>>}

\* What is known of job j of thread t at each of its stages.
JobSound(t, j) ==
    /\ j \in Jobs /\ j.value \in Val(j.path) /\ <<j.op, j.path>> \in Tasks(t)
    /\ j.op = "replace" => lock[Home[t]] = t
    /\ j.stage = "place" => j.synced
    /\ j.stage = "sync" => j.op \in {"replace", "create"}
    /\ j.op = "replace" /\ j.stage \in {"write", "place"}
         => Puts(files[j.path]) \subseteq j.value.puts
    /\ j.stage \in {"sync", "ok"} => files[j.path] # None /\ files[j.path].value = j.value
    /\ j.stage = "ok" /\ j.op \in {"replace", "create"} => previous[j.path] = {}

JobsSound ==
    /\ jobs = [t \in Threads |-> jobs[t]]
    /\ \A t \in Threads : jobs[t] # None => JobSound(t, jobs[t])

DocumentsSound ==
    /\ handles \in [Threads -> Doc \cup {None}] /\ sending \in [Threads -> Doc \cup {None}]
    /\ messages \subseteq Doc
    /\ updates \in Nat
    /\ lock = [n \in Nodes |-> lock[n]]

Results ==
    /\ acked \in [Nodes -> SUBSET Updates] /\ \A n \in Nodes : acked[n] \subseteq Stored(n)
    /\ got = [p \in Created |-> got[p]] /\ CreatedOnce

Sound == FilesSound /\ JobsSound /\ DocumentsSound /\ Results

-----------------------------------------------------------------------------
(* Values *)

\* A non-empty set of actors has a greatest one, so StateDocument::values finds a map.
LEMMA GreatestActor ==
    ASSUME NEW S \in SUBSET Actors, S # {}
    PROVE  Max(S) \in S
<1> DEFINE T == {MaxActors - x : x \in S}
<1>1. S \subseteq 1..MaxActors /\ MaxActors \in Nat
  BY StateDocsAssumption, Zenon DEF Actors
<1>2. T \subseteq Nat /\ T # {}
  <2>1. \A x \in 1..MaxActors : MaxActors - x \in Nat
    BY <1>1
  <2> QED
    BY <1>1, <2>1, Zenon
<1>3. PICK x \in T : \A y \in T : ~(<<y, x>> \in OpToRel(<, Nat))
  BY <1>2, NatLessThanWellFounded, WFMin, Zenon
<1>4. \A y \in T : ~(y < x)
  BY <1>2, <1>3, Zenon DEF OpToRel
<1>5. PICK m \in S : x = MaxActors - m
  BY Zenon
<1>6. ASSUME NEW y \in S PROVE m >= y
  <2>1. MaxActors - y \in T
    BY Zenon
  <2>2. ~(MaxActors - y < MaxActors - m)
    BY <2>1, <1>4, <1>5, Zenon
  <2> HIDE DEF T
  <2> QED
    BY <2>2, <1>1
<1> QED
  BY <1>6, Zenon DEF Max

\* The files have names of their own.
LEMMA Names ==
    /\ KeyFile # BlockFile /\ KeyFile # CasFile /\ BlockFile # CasFile
    /\ Created \subseteq Paths /\ Nodes \subseteq Paths
    /\ \A p \in Created : p \notin Nodes
<1>1. ASSUME NEW a, NEW b PROVE Cardinality({a, b}) # 3
  <2>1. IsFiniteSet({a}) /\ Cardinality({a}) = 1
    BY FS_Singleton, Zenon
  <2>2. Cardinality({a} \cup {b}) = IF b \in {a} THEN 1 ELSE 2
    BY <2>1, FS_AddElement
  <2>3. {a} \cup {b} = {a, b}
    BY Zenon
  <2> QED
    BY <2>2, <2>3
<1>2. KeyFile # BlockFile
  <2>1. KeyFile = BlockFile => Created = {KeyFile, CasFile}
    BY Zenon DEF Created
  <2> QED
    BY <1>1, <2>1, StateDocsAssumption, Zenon
<1>3. KeyFile # CasFile
  <2>1. KeyFile = CasFile => Created = {KeyFile, BlockFile}
    BY Zenon DEF Created
  <2> QED
    BY <1>1, <2>1, StateDocsAssumption, Zenon
<1>4. BlockFile # CasFile
  <2>1. BlockFile = CasFile => Created = {KeyFile, BlockFile}
    BY Zenon DEF Created
  <2> QED
    BY <1>1, <2>1, StateDocsAssumption, Zenon
<1> QED
  BY <1>2, <1>3, <1>4, StateDocsAssumption, Zenon

\* What the constants None and Torn are not.
LEMMA Absent ==
    /\ \A p \in Paths : None \notin Val(p) /\ Torn \notin Val(p) /\ Val(p) \subseteq Content
    /\ \A n \in Nodes : None \notin Doc /\ Torn \notin Doc
    /\ \A p \in Paths : \A e \in Entries(p) :
         e # None => /\ e.value \in Val(p) /\ e.synced = TRUE /\ Loads(e)
    /\ \A v \in Content, s \in BOOLEAN : [value |-> v, synced |-> s] # None
    /\ None \notin Jobs
<1>1. \A p \in Paths : Val(p) \subseteq Content
  BY Zenon DEF Val, Doc, Content, Values
<1>2. None \notin Content /\ Torn \notin Content
  BY StateDocsAssumption, Zenon
<1>3. \A p \in Paths : None \notin Val(p) /\ Torn \notin Val(p)
  BY <1>1, <1>2, Zenon
<1>4. \A n \in Nodes : None \notin Doc /\ Torn \notin Doc
  BY <1>3, Names, Zenon DEF Val
<1>5. \A v \in Content, s \in BOOLEAN : [value |-> v, synced |-> s] # None
  BY StateDocsAssumption
<1>6. None \notin Jobs
  BY StateDocsAssumption, Zenon DEF Jobs
<1>7. \A p \in Paths : \A e \in Entries(p) :
         e # None => /\ e.value \in Val(p) /\ e.synced = TRUE /\ Loads(e)
  BY <1>3, Zenon DEF Entries, Loads
<1> QED
  BY <1>1, <1>3, <1>4, <1>5, <1>6, <1>7, Zenon

\* Threads have names of their own too.
LEMMA NoThread == None \notin Threads
<1>1. Values(KeyFile) = Threads /\ KeyFile \in Paths
  BY Names, Zenon DEF Values, Created
<1> QED
  BY <1>1, StateDocsAssumption, Zenon DEF Content

\* Merging keeps documents whole, and an update of a handle lands in one of its maps.
LEMMA DocumentsStay ==
    /\ \A d, e \in Doc : Join(d, e) \in Doc
    /\ \A d \in Doc, i \in 1..MaxUpdates :
         [d EXCEPT !.puts = @ \cup {[map |-> values(d), id |-> i]}] \in Doc
    /\ \A a \in Actors : [maps |-> {a}, puts |-> {}] \in Doc
<1>1. \A d, e \in Doc : Join(d, e) \in Doc
  BY Zenon DEF Join, Doc, Document
<1>2. ASSUME NEW d \in Doc, NEW i \in 1..MaxUpdates
      PROVE  [d EXCEPT !.puts = @ \cup {[map |-> values(d), id |-> i]}] \in Doc
  <2>1. d = [maps |-> d.maps, puts |-> d.puts] /\ d.maps \in SUBSET Actors /\ d.maps # {}
        /\ d.puts \in SUBSET Updates /\ \A u \in d.puts : u.map \in d.maps
    BY Zenon DEF Doc, Document
  <2>2. values(d) \in d.maps
    BY <2>1, GreatestActor, Zenon DEF values
  <2>3. [map |-> values(d), id |-> i] \in Updates
    BY <2>1, <2>2, Zenon DEF Updates
  <2> HIDE DEF values
  <2> QED
    BY <2>1, <2>2, <2>3 DEF Doc, Document
<1>3. \A a \in Actors : [maps |-> {a}, puts |-> {}] \in Doc
  BY Zenon DEF Doc, Document
<1> QED
  BY <1>1, <1>2, <1>3, Zenon

\* The document of a node is absent or whole.
LEMMA OnDisk ==
    ASSUME FilesSound, NEW n \in Nodes
    PROVE  /\ n \in Paths
           /\ files[n] # None => /\ files[n].value \in Doc /\ Loads(files[n])
                                 /\ Puts(files[n]) = files[n].value.puts
           /\ files[n] = None => Puts(files[n]) = {}
<1>1. n \in Paths /\ Val(n) = Doc
  BY Names, Zenon DEF Val
<1>2. files[n] \in Entries(n)
  BY <1>1, Zenon DEF FilesSound
<1> QED
  BY <1>1, <1>2, Absent, Zenon DEF Puts, Loads

-----------------------------------------------------------------------------
(* Frames *)

\* What is stored depends on the entries of the node alone.
LEMMA StoredUnchanged ==
    ASSUME NEW n \in Nodes, files'[n] = files[n], previous'[n] = previous[n]
    PROVE  Stored(n)' = Stored(n)
  BY Zenon DEF Stored, Survivors, Puts, Loads

\* Steps that touch neither files nor what was returned keep the results.
LEMMA ResultsUnchanged ==
    ASSUME Results, UNCHANGED <<files, previous, acked, got>>
    PROVE  Results'
<1>1. \A n \in Nodes : Stored(n)' = Stored(n)
  BY StoredUnchanged, Zenon
<1> QED
  BY <1>1, Zenon DEF Results, CreatedOnce

\* A step of thread t leaves the jobs of the others sound if it changes no file that
\* one of them has named or is to replace.
LEMMA OthersSound ==
    ASSUME JobsSound, NEW t \in Threads,
           jobs' = [u \in Threads |-> jobs'[u]],
           \A u \in Threads \ {t} : jobs'[u] = jobs[u],
           (jobs[t] # None => JobSound(t, jobs[t]))',
           \A u \in Threads \ {t} : lock[Home[u]] = u => lock'[Home[u]] = u,
           \A u \in Threads \ {t} : jobs[u] # None =>
               LET p == jobs[u].path IN
               \/ files'[p] = files[p] /\ previous'[p] \in {previous[p], {}}
               \/ files[p] = None /\ jobs[u].op # "replace"
    PROVE  JobsSound'
<1>1. ASSUME NEW u \in Threads, u # t, jobs[u] # None
      PROVE  JobSound(u, jobs[u])'
  <2>1. JobSound(u, jobs[u]) /\ jobs'[u] = jobs[u]
    BY <1>1, Zenon DEF JobsSound
  <2>2. lock[Home[u]] = u => lock'[Home[u]] = u
    BY <1>1, Zenon
  <2>3. CASE /\ files'[jobs[u].path] = files[jobs[u].path]
             /\ previous'[jobs[u].path] \in {previous[jobs[u].path], {}}
    BY <2>1, <2>2, <2>3 DEF JobSound, Puts, Loads
  <2>4. CASE files[jobs[u].path] = None /\ jobs[u].op # "replace"
    <3>1. jobs[u].stage \notin {"sync", "ok"}
      BY <2>1, <2>4, Zenon DEF JobSound
    <3> QED
      BY <2>1, <2>2, <2>4, <3>1, Zenon DEF JobSound
  <2> QED
    BY <1>1, <2>3, <2>4, Zenon
<1> QED
  BY <1>1, Zenon DEF JobsSound

-----------------------------------------------------------------------------
(* Steps *)

\* The empty disk.
LEMMA StartsSound == Init => Sound
<1> SUFFICES ASSUME Init PROVE Sound
  BY Zenon
<1> USE DEF Init, FilesInit
<1>1. FilesSound
  BY Zenon DEF FilesSound, Entries
<1>2. JobsSound
  BY Zenon DEF JobsSound
<1>3. DocumentsSound
  BY Zenon DEF DocumentsSound
<1>4. Results
  BY Names, Zenon DEF Results, CreatedOnce
<1> QED
  BY <1>1, <1>2, <1>3, <1>4, Zenon DEF Sound

\* document, put and merge change handles only.
LEMMA HandlesKeep ==
    ASSUME Sound, NEW t \in Threads, Open(t) \/ Put(t) \/ \E m \in messages : Merge(t, m)
    PROVE  Sound'
<1>0. Home[t] \in Nodes
  BY StateDocsAssumption, Zenon
<1>1. DocumentsSound
  BY Zenon DEF Sound
<1>2. UNCHANGED <<files, previous, jobs, lock, acked, got>>
  BY Zenon DEF Open, Put, Merge
<1>3. DocumentsSound'
  <2>1. CASE Open(t)
    <3>1. handles' \in [Threads -> Doc \cup {None}]
      <4>1. FilesSound
        BY Zenon DEF Sound
      <4>2. files[Home[t]] # None => files[Home[t]].value \in Doc
        BY <1>0, <4>1, OnDisk, Zenon
      <4> QED
        BY <1>1, <2>1, <4>2, DocumentsStay, Zenon DEF Open, DocumentsSound, Loads
    <3> QED
      BY <1>1, <1>2, <2>1, <3>1, Zenon DEF Open, DocumentsSound
  <2>2. CASE Put(t)
    <3>1. handles[t] \in Doc /\ updates' \in 1..MaxUpdates /\ updates' \in Nat
      BY <1>1, <2>2, StateDocsAssumption DEF Put, DocumentsSound
    <3>2. [handles[t] EXCEPT !.puts = @ \cup {[map |-> values(handles[t]), id |-> updates']}] \in Doc
      BY <3>1, DocumentsStay, Zenon
    <3>3. handles' \in [Threads -> Doc \cup {None}]
      BY <1>1, <2>2, <3>2, Zenon DEF Put, DocumentsSound
    <3> QED
      BY <1>1, <1>2, <2>2, <3>1, <3>3, Zenon DEF Put, DocumentsSound
  <2>3. ASSUME NEW m \in messages, Merge(t, m) PROVE DocumentsSound'
    <3>1. Join(handles[t], m) \in Doc
      BY <1>1, <2>3, DocumentsStay, Zenon DEF Merge, DocumentsSound
    <3>2. handles' \in [Threads -> Doc \cup {None}]
      BY <1>1, <2>3, <3>1, Zenon DEF Merge, DocumentsSound
    <3> QED
      BY <1>1, <1>2, <2>3, <3>2, Zenon DEF Merge, DocumentsSound
  <2> QED
    BY <2>1, <2>2, <2>3, Zenon
<1>4. FilesSound'
  BY <1>2, Zenon DEF Sound, FilesSound
<1>5. JobsSound'
  BY <1>2, Zenon DEF Sound, JobsSound, JobSound, Puts, Loads
<1>6. Results'
  BY <1>2, ResultsUnchanged, Zenon DEF Sound
<1> QED
  BY <1>3, <1>4, <1>5, <1>6, Zenon DEF Sound

\* A document given to atomic_replace under the lock, with all that is on disk in it.
LEMMA ReplacingSound ==
    ASSUME Sound, NEW t \in Threads, NEW d \in Doc, Puts(files[Home[t]]) \subseteq d.puts,
           Enter(t), UNCHANGED <<files, previous>>,
           jobs' = [jobs EXCEPT ![t] = Replacing(t, d)]
    PROVE  /\ JobsSound' /\ FilesSound'
           /\ lock' = [n \in Nodes |-> lock'[n]]
<1> DEFINE j == Replacing(t, d)
<1>0. Home[t] \in Nodes /\ Home[t] \in Paths /\ Val(Home[t]) = Doc /\ d \in Content
  BY StateDocsAssumption, Names, Absent, Zenon DEF Val
<1>1. lock = [n \in Nodes |-> lock[n]] /\ lock' = [lock EXCEPT ![Home[t]] = t]
      /\ lock[Home[t]] = None
  BY Zenon DEF Sound, DocumentsSound, Enter
<1>2. jobs = [u \in Threads |-> jobs[u]] /\ jobs[t] = None /\ jobs'[t] = j
  BY Zenon DEF Sound, JobsSound, Enter, Call, Free, Idle
<1>3. /\ j \in Jobs /\ j.op = "replace" /\ j.path = Home[t] /\ j.value = d
      /\ j.stage \in {"write", "error"}
  BY <1>0, Zenon DEF Replacing, Job, Jobs, Ops, Stages
<1> HIDE DEF j
<1>4. JobSound(t, jobs[t])'
  BY <1>0, <1>1, <1>2, <1>3, Zenon DEF JobSound, Tasks, Puts, Loads
<1>5. \A u \in Threads \ {t} : lock[Home[u]] = u => lock'[Home[u]] = u
  BY <1>0, <1>1, NoThread, StateDocsAssumption, Zenon
<1>6. JobsSound'
  BY <1>2, <1>4, <1>5, OthersSound, Zenon DEF Sound
<1>7. FilesSound'
  BY Zenon DEF Sound, FilesSound
<1> QED
  BY <1>1, <1>6, <1>7, Zenon

\* save, publish_state, merge_snapshot.
LEMMA SavesKeep ==
    ASSUME Sound, NEW t \in Threads,
           \/ \E publish \in BOOLEAN : Save(t, publish)
           \/ \E m \in messages : Import(t, m)
    PROVE  Sound'
<1>0. Home[t] \in Nodes /\ FilesSound /\ DocumentsSound
  BY StateDocsAssumption, Zenon DEF Sound
<1> DEFINE file == files[Home[t]]
<1>1. /\ file # None => file.value \in Doc /\ Puts(file) = file.value.puts
      /\ file = None => Puts(file) = {}
  BY <1>0, OnDisk, Zenon
<1> HIDE DEF file
<1>2. UNCHANGED <<files, previous, acked, got, messages, updates>>
  BY Zenon DEF Save, Import, documents
<1>3. ASSUME NEW publish \in BOOLEAN, Save(t, publish) PROVE Sound'
  <2>1. handles[t] \in Doc
    BY <1>0, <1>3, Zenon DEF Save, DocumentsSound
  <2>2. Saved(t) \in Doc /\ Puts(file) \subseteq Saved(t).puts
    <3>1. CASE file = None
      BY <2>1, <1>1, <3>1, Zenon DEF Saved, file
    <3>2. CASE file # None
      <4>1. Saved(t) = Join(handles[t], file.value)
        BY <3>2, Zenon DEF Saved, file
      <4>2. Join(handles[t], file.value).puts = handles[t].puts \cup file.value.puts
        BY Zenon DEF Join
      <4> QED
        BY <4>1, <4>2, <2>1, <1>1, <3>2, DocumentsStay, Zenon
    <3> QED
      BY <3>1, <3>2, Zenon
  <2>3. jobs' = [jobs EXCEPT ![t] = Replacing(t, Saved(t))] /\ Enter(t)
    BY <1>3, Zenon DEF Save
  <2>4. JobsSound' /\ FilesSound' /\ lock' = [n \in Nodes |-> lock'[n]]
    BY <1>2, <2>2, <2>3, ReplacingSound, Zenon DEF file
  <2>5. handles' \in [Threads -> Doc \cup {None}] /\ sending' \in [Threads -> Doc \cup {None}]
    BY <1>0, <1>3, <2>1, <2>2, Zenon DEF Save, DocumentsSound
  <2>6. DocumentsSound'
    BY <1>0, <1>2, <2>4, <2>5, Zenon DEF DocumentsSound
  <2> QED
    BY <1>2, <2>4, <2>6, ResultsUnchanged, Zenon DEF Sound
<1>4. ASSUME NEW m \in messages, Import(t, m) PROVE Sound'
  <2> DEFINE d == IF file = None THEN m ELSE Join(file.value, m)
  <2>1. m \in Doc
    BY <1>0, Zenon DEF DocumentsSound
  <2>2. d \in Doc /\ Puts(file) \subseteq d.puts
    <3>1. file # None => Join(file.value, m).puts = file.value.puts \cup m.puts
      BY Zenon DEF Join
    <3> QED
      BY <3>1, <2>1, <1>1, DocumentsStay, Zenon
  <2>3. jobs' = [jobs EXCEPT ![t] = Replacing(t, d)] /\ Enter(t)
    BY <1>4, Zenon DEF Import, file
  <2> HIDE DEF d
  <2>4. JobsSound' /\ FilesSound' /\ lock' = [n \in Nodes |-> lock'[n]]
    BY <1>2, <2>2, <2>3, ReplacingSound, Zenon DEF file
  <2>5. DocumentsSound'
    BY <1>0, <1>2, <1>4, <2>4, Zenon DEF DocumentsSound, Import, documents
  <2> QED
    BY <1>2, <2>4, <2>5, ResultsUnchanged, Zenon DEF Sound
<1> QED
  BY <1>3, <1>4, Zenon

\* load_or_generate, atomic_create and put begin.
LEMMA CreateKeeps ==
    ASSUME Sound, NEW t \in Threads, NEW op, NEW p, NEW v,
           <<op, p, v>> \in {<<"key", KeyFile, t>>, <<"create", BlockFile, t>>,
                             <<"put", CasFile, CasFile>>},
           Create(t, op, p, v)
    PROVE  Sound'
<1>1. UNCHANGED <<files, previous, lock, handles, sending, messages, updates, acked, got>>
  BY Zenon DEF Create, documents
<1>2. p \in Paths /\ p \notin Nodes /\ v \in Val(p) /\ op # "replace" /\ <<op, p>> \in Tasks(t)
      /\ op \in Ops
  BY Names, Zenon DEF Created, Val, Values, Tasks, Ops
<1>3. files[p] \in Entries(p)
  BY <1>2, Zenon DEF Sound, FilesSound
<1>4. files[p] # None => files[p].value \in Val(p)
  BY <1>2, <1>3, Absent, Zenon
<1> DEFINE there == op # "create" /\ Loads(files[p])
           value == IF there THEN files[p].value ELSE v
           j == [Job(op, p, value) EXCEPT !.stage = IF there THEN "ok" ELSE @]
<1>5. there => files[p] # None
  BY Zenon DEF Loads
<1>6. value \in Val(p) /\ value \in Content
  BY <1>2, <1>4, <1>5, Absent, Zenon
<1>7. jobs' = [jobs EXCEPT ![t] = j]
  BY Zenon DEF Create
<1>8. there => value = files[p].value
  BY Zenon
<1> HIDE DEF there, value
<1>9. /\ j \in Jobs /\ j.op = op /\ j.path = p /\ j.value = value
      /\ j.stage = IF there THEN "ok" ELSE "write"
  BY <1>2, <1>6, Zenon DEF Job, Jobs, Stages
<1>10. there => op # "create"
  BY Zenon DEF there
<1> HIDE DEF j
<1>11. jobs = [u \in Threads |-> jobs[u]]
  BY Zenon DEF Sound, JobsSound
<1>12. JobSound(t, jobs[t])'
  BY <1>1, <1>2, <1>5, <1>6, <1>7, <1>8, <1>9, <1>10, <1>11, Zenon DEF JobSound, Tasks
<1>13. JobsSound'
  BY <1>1, <1>7, <1>11, <1>12, OthersSound, Zenon DEF Sound
<1>14. FilesSound' /\ DocumentsSound'
  BY <1>1, Zenon DEF Sound, FilesSound, DocumentsSound
<1> QED
  BY <1>1, <1>13, <1>14, ResultsUnchanged, Zenon DEF Sound

\* A job that ends leaves the others sound, because nobody shares its lock.
LEMMA EndsSound ==
    ASSUME Sound, NEW t \in Threads, jobs' = [jobs EXCEPT ![t] = None],
           UNCHANGED <<files, previous>>,
           \A n \in Nodes : lock[n] # t => lock'[n] = lock[n]
    PROVE  JobsSound' /\ FilesSound'
<1>1. jobs = [u \in Threads |-> jobs[u]]
  BY Zenon DEF Sound, JobsSound
<1>2. \A u \in Threads : Home[u] \in Nodes
  BY StateDocsAssumption, Zenon
<1>3. JobsSound'
  BY <1>1, <1>2, OthersSound, Zenon DEF Sound
<1> QED
  BY <1>3, Zenon DEF Sound, FilesSound

\* The process ends.
LEMMA CrashKeeps ==
    ASSUME Sound, NEW t \in Threads, Crash(t)
    PROVE  Sound'
<1>1. UNCHANGED <<files, previous, messages, updates, acked, got>>
  BY Zenon DEF Crash
<1>2. \A n \in Nodes : lock[n] # t => lock'[n] = lock[n]
  BY Zenon DEF Crash
<1>3. JobsSound' /\ FilesSound'
  BY <1>1, <1>2, EndsSound, Zenon DEF Crash
<1>4. DocumentsSound'
  BY <1>1, Zenon DEF Sound, DocumentsSound, Crash
<1> QED
  BY <1>1, <1>3, <1>4, ResultsUnchanged, Zenon DEF Sound

\* A replaced document whose directory is synced is what is stored.
LEMMA OkIsStored ==
    ASSUME Sound, NEW t \in Threads, At(t, "ok"), jobs[t].op = "replace"
    PROVE  jobs[t].value.puts \subseteq Stored(Home[t])
<1>0. Home[t] \in Nodes /\ FilesSound
  BY StateDocsAssumption, Zenon DEF Sound
<1>1. JobSound(t, jobs[t]) /\ jobs[t].stage = "ok"
  BY Zenon DEF Sound, JobsSound, At
<1>2. jobs[t].path = Home[t]
  BY <1>1, Zenon DEF JobSound, Tasks
<1>3. /\ previous[Home[t]] = {} /\ files[Home[t]] # None
      /\ files[Home[t]].value = jobs[t].value
  BY <1>1, <1>2, Zenon DEF JobSound
<1>4. /\ Puts(files[Home[t]]) = jobs[t].value.puts /\ jobs[t].value \in Doc
  BY <1>0, <1>3, OnDisk, Zenon
<1> QED
  BY <1>3, <1>4, Zenon DEF Stored, Survivors, Doc, Document

\* Results are what is on disk.
LEMMA ReturnKeeps ==
    ASSUME Sound, NEW t \in Threads, Return(t)
    PROVE  Sound'
<1>0. Home[t] \in Nodes /\ JobSound(t, jobs[t]) /\ DocumentsSound /\ Results
  BY StateDocsAssumption, Zenon DEF Sound, JobsSound, Return, At
<1>1. UNCHANGED <<files, previous, handles, updates>>
  BY Zenon DEF Return
<1>2. \A n \in Nodes : lock[n] # t => lock'[n] = lock[n]
  BY <1>0, Zenon DEF Return, JobSound, DocumentsSound
<1>3. JobsSound' /\ FilesSound'
  BY <1>1, <1>2, EndsSound, Zenon DEF Return
<1>4. DocumentsSound'
  <2>1. messages' \subseteq Doc
    BY <1>0, Zenon DEF Return, DocumentsSound
  <2>2. sending' \in [Threads -> Doc \cup {None}]
    BY <1>0, Zenon DEF Return, DocumentsSound
  <2>3. lock' = [n \in Nodes |-> lock'[n]]
    BY <1>0, Zenon DEF Return, DocumentsSound
  <2> QED
    BY <1>0, <1>1, <2>1, <2>2, <2>3, Zenon DEF DocumentsSound
<1>5. \A n \in Nodes : Stored(n)' = Stored(n)
  BY <1>1, StoredUnchanged, Zenon
<1>6. acked' \in [Nodes -> SUBSET Updates] /\ \A n \in Nodes : acked'[n] \subseteq Stored(n)
  <2>1. CASE jobs[t].op = "replace" /\ jobs[t].stage = "ok"
    <3>1. jobs[t].value.puts \subseteq Stored(Home[t])
      BY <2>1, OkIsStored, Zenon DEF Return, At
    <3>2. Stored(Home[t]) \subseteq Updates
      BY Zenon DEF Stored
    <3>3. acked' = [acked EXCEPT ![Home[t]] = @ \cup jobs[t].value.puts]
      BY <2>1, Zenon DEF Return
    <3> QED
      BY <1>0, <3>1, <3>2, <3>3, Zenon DEF Results
  <2>2. CASE ~(jobs[t].op = "replace" /\ jobs[t].stage = "ok")
    BY <1>0, <2>2, Zenon DEF Return, Results
  <2> QED
    BY <2>1, <2>2, Zenon
<1>7. got' = [p \in Created |-> got'[p]] /\ CreatedOnce'
  <2>1. CASE jobs[t].op # "replace" /\ jobs[t].stage = "ok"
    <3>1. got' = [got EXCEPT ![jobs[t].path] = @ \cup {jobs[t].value}]
      BY <2>1, Zenon DEF Return
    <3>2. /\ files[jobs[t].path] # None /\ files[jobs[t].path].value = jobs[t].value
          /\ jobs[t].path \in Created
          /\ jobs[t].path = BlockFile => previous[jobs[t].path] = {}
      BY <1>0, <2>1, Names, Zenon DEF JobSound, Tasks, Created
    <3>3. got = [p \in Created |-> got[p]] /\ CreatedOnce
      BY <1>0, Zenon DEF Results
    <3> QED
      BY <1>1, <3>1, <3>2, <3>3, Zenon DEF CreatedOnce
  <2>2. CASE ~(jobs[t].op # "replace" /\ jobs[t].stage = "ok")
    BY <1>0, <1>1, <2>2, Zenon DEF Return, Results, CreatedOnce
  <2> QED
    BY <2>1, <2>2, Zenon
<1>8. Results'
  BY <1>5, <1>6, <1>7, Zenon DEF Results
<1> QED
  BY <1>3, <1>4, <1>8, Zenon DEF Sound

\* Whichever entry comes back is whole, and holds all that was stored.
LEMMA LossStores ==
    ASSUME Sound, PowerLoss
    PROVE  /\ FilesSound'
           /\ \A p \in Paths : files'[p] \in Survivors(p)
           /\ \A n \in Nodes : Stored(n) \subseteq Stored(n)'
<1>1. FilesSound /\ previous' = [p \in Paths |-> {}]
  BY Zenon DEF Sound, PowerLoss, Lose
<1>2. \A p \in Paths : \A e \in Survivors(p) : e \in Entries(p) /\ AfterLoss(e) = e
  BY <1>1, Absent, Zenon DEF FilesSound, Survivors, AfterLoss
<1>3. \A p \in Paths : files'[p] \in Survivors(p)
  BY <1>2, Zenon DEF PowerLoss, Lose
<1>4. files' = [p \in Paths |-> files'[p]]
  BY Zenon DEF PowerLoss, Lose
<1>5. FilesSound'
  BY <1>1, <1>2, <1>3, <1>4, Zenon DEF FilesSound, Entries
<1>6. ASSUME NEW n \in Nodes PROVE Stored(n) \subseteq Stored(n)'
  <2>1. n \in Paths
    BY Names, Zenon
  <2>2. Survivors(n)' = {files'[n]} /\ files'[n] \in Survivors(n)
    BY <1>1, <1>3, <2>1, Zenon DEF Survivors
  <2> QED
    BY <2>2, Zenon DEF Stored, Puts, Loads
<1> QED
  BY <1>3, <1>5, <1>6, Zenon

\* The power goes: what was stored and what was created for good stays.
LEMMA LossKeeps ==
    ASSUME Sound, PowerLoss
    PROVE  Sound'
<1>1. /\ FilesSound'
      /\ \A p \in Paths : files'[p] \in Survivors(p)
      /\ \A n \in Nodes : Stored(n) \subseteq Stored(n)'
  BY LossStores, Zenon
<1>2. JobsSound'
  BY Zenon DEF PowerLoss, Lose, JobsSound
<1>3. DocumentsSound'
  BY Zenon DEF Sound, DocumentsSound, PowerLoss
<1>4. Results'
  <2>1. Results /\ acked' = acked /\ got' = [got EXCEPT ![KeyFile] = {}, ![CasFile] = {}]
        /\ previous' = [p \in Paths |-> {}]
    BY Zenon DEF Sound, PowerLoss, Lose
  <2>2. got[BlockFile] # {} => files'[BlockFile] = files[BlockFile]
    BY <1>1, <2>1, Names, Zenon DEF Results, CreatedOnce, Survivors, Created
  <2>3. got' = [p \in Created |-> got'[p]] /\ CreatedOnce'
    BY <2>1, <2>2, Names, Zenon DEF Results, CreatedOnce, Created
  <2> QED
    BY <1>1, <2>1, <2>3, Zenon DEF Results
<1> QED
  BY <1>1, <1>2, <1>3, <1>4, Zenon DEF Sound

\* A whole and synced document or file gets its name; the entry before it stays
\* possible.
LEMMA NamedKeeps ==
    ASSUME Sound, NEW t \in Threads, At(t, "place"), Named(t, jobs[t].path),
           jobs[t].op = "replace" \/ files[jobs[t].path] = None,
           UNCHANGED <<acked, got>>
    PROVE  FilesSound' /\ Results' /\ \A n \in Nodes : Stored(n)' = Stored(n)
<1> DEFINE j == jobs[t]
           p == j.path
           e == [value |-> j.value, synced |-> TRUE]
<1>0. Home[t] \in Nodes /\ JobSound(t, j) /\ FilesSound /\ Results
  BY StateDocsAssumption, Zenon DEF Sound, JobsSound, At
<1>1. p \in Paths /\ j.value \in Val(p) /\ e \in Entries(p) /\ e.value = j.value
      /\ j.synced = TRUE
  BY <1>0, Zenon DEF JobSound, Jobs, At, Entries
<1>2. files' = [files EXCEPT ![p] = e] /\ previous' = [previous EXCEPT ![p] = @ \cup {files[p]}]
  BY <1>1, Zenon DEF Named
<1>3. j.op = "replace" => p = Home[t] /\ Puts(files[p]) \subseteq j.value.puts
  BY <1>0, Zenon DEF JobSound, Tasks, At
<1>4. j.op # "replace" => p \notin Nodes
  BY <1>0, Names, Zenon DEF JobSound, Tasks, Created
<1> HIDE DEF p, e
<1>5. FilesSound'
  BY <1>0, <1>1, <1>2, Zenon DEF FilesSound
<1>6. ASSUME NEW n \in Nodes PROVE Stored(n)' = Stored(n)
  <2>0. n \in Paths
    BY Names, Zenon
  <2>1. CASE n # p
    <3>1. files'[n] = files[n] /\ previous'[n] = previous[n]
      BY <1>0, <1>2, <2>0, <2>1, Zenon DEF FilesSound
    <3> QED
      BY <3>1, StoredUnchanged, Zenon
  <2>2. CASE n = p
    <3>1. Survivors(n)' = Survivors(n) \cup {e}
      BY <1>0, <1>2, <2>0, <2>2, Zenon DEF FilesSound, Survivors
    <3>2. Puts(files[n]) \subseteq Puts(e)
      <4>1. Puts(files[n]) \subseteq j.value.puts /\ Val(p) = Doc
        BY <1>3, <1>4, <2>2, Zenon DEF Val
      <4>2. Loads(e)
        BY <1>1, <2>0, <2>2, Absent, Zenon DEF e
      <4> QED
        BY <1>1, <4>1, <4>2, Zenon DEF Puts
    <3>3. files[n] \in Survivors(n)
      BY Zenon DEF Survivors
    <3>4. \A u \in Updates : (\A s \in Survivors(n) : u \in Puts(s)) => u \in Puts(e)
      BY <3>2, <3>3, Zenon
    <3>5. Stored(n)' = {u \in Updates : \A s \in Survivors(n)' : u \in Puts(s)}
      BY Zenon DEF Stored, Puts, Loads
    <3> QED
      BY <3>1, <3>4, <3>5, Zenon DEF Stored
  <2> QED
    BY <2>1, <2>2, Zenon
<1>7. CreatedOnce'
  <2>1. \A q \in Created : q # p => files'[q] = files[q] /\ previous'[q] = previous[q]
    BY <1>0, <1>2, Names, Zenon DEF FilesSound
  <2>2. p \in Created => got[p] = {}
    BY <1>0, <1>3, Names, Zenon DEF Results, CreatedOnce, p
  <2> QED
    BY <1>0, <2>1, <2>2, Zenon DEF Results, CreatedOnce
<1>8. Results'
  BY <1>0, <1>6, <1>7, Zenon DEF Results
<1> QED
  BY <1>5, <1>6, <1>8, Zenon

\* A job that goes on keeps its file and value.
LEMMA JobAfter ==
    ASSUME Sound, NEW t \in Threads, jobs[t] # None, NEW s \in Stages, Goes(t, s)
    PROVE  /\ JobSound(t, jobs[t])
           /\ jobs' = [u \in Threads |-> jobs'[u]]
           /\ \A u \in Threads \ {t} : jobs'[u] = jobs[u]
           /\ jobs'[t] \in Jobs /\ jobs'[t].stage = s
           /\ \A field \in {"op", "path", "value", "synced"} : jobs'[t][field] = jobs[t][field]
<1>1. JobSound(t, jobs[t]) /\ jobs = [u \in Threads |-> jobs[u]]
  BY Zenon DEF Sound, JobsSound
<1>2. jobs[t] \in Jobs
  BY <1>1, Zenon DEF JobSound
<1>3. jobs' = [jobs EXCEPT ![t] = [jobs[t] EXCEPT !.stage = s]]
  BY Zenon DEF Goes
<1>4. [jobs[t] EXCEPT !.stage = s] \in Jobs
  BY <1>2, Zenon DEF Jobs
<1> QED
  BY <1>1, <1>2, <1>3, <1>4, Zenon DEF Jobs

\* What one job names is not what another is to replace, or has named.
LEMMA NamingLeavesOthers ==
    ASSUME Sound, NEW t \in Threads, At(t, "place"), Named(t, jobs[t].path),
           jobs[t].op = "replace" \/ files[jobs[t].path] = None,
           NEW u \in Threads \ {t}, jobs[u] # None
    PROVE  LET p == jobs[u].path IN
           \/ files'[p] = files[p] /\ previous'[p] \in {previous[p], {}}
           \/ files[p] = None /\ jobs[u].op # "replace"
<1> DEFINE p == jobs[t].path
           q == jobs[u].path
<1>1. JobSound(t, jobs[t]) /\ JobSound(u, jobs[u]) /\ FilesSound
  BY Zenon DEF Sound, JobsSound, At
<1>2. p \in Paths /\ q \in Paths /\ Home[t] \in Nodes /\ Home[u] \in Nodes
  BY <1>1, StateDocsAssumption, Zenon DEF JobSound, Jobs
<1>3. CASE p # q
  <2>1. files'[q] = files[q] /\ previous'[q] = previous[q]
    BY <1>1, <1>2, <1>3, Zenon DEF Named, FilesSound
  <2> QED
    BY <2>1, Zenon
<1>4. CASE p = q
  <2>1. jobs[t].op = "replace" <=> p \in Nodes
    BY <1>1, <1>2, Names, Zenon DEF JobSound, Tasks, Created
  <2>2. jobs[u].op = "replace" <=> q \in Nodes
    BY <1>1, <1>2, Names, Zenon DEF JobSound, Tasks, Created
  <2>3. jobs[t].op = "replace" /\ jobs[u].op = "replace" => FALSE
    BY <1>1, <1>4, Zenon DEF JobSound, Tasks
  <2> QED
    BY <1>4, <2>1, <2>2, <2>3, Zenon
<1> QED
  BY <1>3, <1>4, Zenon

\* A call that fails leaves the file as it is, or with the name it was given.
LEMMA FailsKeeps ==
    ASSUME Sound, NEW t \in Threads, jobs[t] # None, Goes(t, "error"),
           UNCHANGED <<lock, documents, acked, got>>,
           \/ UNCHANGED <<files, previous>>
           \/ At(t, "place") /\ jobs[t].op # "replace" /\ files[jobs[t].path] = None
              /\ Named(t, jobs[t].path)
    PROVE  Sound'
<1>0. "error" \in Stages
  BY Zenon DEF Stages
<1>1. /\ JobSound(t, jobs[t])
      /\ jobs' = [u \in Threads |-> jobs'[u]]
      /\ \A u \in Threads \ {t} : jobs'[u] = jobs[u]
      /\ jobs'[t] \in Jobs /\ jobs'[t].stage = "error"
      /\ \A field \in {"op", "path", "value", "synced"} : jobs'[t][field] = jobs[t][field]
  BY <1>0, JobAfter, Zenon
<1>2. JobSound(t, jobs[t])'
  BY <1>1, Zenon DEF JobSound, Tasks
<1>3. DocumentsSound'
  BY Zenon DEF Sound, DocumentsSound, documents
<1>4. CASE UNCHANGED <<files, previous>>
  <2>1. JobsSound'
    BY <1>1, <1>2, <1>4, OthersSound, Zenon DEF Sound
  <2> QED
    BY <1>3, <1>4, <2>1, ResultsUnchanged, Zenon DEF Sound, FilesSound
<1>5. CASE /\ At(t, "place") /\ jobs[t].op # "replace" /\ files[jobs[t].path] = None
           /\ Named(t, jobs[t].path)
  <2>1. FilesSound' /\ Results'
    BY <1>5, NamedKeeps, Zenon
  <2>2. JobsSound'
    BY <1>1, <1>2, <1>5, NamingLeavesOthers, OthersSound, Zenon DEF Sound
  <2> QED
    BY <1>3, <2>1, <2>2, Zenon DEF Sound
<1> QED
  BY <1>4, <1>5, Zenon

\* The steps of the file operations.
LEMMA RunKeeps ==
    ASSUME Sound, NEW t \in Threads, Run(t)
    PROVE  Sound'
<1>0. UNCHANGED <<lock, documents, acked, got>> /\ jobs[t] # None /\ FileStep(t)
  BY Zenon DEF Run, FileStep, Write, Rename, Link, SyncDirectory, At
<1>1. JobSound(t, jobs[t]) /\ jobs = [u \in Threads |-> jobs[u]] /\ jobs[t] \in Jobs
  BY <1>0, Zenon DEF Sound, JobsSound, JobSound
<1>2. DocumentsSound'
  BY <1>0, Zenon DEF Sound, DocumentsSound, documents
<1>3. CASE /\ Fails(t)
           /\ \/ UNCHANGED <<files, previous>>
              \/ At(t, "place") /\ jobs[t].op # "replace" /\ files[jobs[t].path] = None
                 /\ Named(t, jobs[t].path)
  BY <1>0, <1>3, FailsKeeps, Zenon DEF Fails
<1>4. CASE /\ At(t, "write") /\ UNCHANGED <<files, previous>>
           /\ jobs' = [jobs EXCEPT ![t].stage = "place", ![t].synced = TRUE]
  <2> DEFINE j == [jobs[t] EXCEPT !.stage = "place", !.synced = TRUE]
  <2>1. /\ j \in Jobs /\ j.op = jobs[t].op /\ j.path = jobs[t].path /\ j.value = jobs[t].value
        /\ j.stage = "place" /\ j.synced = TRUE
    BY <1>1, Zenon DEF Jobs, Stages
  <2>2. jobs' = [jobs EXCEPT ![t] = j]
    BY <1>4, <1>1, Zenon
  <2> HIDE DEF j
  <2>3. jobs[t].stage = "write" /\ jobs'[t] = j
    BY <1>1, <1>4, <2>2, Zenon DEF At
  <2>4. JobSound(t, jobs[t])'
    BY <1>0, <1>1, <1>4, <2>1, <2>3, Zenon DEF JobSound, Tasks, Puts, Loads
  <2>5. JobsSound'
    BY <1>0, <1>1, <1>4, <2>2, <2>4, OthersSound, Zenon DEF Sound
  <2> QED
    BY <1>0, <1>2, <1>4, <2>5, ResultsUnchanged, Zenon DEF Sound, FilesSound
<1>5. CASE /\ At(t, "place") /\ jobs[t].op # "replace" /\ files[jobs[t].path] # None
           /\ files[jobs[t].path].value # Torn /\ jobs[t].op # "create"
           /\ jobs' = [jobs EXCEPT ![t] = [@ EXCEPT !.stage = "ok", !.value = files[jobs[t].path].value]]
           /\ UNCHANGED <<files, previous>>
  <2> DEFINE j == [jobs[t] EXCEPT !.stage = "ok", !.value = files[jobs[t].path].value]
  <2>0. jobs[t].path \in Paths
    BY <1>1, Zenon DEF Jobs
  <2>1. files[jobs[t].path].value \in Val(jobs[t].path) /\ files[jobs[t].path].value \in Content
    BY <1>5, <2>0, Absent, Zenon DEF Sound, FilesSound
  <2>2. /\ j \in Jobs /\ j.op = jobs[t].op /\ j.path = jobs[t].path
        /\ j.value = files[jobs[t].path].value /\ j.stage = "ok"
    BY <1>1, <2>1, Zenon DEF Jobs, Stages
  <2>3. jobs' = [jobs EXCEPT ![t] = j] /\ jobs'[t] = j
    BY <1>5, <1>1, Zenon
  <2> HIDE DEF j
  <2>4. JobSound(t, jobs[t])'
    BY <1>0, <1>1, <1>5, <2>1, <2>2, <2>3, Zenon DEF JobSound, Tasks
  <2>5. JobsSound'
    BY <1>0, <1>1, <1>5, <2>3, <2>4, OthersSound, Zenon DEF Sound
  <2> QED
    BY <1>0, <1>2, <1>5, <2>5, ResultsUnchanged, Zenon DEF Sound, FilesSound
<1>6. CASE At(t, "place") /\ jobs[t].op # "replace" /\ files[jobs[t].path] # None
           /\ Goes(t, "error") /\ UNCHANGED <<files, previous>>
  BY <1>0, <1>6, FailsKeeps, Zenon
<1>7. CASE /\ At(t, "place") /\ Named(t, jobs[t].path)
           /\ jobs[t].op = "replace" \/ files[jobs[t].path] = None
           /\ Goes(t, IF jobs[t].op \in {"replace", "create"} THEN "sync" ELSE "ok")
  <2> DEFINE s == IF jobs[t].op \in {"replace", "create"} THEN "sync" ELSE "ok"
  <2>0. s \in Stages
    BY Zenon DEF Stages
  <2>1. FilesSound' /\ Results'
    BY <1>0, <1>7, NamedKeeps, Zenon
  <2>2. /\ jobs' = [u \in Threads |-> jobs'[u]]
        /\ \A u \in Threads \ {t} : jobs'[u] = jobs[u]
        /\ jobs'[t] \in Jobs /\ jobs'[t].stage = s
        /\ \A field \in {"op", "path", "value", "synced"} : jobs'[t][field] = jobs[t][field]
    <3> HIDE DEF s
    <3> QED
      BY <1>0, <1>7, <2>0, JobAfter, Zenon DEF s
  <2>3. files'[jobs[t].path] # None /\ files'[jobs[t].path].value = jobs[t].value
    <3>1. jobs[t].path \in Paths /\ jobs[t].value \in Content /\ jobs[t].synced \in BOOLEAN
      BY <1>1, Zenon DEF Jobs
    <3>2. files'[jobs[t].path] = [value |-> jobs[t].value, synced |-> jobs[t].synced]
      BY <1>7, <3>1, Zenon DEF Named, Sound, FilesSound
    <3> QED
      BY <3>1, <3>2, Absent
  <2>4. JobSound(t, jobs[t])'
    BY <1>0, <1>1, <2>2, <2>3, Zenon DEF JobSound, Tasks
  <2>5. JobsSound'
    BY <1>0, <1>7, <2>2, <2>4, NamingLeavesOthers, OthersSound, Zenon DEF Sound
  <2> QED
    BY <1>2, <2>1, <2>5, Zenon DEF Sound
<1>8. CASE /\ At(t, "sync") /\ Goes(t, "ok") /\ files' = files
           /\ previous' = [previous EXCEPT ![jobs[t].path] = {}]
  <2>1. /\ jobs' = [u \in Threads |-> jobs'[u]]
        /\ \A u \in Threads \ {t} : jobs'[u] = jobs[u]
        /\ jobs'[t] \in Jobs /\ jobs'[t].stage = "ok"
        /\ \A field \in {"op", "path", "value", "synced"} : jobs'[t][field] = jobs[t][field]
    BY <1>0, <1>8, JobAfter, Zenon DEF Stages
  <2>2. FilesSound /\ jobs[t].path \in Paths
    BY <1>1, Zenon DEF Sound, Jobs
  <2>3. \A p \in Paths : previous'[p] \in {previous[p], {}}
    BY <1>8, <2>2, Zenon DEF FilesSound
  <2>4. FilesSound'
    BY <1>8, <2>2, Zenon DEF FilesSound
  <2>5. JobSound(t, jobs[t])'
    BY <1>0, <1>1, <1>8, <2>1, <2>2, Zenon DEF JobSound, Tasks, At, FilesSound
  <2>6. \A u \in Threads : jobs[u] # None => jobs[u].path \in Paths
    BY Zenon DEF Sound, JobsSound, JobSound, Jobs
  <2>7. JobsSound'
    BY <1>0, <1>8, <2>1, <2>3, <2>5, <2>6, OthersSound, Zenon DEF Sound
  <2>8. \A n \in Nodes : Stored(n) \subseteq Stored(n)'
    BY <1>8, <2>3, Names, Zenon DEF Stored, Survivors, Puts, Loads
  <2>9. Results'
    BY <1>0, <1>8, <2>3, <2>8, Names, Zenon DEF Sound, Results, CreatedOnce
  <2> QED
    BY <1>2, <2>4, <2>7, <2>9, Zenon DEF Sound
<1>9. CASE Write(t)
  BY <1>3, <1>4, <1>9, Zenon DEF Write
<1>10. CASE Rename(t)
  BY <1>3, <1>7, <1>10, Zenon DEF Rename
<1>11. CASE Link(t)
  <2>1. CASE /\ files[jobs[t].path] # None
             /\ jobs' = [jobs EXCEPT ![t] =
                   IF jobs[t].op = "create" \/ files[jobs[t].path].value = Torn
                     THEN [@ EXCEPT !.stage = "error"]
                     ELSE [@ EXCEPT !.stage = "ok", !.value = files[jobs[t].path].value]]
             /\ UNCHANGED <<files, previous>>
    <3>1. CASE jobs[t].op = "create" \/ files[jobs[t].path].value = Torn
      <4>1. Goes(t, "error")
        BY <2>1, <3>1, Zenon DEF Goes
      <4> QED
        BY <1>6, <1>11, <2>1, <4>1, Zenon DEF Link
    <3>2. CASE ~(jobs[t].op = "create" \/ files[jobs[t].path].value = Torn)
      BY <1>5, <1>11, <2>1, <3>2, Zenon DEF Link
    <3> QED
      BY <3>1, <3>2, Zenon
  <2>2. CASE files[jobs[t].path] = None /\ Named(t, jobs[t].path)
             /\ Goes(t, IF jobs[t].op = "create" THEN "sync" ELSE "ok")
    <3>1. At(t, "place") /\ jobs[t].op # "replace"
      BY <1>11, Zenon DEF Link
    <3>2. (IF jobs[t].op = "create" THEN "sync" ELSE "ok")
          = IF jobs[t].op \in {"replace", "create"} THEN "sync" ELSE "ok"
      BY <3>1, Zenon
    <3> QED
      BY <1>7, <2>2, <3>1, <3>2, Zenon
  <2> QED
    BY <1>3, <1>11, <2>1, <2>2, Zenon DEF Link
<1>12. CASE SyncDirectory(t)
  BY <1>3, <1>8, <1>12, Zenon DEF SyncDirectory
<1> QED
  BY <1>0, <1>9, <1>10, <1>11, <1>12, Zenon DEF FileStep

\* Every step of threads, processes and the computer.
LEMMA StepsKeep == Sound /\ [Next]_vars => Sound'
<1> SUFFICES ASSUME Sound, [Next]_vars PROVE Sound'
  BY Zenon
<1>1. CASE UNCHANGED vars
  <2>1. FilesSound' /\ DocumentsSound'
    BY <1>1, Zenon DEF vars, Sound, FilesSound, DocumentsSound
  <2>2. JobsSound'
    BY <1>1, Zenon DEF vars, Sound, JobsSound, JobSound, Puts, Loads
  <2>3. Results'
    BY <1>1, ResultsUnchanged, Zenon DEF vars, Sound
  <2> QED
    BY <2>1, <2>2, <2>3, Zenon DEF Sound
<1>2. ASSUME NEW t \in Threads, \/ Create(t, "key", KeyFile, t)
                                \/ Create(t, "create", BlockFile, t)
                                \/ Create(t, "put", CasFile, CasFile)
      PROVE  Sound'
  <2>1. CASE Create(t, "key", KeyFile, t)
    BY <2>1, CreateKeeps
  <2>2. CASE Create(t, "create", BlockFile, t)
    BY <2>2, CreateKeeps
  <2>3. CASE Create(t, "put", CasFile, CasFile)
    BY <2>3, CreateKeeps
  <2> QED
    BY <1>2, <2>1, <2>2, <2>3, Zenon
<1> QED
  BY <1>1, <1>2, HandlesKeep, RunKeeps, ReturnKeeps, CrashKeeps, SavesKeep, LossKeeps, Zenon DEF
     Next

\* The invariant holds throughout.
THEOREM AlwaysSound == Spec => []Sound
  BY StartsSound, StepsKeep, PTL DEF Spec

-----------------------------------------------------------------------------
(* Theorems *)

\* Files hold whole values, now and after a power loss, and a thread that writes a
\* document has its lock.
THEOREM FilesAreWhole == Spec => []TypeOK
<1>1. Sound => TypeOK
  <2> SUFFICES ASSUME Sound PROVE TypeOK
    BY Zenon
  <2>1. \A p \in Paths : Val(p) \subseteq Values(p)
    BY Zenon DEF Val, Values, Doc
  <2>2. \A p \in Paths : Survivors(p) \subseteq {None} \cup [value : Values(p), synced : {TRUE}]
    BY <2>1, Zenon DEF Sound, FilesSound, Survivors, Entries
  <2>3. ASSUME NEW t \in Threads, jobs[t] # None
        PROVE  /\ jobs[t].op \in Ops /\ jobs[t].value \in Values(jobs[t].path)
               /\ jobs[t].stage \in Stages
               /\ jobs[t].op = "replace" => jobs[t].path = Home[t] /\ lock[Home[t]] = t
    <3>1. JobSound(t, jobs[t])
      BY <2>3, Zenon DEF Sound, JobsSound
    <3> QED
      BY <2>1, <3>1, Zenon DEF JobSound, Jobs, Tasks
  <2>4. /\ handles \in [Threads -> Document \cup {None}] /\ messages \subseteq Document
        /\ acked \in [Nodes -> SUBSET Updates]
    BY Zenon DEF Sound, DocumentsSound, Results, Doc
  <2> QED
    BY <2>2, <2>3, <2>4, Zenon DEF TypeOK
<1> QED
  BY <1>1, AlwaysSound, PTL

\* Everybody who was given a key, a block or a content was given the one on disk.
THEOREM OneKeyOneBlock == Spec => []CreatedOnce
<1>1. Sound => CreatedOnce
  BY Zenon DEF Sound, Results
<1> QED
  BY <1>1, AlwaysSound, PTL

\* Acknowledged updates are in the document, and in the map that is read if the
\* document was begun once.
THEOREM AcknowledgedIsVisible == Spec => []SavedIsVisible
<1>1. ASSUME Sound, NEW n \in Nodes, Loads(files[n]), NEW u \in acked[n]
      PROVE  /\ u \in files[n].value.puts
             /\ u.map # values(files[n].value) => Cardinality(files[n].value.maps) > 1
  <2> DEFINE d == files[n].value
  <2>1. d \in Doc /\ Puts(files[n]) = d.puts
    BY <1>1, OnDisk, Zenon DEF Sound, Loads
  <2>2. u \in d.puts
    BY <1>1, <2>1 DEF Sound, Results, Stored, Survivors
  <2> HIDE DEF d
  <2>3. u.map \in d.maps /\ d.maps \in SUBSET Actors
    BY <2>1, <2>2, Zenon DEF Doc, Document
  <2>4. values(d) \in d.maps
    BY <2>3, GreatestActor, Zenon DEF values
  <2>5. IsFiniteSet(d.maps)
    <3>1. IsFiniteSet(1..MaxActors)
      BY StateDocsAssumption, FS_Interval
    <3> QED
      BY <2>3, <3>1, FS_Subset, Zenon DEF Actors
  <2>6. ASSUME u.map # values(d) PROVE Cardinality(d.maps) > 1
    <3>1. IsFiniteSet({u.map}) /\ Cardinality({u.map}) = 1
      BY FS_Singleton, Zenon
    <3>2. Cardinality({u.map} \cup {values(d)}) = 2
      <4>1. values(d) \notin {u.map}
        BY <2>6, Zenon
      <4> HIDE DEF values
      <4> QED
        BY <3>1, <4>1, FS_AddElement
    <3>3. ({u.map} \cup {values(d)}) \subseteq d.maps
      BY <2>3, <2>4, Zenon
    <3>4. Cardinality({u.map} \cup {values(d)}) <= Cardinality(d.maps)
      BY <2>5, <3>3, FS_Subset, Zenon
    <3>5. Cardinality(d.maps) \in Nat
      BY <2>5, FS_CardinalityType, Zenon
    <3> QED
      BY <3>2, <3>4, <3>5
  <2> QED
    BY <2>2, <2>6, Zenon DEF d
<1>2. Sound => SavedIsVisible
  BY <1>1, Zenon DEF SavedIsVisible
<1> QED
  BY <1>2, AlwaysSound, PTL

\* A step stores more, acknowledges what is stored, or changes neither.
LEMMA StoreStep ==
    ASSUME Sound, [Next]_vars
    PROVE  [Abstract!Next]_(Abstract!svars)
<1>1. \A n \in Nodes : Stored(n)' \subseteq Updates
  BY Zenon DEF Stored
<1>2. ASSUME \A n \in Nodes : Stored(n) \subseteq Stored(n)', acked' = acked
      PROVE  [Abstract!Next]_(Abstract!svars)
  BY <1>1, <1>2, Zenon DEF Abstract!Next, Abstract!Store
<1>3. ASSUME UNCHANGED <<files, previous, acked>>
      PROVE  [Abstract!Next]_(Abstract!svars)
  <2>1. \A n \in Nodes : Stored(n)' = Stored(n)
    BY <1>3, StoredUnchanged, Zenon
  <2> QED
    BY <1>2, <1>3, <2>1, Zenon
<1>4. ASSUME NEW t \in Threads, Return(t) PROVE [Abstract!Next]_(Abstract!svars)
  <2>1. CASE jobs[t].op = "replace" /\ jobs[t].stage = "ok"
    <3>1. jobs[t].value.puts \subseteq Stored(Home[t]) /\ Home[t] \in Nodes
      BY <1>4, <2>1, OkIsStored, StateDocsAssumption, Zenon DEF Return, At
    <3>2. acked' = [acked EXCEPT ![Home[t]] = @ \cup jobs[t].value.puts]
      BY <1>4, <2>1, Zenon DEF Return
    <3>3. \A n \in Nodes : Stored(n)' = Stored(n)
      BY <1>4, StoredUnchanged, Zenon DEF Return
    <3>4. [n \in Nodes |-> Stored(n)]' = [n \in Nodes |-> Stored(n)]
      BY <3>3, Zenon
    <3>5. Abstract!Acknowledge(Home[t])
      BY <3>1, <3>2, <3>4, Zenon DEF Abstract!Acknowledge
    <3> QED
      BY <3>1, <3>5, Zenon DEF Abstract!Next
  <2>2. CASE ~(jobs[t].op = "replace" /\ jobs[t].stage = "ok")
    BY <1>3, <1>4, <2>2, Zenon DEF Return
  <2> QED
    BY <2>1, <2>2, Zenon
<1>5. CASE PowerLoss
  BY <1>2, <1>5, LossStores, Zenon DEF PowerLoss
<1>6. ASSUME NEW t \in Threads, Run(t) PROVE [Abstract!Next]_(Abstract!svars)
  <2>0. acked' = acked /\ got' = got
    BY <1>6, Zenon DEF Run
  <2>1. CASE At(t, "place") /\ Named(t, jobs[t].path)
             /\ (jobs[t].op = "replace" \/ files[jobs[t].path] = None)
    <3>1. \A n \in Nodes : Stored(n)' = Stored(n)
      BY <2>0, <2>1, NamedKeeps, Zenon
    <3> QED
      BY <1>2, <2>0, <3>1, Zenon
  <2>2. CASE At(t, "sync") /\ files' = files
             /\ previous' = [previous EXCEPT ![jobs[t].path] = {}]
    <3>1. previous = [p \in Paths |-> previous[p]]
      BY Zenon DEF Sound, FilesSound
    <3>2. \A n \in Nodes : previous'[n] \subseteq previous[n]
      BY <2>2, <3>1, Names, Zenon
    <3>3. \A n \in Nodes : Stored(n) \subseteq Stored(n)'
      BY <2>2, <3>2, Zenon DEF Stored, Survivors, Puts, Loads
    <3> QED
      BY <1>2, <2>0, <3>3, Zenon
  <2>3. CASE UNCHANGED <<files, previous>>
    BY <1>3, <2>0, <2>3, Zenon
  <2> QED
    BY <1>6, <2>1, <2>2, <2>3, Zenon DEF Run, FileStep, Write, Rename, Link, SyncDirectory
<1>7. ASSUME NEW t \in Threads,
             \/ Open(t) \/ Put(t) \/ Crash(t)
             \/ \E publish \in BOOLEAN : Save(t, publish)
             \/ \E m \in messages : Merge(t, m) \/ Import(t, m)
             \/ \E op, p, v : Create(t, op, p, v)
      PROVE  [Abstract!Next]_(Abstract!svars)
  <2>1. UNCHANGED <<files, previous, acked>>
    BY <1>7, Zenon DEF Open, Put, Crash, Save, Merge, Import, Create
  <2> QED
    BY <1>3, <2>1, Zenon
<1>8. CASE UNCHANGED vars
  BY <1>3, <1>8, Zenon DEF vars
<1> QED
  BY <1>4, <1>5, <1>6, <1>7, <1>8, Zenon DEF Next

\* The threads, files and faults implement the store that never loses an update.
THEOREM DocumentsImplementStore == Spec => ImplementsStore
<1>1. Init => Abstract!Init
  <2> SUFFICES ASSUME Init PROVE Abstract!Init
    BY Zenon
  <2>1. ASSUME NEW n \in Nodes PROVE Stored(n) = {}
    BY Names, Zenon DEF Init, FilesInit, Stored, Survivors, Puts, Loads
  <2> QED
    BY <2>1, Zenon DEF Init, Abstract!Init
<1>2. Sound /\ [Next]_vars => [Abstract!Next]_(Abstract!svars)
  BY StoreStep, Zenon
<1> QED
  BY <1>1, <1>2, AlwaysSound, PTL DEF Spec, ImplementsStore, Abstract!Spec
=============================================================================
