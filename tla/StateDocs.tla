----------------------------- MODULE StateDocs ------------------------------
(***************************************************************************)
(* StateStore and StateDocument: documents opened, changed, saved, merged, *)
(* published and imported by several threads and processes, over the files *)
(* of AtomicFiles; and the files that are created once, the node's key, a  *)
(* block, a content.                                                       *)
(*                                                                         *)
(* An Automerge document is the set of its changes and merging is union.   *)
(* A new document begins with a "values" map of its own; when documents    *)
(* that began apart are merged, the map of the greater actor is the one    *)
(* everybody reads and writes.                                             *)
(***************************************************************************)
EXTENDS AtomicFiles, FiniteSetsExt

CONSTANTS Nodes,                   \* each has one document, at the path of its name
          Home,                    \* Home[t]: the node whose data directory t uses
          KeyFile, BlockFile, CasFile,
          Modes,                   \* what the threads do: "documents", "files"
          MaxDocument,             \* MAX_DOCUMENT_BYTES, in updates
          MaxUpdates,              \* bound: updates made
          MaxActors,               \* bound: documents begun
          MaxCalls                 \* bound: saves, imports and creations

Created == {KeyFile, BlockFile, CasFile}
Actors == 1..MaxActors
Updates == [map : Actors, id : 1..MaxUpdates]

Document == [maps : SUBSET Actors, puts : SUBSET Updates]

Values(p) ==
    IF p \in Nodes THEN Document ELSE IF p = CasFile THEN {CasFile} ELSE Threads

Content == UNION {Values(p) : p \in Paths}

ASSUME StateDocsAssumption ==
    /\ Paths = Nodes \cup Created /\ Nodes \cap Created = {}
    /\ Cardinality(Created) = 3
    /\ Home \in [Threads -> Nodes]
    /\ {None, Torn} \cap Content = {}
    /\ None \notin [value : Content, synced : BOOLEAN]
    /\ None \notin [op : Ops, path : Paths, value : Content, stage : Stages, synced : BOOLEAN]
    /\ MaxUpdates \in Nat /\ MaxActors \in Nat

VARIABLES
    mode,
    lock,      \* the holder of persistence_lock and the lock file, per node
    handles,   \* handles[t]: None or the StateDocument t has open
    sending,   \* sending[t]: None or the snapshot publish_state took
    messages,  \* snapshots on the network
    actors,    \* actor ids in use
    updates,   \* updates made
    acked,     \* history: acked[n], updates whose save or import returned Ok
    got,       \* history: got[p], values that calls for p returned
    calls

vars == <<files, previous, jobs, mode, lock, handles, sending, messages, actors, updates, acked,
          got, calls, faults>>
documents == <<handles, sending, messages, actors, updates>>

Join(d, e) == [maps |-> d.maps \cup e.maps, puts |-> d.puts \cup e.puts]

\* AutoCommit::load
Loads(entry) == entry # None /\ entry.value # Torn

\* StateDocument::values, when there are several maps.
values(d) == Max(d.maps)

\* A handle is used as long as a call is left that could save it.
Free(t) == Idle(t) /\ calls < MaxCalls

Call(t) == Free(t) /\ calls' = calls + 1

-----------------------------------------------------------------------------
(* Handles *)

\* StateStore::document
Open(t) ==
    LET file == files[Home[t]] IN
    /\ mode = "documents" /\ Free(t)
    /\ \/ /\ file = None
          /\ \E a \in Actors \ actors :
               /\ handles' = [handles EXCEPT ![t] = [maps |-> {a}, puts |-> {}]]
               /\ actors' = actors \cup {a}
       \/ Loads(file) /\ handles' = [handles EXCEPT ![t] = file.value] /\ actors' = actors
    /\ handles'[t] # handles[t]
    /\ UNCHANGED <<files, previous, jobs, mode, lock, sending, messages, updates, acked, got,
                   calls, faults>>

Put(t) ==
    /\ Free(t) /\ handles[t] # None
    /\ updates < MaxUpdates
    /\ updates' = updates + 1
    /\ handles' = [handles EXCEPT ![t].puts = @ \cup {[map |-> values(handles[t]), id |-> updates']}]
    /\ UNCHANGED <<files, previous, jobs, mode, lock, sending, messages, actors, acked, got,
                   calls, faults>>

\* StateDocument::merge and merge_snapshot: in memory only.
Merge(t, snapshot) ==
    /\ Free(t) /\ handles[t] # None
    /\ handles' = [handles EXCEPT ![t] = Join(@, snapshot)]
    /\ UNCHANGED <<files, previous, jobs, mode, lock, sending, messages, actors, updates, acked,
                   got, calls, faults>>

-----------------------------------------------------------------------------
(* Saving *)

\* Under the lock, the document goes to atomic_replace unless it has grown too large.
Replacing(t, document) ==
    [Job("replace", Home[t], document) EXCEPT
        !.stage = IF Cardinality(document.puts) > MaxDocument THEN "error" ELSE @]

\* Variant: no lock is taken.
EnterUnlocked(t) == Call(t) /\ lock' = lock

\* The mutex of the store and the lock on the file.
Enter(t) ==
    /\ Call(t)
    /\ lock[Home[t]] = None
    /\ lock' = [lock EXCEPT ![Home[t]] = t]

\* Variant: the file is overwritten.
SavedOver(t) == handles[t]

\* StateDocument::save merges what is on disk into the document first.
Saved(t) ==
    IF files[Home[t]] = None THEN handles[t] ELSE Join(handles[t], files[Home[t]].value)

\* save, alone or after the snapshot of publish_state.
Save(t, publish) ==
    /\ handles[t] # None
    /\ files[Home[t]] = None \/ Loads(files[Home[t]])
    /\ Enter(t)
    /\ sending' = [sending EXCEPT ![t] = IF publish THEN handles[t] ELSE None]
    /\ handles' = [handles EXCEPT ![t] = Saved(t)]
    /\ jobs' = [jobs EXCEPT ![t] = Replacing(t, Saved(t))]
    /\ UNCHANGED <<files, previous, mode, messages, actors, updates, acked, got, faults>>

\* StateStore::merge_snapshot, by a StateSnapshot request or merge_state_gossip; a
\* snapshot that is the first of its document is stored as it is.
Import(t, snapshot) ==
    /\ files[Home[t]] = None \/ Loads(files[Home[t]])
    /\ Cardinality(snapshot.puts) <= MaxDocument
    /\ Enter(t)
    /\ jobs' = [jobs EXCEPT ![t] = Replacing(t,
          IF files[Home[t]] = None THEN snapshot ELSE Join(files[Home[t]].value, snapshot))]
    /\ UNCHANGED <<files, previous, mode, documents, acked, got, faults>>

\* The call returns and gives the lock back; publish follows a save that succeeded,
\* and may fail.
Return(t) ==
    LET job == jobs[t] IN
    /\ At(t, "ok") \/ At(t, "error")
    /\ jobs' = [jobs EXCEPT ![t] = None]
    /\ lock' = IF job.op = "replace" THEN [lock EXCEPT ![Home[t]] = None] ELSE lock
    /\ acked' = IF job.op = "replace" /\ job.stage = "ok"
                  THEN [acked EXCEPT ![Home[t]] = @ \cup job.value.puts] ELSE acked
    /\ got' = IF job.op # "replace" /\ job.stage = "ok"
                THEN [got EXCEPT ![job.path] = @ \cup {job.value}] ELSE got
    /\ messages' \in {messages} \cup
         (IF sending[t] # None /\ job.stage = "ok" THEN {messages \cup {sending[t]}} ELSE {})
    /\ sending' = [sending EXCEPT ![t] = None]
    /\ UNCHANGED <<files, previous, mode, handles, actors, updates, calls, faults>>

-----------------------------------------------------------------------------
(* Files that are created once *)

\* load_or_generate and put look first whether the file is there; its value is the
\* key the thread generates, the block it appends, or the content.
Create(t, op, p, value) ==
    /\ mode = "files" /\ Call(t)
    /\ LET there == op # "create" /\ Loads(files[p]) IN
       jobs' = [jobs EXCEPT ![t] = [Job(op, p, IF there THEN files[p].value ELSE value)
                                      EXCEPT !.stage = IF there THEN "ok" ELSE @]]
    /\ UNCHANGED <<files, previous, mode, lock, documents, acked, got, faults>>

-----------------------------------------------------------------------------
(* Faults *)

\* The process of t ends; the system frees its lock.
Crash(t) ==
    /\ Fault
    /\ jobs' = [jobs EXCEPT ![t] = None]
    /\ handles' = [handles EXCEPT ![t] = None]
    /\ sending' = [sending EXCEPT ![t] = None]
    /\ lock' = [n \in Nodes |-> IF lock[n] = t THEN None ELSE lock[n]]
    /\ UNCHANGED <<files, previous, mode, messages, actors, updates, acked, got, calls>>

\* Contents and keys may be gone afterwards: their directory was not synced.
PowerLoss ==
    /\ Lose
    /\ handles' = [t \in Threads |-> None] /\ sending' = handles'
    /\ lock' = [n \in Nodes |-> None]
    /\ got' = [got EXCEPT ![KeyFile] = {}, ![CasFile] = {}]
    /\ UNCHANGED <<mode, messages, actors, updates, acked, calls>>

-----------------------------------------------------------------------------

Init ==
    /\ FilesInit
    /\ mode \in Modes
    /\ lock = [n \in Nodes |-> None]
    /\ handles = [t \in Threads |-> None] /\ sending = handles
    /\ messages = {} /\ actors = {} /\ updates = 0
    /\ acked = [n \in Nodes |-> {}]
    /\ got = [p \in Created |-> {}]
    /\ calls = 0

Run(t) == FileStep(t) /\ UNCHANGED <<mode, lock, documents, acked, got, calls>>

Next ==
    \/ \E t \in Threads :
         \/ Open(t) \/ Put(t) \/ Run(t) \/ Return(t) \/ Crash(t)
         \/ \E publish \in BOOLEAN : Save(t, publish)
         \/ \E m \in messages : Merge(t, m) \/ Import(t, m)
         \/ Create(t, "key", KeyFile, t)
         \/ Create(t, "create", BlockFile, t)
         \/ Create(t, "put", CasFile, CasFile)
    \/ PowerLoss

Spec == Init /\ [][Next]_vars

-----------------------------------------------------------------------------
(* Properties *)

\* Files hold whole values of their kind, now and after a power loss, and a thread
\* that writes a document has its lock.
TypeOK ==
    /\ \A p \in Paths : Survivors(p) \subseteq {None} \cup [value : Values(p), synced : {TRUE}]
    /\ \A t \in Threads : jobs[t] # None =>
         /\ jobs[t].op \in Ops /\ jobs[t].value \in Values(jobs[t].path)
         /\ jobs[t].stage \in Stages
         /\ jobs[t].op = "replace" => jobs[t].path = Home[t] /\ lock[Home[t]] = t
    /\ handles \in [Threads -> Document \cup {None}]
    /\ messages \subseteq Document
    /\ acked \in [Nodes -> SUBSET Updates]

Puts(entry) == IF Loads(entry) THEN entry.value.puts ELSE {}

\* The updates of a node that survive a power loss now.
Stored(n) == {u \in Updates : \A e \in Survivors(n) : u \in Puts(e)}

Abstract == INSTANCE DocumentStore WITH stored <- [n \in Nodes |-> Stored(n)], acknowledged <- acked

\* Saves and imports of any number of threads and processes lose no update of each
\* other, whichever crashes; and an update whose save or import returned Ok stays on
\* disk through every later crash and power loss.
ImplementsStore == Abstract!Spec

\* An acknowledged update can be read: it lies in the map that get looks into,
\* unless the document was begun more than once.
SavedIsVisible ==
    \A n \in Nodes : Loads(files[n]) =>
        \A u \in acked[n] :
            /\ u \in files[n].value.puts
            /\ u.map # values(files[n].value) => Cardinality(files[n].value.maps) > 1

\* "Atomically creates a new file and refuses to replace an existing one."  All who
\* were given a key, a block or a content were given the one that is on disk, and
\* at most one atomic_create succeeds; a block stays through power losses too.
CreatedOnce ==
    \A p \in Created :
        /\ got[p] # {} => files[p] # None /\ got[p] = {files[p].value}
        /\ p = BlockFile /\ got[p] # {} => previous[p] = {}
=============================================================================
