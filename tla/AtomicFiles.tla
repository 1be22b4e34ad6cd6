---------------------------- MODULE AtomicFiles -----------------------------
(***************************************************************************)
(* Files written by atomic_replace, atomic_create, FileCas::put and        *)
(* NodeIdentity::load_or_generate, in threads of one or more processes.    *)
(*                                                                         *)
(* Each of them writes a temporary file of its own, syncs it and then      *)
(* gives it its name.  Names are in memory until the directory is synced:  *)
(* a power loss brings back any of the entries since then, and a file      *)
(* whose data were not synced comes back torn.                             *)
(***************************************************************************)
EXTENDS Naturals, FiniteSets

CONSTANTS Threads, Paths,
          None,      \* no file, no job, no document
          Torn,      \* what is left of a file that was not synced
          MaxFaults  \* bound: failed calls of the system, crashes and power losses

VARIABLES files,     \* files[p]: None or [value, synced]
          previous,  \* previous[p]: entries of p that a power loss may bring back
          jobs,      \* jobs[t]: None or the file operation t carries out
          faults

Ops == {"replace", "create", "put", "key"}
Stages == {"write", "place", "sync", "ok", "error"}

\* A temporary file with `value', still to be written.
Job(op, path, value) ==
    [op |-> op, path |-> path, value |-> value, stage |-> "write", synced |-> FALSE]

Idle(t) == jobs[t] = None

FilesInit ==
    /\ files = [p \in Paths |-> None]
    /\ previous = [p \in Paths |-> {}]
    /\ jobs = [t \in Threads |-> None]
    /\ faults = 0

Fault == faults < MaxFaults /\ faults' = faults + 1

\* What p may hold after a power loss.
Survivors(p) == previous[p] \cup {files[p]}

AfterLoss(entry) ==
    IF entry # None /\ ~entry.synced THEN [value |-> Torn, synced |-> TRUE] ELSE entry

At(t, stage) == jobs[t] # None /\ jobs[t].stage = stage

\* The job goes on, or ends with its result.
Goes(t, stage) == jobs' = [jobs EXCEPT ![t].stage = stage]

\* A call of the system fails; the temporary file is removed.
Fails(t) == Fault /\ Goes(t, "error")

\* Variant: the file is named before its data are on disk.
WriteUnsynced(t) ==
    /\ At(t, "write")
    /\ jobs' = [jobs EXCEPT ![t].stage = "place"]
    /\ UNCHANGED <<files, previous, faults>>

\* write_all and sync_all.
Write(t) ==
    /\ At(t, "write")
    /\ \/ jobs' = [jobs EXCEPT ![t].stage = "place", ![t].synced = TRUE] /\ faults' = faults
       \/ Fails(t)
    /\ UNCHANGED <<files, previous>>

\* The temporary file gets the name p.
Named(t, p) ==
    /\ files' = [files EXCEPT ![p] = [value |-> jobs[t].value, synced |-> jobs[t].synced]]
    /\ previous' = [previous EXCEPT ![p] = @ \cup {files[p]}]

\* fs::rename in atomic_replace.
Rename(t) ==
    /\ At(t, "place") /\ jobs[t].op = "replace"
    /\ \/ Named(t, jobs[t].path) /\ Goes(t, "sync") /\ faults' = faults
       \/ Fails(t) /\ UNCHANGED <<files, previous>>

\* Variant: rename in place of hard_link.
LinkRenaming(t) ==
    /\ At(t, "place") /\ jobs[t].op # "replace"
    /\ Named(t, jobs[t].path)
    /\ Goes(t, IF jobs[t].op = "create" THEN "sync" ELSE "ok")
    /\ faults' = faults

\* fs::hard_link, which refuses an existing name: atomic_create then fails, put
\* verifies and load_or_generate takes what is there.  The call may fail, or the
\* removal of the temporary file after it.
Link(t) ==
    LET p == jobs[t].path IN
    /\ At(t, "place") /\ jobs[t].op # "replace"
    /\ \/ /\ files[p] = None
          /\ Named(t, p)
          /\ Goes(t, IF jobs[t].op = "create" THEN "sync" ELSE "ok")
          /\ faults' = faults
       \/ /\ files[p] # None
          /\ jobs' = [jobs EXCEPT ![t] =
                IF jobs[t].op = "create" \/ files[p].value = Torn
                  THEN [@ EXCEPT !.stage = "error"]
                  ELSE [@ EXCEPT !.stage = "ok", !.value = files[p].value]]
          /\ UNCHANGED <<files, previous, faults>>
       \/ Fails(t) /\ UNCHANGED <<files, previous>>
       \/ files[p] = None /\ Named(t, p) /\ Fails(t)

\* sync_directory, at the end of atomic_replace and atomic_create only; the file
\* keeps its name when it fails.
SyncDirectory(t) ==
    /\ At(t, "sync")
    /\ \/ Goes(t, "ok") /\ previous' = [previous EXCEPT ![jobs[t].path] = {}] /\ faults' = faults
       \/ Fails(t) /\ previous' = previous
    /\ files' = files

FileStep(t) == Write(t) \/ Rename(t) \/ Link(t) \/ SyncDirectory(t)

\* The computer loses power; which names come back is the disk's choice.
Lose ==
    /\ Fault
    /\ files' \in [Paths -> {AfterLoss(e) : e \in UNION {Survivors(p) : p \in Paths}}]
    /\ \A p \in Paths : files'[p] \in {AfterLoss(e) : e \in Survivors(p)}
    /\ previous' = [p \in Paths |-> {}]
    /\ jobs' = [t \in Threads |-> None]
=============================================================================
