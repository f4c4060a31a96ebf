----------------------------- MODULE DurableFile -----------------------------
(***************************************************************************)
(* One save document on disk: the primary file with its .tmp and .bak, and *)
(* the procedures of src/src/main.odin that write, recover, quarantine and *)
(* remove it.  A procedure is a job that makes one system call (or one     *)
(* that only prepares it) per action, so that the program may stop between *)
(* any two of them.                                                        *)
(*                                                                         *)
(* disk is the directory as the program sees it.  survivors holds what a   *)
(* power cut may leave of it: the directory when its parent was last       *)
(* synced, and after each change since.  Contents reach the disk with the  *)
(* file's own sync, which storage_write_synced makes before the directory's.*)
(***************************************************************************)
EXTENDS SaveDocuments, Sequences, SequencesExt

CONSTANTS
  Threads,    \* the threads that run jobs
  Fallible,   \* the calls that may fail: "write", "rename", "remove", "sync"
  MaxFaults   \* bound on the failures of one behaviour

VARIABLES
  disk,       \* what each of the three files holds
  survivors,  \* the directories a power cut may leave
  job,        \* the job of each thread
  faults      \* the number of calls that have failed

ASSUME FaultsAssumption == /\ Fallible \subseteq {"write", "rename", "remove", "sync"}
                           /\ MaxFaults \in Nat

Names == {"primary", "tmp", "bak"}

\* The order in which recovery, removal and quarantine take the files.
Artifacts == <<"primary", "tmp", "bak">>

NoJob == [stage |-> "idle", kind |-> "none", doc |-> Missing, left |-> <<>>,
          removed |-> FALSE, ok |-> TRUE]

FileInit ==
  /\ disk = [name \in Names |-> Missing]
  /\ survivors = {disk}
  /\ job = [t \in Threads |-> NoJob]
  /\ faults = 0

-----------------------------------------------------------------------------
(* storage_recover_document's choice among the three files *)

\* One round of its loop.  The best so far wins ties; another identity, or the
\* same revision with other contents, is a conflict.
Consider(view, scan, name) ==
  LET doc  == view[name]
      best == view[scan.best]
  IN  IF ~Valid(doc) THEN scan
      ELSE IF ~Valid(best) THEN [scan EXCEPT !.best = name]
      ELSE IF best.id # doc.id \/ (best.rev = doc.rev /\ best # doc)
      THEN [scan EXCEPT !.conflict = TRUE]
      ELSE IF doc.rev > best.rev THEN [scan EXCEPT !.best = name]
      ELSE scan

\* The loop over Artifacts.
Scan(view) ==
  LET After(scan, name) == Consider(view, scan, name)
  IN  After(After(After([best |-> "primary", conflict |-> FALSE], "primary"), "tmp"), "bak")

\* Torn stands for the status Corrupt.
Recovered(view) ==
  LET scan == Scan(view)
      best == view[scan.best]
  IN  IF scan.conflict THEN Torn
      ELSE IF Valid(best) THEN best
      ELSE IF \E name \in Names : view[name] = Torn THEN Torn
      ELSE Missing

-----------------------------------------------------------------------------
(* What the actions are made of *)

At(t, stage) == job[t].stage = stage

Idle(t) == At(t, "idle")

Replace(name, content) == [disk EXCEPT ![name] = content]

\* rename(2): the destination is replaced.
Rename(from, to) == [disk EXCEPT ![from] = Missing, ![to] = disk[from]]

\* The directory passes through steps on its way to view.
Becomes(view, steps) ==
  /\ disk' = view
  /\ survivors' = survivors \cup steps \cup {view}

Settled == disk' = disk /\ survivors' = {disk}

NoFault == faults' = faults

Fault(call) ==
  /\ call \in Fallible /\ faults < MaxFaults
  /\ faults' = faults + 1

Becoming(t, fields) == job' = [job EXCEPT ![t] = fields]

Goto(t, stage) == Becoming(t, [job[t] EXCEPT !.stage = stage])

\* A recovery that cannot promote what it chose reports Corrupt.
Fails(t) ==
  Becoming(t, [job[t] EXCEPT !.stage = "done", !.ok = FALSE,
                 !.doc = IF job[t].kind = "recover" THEN Torn ELSE @])

\* The temporary file is removed on the way out; nobody looks whether it was.
DropTmp == \/ Becomes(disk, {})
           \/ Becomes(Replace("tmp", Missing), {})

-----------------------------------------------------------------------------
(* The calls *)

BeginWrite(t, doc) ==
  /\ Idle(t)
  /\ Becoming(t, [NoJob EXCEPT !.stage = "stage", !.kind = "write", !.doc = doc])
  /\ UNCHANGED <<disk, survivors, faults>>

BeginRecover(t) ==
  /\ Idle(t)
  /\ Becoming(t, [NoJob EXCEPT !.stage = "scan", !.kind = "recover"])
  /\ UNCHANGED <<disk, survivors, faults>>

\* storage_remove_run, and the quarantine of all three files.
BeginClear(t, kind) ==
  /\ Idle(t) /\ kind \in {"remove", "quarantine"}
  /\ Becoming(t, [NoJob EXCEPT !.stage = kind, !.kind = kind, !.left = Artifacts])
  /\ UNCHANGED <<disk, survivors, faults>>

End(t) == Becoming(t, NoJob) /\ UNCHANGED <<disk, survivors, faults>>

-----------------------------------------------------------------------------
(* storage_recover_document up to its write *)

\* Nothing is written when the primary file is the best, or none is.
Choose(t) ==
  LET found   == Recovered(disk)
      settled == ~Valid(found) \/ Scan(disk).best = "primary"
      damaged == disk["primary"] = Torn
  IN  /\ At(t, "scan")
      /\ Becoming(t, [job[t] EXCEPT
           !.doc = found, !.ok = found # Torn,
           !.stage = IF settled THEN "done"
                     ELSE IF damaged THEN "displace" ELSE "stage"])
      /\ UNCHANGED <<disk, survivors, faults>>

-----------------------------------------------------------------------------
(* storage_write_document_durable *)

\* The temporary file is replaced and its contents synced.
Stage(t) ==
  LET none == Replace("tmp", Missing)
      torn == Replace("tmp", Torn)
  IN  /\ At(t, "stage")
      /\ \/ /\ Becomes(Replace("tmp", job[t].doc), {none, torn})
            /\ Goto(t, "staged") /\ NoFault
         \/ /\ Fault("write")
            /\ \E left \in {disk, none, torn} : Becomes(left, {none, torn})
            /\ Fails(t)

\* Mutant: the old primary file is removed, not kept.
RetireByRemoval(t) ==
  /\ At(t, "retire")
  /\ Becomes(Replace("primary", Missing), {})
  /\ Goto(t, "retired") /\ NoFault

\* The primary file becomes the backup.
Retire(t) ==
  LET unbacked == Replace("bak", Missing)
  IN  /\ At(t, "retire")
      /\ \/ /\ Becomes(Rename("primary", "bak"), {unbacked})
            /\ Goto(t, "retired") /\ NoFault
         \/ /\ Fault("rename")
            /\ \E view \in {disk, unbacked} :
                 \/ Becomes(view, {})
                 \/ Becomes([view EXCEPT !["tmp"] = Missing], {view})
            /\ Fails(t)

Promote(t) ==
  /\ At(t, "promote")
  /\ \/ /\ Becomes(Rename("tmp", "primary"), {})
        /\ Goto(t, "promoted") /\ NoFault
     \/ Fault("rename") /\ Becomes(disk, {}) /\ Fails(t)

\* storage_quarantine_file, for a primary file that cannot be a backup.
Displace(t) ==
  /\ At(t, "displace")
  /\ \/ /\ Becomes(Replace("primary", Missing), {})
        /\ Goto(t, "displaced") /\ NoFault
     \/ /\ Fault("rename")
        /\ IF job[t].kind = "write" THEN DropTmp ELSE Becomes(disk, {})
        /\ Fails(t)

\* persistence_quarantine_document goes on to the next file when one fails.
Quarantine(t) ==
  LET file  == Head(job[t].left)
      after == [job[t] EXCEPT !.left = Tail(@)]
  IN  /\ At(t, "quarantine") /\ job[t].left # <<>>
      /\ \/ /\ disk[file] = Missing
            /\ Becoming(t, after) /\ UNCHANGED <<disk, survivors, faults>>
         \/ /\ disk[file] # Missing
            /\ Becomes(Replace(file, Missing), {})
            /\ Becoming(t, [after EXCEPT !.stage = "quarantined"]) /\ NoFault
         \/ /\ disk[file] # Missing /\ Fault("rename") /\ Becomes(disk, {})
            /\ Becoming(t, [after EXCEPT !.ok = FALSE])

\* storage_remove_run tries every file.
Unlink(t) ==
  LET file  == Head(job[t].left)
      after == [job[t] EXCEPT !.left = Tail(@)]
  IN  /\ At(t, "remove") /\ job[t].left # <<>>
      /\ \/ /\ disk[file] = Missing
            /\ Becoming(t, after) /\ UNCHANGED <<disk, survivors, faults>>
         \/ /\ disk[file] # Missing
            /\ Becomes(Replace(file, Missing), {})
            /\ Becoming(t, [after EXCEPT !.removed = TRUE]) /\ NoFault
         \/ /\ disk[file] # Missing /\ Fault("remove") /\ Becomes(disk, {})
            /\ Becoming(t, [after EXCEPT !.ok = FALSE])

\* A removal that removed something syncs the directory.
Cleared(t) ==
  /\ job[t].stage \in {"remove", "quarantine"} /\ job[t].left = <<>>
  /\ Goto(t, IF job[t].removed THEN "removed" ELSE "done")
  /\ UNCHANGED <<disk, survivors, faults>>

\* Where a job goes on when the directory is synced.
AfterSync(t) ==
  CASE job[t].stage = "staged" ->
         IF disk["primary"] = Missing THEN "promote"
         ELSE IF disk["primary"] = Torn THEN "displace" ELSE "retire"
    [] job[t].stage = "retired"     -> "promote"
    [] job[t].stage = "displaced"   -> IF job[t].kind = "write" THEN "promote" ELSE "stage"
    [] job[t].stage = "quarantined" -> "quarantine"
    [] job[t].stage \in {"promoted", "removed"} -> "done"

Unsynced(t) ==
  job[t].stage \in {"staged", "retired", "displaced", "quarantined", "promoted", "removed"}

\* Mutant: the directory is never synced.
SyncNothing(t) ==
  /\ Unsynced(t)
  /\ Becomes(disk, {}) /\ NoFault
  /\ Goto(t, AfterSync(t))

\* storage_sync_parent, and what its callers do when it fails.
SyncParent(t) ==
  /\ Unsynced(t)
  /\ \/ Settled /\ NoFault /\ Goto(t, AfterSync(t))
     \/ /\ Fault("sync")
        /\ IF At(t, "staged") \/ At(t, "retired")
              \/ (At(t, "displaced") /\ job[t].kind = "write")
           THEN DropTmp ELSE Becomes(disk, {})
        /\ IF At(t, "quarantined")
           THEN Becoming(t, [job[t] EXCEPT !.ok = FALSE, !.stage = "quarantine"])
           ELSE Fails(t)

-----------------------------------------------------------------------------

JobStep(t) ==
  \/ Choose(t) \/ Stage(t) \/ Retire(t) \/ Promote(t)
  \/ Displace(t) \/ Quarantine(t) \/ Unlink(t) \/ Cleared(t) \/ SyncParent(t)

\* The program or the machine stops: what was not synced may be lost.
PowerCut ==
  /\ \E view \in survivors : disk' = view /\ survivors' = {view}
  /\ job' = [t \in Threads |-> NoJob]
  /\ UNCHANGED faults

=============================================================================
