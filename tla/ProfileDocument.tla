--------------------------- MODULE ProfileDocument ---------------------------
(***************************************************************************)
(* The profile on disk and the code that owns it: the recovery at startup  *)
(* (persistence_coordinator_init), persistence_write_profile_sync, and the *)
(* two answers of the Recovery screen to a damaged profile.  Every call is *)
(* synchronous on the main thread.  What a save contains is chosen freely: *)
(* a retry encodes the profile again, with the time of the retry.          *)
(***************************************************************************)
EXTENDS DurableFile

CONSTANT MaxDamage   \* bound on the files found unreadable

VARIABLES
  running,    \* the program is on
  call,       \* what the storage call in progress, or the next one, is for
  revision,   \* coordinator.profile_revision
  known,      \* app.profile.revision
  blocked,    \* coordinator.profile_blocked, app.profile_save_damaged
  confirmed,  \* the result of the last storage call that succeeded
  before,     \* what the write before it left as the backup
  damages     \* the number of files that have become unreadable

profileVars == <<running, call, revision, known, blocked, confirmed, before,
                 damages>>

vars == <<disk, survivors, job, faults, running, call, revision, known, blocked,
          confirmed, before, damages>>

\* Profiles are written and recovered on one thread.  All carry one identity:
\* the conflict of identities is for runs only.
ASSUME ProfileAssumption ==
  Threads = {"main"} /\ MaxDamage \in Nat /\ \A a, b \in Ids : a = b

Doing == job["main"]

Init ==
  /\ FileInit
  /\ running = FALSE /\ call = "none"
  /\ revision = 0 /\ known = 0 /\ blocked = FALSE
  /\ confirmed = Missing /\ before = Missing
  /\ damages = 0

-----------------------------------------------------------------------------

Returned(for) == call = for /\ At("main", "done")

Confirmed ==
  IF At("main", "done") /\ Doing.ok THEN Doing.doc
  ELSE IF Doing.kind = "quarantine" THEN Missing ELSE confirmed

\* A recovery cut short may have given up the older of two copies.
Before ==
  CASE Doing.kind = "recover" /\ Doing.stage # "scan" ->
         IF At("main", "done") /\ Doing.ok THEN before ELSE Missing
    [] At("main", "done") /\ Doing.ok /\ Doing.kind = "write"      -> confirmed
    [] At("main", "done") /\ Doing.ok /\ Doing.kind = "quarantine" -> Missing
    [] OTHER -> before

\* The call ends; next is what the program calls at once.
Finish(next) ==
  /\ End("main")
  /\ confirmed' = Confirmed /\ before' = Before
  /\ call' = next
  /\ UNCHANGED <<running, damages>>

Adopt(rev) == revision' = rev /\ known' = rev

\* persistence_write_profile_sync with an app.profile.revision of seen.  The
\* coordinator's revision moves on only when the write succeeds.
Write(seen, for) ==
  /\ \E id \in Ids, body \in Bodies :
       LET next == IF seen > revision THEN seen ELSE revision + 1
       IN  /\ next <= MaxRevision
           /\ BeginWrite("main", [id |-> id, rev |-> next, body |-> body])
  /\ known' = seen
  /\ call' = for
  /\ UNCHANGED <<running, revision, blocked, confirmed, before, damages>>

-----------------------------------------------------------------------------
(* The program *)

Boot ==
  /\ ~running
  /\ BeginRecover("main")
  /\ running' = TRUE /\ call' = "boot" /\ blocked' = FALSE
  /\ Adopt(0)
  /\ UNCHANGED <<confirmed, before, damages>>

\* Mutant: a profile that cannot be read counts as none.
BootAfresh ==
  /\ Returned("boot")
  /\ IF Valid(Doing.doc) THEN Adopt(Doing.doc.rev) /\ Finish("none")
     ELSE UNCHANGED <<revision, known>> /\ Finish("fresh")
  /\ UNCHANGED blocked

\* A profile is adopted, a missing one created, a damaged one left alone.
Booted ==
  /\ Returned("boot")
  /\ \/ /\ Valid(Doing.doc) /\ Adopt(Doing.doc.rev)
        /\ UNCHANGED blocked /\ Finish("none")
     \/ /\ Doing.doc = Missing /\ UNCHANGED <<revision, known, blocked>>
        /\ Finish("fresh")
     \/ /\ Doing.doc = Torn /\ blocked' = TRUE
        /\ UNCHANGED <<revision, known>> /\ Finish("none")

WriteFresh == call \in {"fresh", "replace"} /\ Write(known, call)

\* A new run raises the profile's revision, a finished run to the next one at
\* least; a retry and an achievement leave it.
Save ==
  /\ running /\ call = "none" /\ ~blocked
  /\ \E seen \in known..MaxRevision :
       seen \in {known, known + 1, revision + 1} /\ Write(seen, "save")

\* A profile that cannot replace a damaged one is damaged still.
Written ==
  /\ \E for \in {"fresh", "save", "replace"} : Returned(for)
  /\ IF Doing.ok THEN Adopt(Doing.doc.rev) ELSE UNCHANGED <<revision, known>>
  /\ blocked' = (call = "replace" /\ ~Doing.ok)
  /\ Finish("none")

RecoverDocuments ==
  /\ running /\ call = "none" /\ blocked
  /\ BeginRecover("main")
  /\ call' = "recover"
  /\ UNCHANGED <<running, revision, known, blocked, confirmed, before, damages>>

DocumentsRecovered ==
  /\ Returned("recover")
  /\ IF Valid(Doing.doc) THEN Adopt(Doing.doc.rev) /\ blocked' = FALSE
     ELSE UNCHANGED <<revision, known, blocked>>
  /\ Finish("none")

QuarantineDocuments ==
  /\ running /\ call = "none" /\ blocked
  /\ BeginClear("main", "quarantine")
  /\ call' = "quarantine"
  /\ UNCHANGED <<running, revision, known, blocked, confirmed, before, damages>>

DocumentsQuarantined ==
  /\ Returned("quarantine")
  /\ IF Doing.ok THEN blocked' = FALSE /\ Finish("replace")
     ELSE UNCHANGED blocked /\ Finish("none")
  /\ UNCHANGED <<revision, known>>

\* The program ends, crashes, or the power goes.
Stop ==
  /\ running
  /\ PowerCut
  /\ running' = FALSE /\ call' = "none" /\ confirmed' = Confirmed /\ before' = Before
  /\ Adopt(0) /\ blocked' = FALSE
  /\ UNCHANGED damages

\* Between two starts a file becomes unreadable.
Damage ==
  /\ ~running /\ damages < MaxDamage
  /\ \E name \in Names :
       /\ disk[name] # Missing
       /\ disk' = Replace(name, Torn) /\ survivors' = {disk'}
  /\ damages' = damages + 1
  /\ UNCHANGED <<job, faults, running, call, revision, known, blocked, confirmed,
                 before>>

Step == JobStep("main") /\ UNCHANGED profileVars

Next ==
  \/ Boot \/ Booted \/ WriteFresh \/ Save \/ Written
  \/ RecoverDocuments \/ DocumentsRecovered
  \/ QuarantineDocuments \/ DocumentsQuarantined
  \/ Stop \/ Damage \/ Step

Spec == Init /\ [][Next]_vars

-----------------------------------------------------------------------------
(* Properties *)

\* The three files and the procedures that juggle them implement a register:
\* what a recovery would find after a crash at any point is the outcome of the
\* last call that succeeded, or what a call since was writing.
Register == INSTANCE SaveRegister WITH
  may       <- {Recovered(view) : view \in survivors},
  confirmed <- Confirmed,
  task      <- Doing.kind,
  value     <- Doing.doc,
  outcome   <- IF Doing.stage # "done" THEN "none"
               ELSE IF Doing.ok THEN "ok" ELSE "failed",
  damaged   <- damages > 0

ImplementsRegister == Register!RegisterSpec

\* While the game runs, any one of the three files may turn out unreadable at
\* the next start: whatever write was interrupted, that start finds the save
\* before the last one that was confirmed, or a later one.  (A recovery that
\* was itself cut short suspends this until the next save; so does a rename
\* that fails, since the old backup is removed before it is replaced.)
LastKnownGood ==
  running /\ call \in {"none", "save"} /\ ~blocked
  /\ damages = 0 /\ faults = 0 /\ Valid(before) =>
    \A view \in survivors, name \in Names :
      LET found == Recovered([view EXCEPT ![name] = Torn])
      IN  Valid(found) /\ found.rev >= before.rev

\* Until the player has it set aside, a profile that was saved is never started
\* over: every write continues from at least the revision last found or saved.
NeverStartedOver ==
  Doing.kind = "write" /\ Doing.stage # "done" => Doing.doc.rev > confirmed.rev

=============================================================================
