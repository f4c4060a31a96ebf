--------------------------- MODULE SaveCoordinator ---------------------------
(***************************************************************************)
(* The life of a run on disk: the main thread, which processes the game's  *)
(* persistence requests in its frames and makes synchronous storage calls, *)
(* the worker thread that writes the autosaves (main_desktop.odin), the    *)
(* screens of app.odin that make the requests, and crashes and exits at    *)
(* any point.  The run document is the file of DurableFile; a write of the *)
(* profile, which ProfileDocument details, is one step here.  Time is left *)
(* out: an autosave may happen whenever the run is dirty, and a screen may *)
(* be left whenever it accepts input.                                      *)
(***************************************************************************)
EXTENDS DurableFile

CONSTANTS
  MaxProgress,     \* bound on what is played of a run
  ProfileMayFail   \* whether a write of the profile may fail

VARIABLES
  app,          \* the App of app.odin, and the Chronicle of its profile
  coordinator,  \* the storage call in progress, run_write_in_flight, run_revision
  queue,        \* the job sent to the worker, or Missing
  completion,   \* the worker's completion, or NoCompletion
  recorded,     \* the Chronicle of the profile on disk
  history       \* run ids given out, the save last confirmed, the runs that have
                \* ended in this session, the runs confirmed to have ended

vars == <<disk, survivors, job, faults, app, coordinator, queue, completion,
          recorded, history>>

Terminals == {"Active", "Ended", "Abandoned"}

\* Ended stands for Death and for Victory, which are handled alike.
ASSUME CoordinatorAssumption ==
  /\ Threads = {"main", "worker"}
  /\ MaxProgress \in Nat /\ ProfileMayFail \in BOOLEAN
  /\ Bodies = [terminal: Terminals, progress: 0..MaxProgress]

Loads  == {"boot", "resume", "load_abandoned", "recover"}
Writes == {"return", "quit", "mark_abandoned", "mark_ended"}
Clears == {"discard", "remove_abandoned", "remove_ended", "quarantine"}

NoRun == [id |-> NoId, terminal |-> "Active", progress |-> 0, rev |-> 0]

\* Of the modes, Off, Boot and Exiting (the worker is joined) come before, ahead
\* of and after the frames; Dying is Playing with death_pending, Ended both Dead
\* and Victory.
NoApp == [mode |-> "Off", request |-> "None", failed |-> "None", return |-> "Title",
          run |-> NoRun, available |-> FALSE, damaged |-> FALSE, dirty |-> FALSE,
          chronicle |-> <<>>]

NoCoordinator == [call |-> "none", inFlight |-> FALSE, revision |-> 0]

NoCompletion == [doc |-> Missing, ok |-> FALSE]

NothingKept == [id |-> NoId, progress |-> 0]

Init ==
  /\ FileInit
  /\ app = NoApp /\ coordinator = NoCoordinator
  /\ queue = Missing /\ completion = NoCompletion
  /\ recorded = <<>>
  /\ history = [started |-> {}, ended |-> {}, marked |-> {}, kept |-> NothingKept]

-----------------------------------------------------------------------------
(* What the actions are made of *)

run == app.run

Found == job["main"].doc

Succeeded == job["main"].ok

\* Mutant: the last number is given again.
LastRevision ==
  IF coordinator.revision > run.rev THEN coordinator.revision ELSE run.rev

NextRevision ==
  IF coordinator.revision > run.rev THEN coordinator.revision + 1 ELSE run.rev + 1

\* The bound on revisions, with room for the write that ends a run or a session.
Room == NextRevision + 2 <= MaxRevision

\* The document that saves the run now.
Snapshot ==
  [id |-> run.id, rev |-> NextRevision,
   body |-> [terminal |-> run.terminal, progress |-> run.progress]]

\* app_install_run_document.
Installed(doc) ==
  [id |-> doc.id, terminal |-> doc.body.terminal, progress |-> doc.body.progress,
   rev |-> doc.rev]

IsActive(doc) == Valid(doc) /\ doc.body.terminal = "Active"

Keeping(doc) ==
  [history EXCEPT !.kept = [id |-> doc.id, progress |-> doc.body.progress]]

\* The game is up and the main thread between two calls.
Frame == coordinator.call = "none" /\ app.mode \notin {"Off", "Boot", "Exiting"}

\* A frame polls the worker and processes what is requested before the next one
\* takes inputs: a request is still there then only if it waits for the worker.
Due ==
  /\ app.request # "None"
  /\ app.request = "Save_Checkpoint" \/ ~coordinator.inFlight

On(mode) == Frame /\ app.mode = mode /\ ~Due

\* An input or a tick that touches nothing but the App.
AppBecomes(next) ==
  /\ app' = next
  /\ UNCHANGED <<disk, survivors, job, faults, coordinator, queue, completion, recorded>>

Shows(mode) == AppBecomes([app EXCEPT !.mode = mode]) /\ UNCHANGED history

\* A request that its screen waits for.
Waits(request, return) ==
  /\ AppBecomes([app EXCEPT !.mode = "Save_Wait", !.request = request, !.return = return])
  /\ UNCHANGED history

\* Mutant: the failure is noted, the overlay stays.
FailingUnseen(request, return) ==
  [app EXCEPT !.request = "None", !.failed = request, !.return = return]

\* persistence_fail_request.
Failing(request, return) ==
  [app EXCEPT !.mode = "Save_Error", !.request = "None", !.failed = request,
              !.return = return]

Fulfilled(mode) == [app EXCEPT !.mode = mode, !.request = "None"]

Returned(call) == coordinator.call = call /\ At("main", "done")

\* The call returns, and next is the one made at once.
Return(next, rev) ==
  /\ End("main")
  /\ coordinator' = [coordinator EXCEPT !.call = next, !.revision = rev]
  /\ UNCHANGED <<queue, completion>>

\* It returns without any effect on the records.
ReturnTo(next, rev) == Return(next, rev) /\ UNCHANGED <<recorded, history>>

\* persistence_write_profile_sync.  What a failed write wrote may be found later.
ProfileWritten(chronicle) == recorded' = chronicle /\ NoFault

ProfileUnwritten(chronicle) ==
  /\ ProfileMayFail /\ faults < MaxFaults /\ faults' = faults + 1
  /\ recorded' \in {recorded, chronicle}

-----------------------------------------------------------------------------
(* The screens *)

ChooseResume ==
  /\ On("Title")
  /\ \/ app.available /\ Waits("Resume", "Title")
     \/ ~app.available /\ app.damaged /\ Shows("Recovery")

ChooseNewRun ==
  /\ On("Title")
  /\ Shows(IF app.damaged THEN "Recovery"
           ELSE IF app.available THEN "Abandon_Confirm" ELSE "Select")

\* app_begin_new_run.
BeginNewRun(id) ==
  /\ On("Select") /\ id \in Ids \ history.started /\ Room
  /\ AppBecomes([app EXCEPT !.mode = "Playing", !.request = "Save_Checkpoint",
                   !.run = [NoRun EXCEPT !.id = id], !.dirty = TRUE,
                   !.available = TRUE, !.damaged = FALSE])
  /\ history' = [history EXCEPT !.started = @ \cup {id}]

\* A tick of the simulation marks the run dirty.
Tick ==
  /\ On("Playing")
  /\ \E progress \in {run.progress, run.progress + 1} :
       /\ progress <= MaxProgress
       /\ AppBecomes([app EXCEPT !.run.progress = progress, !.dirty = TRUE])
  /\ UNCHANGED history

\* app_request_terminal, for a death or a victory.
EndRun ==
  /\ On("Playing")
  /\ \E mode \in {"Dying", "Ended"} :
       AppBecomes([app EXCEPT !.mode = mode, !.run.terminal = "Ended",
                    !.dirty = TRUE, !.request = "Finalize"])
  /\ history' = [history EXCEPT !.ended = @ \cup {run.id}]

Pause == On("Playing") /\ Shows("Paused")

SaveAndLeave ==
  /\ On("Paused") /\ Room
  /\ \E request \in {"Save_Return_Title", "Save_Quit"} : Waits(request, "Paused")

ConfirmAbandon == On("Abandon_Confirm") /\ Room /\ Waits("Abandon", "Title")

Repair ==
  /\ On("Recovery")
  /\ \E request \in {"Recover_Run", "Quarantine_Run"} : Waits(request, "Recovery")

\* Retry, continue, or leave it.
AnswerError ==
  /\ On("Save_Error")
  /\ \/ AppBecomes([app EXCEPT !.mode = "Save_Wait", !.request = app.failed])
     \/ AppBecomes(Fulfilled(app.return))
     \/ AppBecomes(Fulfilled(IF app.failed = "Save_Quit" THEN "Exiting" ELSE "Title"))
  /\ UNCHANGED history

\* Back, continue, and the end of the death scene.
Leave ==
  \/ \E screen \in {"Select", "Abandon_Confirm", "Recovery", "Ended"} :
       On(screen) /\ Shows("Title")
  \/ \E screen \in {"Paused", "Resume_Veil"} : On(screen) /\ Shows("Playing")
  \/ On("Dying") /\ Shows("Ended")

\* platform_live_descent.
LiveDescent ==
  /\ run.id # NoId /\ run.terminal = "Active"
  /\ app.mode \in {"Playing", "Paused", "Resume_Veil"}

\* The window is closed, or the title screen's Quit chosen.
CloseWindow ==
  /\ Frame /\ ~Due /\ app.mode \notin {"Save_Wait", "Save_Error"}
  /\ \/ LiveDescent /\ Room /\ Waits("Save_Quit", "Paused")
     \/ ~LiveDescent /\ Shows("Exiting")

-----------------------------------------------------------------------------
(* The scheduler's frame *)

\* persistence_enqueue_run.
Enqueue(from) ==
  /\ ~coordinator.inFlight /\ Room
  /\ queue' = Snapshot
  /\ app' = [from EXCEPT !.run.rev = NextRevision, !.dirty = FALSE]
  /\ coordinator' = [coordinator EXCEPT !.inFlight = TRUE]

Autosave ==
  /\ Frame /\ app.request = "None" /\ app.mode \notin {"Save_Wait", "Save_Error"}
  /\ app.dirty /\ run.id # NoId /\ run.terminal = "Active"
  /\ Enqueue(app)
  /\ UNCHANGED <<disk, survivors, job, faults, completion, recorded, history>>

\* persistence_flush_for_suspend.
Suspend ==
  /\ Frame /\ ~Due /\ LiveDescent
  /\ \/ Enqueue(app)
     \/ /\ coordinator.inFlight
        /\ app' = [app EXCEPT !.dirty = TRUE] /\ UNCHANGED <<queue, coordinator>>
  /\ UNCHANGED <<disk, survivors, job, faults, completion, recorded, history>>

\* persistence_poll_completions.
Poll ==
  /\ Frame /\ completion # NoCompletion
  /\ coordinator' = [coordinator EXCEPT !.inFlight = FALSE,
       !.revision = IF completion.ok /\ completion.doc.rev > @
                    THEN completion.doc.rev ELSE @]
  /\ IF completion.ok
     THEN /\ app' = [app EXCEPT !.available = (run.terminal = "Active")]
          /\ history' = Keeping(completion.doc)
     ELSE app' = [app EXCEPT !.dirty = TRUE] /\ UNCHANGED history
  /\ completion' = NoCompletion
  /\ UNCHANGED <<disk, survivors, job, faults, queue, recorded>>

\* Save_Checkpoint writes the profile, with the run's identity, before the run.
Checkpoint ==
  /\ Frame /\ app.request = "Save_Checkpoint"
  /\ \/ /\ ProfileWritten(app.chronicle)
        /\ \/ Enqueue([app EXCEPT !.request = "None"])
           \/ /\ coordinator.inFlight
              /\ app' = [app EXCEPT !.request = "None", !.dirty = TRUE]
              /\ UNCHANGED <<queue, coordinator>>
     \/ /\ ProfileUnwritten(app.chronicle)
        /\ app' = Failing("Save_Checkpoint", "Playing")
        /\ UNCHANGED <<queue, coordinator>>
  /\ UNCHANGED <<disk, survivors, job, completion, history>>

\* What a request does first.
FirstCall ==
  CASE app.request = "Resume"            -> "resume"
    [] app.request = "Save_Return_Title" -> "return"
    [] app.request = "Save_Quit"         -> "quit"
    [] app.request = "Abandon"           ->
         IF run.id = NoId THEN "load_abandoned" ELSE "mark_abandoned"
    [] app.request = "Recover_Run"       -> "recover"
    [] app.request = "Quarantine_Run"    -> "quarantine"
    [] app.request = "Finalize"          -> "mark_ended"

\* Mutant: the write in flight is not waited for.
ProcessAtOnce ==
  /\ Frame /\ app.request \notin {"None", "Save_Checkpoint"}
  /\ coordinator' = [coordinator EXCEPT !.call = FirstCall]
  /\ app' = [app EXCEPT !.run.terminal =
                IF FirstCall = "mark_abandoned" THEN "Abandoned" ELSE @]
  /\ UNCHANGED <<disk, survivors, job, faults, queue, completion, recorded, history>>

\* persistence_process_request, for the requests that wait for the worker.
Process ==
  /\ Frame /\ app.request \notin {"None", "Save_Checkpoint"}
  /\ ~coordinator.inFlight
  /\ coordinator' = [coordinator EXCEPT !.call = FirstCall]
  /\ app' = [app EXCEPT !.run.terminal =
                IF FirstCall = "mark_abandoned" THEN "Abandoned" ELSE @]
  /\ UNCHANGED <<disk, survivors, job, faults, queue, completion, recorded, history>>

\* Removing the file gives up what it keeps.
BeginCall ==
  /\ At("main", "idle")
  /\ \/ coordinator.call \in Loads /\ BeginRecover("main") /\ UNCHANGED history
     \/ /\ coordinator.call \in Writes /\ NextRevision <= MaxRevision
        /\ BeginWrite("main", Snapshot) /\ UNCHANGED history
     \/ /\ coordinator.call \in Clears
        /\ BeginClear("main", IF coordinator.call = "quarantine"
                               THEN "quarantine" ELSE "remove")
        /\ history' = [history EXCEPT !.kept = NothingKept]
  /\ UNCHANGED <<app, coordinator, queue, completion, recorded>>

-----------------------------------------------------------------------------
(* What the main thread does when a storage call returns *)

\* persistence_restore_active_run has found no run to continue.
Unrestored(request) ==
  [Failing(request, "Title") EXCEPT !.damaged = (Found # Missing)]

Resumed ==
  /\ Returned("resume")
  /\ \/ /\ IsActive(Found) /\ ReturnTo("none", Found.rev)
        /\ app' = [Fulfilled("Resume_Veil") EXCEPT !.run = Installed(Found),
                     !.available = TRUE, !.damaged = FALSE, !.dirty = FALSE]
     \/ /\ ~IsActive(Found) /\ ReturnTo("none", coordinator.revision)
        /\ app' = Unrestored("Resume")

\* Save & Return to Title, and Save & Quit.
LeftRun ==
  \E call \in {"return", "quit"} :
    /\ Returned(call)
    /\ \/ /\ Succeeded
          /\ app' = [Fulfilled(IF call = "quit" THEN "Exiting" ELSE "Title") EXCEPT
                       !.run.rev = Found.rev, !.available = (run.terminal = "Active")]
          /\ Return("none", Found.rev) /\ history' = Keeping(Found)
       \/ /\ ~Succeeded
          /\ app' = Failing(app.request, "Paused")
          /\ Return("none", coordinator.revision) /\ UNCHANGED history
    /\ UNCHANGED recorded

\* A run that was not loaded is loaded to be abandoned.
AbandonedLoaded ==
  /\ Returned("load_abandoned")
  /\ \/ /\ IsActive(Found) /\ ReturnTo("mark_abandoned", Found.rev)
        /\ app' = [app EXCEPT !.run = [Installed(Found) EXCEPT !.terminal = "Abandoned"],
                     !.available = TRUE, !.damaged = FALSE]
     \/ /\ ~IsActive(Found) /\ ReturnTo("none", coordinator.revision)
        /\ app' = Unrestored("Abandon")

AbandonedMarked ==
  /\ Returned("mark_abandoned")
  /\ \/ /\ Succeeded /\ ReturnTo("remove_abandoned", Found.rev)
        /\ app' = [app EXCEPT !.run.rev = Found.rev, !.available = FALSE]
     \/ /\ ~Succeeded /\ ReturnTo("none", coordinator.revision)
        /\ app' = Failing("Abandon", "Title")

AbandonedRemoved ==
  /\ Returned("remove_abandoned")
  /\ ReturnTo("none", coordinator.revision)
  /\ app' = IF Succeeded
            THEN [Fulfilled("Select") EXCEPT !.run = NoRun, !.available = FALSE,
                   !.damaged = FALSE]
            ELSE Failing("Abandon", "Title")

RunRecovered ==
  /\ Returned("recover")
  /\ ReturnTo("none", coordinator.revision)
  /\ app' = IF Valid(Found)
            THEN [Fulfilled("Title") EXCEPT !.available = TRUE, !.damaged = FALSE]
            ELSE Failing("Recover_Run", "Recovery")

RunQuarantined ==
  /\ Returned("quarantine")
  /\ ReturnTo("none", coordinator.revision)
  /\ app' = IF Succeeded
            THEN [Fulfilled("Select") EXCEPT !.available = FALSE, !.damaged = FALSE]
            ELSE Failing("Quarantine_Run", "Recovery")

-----------------------------------------------------------------------------
(* persistence_finalize_terminal: marker, Chronicle, removal *)

\* At startup nobody waits for it, whatever comes of it.
Unfinalized ==
  IF app.mode = "Boot" THEN [app EXCEPT !.mode = "Title", !.run = NoRun]
  ELSE Failing("Finalize", "Ended")

\* profile_finalize_record: a run enters the Chronicle once.
WithRecord(chronicle, id) ==
  IF \E i \in DOMAIN chronicle : chronicle[i] = id THEN chronicle
  ELSE Append(chronicle, id)

\* Mutant: the run's file is removed whether or not the profile was written.
ArchivedAnyway ==
  LET chronicle == WithRecord(app.chronicle, run.id)
  IN  /\ Returned("mark_ended") /\ Succeeded
      /\ ProfileWritten(recorded)
      /\ coordinator' = [coordinator EXCEPT !.call = "remove_ended", !.revision = Found.rev]
      /\ app' = [app EXCEPT !.run.rev = Found.rev, !.available = FALSE,
                   !.chronicle = chronicle]
      /\ history' = [Keeping(Found) EXCEPT !.marked = @ \cup {run.id}]
      /\ Becoming("main", NoJob)
      /\ UNCHANGED <<disk, survivors, queue, completion>>

Archived ==
  LET marked == [app EXCEPT !.run.rev = Found.rev, !.available = FALSE,
                   !.chronicle = WithRecord(@, run.id)]
  IN  /\ Returned("mark_ended")
      /\ \/ /\ Succeeded
            /\ \/ /\ ProfileWritten(marked.chronicle)
                  /\ coordinator' = [coordinator EXCEPT !.call = "remove_ended",
                                        !.revision = Found.rev]
                  /\ app' = marked
               \/ /\ ProfileUnwritten(marked.chronicle)
                  /\ coordinator' = [coordinator EXCEPT !.call = "none",
                                        !.revision = Found.rev]
                  /\ app' = [Unfinalized EXCEPT !.available = FALSE,
                               !.chronicle = marked.chronicle,
                               !.run.rev = IF app.mode = "Boot" THEN @ ELSE Found.rev]
            /\ history' = [Keeping(Found) EXCEPT !.marked = @ \cup {run.id}]
         \/ /\ ~Succeeded
            /\ coordinator' = [coordinator EXCEPT !.call = "none"]
            /\ app' = Unfinalized
            /\ UNCHANGED <<recorded, history, faults>>
      /\ Becoming("main", NoJob)
      /\ UNCHANGED <<disk, survivors, queue, completion>>

Finalized ==
  /\ Returned("remove_ended")
  /\ ReturnTo("none", coordinator.revision)
  /\ app' =
       IF ~Succeeded THEN Unfinalized
       ELSE [app EXCEPT !.request = "None", !.available = FALSE, !.damaged = FALSE,
               !.dirty = FALSE,
               !.mode = IF app.mode = "Boot" THEN "Title"
                        ELSE IF app.mode = "Save_Wait" THEN "Ended" ELSE @,
               !.run = IF app.mode = "Boot" THEN NoRun ELSE @]

-----------------------------------------------------------------------------
(* The worker *)

Take ==
  /\ queue # Missing
  /\ BeginWrite("worker", queue)
  /\ queue' = Missing
  /\ UNCHANGED <<app, coordinator, completion, recorded, history>>

Complete ==
  /\ At("worker", "done")
  /\ completion' = [doc |-> job["worker"].doc, ok |-> job["worker"].ok]
  /\ End("worker")
  /\ UNCHANGED <<app, coordinator, queue, recorded, history>>

FileStep(thread) ==
  JobStep(thread)
  /\ UNCHANGED <<app, coordinator, queue, completion, recorded, history>>

-----------------------------------------------------------------------------
(* Starting and stopping *)

\* persistence_coordinator_init, once the profile is loaded.
Boot ==
  /\ app.mode = "Off"
  /\ app' = [NoApp EXCEPT !.mode = "Boot", !.chronicle = recorded]
  /\ coordinator' = [NoCoordinator EXCEPT !.call = "boot"]
  /\ UNCHANGED <<disk, survivors, job, faults, queue, completion, recorded, history>>

\* A run that ended is finalized, one that was abandoned is removed.
BootLoaded ==
  /\ Returned("boot")
  /\ \/ /\ ~Valid(Found) /\ ReturnTo("none", 0)
        /\ app' = [app EXCEPT !.mode = "Title", !.damaged = (Found # Missing)]
     \/ /\ IsActive(Found) /\ ReturnTo("none", Found.rev)
        /\ app' = [app EXCEPT !.mode = "Title", !.available = TRUE]
     \/ /\ Valid(Found) /\ Found.body.terminal = "Abandoned"
        /\ ReturnTo("discard", Found.rev)
        /\ UNCHANGED app
     \/ /\ Valid(Found) /\ Found.body.terminal = "Ended"
        /\ ReturnTo("mark_ended", Found.rev)
        /\ app' = [app EXCEPT !.run = Installed(Found)]

Discarded ==
  /\ Returned("discard")
  /\ ReturnTo("none", coordinator.revision)
  /\ app' = [app EXCEPT !.mode = "Title"]

Off ==
  /\ app' = NoApp /\ coordinator' = NoCoordinator
  /\ queue' = Missing /\ completion' = NoCompletion
  /\ history' = [history EXCEPT !.ended = {}]
  /\ UNCHANGED recorded

\* save_worker_shutdown joins the worker, which finishes what it was sent.
Exit ==
  /\ app.mode = "Exiting" /\ queue = Missing /\ At("worker", "idle")
  /\ UNCHANGED <<disk, survivors, job, faults>>
  /\ Off

\* The process dies, or the power goes.
Crash == app.mode # "Off" /\ PowerCut /\ Off

-----------------------------------------------------------------------------

Inputs ==
  \/ ChooseResume \/ ChooseNewRun \/ (\E id \in Ids : BeginNewRun(id))
  \/ Tick \/ EndRun \/ Pause \/ SaveAndLeave \/ ConfirmAbandon \/ Repair
  \/ AnswerError \/ Leave \/ CloseWindow \/ Suspend

Returns ==
  \/ Resumed \/ LeftRun
  \/ AbandonedLoaded \/ AbandonedMarked \/ AbandonedRemoved
  \/ RunRecovered \/ RunQuarantined
  \/ Archived \/ Finalized
  \/ BootLoaded \/ Discarded

Next ==
  \/ Inputs
  \/ Autosave \/ Poll \/ Checkpoint \/ Process \/ BeginCall \/ Returns
  \/ Take \/ Complete
  \/ \E thread \in Threads : FileStep(thread)
  \/ Boot \/ Exit \/ Crash

Spec == Init /\ [][Next]_vars

\* The threads keep running, and a frame follows every frame; nobody has to
\* give an input or to play on.
Fairness ==
  /\ WF_vars(Poll) /\ WF_vars(Checkpoint) /\ WF_vars(Process)
  /\ WF_vars(BeginCall) /\ WF_vars(Returns)
  /\ WF_vars(Take) /\ WF_vars(Complete)
  /\ \A thread \in Threads : WF_vars(FileStep(thread))

FairSpec == Spec /\ Fairness

-----------------------------------------------------------------------------
(* Properties *)

\* What a crash now would leave for the next start to find.
Outcomes == {Recovered(view) : view \in survivors}

\* The two threads never work on the run's files at once: a synchronous call of
\* the main thread finds the worker idle and its queue empty.
OneWriter ==
  job["main"].stage \notin {"idle", "done"} =>
    At("worker", "idle") /\ queue = Missing

\* A save that the game was told is durable stays: until the run's file is
\* removed or set aside, every start finds that run, as far as it was saved or
\* further, whatever autosaves, exits, crashes and recoveries come in between.
\* (A failed call suspends this: the player may leave an ended run that could
\* not be finalized, and the next run then takes its files.)
CheckpointKept ==
  faults = 0 /\ history.kept.id # NoId =>
    \A found \in Outcomes :
      /\ Valid(found) /\ found.id = history.kept.id
      /\ found.body.progress >= history.kept.progress

\* A run whose end is marked on disk is in the recorded Chronicle, or every
\* start finds the marker and finishes the job.  (It takes two failures to lose
\* a record: the profile at the finalization, and the profile again at the first
\* checkpoint of the run that is then begun over the marker.)
ArchivedBeforeRemoved ==
  faults <= 1 => \A id \in history.marked :
    \/ \E i \in DOMAIN recorded : recorded[i] = id
    \/ \A found \in Outcomes :
         Valid(found) /\ found.id = id /\ found.body.terminal = "Ended"

\* The files of two runs are never mixed, nor two revisions with one number:
\* a start is never unable to choose.  (The same exception.)
NoSplitBrain == faults = 0 => \A view \in survivors : ~Scan(view).conflict

\* PARITY.md: "Death and victory each finalize exactly once."  Within a session
\* a run that has ended is not played again.
DeathIsFinal == run.id \in history.ended => run.terminal # "Active"

\* The save overlay, where no input is taken, goes away, whatever it waits for
\* and whatever fails.  One wait is left out: the retry of a failed first
\* checkpoint (app.odin:1498 shows the overlay, main.odin:648 never hides it).
WaitEnds ==
  app.mode = "Save_Wait" /\ app.failed # "Save_Checkpoint" ~> app.mode # "Save_Wait"

=============================================================================
